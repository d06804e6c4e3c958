------------------------------- MODULE Protocol -------------------------------
(***************************************************************************)
(* One connection of the search server: the request and the response of    *)
(* src/socket_ac.c on one side, the client of client/go/client.go on the   *)
(* other, and between them two streams that keep the order of the bytes    *)
(* and cut or join what was written anywhere.                              *)
(*                                                                         *)
(* A stream is a sequence of numbers: the mode is one, a 32 bit number is  *)
(* two, so that it can be cut, and a byte is one.  What a search finds is  *)
(* the matter of module Automaton.                                         *)
(***************************************************************************)
EXTENDS Integers, FiniteSets, SequencesExt

CONSTANTS
  Requests,      \* calls of Search: records [mode, text]
  Lookup(_),     \* what a text holds: a sequence of records [data, needle]
  MaxRequests,   \* bound: calls of Search
  MaxAhead       \* calls of Search that wait for their Occurrence

ASSUME ProtocolAssumption ==
  /\ MaxRequests \in Nat /\ MaxAhead \in Nat /\ MaxAhead > 0
  /\ \A r \in Requests :
       /\ r \in [mode : Nat, text : Seq(Nat)]
       /\ Lookup(r.text) \in Seq([data : Seq(Nat), needle : Seq(Nat)])

VARIABLES
  asked, results,       \* of the caller: requests and answers so far
  field, want,          \* of Occurrence: what it reads next, and how much
  list,                 \* of Occurrence: the occurrences it has built
  toServer, input,      \* on the way to the server; in the bufferevent
  toClient, arrived,    \* on the way to the client; in its socket
  alive,                \* the server process runs
  mishaps               \* what the network has done so far, see Mishap

callerVars == <<asked, results, field, want, list>>
serverVars == <<toServer, input, alive>>
protocolVars == <<callerVars, serverVars, toClient, arrived, mishaps>>

\* A read of the server ended inside a request, or took several; a read of
\* the client found part of what was written.
Mishap == {"request cut", "requests joined", "answer cut"}

Int32(n) == <<n, 0>>
None == -1

\* The SearchMode flags SEARCH_MODE_FIRST, _NEEDLE and _USER_DATA.
First(mode) == mode % 2 = 1
WithNeedle(mode) == (mode \div 4) % 2 = 1
WithUserData(mode) == (mode \div 8) % 2 = 1

\* automaton_search: one occurrence in mode FIRST, and no needle or user data
\* that was not asked for.
Search(mode, text) ==
  LET all == Lookup(text)
  IN  [i \in 1..(IF First(mode) /\ Len(all) > 1 THEN 1 ELSE Len(all)) |->
         [data   |-> IF WithUserData(mode) THEN all[i].data ELSE <<>>,
          needle |-> IF WithNeedle(mode) THEN all[i].needle ELSE <<>>]]

-----------------------------------------------------------------------------
(* The server *)

\* What bufferWrite of Search puts together: mode, length, message.
Request(r) == <<r.mode>> \o Int32(Len(r.text)) \o r.text

\* Faulty variants: the size of the first occurrence comes before each; a
\* request in mode FIRST that finds nothing is not answered.
SameSizeFrame(mode, found) ==
  LET Body(i) ==
        (IF WithUserData(mode) THEN found[i].data ELSE <<>>) \o
        (IF WithNeedle(mode)
         THEN Int32(Len(found[i].needle)) \o found[i].needle ELSE <<>>) \o
        (IF First(mode) THEN <<>>
         ELSE Int32(IF i < Len(found) THEN Len(found[1].data) ELSE None))
  IN  IF found = <<>> THEN Int32(None)
      ELSE Int32(Len(found[1].data)) \o
           FlattenSeq([i \in 1..Len(found) |-> Body(i)])

SilentFrame(mode, found) ==
  IF found = <<>> /\ First(mode) THEN <<>>
  ELSE LET Size(i) == IF i > Len(found) THEN Int32(None)
                                        ELSE Int32(Len(found[i].data))
           Body(i) ==
             (IF WithUserData(mode) THEN found[i].data ELSE <<>>) \o
             (IF WithNeedle(mode)
              THEN Int32(Len(found[i].needle)) \o found[i].needle
              ELSE <<>>) \o
             (IF First(mode) THEN <<>> ELSE Size(i + 1))
       IN  Size(1) \o FlattenSeq([i \in 1..Len(found) |-> Body(i)])

\* writeOccurrence: the size of the user data comes before each occurrence,
\* written with the one before it; in mode FIRST no terminator follows.
Frame(mode, found) ==
  LET Size(i) == IF i > Len(found) THEN Int32(None)
                                   ELSE Int32(Len(found[i].data))
      Body(i) ==
        (IF WithUserData(mode) THEN found[i].data ELSE <<>>) \o
        (IF WithNeedle(mode)
         THEN Int32(Len(found[i].needle)) \o found[i].needle ELSE <<>>) \o
        (IF First(mode) THEN <<>> ELSE Size(i + 1))
  IN  Size(1) \o FlattenSeq([i \in 1..Len(found) |-> Body(i)])

\* Every safeRead of readSearchMode and readNeedle gets what it asks for.
Whole(buffer) == Len(buffer) >= 3 /\ Len(buffer) >= 3 + buffer[2]

\* Faulty variant: what follows the request is thrown away.
AnswerAndDrain(buffer) ==
  /\ input' = <<>>
  /\ toClient' = toClient \o
       Frame(buffer[1], Search(buffer[1], SubSeq(buffer, 4, 3 + buffer[2])))

\* ahoCorasickHandler on a buffer that holds a whole request: readSearchMode,
\* readNeedle, search, writeOccurrence.  What follows stays in the buffer.
AnswerFirst(buffer) ==
  LET size == 3 + buffer[2]
  IN  /\ input' = SubSeq(buffer, size + 1, Len(buffer))
      /\ toClient' = toClient \o
           Frame(buffer[1], Search(buffer[1], SubSeq(buffer, 4, size)))

\* safeRead gets less than it asks for: error ends the process.
DieOfShortRead(buffer) ==
  /\ alive' = FALSE
  /\ input' = buffer
  /\ UNCHANGED toClient

\* The requests asked that end in the next n tokens, and whether one ends with
\* them: After(k) is what follows the k-th.
After(k) ==
  Len(FlattenSeq([i \in 1..Len(asked) - k |-> Request(asked[k + i])]))
EndIn(n) == {k \in 1..Len(asked) :
               Len(toServer) - n <= After(k) /\ After(k) < Len(toServer)}
EndsWith(n) == \E k \in EndIn(n) : After(k) = Len(toServer) - n

\* libevent reads what has arrived, n tokens, and calls the handler once.
Receive(n) ==
  /\ alive
  /\ toServer' = SubSeq(toServer, n + 1, Len(toServer))
  /\ mishaps' = mishaps
       \union (IF EndsWith(n) THEN {} ELSE {"request cut"})
       \union (IF Cardinality(EndIn(n)) > 1 THEN {"requests joined"} ELSE {})
  /\ LET buffer == input \o SubSeq(toServer, 1, n)
     IN  \/ Whole(buffer) /\ AnswerFirst(buffer) /\ UNCHANGED alive
         \/ ~Whole(buffer) /\ DieOfShortRead(buffer)
  /\ UNCHANGED <<callerVars, arrived>>

-----------------------------------------------------------------------------
(* The client and its caller *)

\* Search: the request in one write, between two calls of Occurrence.
SendRequest(r) ==
  /\ field = "none"
  /\ Len(asked) < MaxRequests
  /\ Len(asked) < Len(results) + MaxAhead
  /\ asked' = Append(asked, r)
  /\ toServer' = toServer \o Request(r)
  /\ UNCHANGED <<results, field, want, list, input, toClient, arrived, alive,
                 mishaps>>

\* What was written arrives, the first n tokens of it.
Arrive(n) ==
  /\ arrived' = arrived \o SubSeq(toClient, 1, n)
  /\ toClient' = SubSeq(toClient, n + 1, Len(toClient))
  /\ mishaps' = IF n < Len(toClient) THEN mishaps \union {"answer cut"}
                                     ELSE mishaps
  /\ UNCHANGED <<callerVars, serverVars>>

ReadNext(next, count) == field' = next /\ want' = count

\* Occurrence is called, with the mode of the request it is for.
CallOccurrence ==
  /\ field = "none"
  /\ Len(results) < Len(asked)
  /\ list' = <<>>
  /\ ReadNext("size", 2)
  /\ UNCHANGED <<asked, results, serverVars, toClient, arrived, mishaps>>

Mode == asked[Len(results) + 1].mode

Return(value) ==
  /\ results' = Append(results, value)
  /\ list' = <<>>
  /\ ReadNext("none", 0)

\* The end of the loop's body, with the list the loop has built.
EndOfOccurrence(value) ==
  IF First(Mode) THEN Return(value)
  ELSE list' = value /\ ReadNext("size", 2) /\ UNCHANGED results

ThenNeedle(value) ==
  IF WithNeedle(Mode)
  THEN list' = value /\ ReadNext("length", 2) /\ UNCHANGED results
  ELSE EndOfOccurrence(value)

\* What Occurrence does with what it has read, and what it reads next.
Use(got) ==
  LET last == Len(list)
  IN  \/ /\ field = "size"
         /\ \/ got[1] < 0 /\ Return(list)
            \/ /\ got[1] >= 0
               /\ LET more == Append(list, [data |-> <<>>, needle |-> <<>>])
                  IN  IF got[1] > 0
                      THEN /\ list' = more
                           /\ ReadNext("data", got[1])
                           /\ UNCHANGED results
                      ELSE ThenNeedle(more)
      \/ /\ field = "data"
         /\ ThenNeedle([list EXCEPT ![last].data = got])
      \/ /\ field = "length"
         /\ ReadNext("needle", got[1])
         /\ UNCHANGED <<results, list>>
      \/ /\ field = "needle"
         /\ EndOfOccurrence([list EXCEPT ![last].needle = got])

Fail ==
  /\ ReadNext("failed", 0)
  /\ list' = <<>>
  /\ UNCHANGED results

\* readBytes: Read returns what has arrived, up to the length asked for, and
\* less than that is an error.
ReadBytes ==
  /\ field \in {"size", "data", "length", "needle"}
  /\ arrived # <<>>
  /\ arrived' = SubSeq(arrived, want + 1, Len(arrived))
  /\ IF Len(arrived) < want THEN Fail ELSE Use(SubSeq(arrived, 1, want))
  /\ UNCHANGED <<asked, serverVars, toClient, mishaps>>

\* The server is gone: end of file, or a reset that overtakes the answers.
ReadFails ==
  /\ ~alive
  /\ field \in {"size", "data", "length", "needle"}
  /\ Fail
  /\ UNCHANGED <<asked, serverVars, toClient, arrived, mishaps>>

-----------------------------------------------------------------------------
ProtocolInit ==
  /\ asked = <<>> /\ results = <<>> /\ list = <<>>
  /\ field = "none" /\ want = 0
  /\ toServer = <<>> /\ input = <<>>
  /\ toClient = <<>> /\ arrived = <<>>
  /\ alive = TRUE
  /\ mishaps = {}

Network == \/ \E n \in 1..Len(toServer) : Receive(n)
           \/ \E n \in 1..Len(toClient) : Arrive(n)

Occurrence == CallOccurrence \/ ReadBytes \/ ReadFails

ProtocolNext == (\E r \in Requests : SendRequest(r)) \/ Network \/ Occurrence

ProtocolSpec == ProtocolInit /\ [][ProtocolNext]_protocolVars

\* What was written arrives, the server runs, and the caller fetches every
\* answer.  Each step uses up part of a request or of an answer, so one
\* fairness leaves none out.
FairProtocolSpec ==
  ProtocolSpec /\ WF_protocolVars(Network \/ Occurrence)

-----------------------------------------------------------------------------
\* The variables have their types.
ProtocolTypeOK ==
  /\ asked \in BoundedSeq(Requests, MaxRequests)
  /\ Len(results) <= Len(asked) /\ Len(asked) <= Len(results) + MaxAhead
  /\ field \in {"none", "size", "data", "length", "needle", "failed"}
  /\ want \in Nat
  /\ alive \in BOOLEAN
  /\ mishaps \subseteq Mishap

\* The caller gets for every search what the automaton finds for that search,
\* in the order of the searches, however the streams are cut and joined.
Answer(r) == Search(r.mode, r.text)
Promised == INSTANCE Dialogue WITH failed <- field = "failed"
ImplementsDialogue == Promised!Spec

\* The server dies only when a request comes in pieces: what the handler
\* leaves in the buffer always starts with a request, so reads that end where
\* a request ends find one, and as many as come together.  And Occurrence
\* fails only when the server died or an answer came in pieces: the sizes the
\* server announces are those of what it sends.
ErrorsOnlyOfMishaps ==
  /\ ~alive => "request cut" \in mishaps
  /\ field = "failed" => "answer cut" \in mishaps \/ ~alive

\* As long as each request arrives on its own and whole, and each answer too,
\* each gets its answer.  Requests joined are excepted because the handler
\* answers one for each read (the last waits for a request that may not come).
EveryRequestAnswered ==
  \A i \in 1..MaxRequests :
    Len(asked) >= i ~> Len(results) >= i \/ mishaps # {}

=============================================================================
