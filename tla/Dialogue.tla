------------------------------ MODULE Dialogue ------------------------------
(***************************************************************************)
(* What the search protocol promises to the caller of the client: each     *)
(* search is answered once, in the order of the searches, with what the    *)
(* automaton finds, or the connection fails and nothing follows.  No       *)
(* bytes, no pieces.  Protocol implements this.                            *)
(***************************************************************************)
EXTENDS Sequences, Naturals

CONSTANTS Requests, Answer(_)

VARIABLES
  asked,     \* the requests, in order
  results,   \* the answers the caller got
  failed     \* a call returned an error, or the server is gone

Init ==
  /\ asked = <<>>
  /\ results = <<>>
  /\ failed = FALSE

Ask ==
  /\ ~failed
  /\ \E r \in Requests : asked' = Append(asked, r)
  /\ UNCHANGED <<results, failed>>

Reply ==
  /\ ~failed
  /\ Len(results) < Len(asked)
  /\ results' = Append(results, Answer(asked[Len(results) + 1]))
  /\ UNCHANGED <<asked, failed>>

Fail ==
  /\ failed' = TRUE
  /\ UNCHANGED <<asked, results>>

Spec == Init /\ [][Ask \/ Reply \/ Fail]_<<asked, results, failed>>

=============================================================================
