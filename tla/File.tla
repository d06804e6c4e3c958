--------------------------------- MODULE File ---------------------------------
(***************************************************************************)
(* The dictionary file (src/file.c): file_store writes header, automaton,  *)
(* tail and user data over the file that was there; file_load reads them   *)
(* back, in this process or another, while the writer may be at work, may  *)
(* have died halfway, or may start anew.                                   *)
(*                                                                         *)
(* The file is a sequence of numbers, one for each size, cell, character   *)
(* or byte: a torn one is not read (fread counts whole items).             *)
(***************************************************************************)
EXTENDS Integers, SequencesExt

CONSTANTS
  Dictionaries,   \* records [header, cells, tail, data] that may be stored
  MaxStores       \* bound: calls of file_store

HAS_TAIL == 1
HAS_USER_DATA_LIST == 2

HasTail(header) == header % 2 = HAS_TAIL
HasUserData(header) == header >= HAS_USER_DATA_LIST

\* The tail cells are those from 1 on; user data has one entry for each cell.
ASSUME FileAssumption ==
  /\ MaxStores \in Nat
  /\ \A d \in Dictionaries :
       /\ d \in [header : 0..3, cells : Seq(Int),
                 tail : Seq(Seq(Int)), data : Seq(Seq(Int))]
       /\ Len(d.cells) > 0
       /\ ~HasTail(d.header) => d.tail = <<>>
       /\ IF HasUserData(d.header) THEN Len(d.data) = Len(d.cells)
                                   ELSE d.data = <<>>

VARIABLES
  file,        \* what is in the file; <<>> before the first store
  latest,      \* the dictionary that was stored last
  unwritten,   \* of file_store: what has not reached the file yet
  stores,      \* calls of file_store
  reading,     \* of file_load: what it reads next, "loaded" or "refused"
  offset,      \* of file_load: how much it has read
  size,        \* of file_load: automatonSize, or tailSize while in the tail
  left,        \* of file_load: characters or bytes left of the last entry
  loaded,      \* of file_load: the dictionary so far
  overtaken    \* a store has begun since file_load opened the file

writer == <<file, latest, unwritten, stores>>
loader == <<reading, offset, size, left, loaded>>
fileVars == <<writer, loader, overtaken>>

Empty == [header |-> 0, cells |-> <<>>, tail |-> <<>>, data |-> <<>>]
Idle == {"nothing", "loaded", "refused"}

-----------------------------------------------------------------------------
(* file_store *)

\* Every entry with its length before it.
Entries(list) ==
  FlattenSeq([i \in 1..Len(list) |-> <<Len(list[i])>> \o list[i]])

\* Faulty variant: the number of tail entries is written for the number of
\* tail cells.
ContentsOneTailLess(d) ==
  <<d.header, Len(d.cells)>> \o d.cells
    \o (IF HasTail(d.header) THEN <<Len(d.tail)>> \o Entries(d.tail) ELSE <<>>)
    \o Entries(d.data)

\* file_storeAutomaton, file_storeTail (tail->size counts the unused cell 0)
\* and file_storeUserDataList.
Contents(d) ==
  <<d.header, Len(d.cells)>> \o d.cells
    \o (IF HasTail(d.header)
        THEN <<Len(d.tail) + 1>> \o Entries(d.tail) ELSE <<>>)
    \o Entries(d.data)

\* fopen with "w+b" empties the file.
BeginStore(d) ==
  /\ unwritten = <<>>
  /\ stores < MaxStores
  /\ stores' = stores + 1
  /\ file' = <<>>
  /\ latest' = d
  /\ unwritten' = Contents(d)
  /\ overtaken' = (overtaken \/ reading \notin Idle)
  /\ UNCHANGED loader

\* Faulty variant: a number is written again with the next block.
FlushTwice(n) ==
  /\ file' = file \o SubSeq(unwritten, 1, n)
  /\ unwritten' = SubSeq(unwritten, IF n > 1 THEN n ELSE 2, Len(unwritten))
  /\ UNCHANGED <<latest, stores, loader, overtaken>>

\* The buffer of the stream, up to any place, is written: when it is full, and
\* with fclose.
Flush(n) ==
  /\ file' = file \o SubSeq(unwritten, 1, n)
  /\ unwritten' = SubSeq(unwritten, n + 1, Len(unwritten))
  /\ UNCHANGED <<latest, stores, loader, overtaken>>

\* The writing process ends: it is killed, or a write fails and error exits.
Crash ==
  /\ unwritten # <<>>
  /\ unwritten' = <<>>
  /\ UNCHANGED <<file, latest, stores, loader, overtaken>>

-----------------------------------------------------------------------------
(* file_load *)

BeginLoad ==
  /\ reading \in Idle
  /\ stores > 0
  /\ reading' = "header"
  /\ offset' = 0 /\ size' = 0 /\ left' = 0
  /\ loaded' = Empty
  /\ overtaken' = FALSE
  /\ UNCHANGED writer

\* The heads of the loops of file_load: over the entries of user data and of
\* the tail, and what comes after the automaton.
NextData(d) ==
  IF HasUserData(d.header) /\ Len(d.data) < Len(d.cells)
  THEN "dataSize" ELSE "loaded"
NextTail(d, tailSize) ==
  IF Len(d.tail) < tailSize - 1 THEN "tailLength" ELSE NextData(d)
AfterCells(d) == IF HasTail(d.header) THEN "tailSize" ELSE NextData(d)

Becomes(d, next, newSize, newLeft) ==
  loaded' = d /\ reading' = next /\ size' = newSize /\ left' = newLeft

\* safeRead got the number t.
Take(t) ==
  LET d == loaded
      Filled(list) == [list EXCEPT ![Len(list)] = Append(@, t)]
  IN  \/ /\ reading = "header"
         /\ Becomes([d EXCEPT !.header = t], "size", 0, 0)
      \/ /\ reading = "size"
         /\ Becomes(d, IF t > 0 THEN "cell" ELSE AfterCells(d), t, 0)
      \/ /\ reading = "cell"
         /\ LET more == [d EXCEPT !.cells = Append(@, t)]
            IN  Becomes(more, IF Len(more.cells) < size THEN "cell"
                              ELSE AfterCells(more), size, 0)
      \/ /\ reading = "tailSize"
         /\ Becomes(d, NextTail(d, t), t, 0)
      \/ /\ reading = "tailLength"
         /\ LET more == [d EXCEPT !.tail = Append(@, <<>>)]
            IN  Becomes(more, IF t > 0 THEN "tailChar"
                              ELSE NextTail(more, size), size, t)
      \/ /\ reading = "tailChar"
         /\ LET more == [d EXCEPT !.tail = Filled(@)]
            IN  Becomes(more, IF left > 1 THEN "tailChar"
                              ELSE NextTail(more, size), size, left - 1)
      \/ /\ reading = "dataSize"
         /\ LET more == [d EXCEPT !.data = Append(@, <<>>)]
            IN  Becomes(more, IF t > 0 THEN "dataByte"
                              ELSE NextData(more), size, t)
      \/ /\ reading = "dataByte"
         /\ LET more == [d EXCEPT !.data = Filled(@)]
            IN  Becomes(more, IF left > 1 THEN "dataByte"
                              ELSE NextData(more), size, left - 1)

SafeRead ==
  /\ reading \notin Idle
  /\ offset < Len(file)
  /\ Take(file[offset + 1])
  /\ offset' = offset + 1
  /\ UNCHANGED <<writer, overtaken>>

\* fread finds the end of the file: error ends the process.
SafeReadFails ==
  /\ reading \notin Idle
  /\ offset >= Len(file)
  /\ reading' = "refused"
  /\ UNCHANGED <<writer, offset, size, left, loaded, overtaken>>

-----------------------------------------------------------------------------
FileInit ==
  /\ file = <<>> /\ unwritten = <<>> /\ latest = Empty /\ stores = 0
  /\ reading = "nothing" /\ offset = 0 /\ size = 0 /\ left = 0
  /\ loaded = Empty
  /\ overtaken = FALSE

Store ==
  \/ \E d \in Dictionaries : BeginStore(d)
  \/ \E n \in 1..Len(unwritten) : Flush(n)
  \/ Crash

Load == BeginLoad \/ SafeRead \/ SafeReadFails

FileNext == Store \/ Load

FileSpec == FileInit /\ [][FileNext]_fileVars

-----------------------------------------------------------------------------
(* Properties *)

\* The variables have their types.
FileTypeOK ==
  /\ stores \in 0..MaxStores
  /\ latest \in Dictionaries \union {Empty}
  /\ unwritten = <<>> \/ file \o unwritten = Contents(latest)
  /\ reading \in Idle \union {"header", "size", "cell", "tailSize",
       "tailLength", "tailChar", "dataSize", "dataByte"}
  /\ offset \in Nat /\ size \in Int /\ left \in Int
  /\ overtaken \in BOOLEAN

\* What file_load returns is the dictionary stored last, whole, whether the
\* store was still going on or its process has died; and only a torn file is
\* refused.  A store that begins during the load may mix two dictionaries.
LoadsLatestOrRefuses ==
  [][~overtaken =>
       /\ reading # "loaded" /\ reading' = "loaded" => loaded' = latest
       /\ reading # "refused" /\ reading' = "refused" =>
            file # Contents(latest)]_fileVars

=============================================================================
