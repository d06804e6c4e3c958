----------------------------- MODULE TailBuilder -----------------------------
(***************************************************************************)
(* The builder of the tail (src/tail.c): the suffixes of the dictionary    *)
(* lie in cells 1 .. size - 1, the cells without one are chained through   *)
(* nextFree in ascending order, starting in cell 0, which holds no suffix. *)
(* The walk of findPrevFree takes one step per cell it visits.  The call   *)
(* of findPrevFree in tailBuilder_poolReallocate never walks: the pool     *)
(* only grows when the chain is empty.                                     *)
(***************************************************************************)
EXTENDS Memory

CONSTANTS
  Strings,       \* the suffixes
  NULL,          \* no suffix
  InitialSize,   \* size of createTailBuilder
  MaxSize        \* bound: the largest pool that grows

ASSUME TailAssumption ==
  /\ NULL \notin Strings
  /\ InitialSize \in Nat /\ InitialSize >= 2   \* or createTailBuilder exits
  /\ MaxSize \in Nat /\ IntMax \in Nat
  /\ MaxSize + 2 < IntMax                      \* the allocation is not capped

VARIABLES
  chars, nextFree,  \* cells: functions on 0 .. size - 1
  size,
  pc,               \* "idle", or "walk" while findPrevFree runs
  freeing,          \* index of tailBuilder_freeCell
  lastFree,         \* lastFree of findPrevFree
  lost              \* free cells that minimize took off the chain

cells == <<chars, nextFree, size>>
vars == <<cells, pc, freeing, lastFree, lost>>

\* createTailBuilder
Init ==
  /\ size = InitialSize
  /\ chars = [i \in 0..(size - 1) |-> NULL]
  /\ nextFree = [i \in 0..(size - 1) |-> IF i = size - 1 THEN 0 ELSE i + 1]
  /\ pc = "idle"
  /\ freeing = 0
  /\ lastFree = 0
  /\ lost = {}

-----------------------------------------------------------------------------
(* tailBuilder_insertChars *)

\* The cells after tailBuilder_poolReallocate: the new ones are a chain, and
\* the chain was empty.
GrownNextFree(newSize) ==
  [i \in 0..(newSize - 1) |->
     IF i = 0 THEN size
     ELSE IF i < size THEN nextFree[i]
     ELSE IF i = newSize - 1 THEN 0 ELSE i + 1]

GrownChars(newSize) ==
  [i \in 0..(newSize - 1) |-> IF i < size THEN chars[i] ELSE NULL]

\* The head of the chain takes the string.
Fill(index, string, cs, nf) ==
  /\ nextFree' = [nf EXCEPT ![0] = nf[index], ![index] = 0]
  /\ chars' = [cs EXCEPT ![index] = string]

InsertChars(string) ==
  /\ pc = "idle"
  /\ \/ /\ nextFree[0] # 0
        /\ Fill(nextFree[0], string, chars, nextFree)
        /\ UNCHANGED size
     \/ /\ nextFree[0] = 0
        /\ size <= MaxSize
        /\ size' = CalculateAllocation(size)
        /\ Fill(size, string, GrownChars(size'), GrownNextFree(size'))
  /\ UNCHANGED <<pc, freeing, lastFree, lost>>

-----------------------------------------------------------------------------
(* tailBuilder_freeCell *)

\* Faulty variant: every freed cell becomes the head.
FreeAsHead(index) ==
  /\ pc = "idle"
  /\ index < size
  /\ chars[index] # NULL
  /\ chars' = [chars EXCEPT ![index] = NULL]
  /\ nextFree' = [nextFree EXCEPT ![index] = nextFree[0], ![0] = index]
  /\ UNCHANGED <<size, pc, freeing, lastFree, lost>>

\* The cell becomes the head of the chain, or findPrevFree begins.
FreeCell(index) ==
  /\ pc = "idle"
  /\ index < size
  /\ chars[index] # NULL
  /\ chars' = [chars EXCEPT ![index] = NULL]
  /\ \/ /\ nextFree[0] > index \/ nextFree[0] = 0
        /\ nextFree' = [nextFree EXCEPT ![index] = nextFree[0], ![0] = index]
        /\ UNCHANGED <<pc, freeing, lastFree>>
     \/ /\ nextFree[0] <= index /\ nextFree[0] # 0
        /\ pc' = "walk"
        /\ freeing' = index
        /\ lastFree' = nextFree[0]
        /\ UNCHANGED nextFree
  /\ UNCHANGED <<size, lost>>

Walking == nextFree[lastFree] # 0 /\ nextFree[lastFree] < freeing

WalkStep ==
  /\ pc = "walk"
  /\ Walking
  /\ lastFree' = nextFree[lastFree]
  /\ UNCHANGED <<cells, pc, freeing, lost>>

\* Faulty variant: what followed lastFree is dropped.
LinkLast ==
  /\ pc = "walk"
  /\ ~Walking
  /\ nextFree' = [nextFree EXCEPT ![freeing] = 0, ![lastFree] = freeing]
  /\ pc' = "idle"
  /\ UNCHANGED <<chars, size, freeing, lastFree, lost>>

LinkCell ==
  /\ pc = "walk"
  /\ ~Walking
  /\ nextFree' = [nextFree EXCEPT ![freeing] = nextFree[lastFree],
                                  ![lastFree] = freeing]
  /\ pc' = "idle"
  /\ UNCHANGED <<chars, size, freeing, lastFree, lost>>

-----------------------------------------------------------------------------
\* tailBuilder_findLastFilled returns last: 1 when no cell is filled.
LastFilled(last) ==
  /\ last \in 1..(size - 1)
  /\ last = 1 \/ chars[last] # NULL
  /\ \A k \in 1..(size - 1) : k > last => chars[k] = NULL

\* safeRealloc to newSize, and the chain is given up: the free cells below
\* the last filled one stay, but nothing leads to them any more.
CutTo(newSize) ==
  /\ size' = newSize
  /\ chars' = [i \in 0..(newSize - 1) |-> chars[i]]
  /\ nextFree' = [i \in 0..(newSize - 1) |-> IF i = 0 THEN 0 ELSE nextFree[i]]
  /\ lost' = {i \in 1..(newSize - 1) : chars[i] = NULL}
  /\ UNCHANGED <<pc, freeing, lastFree>>

\* Faulty variant: the last filled cell is cut off.
MinimizeShort ==
  /\ pc = "idle"
  /\ \E last \in 1..(size - 1) : LastFilled(last) /\ CutTo(last)

\* tailBuilder_minimize
Minimize ==
  /\ pc = "idle"
  /\ \E last \in 1..(size - 1) : LastFilled(last) /\ CutTo(last + 1)

Next ==
  \/ \E string \in Strings : InsertChars(string)
  \/ \E index \in DOMAIN chars : FreeCell(index)
  \/ WalkStep
  \/ LinkCell
  \/ Minimize

Spec == Init /\ [][Next]_vars

-----------------------------------------------------------------------------
(* Properties *)

TypeOK ==
  /\ size \in Nat /\ size >= 2
  /\ chars \in [0..(size - 1) -> Strings \union {NULL}]
  /\ nextFree \in [0..(size - 1) -> Nat]
  /\ pc \in {"idle", "walk"}
  /\ freeing \in Nat
  /\ lastFree \in Nat
  /\ lost \subseteq 1..(size - 1)

\* The cells the chain should visit.
Available ==
  {i \in 1..(size - 1) : chars[i] = NULL}
    \ (lost \union (IF pc = "walk" THEN {freeing} ELSE {}))

\* succ chains the set f in ascending order, from 0 to the end mark 0.
Chain(succ, f) ==
  /\ \A i \in f \union {0} : succ[i] \in f \union {0}
  /\ \A i \in f : succ[i] = 0 \/ succ[i] > i
  /\ \A i \in f \union {0}, k \in f : k > i => succ[i] # 0 /\ k >= succ[i]

\* The chain visits every available cell in ascending order, whatever is
\* inserted, freed and minimized (insertChars, freeCell, findPrevFree).
FreeChain == Chain(nextFree, Available)

\* A cell keeps its suffix until it is freed, and only one cell is freed at a
\* time: insertion never overwrites, minimize never cuts a suffix off.  The
\* trie holds the cell's number as a negative base all that while.
StringsKept ==
  [][\A i \in DOMAIN chars : chars[i] # NULL =>
       /\ i \in DOMAIN chars'
       /\ chars'[i] # chars[i] =>
            /\ chars'[i] = NULL
            /\ \A k \in DOMAIN chars \ {i} :
                 k \in DOMAIN chars' /\ chars'[k] = chars[k]]_vars

\* A new suffix goes into the lowest cell that is available: what trie
\* construction stores stays dense, and createTailFromBuilder small.
FirstFit ==
  [][\A i \in DOMAIN chars' :
       chars'[i] # NULL /\ (i \in DOMAIN chars => chars[i] = NULL) =>
         /\ \A k \in Available : k >= i
         /\ i \in Available \/ i = size]_vars

\* What the walk knows of the cells it has passed, for the induction.
WalkInv ==
  /\ pc = "walk" =>
       /\ freeing \in 1..(size - 1) /\ chars[freeing] = NULL
       /\ freeing \notin lost
       /\ lastFree \in Available /\ lastFree < freeing
  /\ \A i \in lost : chars[i] = NULL
  /\ chars[0] = NULL

\* The inductive invariant of the proofs.
IInv == TypeOK /\ FreeChain /\ WalkInv

=============================================================================
