------------------------------- MODULE TriePool -------------------------------
(***************************************************************************)
(* The cell pool of the double array trie (src/dat.c): free cells are      *)
(* chained through their own base and check fields, base = -previous and   *)
(* check = -next, in a ring that starts and ends in cell 0.  A cell in use *)
(* has a check above 0 (its parent).  Cell 1 is the root: it is never free *)
(* and its check stays 0.  The two walks along the chain, trie_freeCell    *)
(* and trie_findEmptyCell, take one step per cell they visit; insertion    *)
(* (poolCheckCapacity, poolReallocate, allocateCell and the fields of      *)
(* trie_insertNode) visits none and is one step.                           *)
(*                                                                         *)
(* Left to module Trie: which cells are asked for, the children lists and  *)
(* the user data that grow along with the cells.                           *)
(***************************************************************************)
EXTENDS Memory

CONSTANTS
  InitialSize,   \* initialSize of createTrie
  MaxIndex,      \* bound: the largest cell that is asked for
  Bases,         \* values of base a cell in use may have
  Parents        \* values of check a cell in use may have

ASSUME TriePoolAssumption ==
  /\ InitialSize \in Nat /\ InitialSize >= 4   \* or createTrie exits
  /\ MaxIndex \in Nat /\ IntMax \in Nat
  /\ MaxIndex + 1 < IntMax                     \* the allocation is not capped
  /\ Bases \subseteq Int
  /\ Parents \subseteq Nat \ {0}

VARIABLES
  base, check,   \* trie->cells: functions on 0 .. size - 1
  size,          \* trie->size
  pc,            \* "idle", or the walk that runs: "scan", "find", "found"
  target,        \* of the walk: the cell to free, or the node to start above
  next           \* of the walk: next of trie_freeCell, state of findEmptyCell

cells == <<base, check, size>>
walk == <<pc, target, next>>
vars == <<cells, walk>>

FirstFree == 2    \* the first free cell of an empty pool

\* createTrie; the root's base is 1.
Init ==
  /\ size = InitialSize
  /\ base = [i \in 0..(size - 1) |->
               IF i = 0 THEN -(size - 1)
               ELSE IF i = 1 THEN 1
               ELSE IF i = 2 THEN 0 ELSE -(i - 1)]
  /\ check = [i \in 0..(size - 1) |->
                IF i = 0 THEN -FirstFree
                ELSE IF i = 1 \/ i = size - 1 THEN 0 ELSE -(i + 1)]
  /\ pc = "idle"
  /\ target = 0
  /\ next = 0

-----------------------------------------------------------------------------
\* Faulty variant: the last cell may be handed out.
TightCapacity(index) ==
  IF size <= index THEN CalculateAllocation(index) ELSE size

\* The size trie_poolCheckCapacity leaves.
Capacity(index) ==
  IF size <= index + 1 THEN CalculateAllocation(index) ELSE size

\* trie_poolReallocate: the new cells are a chain of their own (poolInit),
\* hung onto the cell that cell 0 names as the last free one.
GrownCheck(newSize) ==
  IF newSize = size THEN check
  ELSE [i \in 0..(newSize - 1) |->
          IF i < size THEN IF i = -base[0] THEN -size ELSE check[i]
          ELSE IF i = newSize - 1 THEN 0 ELSE -(i + 1)]

GrownBase(newSize) ==
  IF newSize = size THEN base
  ELSE [i \in 0..(newSize - 1) |->
          IF i = 0 THEN -(newSize - 1)
          ELSE IF i < size THEN base[i] ELSE -(i - 1)]

\* trie_allocateCell on the fields c and b, then the fields the node gets.
UnlinkedCheck(c, b, cell, parent) ==
  [c EXCEPT ![-b[cell]] = c[cell], ![cell] = parent]

UnlinkedBase(c, b, cell, value) ==
  [b EXCEPT ![-c[cell]] = b[cell], ![cell] = value]

\* Cells that may be asked for: free ones, and those beyond the end.
Available(cell) == cell < size => check[cell] <= 0

\* trie_insertNode, as far as the pool goes.
InsertNode(cell, value, parent) ==
  /\ pc = "idle"
  /\ Available(cell)
  /\ LET newSize == Capacity(cell)
         c == GrownCheck(newSize)
         b == GrownBase(newSize)
     IN  /\ size' = newSize
         /\ check' = UnlinkedCheck(c, b, cell, parent)
         /\ base' = UnlinkedBase(c, b, cell, value)
  /\ UNCHANGED walk

-----------------------------------------------------------------------------
(* trie_freeCell *)

\* next = -check of TRIE_POOL_START, which is always 0: the walk starts in
\* cell 0 although it is written to end in cell 1.
StartFree(cell) ==
  /\ pc = "idle"
  /\ cell < size
  /\ check[cell] > 0
  /\ target' = cell
  /\ next' = -check[1]
  /\ pc' = "scan"
  /\ UNCHANGED cells

\* Faulty variant: the walk looks for the cell itself.
ScanningFor == next # 1 /\ next # target

Scanning == next # 1 /\ next < target

ScanStep ==
  /\ pc = "scan"
  /\ Scanning
  /\ next' = -check[next]
  /\ UNCHANGED <<cells, pc, target>>

\* Faulty variant: the cell before next keeps its link past the freed cell.
LinkBackwards ==
  /\ pc = "scan"
  /\ ~Scanning
  /\ check' = [check EXCEPT ![target] = -next]
  /\ base' = [base EXCEPT ![target] = base[next], ![next] = -target]
  /\ pc' = "idle"
  /\ UNCHANGED <<size, target, next>>

LinkCell ==
  /\ pc = "scan"
  /\ ~Scanning
  /\ LET prev == -base[next]
     IN  /\ check' = [check EXCEPT ![target] = -next, ![prev] = -target]
         /\ base' = [base EXCEPT ![target] = -prev, ![next] = -target]
  /\ pc' = "idle"
  /\ UNCHANGED <<size, target, next>>

-----------------------------------------------------------------------------
(* trie_findEmptyCell *)

StartFind(node) ==
  /\ pc = "idle"
  /\ node < size
  /\ target' = node
  /\ next' = -check[0]
  /\ pc' = "find"
  /\ UNCHANGED cells

\* Faulty variant: the node itself may be the answer.
FindingFrom == next # 0 /\ next < target

Finding == next # 0 /\ next <= target

FindStep ==
  /\ pc = "find"
  /\ Finding
  /\ next' = -check[next]
  /\ UNCHANGED <<cells, pc, target>>

\* No free cell above the node: the first one beyond the end.
FindDone ==
  /\ pc = "find"
  /\ ~Finding
  /\ next' = IF next = 0 THEN size ELSE next
  /\ pc' = "found"
  /\ UNCHANGED <<cells, target>>

\* trie_findFreeBase takes the answer and goes on.
Return ==
  /\ pc = "found"
  /\ pc' = "idle"
  /\ UNCHANGED <<cells, target, next>>

-----------------------------------------------------------------------------
WalkStep == ScanStep \/ LinkCell \/ FindStep \/ FindDone \/ Return

Next ==
  \/ \E cell \in 2..MaxIndex, value \in Bases, parent \in Parents :
       InsertNode(cell, value, parent)
  \/ \E cell \in 2..MaxIndex : StartFree(cell)
  \/ \E node \in 1..MaxIndex : StartFind(node)
  \/ WalkStep

Spec == Init /\ [][Next]_vars

\* A walk that has begun goes on: one thread builds the trie.
FairSpec == Spec /\ WF_vars(WalkStep)

-----------------------------------------------------------------------------
(* Properties *)

TypeOK ==
  /\ size \in Nat /\ size >= 4
  /\ base \in [0..(size - 1) -> Int]
  /\ check \in [0..(size - 1) -> Int]
  /\ pc \in {"idle", "scan", "find", "found"}
  /\ target \in Nat
  /\ next \in Nat

\* The free cells among n cells with the check fields c.
FreeIn(c, n) == {i \in 2..(n - 1) : c[i] <= 0}
Free == FreeIn(check, size)

\* The links the fields stand for.
Links(field) == [i \in DOMAIN field |-> -field[i]]

\* succ and prev chain the set f in ascending order, from 0 and back to 0.
Ring(prev, succ, f) ==
  /\ \A i \in f \union {0} : /\ succ[i] \in f \union {0}
                             /\ prev[i] \in f \union {0}
  /\ \A i \in f : (succ[i] = 0 \/ succ[i] > i) /\ prev[i] < i
  /\ \A i \in f \union {0}, k \in f : k > i => succ[i] # 0 /\ k >= succ[i]
  /\ \A i \in f, k \in f : k < i => k <= prev[i]
  /\ \A k \in f : k <= prev[0]

\* The chain visits every free cell, in ascending order, forwards and
\* backwards (trie_allocateCell, trie_freeCell, trie_poolReallocate).
FreeRing == Ring(Links(base), Links(check), Free)

\* The last cell is always free.  trie_poolReallocate relies on it when it
\* leaves the base of the first new cell at -(size - 1), the walk of
\* trie_freeCell when it tests for the end of the chain in cell 1 and not in
\* cell 0, and trie_findFreeBase when it searches beyond the end.
LastCellFree == check[size - 1] <= 0

\* A finished trie_findEmptyCell has the first free cell above the node.
FoundIsFirst ==
  pc = "found" =>
    \/ /\ next \in Free /\ next > target
       /\ \A k \in Free : k > target => k >= next
    \/ /\ next = size
       /\ \A k \in Free : k <= target

\* Whatever happens to the chain, a cell that stays in use keeps its base and
\* its check, and so does the root (the stray writes a broken chain causes).
UsedCellsKept ==
  [][\A i \in 1..(size - 1) :
       (i = 1 \/ check[i] > 0) /\ (i = 1 \/ check'[i] > 0) =>
         check'[i] = check[i] /\ base'[i] = base[i]]_vars

\* Every walk ends: trie_freeCell never circles in the ring.
WalksEnd == (pc # "idle") ~> (pc = "idle")

\* What a walk knows of the cells it has passed, for the induction.
WalkInv ==
  /\ pc = "scan" => /\ target \in 2..(size - 1) /\ check[target] > 0
                    /\ next \in Free \union {0}
                    /\ next # 0 => \A k \in Free : k < next => k < target
  /\ pc = "find" => /\ target < size
                    /\ next \in Free \union {0}
                    /\ \A k \in Free : (next = 0 \/ k < next) => k <= target
  /\ check[1] = 0

\* The inductive invariant of the proofs.
IInv == TypeOK /\ FreeRing /\ LastCellFree /\ WalkInv /\ FoundIsFirst

=============================================================================
