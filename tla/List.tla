--------------------------------- MODULE List ---------------------------------
(***************************************************************************)
(* The list of src/list.c: cells linked by index, cell 0 with the ends of  *)
(* the chain of free cells.  It is used as a stack or queue (the states    *)
(* still to visit when the automaton is built) or as a sorted array (the   *)
(* children of a trie node).                                               *)
(*                                                                         *)
(* Every call is one step: a list belongs to one thread.  A call is an     *)
(* operator from lists to lists, for the trie calls two in a row.          *)
(***************************************************************************)
EXTENDS Memory, SequencesExt

CONSTANTS
  InitialSizes,    \* arguments of createList
  Values,          \* the values stored: characters or states, all positive
  QueueValues,     \* bound: those of them stored in a stack or queue
  Uses,            \* TRUE: as a sorted array, FALSE: as a stack or queue
  DeleteWhenFull,  \* whether list_delete is called on a list with no cell free
  MaxItems         \* bound: items in the list

ASSUME ListAssumption ==
  /\ InitialSizes \subseteq Nat \ {0}
  /\ Values \subseteq Nat \ {0}
  /\ QueueValues \subseteq Values
  /\ Uses \subseteq BOOLEAN /\ DeleteWhenFull \in BOOLEAN
  /\ MaxItems \in Nat /\ IntMax \in Nat
  /\ MaxItems + 2 < IntMax                    \* the list can still grow

VARIABLES
  asArray,  \* the use this list is made for, of Uses
  list,     \* struct list: size, front, rear and the fields of its cells
  result    \* the value that the last call returned, 0 if none

vars == <<asArray, list, result>>

-----------------------------------------------------------------------------
(* Chains of cells *)

\* The cells met from start along next, up to the end or cut off after size.
Chain(s, start) ==
  LET from[p \in (0..(s.size - 1)) \X (0..s.size)] ==
        IF p[1] = 0 \/ p[2] = 0 THEN << >>
        ELSE <<p[1]>> \o from[<<s.next[p[1]], p[2] - 1>>]
  IN  from[<<start, s.size>>]

Cells(s) == Chain(s, s.front)
FreeCells(s) == Chain(s, s.next[0])
Contents(s) ==
  LET cells == Cells(s) IN [k \in DOMAIN cells |-> s.value[cells[k]]]

-----------------------------------------------------------------------------
(* The pool *)

\* The unsigned 2^32 - 1.
Wrapped == -1

CreateList(n) ==
  [size |-> n, front |-> 0, rear |-> 0,
   value |-> [i \in 0..(n - 1) |-> 0],
   next |-> [i \in 0..(n - 1) |-> IF i = n - 1 THEN 0 ELSE i + 1],
   prev |-> [i \in 0..(n - 1) |->
               IF i = n - 1 THEN IF n = 1 THEN Wrapped ELSE n - 2
               ELSE IF i = 0 THEN n - 1 ELSE i - 1]]

SetFirstLastFree(s, first, last) ==
  [s EXCEPT !.value[0] = 0, !.next[0] = first, !.prev[0] = last]

\* list_poolReallocate
PoolReallocate(s) ==
  LET newSize == CalculateAllocation(s.size)
      lastFree == s.prev[0]
      old(i) == i < s.size
      hook == IF s.next[0] = 0 THEN 0 ELSE lastFree
  IN  [s EXCEPT
         !.size = newSize,
         !.value = [i \in 0..(newSize - 1) |-> IF old(i) THEN @[i] ELSE 0],
         !.next = [i \in 0..(newSize - 1) |->
                     IF i = hook THEN s.size
                     ELSE IF old(i) THEN @[i]
                     ELSE IF i = newSize - 1 THEN 0 ELSE i + 1],
         !.prev = [i \in 0..(newSize - 1) |->
                     IF i = 0 THEN newSize - 1
                     ELSE IF old(i) THEN @[i]
                     ELSE IF i = s.size THEN lastFree ELSE i - 1]]

\* list_freeCell keeps the chain of free cells in ascending order.
FreeCell(s, i) ==
  LET first == s.next[0]
      last == s.prev[0]
      free == FreeCells(s)
      nextFree == free[SelectInSeq(free, LAMBDA j : j >= i)]
  IN  IF first = 0 /\ last = 0
      THEN [SetFirstLastFree(s, i, i) EXCEPT !.next[i] = 0, !.prev[i] = 0]
      ELSE IF first >= i
      THEN [s EXCEPT !.prev[first] = i, !.next[i] = first, !.prev[i] = 0,
                     !.next[0] = i]
      ELSE IF last <= i
      THEN [s EXCEPT !.next[i] = 0, !.prev[i] = last, !.next[last] = i,
                     !.prev[0] = i]
      ELSE [s EXCEPT !.next[i] = nextFree, !.prev[i] = s.prev[nextFree],
                     !.next[s.prev[nextFree]] = i, !.prev[nextFree] = i]

-----------------------------------------------------------------------------
(* Stack and queue *)

\* Taking the first free cell out of its chain.
TakeFirstFree(s) ==
  LET i == s.next[0]
      t == IF s.prev[0] = i THEN SetFirstLastFree(s, 0, 0)
           ELSE [s EXCEPT !.next[0] = s.next[i]]
  IN  IF s.next[i] = 0 THEN t ELSE [t EXCEPT !.prev[s.next[i]] = s.prev[i]]

\* list_push
Pushed(s, v) ==
  LET room == IF s.next[0] = 0 THEN PoolReallocate(s) ELSE s
      i == room.next[0]
      t == TakeFirstFree(room)
      u == IF s.rear = 0 THEN t ELSE [t EXCEPT !.next[s.rear] = i]
  IN  [u EXCEPT !.prev[i] = s.rear,
                !.front = IF @ = 0 THEN i ELSE @,
                !.rear = i, !.value[i] = v, !.next[i] = 0]

\* Faulty variant: rear stays behind when the last item leaves.
ShiftedFront(s) ==
  LET i == s.front
      t == [s EXCEPT !.value[i] = 0, !.front = s.next[i]]
      u == IF t.front = 0 THEN t ELSE [t EXCEPT !.prev[t.front] = 0]
  IN  FreeCell(u, i)

\* list_shift
Shifted(s) ==
  LET i == s.front
      t == [s EXCEPT !.value[i] = 0, !.front = s.next[i],
                     !.rear = IF @ = i THEN 0 ELSE @]
      u == IF t.front = 0 THEN t ELSE [t EXCEPT !.prev[t.front] = 0]
  IN  FreeCell(u, i)

\* list_pop
Popped(s) ==
  LET i == s.rear
      t == [s EXCEPT !.value[i] = 0, !.rear = s.prev[i],
                     !.front = IF @ = i THEN 0 ELSE @]
      u == IF t.rear = 0 THEN t ELSE [t EXCEPT !.next[t.rear] = 0]
  IN  FreeCell(u, i)

\* list_remove
Removed(s, i) ==
  LET t == IF s.front = i
           THEN IF s.next[i] = 0 THEN [s EXCEPT !.front = 0]
                ELSE [s EXCEPT !.front = s.next[i], !.prev[s.next[i]] = 0]
           ELSE IF s.prev[i] = 0 THEN s
                ELSE [s EXCEPT !.next[s.prev[i]] = s.next[i]]
      u == IF t.rear = i
           THEN IF t.prev[i] = 0 THEN [t EXCEPT !.rear = 0]
                ELSE [t EXCEPT !.rear = t.prev[i], !.next[t.prev[i]] = 0]
           ELSE IF t.next[i] = 0 THEN t
                ELSE [t EXCEPT !.prev[t.next[i]] = t.prev[i]]
  IN  FreeCell([u EXCEPT !.value[i] = 0], i)

\* list_reset
Emptied(s) == [CreateList(s.size) EXCEPT !.prev[0] = s.size - 1]

-----------------------------------------------------------------------------
(* Sorted array *)

\* The middle of the range of cells that is still searched.
Middle(r) == r.from + (r.to - r.from) \div 2

\* Faulty variant: the last cell of the range is not looked at.
NarrowedShort(s, v, r) ==
  IF r.from >= r.to \/ s.value[Middle(r)] = v THEN r
  ELSE IF v > s.value[Middle(r)] THEN [r EXCEPT !.from = Middle(r) + 1]
  ELSE [r EXCEPT !.to = Middle(r) - 1]

\* The range that a round of the binary search leaves.
Narrowed(s, v, r) ==
  IF r.from > r.to \/ s.value[Middle(r)] = v THEN r
  ELSE IF v > s.value[Middle(r)] THEN [r EXCEPT !.from = Middle(r) + 1]
  ELSE [r EXCEPT !.to = Middle(r) - 1]

\* The binary search that list_insert and list_binarySearch share: the cell
\* of v, or 0, and the cell where the search ended.
Search(s, v) ==
  LET range[n \in 0..s.size] ==
        IF n = 0 THEN [from |-> 0, to |-> s.rear]
        ELSE Narrowed(s, v, range[n - 1])
      last == range[s.size]
  IN  [found |-> IF last.from > last.to THEN 0 ELSE Middle(last),
       from |-> last.from]

\* Room for one more item behind rear.
Room(s) ==
  LET grown == IF s.rear + 1 > s.size - 1 THEN PoolReallocate(s) ELSE s
      t == IF s.rear + 2 < grown.size
           THEN [grown EXCEPT !.prev[s.rear + 2] = 0] ELSE grown
  IN  IF s.rear + 1 = s.size - 1 THEN SetFirstLastFree(s, 0, 0)
      ELSE [t EXCEPT !.next[0] = t.next[t.next[0]]]

\* The items from cell "from" on move up by one, then v takes their place.
Shove(s, from, v) ==
  LET moved == (from + 1)..(s.rear + 1)
      In(i) == i = from \/ i \in moved
  IN  [s EXCEPT
         !.value = [i \in DOMAIN @ |-> IF i = from THEN v
                      ELSE IF i \in moved THEN @[i - 1] ELSE @[i]],
         !.next = [i \in DOMAIN @ |-> IF i = s.rear + 1 THEN 0
                      ELSE IF In(i) THEN i + 1 ELSE @[i]],
         !.prev = [i \in DOMAIN @ |->
                      IF i = from THEN IF from = s.front THEN 0 ELSE from - 1
                      ELSE IF i \in moved THEN i - 1 ELSE @[i]],
         !.rear = @ + 1]

\* Faulty variant: a value equal to the last one is pushed again.
InsertedTwice(s, v) ==
  LET search == Search(s, v)
  IN  IF s.rear = 0 \/ s.value[s.rear] <= v THEN Pushed(s, v)
      ELSE IF search.found # 0 THEN s
      ELSE Shove(Room(s), search.from, v)

\* list_insert
Inserted(s, v) ==
  LET search == Search(s, v)
  IN  IF s.rear = 0 \/ s.value[s.rear] < v THEN Pushed(s, v)
      ELSE IF search.found # 0 THEN s
      ELSE Shove(Room(s), search.from, v)

\* Faulty variant: the cell given back is not chained to the next free one.
DeletedLoose(s, i) ==
  LET rear == s.rear
  IN  [s EXCEPT
         !.value = [j \in DOMAIN @ |-> IF j = rear THEN 0
                      ELSE IF j \in i..(rear - 1) THEN @[j + 1] ELSE @[j]],
         !.next = [j \in DOMAIN @ |->
                     IF j = rear - 1 \/ j = rear THEN 0
                     ELSE IF j = 0 THEN rear ELSE @[j]],
         !.prev[rear] = 0,
         !.rear = rear - 1]

\* list_delete
Deleted(s, i) ==
  LET rear == s.rear
      room == rear + 1 <= s.size - 1
      t == [s EXCEPT
              !.value = [j \in DOMAIN @ |-> IF j = rear THEN 0
                           ELSE IF j \in i..(rear - 1) THEN @[j + 1]
                           ELSE @[j]],
              !.next = [j \in DOMAIN @ |->
                          IF j = rear - 1 THEN 0
                          ELSE IF j = rear THEN IF room THEN rear + 1 ELSE 0
                          ELSE IF j = 0 THEN IF room THEN rear ELSE 0
                          ELSE @[j]],
              !.prev[rear] = 0,
              !.rear = rear - 1]
  IN  IF rear = i THEN Removed(s, i)
      ELSE IF room THEN [t EXCEPT !.prev[rear + 1] = rear] ELSE t

-----------------------------------------------------------------------------
Init ==
  /\ \E n \in InitialSizes : list = CreateList(n)
  /\ result = 0
  /\ asArray \in Uses

Call(newList, newResult) ==
  list' = newList /\ result' = newResult /\ UNCHANGED asArray

IsEmpty == list.front = 0 /\ list.rear = 0
Below == Len(Contents(list)) < MaxItems

Push(v) == ~asArray /\ Below /\ Call(Pushed(list, v), 0)

Shift == ~asArray /\ ~IsEmpty /\ Call(Shifted(list), list.value[list.front])

Pop == ~IsEmpty /\ Call(Popped(list), list.value[list.rear])

RemoveCell(i) == ~asArray /\ Call(Removed(list, i), 0)

Reset == Call(Emptied(list), 0)

Insert(v) == asArray /\ Below /\ Call(Inserted(list, v), 0)

Delete(i) ==
  /\ asArray
  /\ ~DeleteWhenFull => list.rear < list.size - 1 \/ list.rear = i
  /\ Call(Deleted(list, i), 0)

\* trie_collisionInArray: the list with one more child, which may be any,
\* is shown to trie_findFreeBase; then the child is taken off again.
PushPop(v) == asArray /\ Call(Popped(Pushed(list, v)), 0)

Next ==
  \/ \E v \in QueueValues : Push(v)
  \/ Shift
  \/ Pop
  \/ \E i \in ToSet(Cells(list)) : RemoveCell(i)
  \/ Reset
  \/ \E v \in Values : Insert(v)
  \/ \E i \in ToSet(Cells(list)) : Delete(i)
  \/ \E v \in Values : PushPop(v)

Spec == Init /\ [][Next]_vars

-----------------------------------------------------------------------------
(* Properties *)

TypeOK ==
  /\ list.size \in Nat \ {0}
  /\ list.front \in 0..(list.size - 1) /\ list.rear \in 0..(list.size - 1)
  /\ list.value \in [0..(list.size - 1) -> Values \union {0}]
  /\ list.next \in [0..(list.size - 1) -> 0..(list.size - 1)]
  /\ list.prev \in [0..(list.size - 1) -> 0..(list.size - 1) \union {Wrapped}]
  /\ result \in Values \union {0}
  /\ LET cells == Cells(list)
     IN  /\ (list.front = 0) <=> (list.rear = 0)
         /\ cells # << >> =>
              /\ Last(cells) = list.rear
              /\ list.next[list.rear] = 0 /\ list.prev[list.front] = 0
              /\ \A k \in 2..Len(cells) : list.prev[cells[k]] = cells[k - 1]

\* Every cell is in the list or free, not both; the free ones are chained in
\* ascending order up to the one cell 0 names as the last, so that an array
\* grows without a gap.
NoCellLost ==
  LET free == FreeCells(list)
  IN  /\ ToSet(free) = (1..(list.size - 1)) \ ToSet(Cells(list))
      /\ \A k \in 2..Len(free) :
           free[k - 1] < free[k] /\ list.prev[free[k]] = free[k - 1]
      /\ free # << >> => list.prev[0] = Last(free)

\* As a sorted array the list fills the cells from 1 to rear, which is also
\* its length (getListSize of dat.c), in ascending order.
SortedArray ==
  asArray =>
    /\ Cells(list) = [i \in 1..list.rear |-> i]
    /\ \A i \in 2..list.rear : list.value[i - 1] < list.value[i]

Promise == INSTANCE Collection WITH items <- Contents(list)

\* The list is a queue, a stack or a sorted array, whatever cells it uses.
ImplementsCollection == Promise!Spec

===============================================================================
