--------------------------------- MODULE Trie ---------------------------------
(***************************************************************************)
(* Construction of the double array trie (src/dat.c): trie_addNeedle and   *)
(* trie_addNeedleWithData with their three ways out of a collision.        *)
(*                                                                         *)
(* A cell in use is a record of base, check, its children list as the set  *)
(* of its characters (list_insert keeps it sorted and free of duplicates)  *)
(* and its entry of the user data list.  Free cells are those outside      *)
(* DOMAIN cells: module TriePool shows that the search for a free cell     *)
(* finds the lowest one above a node and that the pool never runs out of   *)
(* them, TailBuilder that a suffix goes into the lowest free tail cell.    *)
(*                                                                         *)
(* A step is one call of trie_storeNeedle or of a part of                  *)
(* trie_collisionInTail, so that what is true between two of them can be   *)
(* stated.                                                                 *)
(***************************************************************************)
EXTENDS TrieShape

CONSTANTS
  Needles,       \* the needles, as sequences of code points
  Data, Empty,   \* user data; emptyUserData, which trie_addNeedle stores
  Options,       \* the TrieOptions to build with
  MaxAdds        \* bound: calls of trie_addNeedle...

ASSUME TrieAssumption ==
  /\ Options \subseteq [useTail : BOOLEAN, useUserData : BOOLEAN]
  /\ Empty \in Data
  /\ MaxAdds \in Nat
  /\ Needles \subseteq Seq(Nat)
  /\ \A w \in Needles : \A k \in DOMAIN w : w[k] > END_OF_TEXT

Root == 1          \* TRIE_POOL_START

VARIABLES
  options,         \* useTail and useUserData
  cells,           \* the cells in use
  tail,            \* the tail cells in use: number |-> suffix
  pc,              \* "idle", "char": loop of addNeedle, "common", "tail":
                   \* in collisionInTail, "crashed"
  needle, data,    \* arguments of the call in progress
  index,           \* the next character of needle
  state,           \* lastState of the loop, nextState of collisionInTail
  tailIndex, tailData,   \* in collisionInTail: the suffix that is split,
                         \* and its user data (stateUserData)
  tailAt, common,  \* the next character of that suffix, the length of what
                   \* it has in common with the needle
  adds,            \* calls so far
  words            \* what the structure holds, as of the last return

structure == <<cells, tail>>
split == <<tailIndex, tailData, tailAt, common>>
call == <<options, needle, data, adds, words>>
vars == <<structure, pc, index, state, split, call>>

-----------------------------------------------------------------------------
\* The cells with a check above 0.
Taken(T) == DOMAIN T \ {Root}

\* trie_insertNode: the node, and its character in the list of its parent.
Insert(T, new, base, parent) ==
  LET Kids(i) == T[i].kids \union
                   IF i = parent THEN {new - T[parent].base} ELSE {}
  IN  [i \in DOMAIN T \union {new} |->
         IF i = new
         THEN [base |-> base, check |-> parent, kids |-> {}, data |-> Empty]
         ELSE [T[i] EXCEPT !.kids = Kids(i)]]

\* trie_findFreeBase: candidates put a free cell, the lowest first, at the
\* distance of the base above node (base++ beyond the last free cell).
FreeBase(T, node, chars) ==
  Min({b \in 1..Max(DOMAIN T) :
         node + b \notin Taken(T) /\ \A c \in chars : b + c \notin Taken(T)})

Children(T, i) == {T[i].base + c : c \in T[i].kids}

\* Where trie_moveBase puts cell i when parent gets the base freeBase.
NewPlace(T, parent, freeBase, i) ==
  IF i \in Children(T, parent) THEN i - T[parent].base + freeBase ELSE i

\* Faulty variant: the grandchildren keep the old check.
MoveAlone(T, parent, freeBase) ==
  LET Place(i) == NewPlace(T, parent, freeBase, i)
      Source(j) == CHOOSE i \in DOMAIN T : Place(i) = j
  IN  [j \in {Place(i) : i \in DOMAIN T} |->
         [T[Source(j)] EXCEPT !.base = IF j = parent THEN freeBase ELSE @]]

\* trie_moveBase, after the base of parent was set: its children move with
\* their lists and data, and the grandchildren get the new check.
MoveBase(T, parent, freeBase) ==
  LET Place(i) == NewPlace(T, parent, freeBase, i)
      Source(j) == CHOOSE i \in DOMAIN T : Place(i) = j
      Movers(i) == {m \in Children(T, parent) : i \in Children(T, m)}
  IN  [j \in {Place(i) : i \in DOMAIN T} |->
         [T[Source(j)] EXCEPT
            !.base = IF j = parent THEN freeBase ELSE @,
            !.check = IF Movers(Source(j)) = {} THEN @
                      ELSE Place(CHOOSE m \in Movers(Source(j)) : TRUE)]]

\* trie_collisionInArray: the smaller of two families moves, that of last
\* (with its new member) or that of the owner of the cell taken.
CollisionInArray(T, taken, newBase, last, char) ==
  LET owner == T[taken].check
      isBaseCollision ==
        Cardinality(T[last].kids) + 1 < Cardinality(T[owner].kids)
      parent == IF isBaseCollision THEN last ELSE owner
      chars == T[parent].kids \union (IF isBaseCollision THEN {char} ELSE {})
      freeBase == FreeBase(T, parent, chars)
      new == IF isBaseCollision THEN freeBase + char ELSE taken
  IN  [cells |-> Insert(MoveBase(T, parent, freeBase), new, newBase,
                        NewPlace(T, parent, freeBase, last)),
       state |-> new]

\* trie_storeCharacter
StoreCharacter(T, last, newBase, char) ==
  LET new == T[last].base + char
  IN  IF new \notin Taken(T)
      THEN [cells |-> Insert(T, new, newBase, last), state |-> new]
      ELSE IF T[new].check # last \/ T[new].base < 0
      THEN CollisionInArray(T, new, newBase, last, char)
      ELSE [cells |-> T, state |-> new]

SetData(T, i, value) == [T EXCEPT ![i].data = value]

\* Faulty variant: the end node gets no base.
InsertEndZero(T, last, value) ==
  LET end == StoreCharacter(T, last, 0, END_OF_TEXT)
  IN  IF options.useUserData THEN SetData(end.cells, end.state, value)
      ELSE end.cells

\* trie_insertEndOfText: the end node gets the base of its parent.
InsertEndOfText(T, last, value) ==
  LET end == StoreCharacter(T, last, T[last].base, END_OF_TEXT)
  IN  IF options.useUserData THEN SetData(end.cells, end.state, value)
      ELSE end.cells

\* tailBuilder_insertChars takes the lowest free cell.
FreeTail == Min((1..(Cardinality(DOMAIN tail) + 1)) \ DOMAIN tail)

\* Faulty variant: an empty suffix is stored too.
StoreTailAlways(rest) == (FreeTail :> Tail(rest)) @@ tail

\* The tail, with all but the first character of rest in it.
StoreTail(rest) ==
  IF Len(rest) > 1
  THEN [x \in DOMAIN tail \union {FreeTail} |->
          IF x = FreeTail THEN Tail(rest) ELSE tail[x]]
  ELSE tail

\* The base of the node of that first character.
TailBase(rest) == IF Len(rest) > 1 THEN -FreeTail ELSE 1

-----------------------------------------------------------------------------
(* What the trie holds, by the definition of a double array with a tail *)

\* The cell that char leads to from cell s, 0 if none.
Child(T, s, char) ==
  IF s # 0 /\ T[s].base > 0 /\ T[s].base + char \in Taken(T)
       /\ T[T[s].base + char].check = s
  THEN T[s].base + char ELSE 0

\* The cells that the characters of word lead to; the root before the first.
Path(T, word) ==
  LET path[k \in 0..Len(word)] ==
        IF k = 0 THEN Root ELSE Child(T, path[k - 1], word[k])
  IN  path

\* The cells that hold the end of word: an end of text, or a suffix.
Ends(T, suffixes, word) ==
  LET path == Path(T, word)
  IN  ({Child(T, path[Len(word)], END_OF_TEXT)} \ {0})
      \union
      {path[k] : k \in {k \in 1..(Len(word) - 1) :
         /\ path[k] # 0
         /\ -T[path[k]].base \in DOMAIN suffixes
         /\ suffixes[-T[path[k]].base] = SubSeq(word, k + 1, Len(word))}}

\* The words found, each with the data at its end.
Held(T, suffixes) ==
  UNION {{<<w, T[e].data>> : e \in Ends(T, suffixes, w)} : w \in Needles}

-----------------------------------------------------------------------------
\* createTrie
Init ==
  /\ options \in Options
  /\ cells = [i \in {Root} |->
                [base |-> 1, check |-> 0, kids |-> {}, data |-> Empty]]
  /\ tail = << >>
  /\ pc = "idle"
  /\ needle = << >> /\ data = Empty /\ index = 1 /\ state = Root
  /\ tailIndex = 0 /\ tailData = Empty /\ tailAt = 1 /\ common = 0
  /\ adds = 0 /\ words = {}

AddNeedle ==
  /\ pc = "idle"
  /\ adds < MaxAdds
  /\ pc' = "char"
  /\ adds' = adds + 1
  /\ needle' \in Needles /\ data' \in Data /\ index' = 1 /\ state' = Root
  /\ UNCHANGED <<options, structure, split, words>>

-----------------------------------------------------------------------------
(* trie_storeNeedle *)

\* The cell of the next character.
NewState == cells[state].base + needle[index]

Storing == pc = "char" /\ index <= Len(needle)

GoOn(newState) ==
  /\ state' = newState
  /\ index' = index + 1
  /\ UNCHANGED <<pc, split, call>>

\* The call returns, and its local variables and arguments are gone.
EndCall(newPc) ==
  /\ pc' = newPc
  /\ needle' = << >> /\ data' = Empty /\ index' = 1 /\ state' = Root
  /\ tailIndex' = 0 /\ tailData' = Empty /\ tailAt' = 1 /\ common' = 0
  /\ words' = Held(cells', tail')
  /\ UNCHANGED <<options, adds>>

\* trie_insertBranch stores the rest of the needle.  Its userDataList_set is
\* not guarded by useUserData: without a list it writes through NULL.
InsertBranch ==
  /\ Storing /\ options.useTail
  /\ NewState \notin Taken(cells)
  /\ LET rest == SubSeq(needle, index, Len(needle))
         T == SetData(Insert(cells, NewState, TailBase(rest), state),
                      NewState, data)
     IN  /\ tail' = StoreTail(rest)
         /\ cells' = IF TailBase(rest) > 0
                     THEN InsertEndOfText(T, NewState, data) ELSE T
  /\ EndCall(IF options.useUserData THEN "idle" ELSE "crashed")

InsertNode ==
  /\ Storing /\ ~options.useTail
  /\ NewState \notin Taken(cells)
  /\ cells' = Insert(cells, NewState, 1, state)
  /\ GoOn(NewState)
  /\ UNCHANGED tail

Collide ==
  /\ Storing
  /\ NewState \in Taken(cells)
  /\ cells[NewState].check # state
  /\ LET r == CollisionInArray(cells, NewState, 1, state, needle[index])
     IN  cells' = r.cells /\ GoOn(r.state)
  /\ UNCHANGED tail

Follow ==
  /\ Storing
  /\ NewState \in Taken(cells)
  /\ cells[NewState].check = state
  /\ ~(cells[NewState].base < 0 /\ options.useTail)
  /\ GoOn(NewState)
  /\ UNCHANGED structure

\* The end of the needle: trie_insertEndOfText.
EndOfNeedle ==
  /\ pc = "char" /\ index > Len(needle)
  /\ cells' = InsertEndOfText(cells, state, data)
  /\ UNCHANGED tail
  /\ EndCall("idle")

-----------------------------------------------------------------------------
(* trie_collisionInTail *)

CommonLength(s, t) ==
  Max({k \in 0..Min({Len(s), Len(t)}) : SubSeq(s, 1, k) = SubSeq(t, 1, k)})

\* The state has a suffix: the same one, and nothing is stored, or another.
CollisionInTail ==
  /\ Storing /\ options.useTail
  /\ NewState \in Taken(cells)
  /\ cells[NewState].check = state /\ cells[NewState].base < 0
  /\ LET suffix == tail[-cells[NewState].base]
         rest == SubSeq(needle, index + 1, Len(needle))
     IN  \/ /\ suffix = rest
            /\ UNCHANGED structure
            /\ EndCall("idle")
         \/ /\ suffix # rest
            /\ cells' = [cells EXCEPT ![NewState].base = 1]
            /\ pc' = "common"
            /\ state' = NewState
            /\ tailIndex' = -cells[NewState].base
            /\ tailData' = cells[NewState].data
            /\ tailAt' = 1
            /\ common' = CommonLength(suffix, rest)
            /\ index' = index + 1 + common'
            /\ UNCHANGED <<tail, call>>

\* One round of trie_collisionInTail_common.
StoreCommon ==
  /\ pc = "common" /\ tailAt <= common
  /\ LET r == StoreCharacter(cells, state, 1, tail[tailIndex][tailAt])
     IN  cells' = r.cells /\ state' = r.state
  /\ tailAt' = tailAt + 1
  /\ UNCHANGED <<tail, pc, index, tailIndex, tailData, common, call>>

\* Faulty variant: the state is not read again after it may have moved.
BranchStale(rest, value) ==
  IF rest = << >>
  THEN [cells |-> InsertEndOfText(cells, state, value), state |-> state]
  ELSE LET r == StoreCharacter(cells, state, TailBase(rest), Head(rest))
           T == SetData(r.cells, r.state, value)
       IN  [cells |-> IF Len(rest) = 1
                      THEN InsertEndOfText(T, r.state, value) ELSE T,
            state |-> state]

\* The common part of trie_collisionInTail_needle and _tail: rest becomes a
\* branch of state; the state returned is the parent of its first node.
Branch(rest, value) ==
  IF rest = << >>
  THEN [cells |-> InsertEndOfText(cells, state, value), state |-> state]
  ELSE LET r == StoreCharacter(cells, state, TailBase(rest), Head(rest))
           T == SetData(r.cells, r.state, value)
       IN  [cells |-> IF Len(rest) = 1
                      THEN InsertEndOfText(T, r.state, value) ELSE T,
            state |-> T[r.state].check]

\* trie_collisionInTail_needle
BranchNeedle ==
  /\ pc = "common" /\ tailAt > common
  /\ LET rest == SubSeq(needle, index, Len(needle))
         r == Branch(rest, data)
     IN  /\ tail' = StoreTail(rest)
         /\ cells' = r.cells
         /\ state' = r.state
  /\ pc' = "tail"
  /\ UNCHANGED <<index, split, call>>

\* trie_collisionInTail_tail, then tailBuilder_freeCell.
BranchTail ==
  /\ pc = "tail"
  /\ LET suffix == tail[tailIndex]
         rest == SubSeq(suffix, tailAt, Len(suffix))
         grown == StoreTail(rest)
     IN  /\ tail' = [i \in DOMAIN grown \ {tailIndex} |-> grown[i]]
         /\ cells' = Branch(rest, tailData).cells
  /\ EndCall("idle")

Next ==
  \/ AddNeedle
  \/ InsertBranch
  \/ InsertNode
  \/ Collide
  \/ Follow
  \/ EndOfNeedle
  \/ CollisionInTail
  \/ StoreCommon
  \/ BranchNeedle
  \/ BranchTail

Spec == Init /\ [][Next]_vars

-----------------------------------------------------------------------------
(* Properties *)

TypeOK ==
  /\ Root \in DOMAIN cells /\ DOMAIN cells \subseteq Nat \ {0}
  /\ \A i \in DOMAIN cells :
       /\ cells[i].base \in Int \ {0}
       /\ cells[i].check \in Nat
       /\ cells[i].kids \subseteq Nat
       /\ cells[i].data \in Data
  /\ DOMAIN tail \subseteq Nat \ {0}
  /\ pc \in {"idle", "char", "common", "tail", "crashed"}
  /\ needle \in Needles \union {<< >>} /\ data \in Data
  /\ index \in 1..(Len(needle) + 1)
  /\ state \in DOMAIN cells
  /\ adds \in 0..MaxAdds /\ options \in Options

\* base, check and the children lists tell one and the same tree, in every
\* state between two calls: a cell is where the base of its parent puts it,
\* the parent lists it, and what a cell lists is its child.  trie_moveBase
\* moves exactly what the list says, so a missing or stale entry would leave
\* a child behind or tear one from another parent.
DoubleArray ==
  /\ \A i \in Taken(cells) :
       /\ cells[i].check \in DOMAIN cells
       /\ i - cells[cells[i].check].base \in cells[cells[i].check].kids
  /\ \A i \in DOMAIN cells : \A c \in cells[i].kids :
       /\ cells[i].base + c \in Taken(cells)
       /\ cells[cells[i].base + c].check = i

\* Every suffix has one state, every state with a negative base has a suffix
\* of its own and no children; the suffix that is being split belongs to
\* nobody (tailBuilder_freeCell frees it at the end, once).
TailLinks ==
  LET leaves == {i \in DOMAIN cells : cells[i].base < 0}
      loose == IF pc \in {"common", "tail"} THEN {tailIndex} ELSE {}
  IN  /\ {-cells[i].base : i \in leaves} = DOMAIN tail \ loose
      /\ Cardinality(leaves) = Cardinality(DOMAIN tail \ loose)
      /\ loose \subseteq DOMAIN tail
      /\ \A i \in leaves : cells[i].kids = {}

\* Between two calls the cells are exactly those that lead to the ends of
\* the words, whatever the order in which they were added and what they
\* collided with: none is left over from a suffix that was split, no word
\* ends twice, and without a tail the words alone tell the cells.
ShapeOfWords ==
  LET word[i \in DOMAIN cells] ==
        IF i = Root THEN << >>
        ELSE Append(word[cells[i].check], i - cells[cells[i].check].base)
      nodes == {word[i] : i \in DOMAIN cells}
      held == {pair[1] : pair \in words}
      found(w) == EndCells(held, options.useTail, w) \intersect nodes
      end(w) == CHOOSE e \in found(w) : \A o \in found(w) : Len(o) <= Len(e)
  IN  pc = "idle" =>
        /\ \A w \in held : found(w) # {}
        /\ nodes = Nodes({end(w) : w \in held})

Promise == INSTANCE Dictionary WITH
  request <- IF pc = "idle" THEN {} ELSE {<<needle, data>>}

\* Construction implements Dictionary: after each call the trie holds what it
\* held before and the needle, each with its data, and nothing else.
ImplementsDictionary == Promise!Spec

=============================================================================
