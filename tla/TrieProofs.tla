------------------------------ MODULE TrieProofs ------------------------------
(***************************************************************************)
(* The construction of the trie is correct in every state between two      *)
(* steps, for all needles, data, options and numbers of calls: the types,  *)
(* DoubleArray and TailLinks.  With user data it implements Dictionary.    *)
(*                                                                         *)
(* The lemmas say what the operators of module Trie keep, for every trie:  *)
(* insertion, trie_moveBase, trie_collisionInArray, trie_storeCharacter,   *)
(* the end of a text, the tail and the branches of trie_collisionInTail.   *)
(* Tree states what holds of the cells after each of these; Linked that    *)
(* the leaves and the suffixes belong together; and Grown relates a trie   *)
(* to the one before a character was inserted, by a function P that tells  *)
(* where each cell has gone.                                               *)
(*                                                                         *)
(* IInv adds to these what the call in progress relies on.  Why the state  *)
(* of trie_collisionInTail_needle is where it is thought to be at the end: *)
(* it is read again after the character was stored, but not after the end  *)
(* of text.  That one is put below a node with the base 1, so it goes to   *)
(* cell 4, and a cell that has to leave from there is an end of text       *)
(* itself.                                                                 *)
(*                                                                         *)
(* DInv says what the trie holds in the middle of a call: words, but for   *)
(* the word whose suffix is being split, which is missing from             *)
(* trie_collisionInTail on until trie_collisionInTail_tail, and for the    *)
(* needle, which is found as soon as it has got its branch.  The lemmas    *)
(* about the ways of words say that nothing that moves takes a word away   *)
(* or adds one.                                                            *)
(***************************************************************************)
EXTENDS Trie, TLAPS, WellFoundedInduction, FiniteSetTheorems, SequenceTheorems

-----------------------------------------------------------------------------
(* The tree *)

Cell == [base : Int, check : Nat, kids : SUBSET Nat, data : Data]

\* What holds of the cells between any two calls that touch them: DoubleArray;
\* no cell is its own parent; leaves are bare; an end of text is no leaf.
Tree(T) ==
  /\ T \in [DOMAIN T -> Cell] /\ DOMAIN T \subseteq Nat
  /\ Root \in DOMAIN T /\ T[Root].base > 0
  /\ \E max \in DOMAIN T : \A i \in DOMAIN T : 1 <= i /\ i <= max
  /\ \A i \in DOMAIN T :
       /\ T[i].base # 0
       /\ T[i].base < 0 => T[i].kids = {}
       /\ END_OF_TEXT \in T[i].kids => T[T[i].base + END_OF_TEXT].base > 0
  /\ \A i \in Taken(T) :
       /\ T[i].check \in DOMAIN T /\ T[i].check # i
       /\ i - T[T[i].check].base \in T[T[i].check].kids
  /\ \A i \in DOMAIN T : \A c \in T[i].kids :
       /\ c >= END_OF_TEXT
       /\ T[i].base + c \in Taken(T)
       /\ T[T[i].base + c].check = i

\* The leaves and the suffixes X belong together one to one.
Linked(T, X) ==
  /\ \A i \in DOMAIN T : T[i].base < 0 => -T[i].base \in X
  /\ \A x \in X : \E i \in DOMAIN T : T[i].base = -x
  /\ \A i, j \in DOMAIN T :
       T[i].base < 0 /\ T[i].base = T[j].base => i = j

\* A cell that no end of text leads to.
Inner(T, i) == i = Root \/ i - T[T[i].check].base > END_OF_TEXT

\* Suffixes, numbered from 1; only characters of needles are in them.
SuffixesOK(t) ==
  /\ IsFiniteSet(DOMAIN t) /\ DOMAIN t \subseteq Nat
  /\ \A x \in DOMAIN t :
       /\ x > 0 /\ t[x] \in Seq(Nat)
       /\ \A k \in DOMAIN t[x] : t[x][k] > END_OF_TEXT

-----------------------------------------------------------------------------
(* Minimum, maximum and free base *)

\* The naturals are well founded.
LEMMA Least ==
  ASSUME NEW S, S \subseteq Nat, S # {}
  PROVE  \E m \in S : \A x \in S : m <= x
<1> DEFINE R == OpToRel(<, Nat)
<1>1. IsWellFoundedOn(R, Nat)
  BY NatLessThanWellFounded
<1>2. \A x, y \in Nat : x < y => <<x, y>> \in R
  BY Zenon DEF OpToRel
<1> HIDE DEF R
<1>3. PICK m \in S : \A y \in S : ~(<<y, m>> \in R)
  BY <1>1, WFMin
<1>4. \A x \in S : m <= x
  <2> SUFFICES ASSUME NEW x \in S PROVE m <= x
    OBVIOUS
  <2>1. m \in Nat /\ x \in Nat
    OBVIOUS
  <2>2. ~(x < m)
    BY <1>2, <1>3, <2>1
  <2> QED BY SMT, <2>1, <2>2
<1> QED BY <1>4

\* Min is the least of a set of naturals,
LEMMA MinIsLeast ==
  ASSUME NEW S, S \subseteq Nat, S # {}
  PROVE  Min(S) \in S /\ \A x \in S : Min(S) <= x
BY Zenon, Least DEF Min

\* A bounded set of naturals has a greatest member,
LEMMA Greatest ==
  ASSUME NEW S, S \subseteq Nat, S # {}, NEW n \in Nat, \A x \in S : x <= n
  PROVE  \E m \in S : \A x \in S : x <= m
<1> DEFINE U == {u \in Nat : \A x \in S : x <= u}
<1>1. U \subseteq Nat /\ U # {}
  OBVIOUS
<1>2. PICK m \in U : \A u \in U : m <= u
  BY <1>1, Least
<1>3. m \in S
  <2> SUFFICES ASSUME m \notin S PROVE FALSE
    OBVIOUS
  <2>1. m # 0
    <3> SUFFICES ASSUME m = 0 PROVE FALSE
      OBVIOUS
    <3>1. PICK x \in S : TRUE
      OBVIOUS
    <3>2. x \in Nat /\ x <= 0
      OBVIOUS
    <3>3. x = 0
      BY SMT, <3>2
    <3> QED BY <3>3
  <2>2. m - 1 \in Nat
    BY SMT, <2>1
  <2>3. \A x \in S : x <= m - 1
    <3> SUFFICES ASSUME NEW x \in S PROVE x <= m - 1
      OBVIOUS
    <3>1. x \in Nat /\ x <= m /\ x # m /\ m \in Nat
      OBVIOUS
    <3> QED BY SMT, <3>1
  <2>4. m - 1 \in U
    BY <2>2, <2>3
  <2>5. m <= m - 1 /\ m \in Nat
    BY <1>2, <2>4
  <2> QED BY SMT, <2>5
<1> QED BY <1>2, <1>3

\* and Max is that one.
LEMMA MaxIsGreatest ==
  ASSUME NEW S, S \subseteq Nat, S # {}, NEW n \in Nat, \A x \in S : x <= n
  PROVE  Max(S) \in S /\ \A x \in S : x <= Max(S)
<1>1. PICK m \in S : \A x \in S : x <= m
  BY Greatest
<1>2. \A x \in S : m >= x
  BY <1>1
<1>3. Max(S) \in S /\ \A x \in S : Max(S) >= x
  BY Zenon, <1>2 DEF Max
<1> QED BY <1>3

\* trie_findFreeBase finds a base
LEMMA FreeBaseIsFree ==
  ASSUME NEW T, Tree(T), NEW node \in DOMAIN T,
         NEW chars, \A c \in chars : c \in Nat /\ c >= END_OF_TEXT
  PROVE  /\ FreeBase(T, node, chars) \in Nat /\ FreeBase(T, node, chars) > 0
         /\ \A c \in chars : FreeBase(T, node, chars) + c \notin Taken(T)
<1> DEFINE M == Max(DOMAIN T)
           S == {b \in 1..M : /\ node + b \notin Taken(T)
                              /\ \A c \in chars : b + c \notin Taken(T)}
<1>1. DOMAIN T \subseteq Nat /\ node \in Nat /\ node >= 1
  BY DEF Tree
<1>2. PICK n \in DOMAIN T : \A i \in DOMAIN T : 1 <= i /\ i <= n
  BY DEF Tree
<1>3. M \in Nat /\ M >= 1 /\ \A i \in DOMAIN T : i <= M
  BY <1>1, <1>2, MaxIsGreatest
<1> HIDE DEF M
<1>4. \A k \in Nat : k > M => k \notin Taken(T)
  BY SMT, <1>1, <1>3 DEF Taken
<1>5. M \in S
  <2>1. M \in 1..M /\ node + M \in Nat /\ node + M > M
    BY SMT, <1>1, <1>3
  <2>2. \A c \in chars : M + c \in Nat /\ M + c > M
    BY SMT, <1>3 DEF END_OF_TEXT
  <2> QED BY <1>4, <2>1, <2>2
<1>6. S \subseteq Nat
  BY SMT, <1>3
<1>7. Min(S) \in S
  BY <1>5, <1>6, MinIsLeast
<1>8. FreeBase(T, node, chars) = Min(S)
  BY DEF FreeBase, M
<1>9. Min(S) \in 1..M /\ \A c \in chars : Min(S) + c \notin Taken(T)
  BY <1>7
<1> HIDE DEF S
<1> QED BY SMT, <1>3, <1>8, <1>9

-----------------------------------------------------------------------------
(* trie_insertNode *)

\* The types of the fields of a cell.
LEMMA CellFields ==
  ASSUME NEW T, Tree(T), NEW i \in DOMAIN T
  PROVE  /\ i \in Nat /\ i > 0
         /\ T[i] \in Cell
         /\ T[i].base \in Int /\ T[i].base # 0 /\ T[i].check \in Nat
         /\ T[i].kids \subseteq Nat /\ T[i].data \in Data
<1>1. T[i] \in Cell
  BY DEF Tree
<1>2. i \in Nat /\ i >= 1 /\ T[i].base # 0
  BY DEF Tree
<1>3. i > 0
  BY SMT, <1>2
<1> QED BY Zenon, <1>1, <1>2, <1>3 DEF Cell

\* A cell with another list of children.
Listing(r, k) == [r EXCEPT !.kids = k]

\* Only the list differs.
LEMMA ListingFields ==
  ASSUME NEW r, r \in Cell, NEW k, k \subseteq Nat
  PROVE  /\ Listing(r, k).base = r.base /\ Listing(r, k).check = r.check
         /\ Listing(r, k).kids = k /\ Listing(r, k).data = r.data
         /\ Listing(r, k) \in Cell
BY DEF Cell, Listing

\* What the insertion of character c below parent adds to the list of i.
Added(i, parent, c) == IF i = parent THEN {c} ELSE {}

\* U is T with the node new where c leads from parent.
Inserted(T, U, parent, c, base, new) ==
  /\ Tree(U) /\ new \notin DOMAIN T
  /\ DOMAIN U = DOMAIN T \union {new}
  /\ \A i \in DOMAIN T :
       /\ U[i].base = T[i].base /\ U[i].check = T[i].check
       /\ U[i].data = T[i].data
       /\ U[i].kids = T[i].kids \union Added(i, parent, c)
  /\ U[new].base = base /\ U[new].check = parent
  /\ U[new].kids = {} /\ U[new].data = Empty

\* trie_insertNode keeps the tree.
LEMMA InsertTree ==
  ASSUME NEW T, Tree(T), NEW parent \in DOMAIN T, T[parent].base > 0,
         NEW c \in Nat, c >= END_OF_TEXT,
         NEW new, new = T[parent].base + c, new \notin Taken(T),
         NEW base \in Int, base # 0, c = END_OF_TEXT => base > 0,
         NEW U, U = Insert(T, new, base, parent)
  PROVE  Inserted(T, U, parent, c, base, new)
<1>0. T \in [DOMAIN T -> Cell]
  BY DEF Tree
<1>1. /\ parent \in Nat /\ T[parent].base \in Int
      /\ new - T[parent].base = c /\ new \in Nat /\ new > 3
  <2>1. parent \in Nat /\ T[parent].base \in Int
    BY CellFields
  <2> QED BY SMT, <2>1 DEF END_OF_TEXT
<1>2. new \notin DOMAIN T
  BY SMT, <1>1 DEF Taken, Root
<1>3. /\ DOMAIN U = DOMAIN T \union {new}
      /\ U[new] = [base |-> base, check |-> parent, kids |-> {},
                   data |-> Empty]
      /\ U = [i \in DOMAIN U |-> U[i]]
      /\ \A i \in DOMAIN T :
           U[i] = Listing(T[i], T[i].kids \union Added(i, parent, c))
  <2>1. c = new - T[parent].base
    BY <1>1
  <2>2. /\ DOMAIN U = DOMAIN T \union {new}
        /\ U = [i \in DOMAIN U |-> U[i]]
        /\ U[new] = [base |-> base, check |-> parent, kids |-> {},
                     data |-> Empty]
        /\ \A i \in DOMAIN T : i # new =>
             U[i] = Listing(T[i], T[i].kids \union Added(i, parent, c))
    BY Zenon, <2>1 DEF Insert, Listing, Added
  <2> QED BY Zenon, <1>2, <2>2
<1>4. \A i \in DOMAIN T :
         /\ U[i] \in Cell
         /\ U[i].base = T[i].base /\ U[i].check = T[i].check
         /\ U[i].data = T[i].data
         /\ U[i].kids = T[i].kids \union Added(i, parent, c)
  <2> SUFFICES ASSUME NEW i \in DOMAIN T
               PROVE /\ U[i] \in Cell
                     /\ U[i].base = T[i].base /\ U[i].check = T[i].check
                     /\ U[i].data = T[i].data
                     /\ U[i].kids = T[i].kids \union Added(i, parent, c)
    OBVIOUS
  <2>1. T[i] \in Cell /\ T[i].kids \subseteq Nat
    BY CellFields
  <2> DEFINE k == T[i].kids \union Added(i, parent, c)
  <2>2. U[i] = Listing(T[i], k)
    BY <1>3
  <2>3. k \subseteq Nat
    BY <2>1 DEF Added
  <2> HIDE DEF k
  <2>4. /\ U[i].base = T[i].base /\ U[i].check = T[i].check
        /\ U[i].kids = k /\ U[i].data = T[i].data /\ U[i] \in Cell
    <3>1. /\ Listing(T[i], k).base = T[i].base
          /\ Listing(T[i], k).check = T[i].check
          /\ Listing(T[i], k).kids = k /\ Listing(T[i], k).data = T[i].data
          /\ Listing(T[i], k) \in Cell
      BY Zenon, <2>1, <2>3, ListingFields
    <3> QED BY Zenon, <2>2, <3>1
  <2> QED BY <2>4 DEF k
<1>5. /\ U[new] \in Cell /\ U[new].base = base /\ U[new].check = parent
      /\ U[new].kids = {} /\ U[new].data = Empty
  BY <1>1, <1>3, TrieAssumption DEF Cell
<1>6. Tree(U)
  <2>1. /\ U \in [DOMAIN U -> Cell] /\ DOMAIN U \subseteq Nat
        /\ Root \in DOMAIN U /\ U[Root].base > 0
    <3>1. \A i \in DOMAIN U : U[i] \in Cell
      BY Zenon, <1>3, <1>4, <1>5
    <3>2. U \in [DOMAIN U -> Cell]
      BY Zenon, <1>3, <3>1
    <3> QED BY <1>1, <1>3, <1>4, <3>2 DEF Tree
  <2>2. \E max \in DOMAIN U : \A i \in DOMAIN U : 1 <= i /\ i <= max
    <3>1. PICK max \in DOMAIN T : \A i \in DOMAIN T : 1 <= i /\ i <= max
      BY DEF Tree
    <3>2. max \in Nat /\ DOMAIN T \subseteq Nat
      BY DEF Tree
    <3> DEFINE D == DOMAIN U
    <3>d. D = DOMAIN T \union {new}
      BY <1>3
    <3> HIDE DEF D
    <3> SUFFICES \E m \in D : \A i \in D : 1 <= i /\ i <= m
      BY DEF D
    <3>3. CASE new <= max
      BY <1>1, <3>1, <3>2, <3>3, <3>d
    <3>4. CASE ~(new <= max)
      <4>1. \A i \in D : 1 <= i /\ i <= new
        BY <1>1, <3>1, <3>2, <3>4, <3>d
      <4> QED BY <4>1, <3>d
    <3> QED BY <3>3, <3>4
  <2>3. Taken(U) = Taken(T) \union {new}
    BY SMT, <1>1, <1>3 DEF Taken, Root
  <2>4. \A k \in T[parent].kids : T[parent].base + k # new
    BY DEF Tree
  <2>5. ASSUME NEW i \in DOMAIN U, NEW k \in U[i].kids
        PROVE  /\ k >= END_OF_TEXT
               /\ U[i].base + k \in Taken(U)
               /\ U[U[i].base + k].check = i
    <3>1. i \in DOMAIN T
      BY <1>3, <1>5, <2>5
    <3>2. CASE k \in T[i].kids
      <4>1. k >= END_OF_TEXT /\ T[i].base + k \in Taken(T)
            /\ T[T[i].base + k].check = i
        BY <3>1, <3>2 DEF Tree
      <4> QED BY <1>4, <2>3, <3>1, <4>1 DEF Taken
    <3>3. CASE k \notin T[i].kids
      <4>1. i = parent /\ k = c
        BY <1>4, <2>5, <3>1, <3>3 DEF Added
      <4> QED BY <1>4, <1>5, <2>3, <4>1
    <3> QED BY <3>2, <3>3
  <2>6. ASSUME NEW i \in Taken(U)
        PROVE  /\ U[i].check \in DOMAIN U /\ U[i].check # i
               /\ i - U[U[i].check].base \in U[U[i].check].kids
    <3>1. CASE i = new
      BY <1>1, <1>2, <1>3, <1>4, <1>5, <3>1 DEF Added
    <3>2. CASE i \in Taken(T)
      <4>1. /\ T[i].check \in DOMAIN T /\ T[i].check # i
            /\ i - T[T[i].check].base \in T[T[i].check].kids
        BY <3>2 DEF Tree
      <4>2. i \in DOMAIN T
        BY <3>2 DEF Taken
      <4> QED BY <1>3, <1>4, <4>1, <4>2
    <3> QED BY <2>3, <3>1, <3>2
  <2>7. ASSUME NEW i \in DOMAIN U
        PROVE  /\ U[i].base # 0
               /\ U[i].base < 0 => U[i].kids = {}
               /\ END_OF_TEXT \in U[i].kids =>
                    U[U[i].base + END_OF_TEXT].base > 0
    <3>1. CASE i = new
      BY <1>5, <3>1
    <3>2. CASE i \in DOMAIN T
      <4>1. U[i].base # 0
        BY <1>4, <3>2 DEF Tree
      <4>2. U[i].base < 0 => U[i].kids = {}
        <5>1. CASE i = parent
          <6>1. ~(T[parent].base < 0)
            BY SMT, <1>1
          <6> QED BY <1>4, <3>2, <5>1, <6>1
        <5>2. CASE i # parent
          BY <1>4, <3>2, <5>2 DEF Tree, Added
        <5> QED BY <5>1, <5>2
      <4>3. ASSUME END_OF_TEXT \in U[i].kids
            PROVE  U[U[i].base + END_OF_TEXT].base > 0
        <5>1. CASE END_OF_TEXT \in T[i].kids
          <6>1. T[i].base + END_OF_TEXT \in DOMAIN T
                /\ T[T[i].base + END_OF_TEXT].base > 0
            BY <3>2, <5>1 DEF Tree, Taken
          <6> QED BY <1>4, <3>2, <6>1
        <5>2. CASE END_OF_TEXT \notin T[i].kids
          <6>1. i = parent /\ END_OF_TEXT = c
            BY <1>4, <3>2, <4>3, <5>2 DEF Added
          <6> QED BY <1>4, <1>5, <6>1
        <5> QED BY <5>1, <5>2
      <4> QED BY <4>1, <4>2, <4>3
    <3> QED BY <1>3, <3>1, <3>2
  <2> QED BY <2>1, <2>2, <2>5, <2>6, <2>7 DEF Tree
<1> QED BY <1>2, <1>3, <1>4, <1>5, <1>6 DEF Inserted

-----------------------------------------------------------------------------
(* trie_moveBase *)

\* The children of p are the cells whose check is p.
LEMMA ChildrenFacts ==
  ASSUME NEW T, Tree(T), NEW p \in DOMAIN T
  PROVE  /\ \A m \in Children(T, p) :
              /\ m \in Taken(T) /\ m \in DOMAIN T /\ T[m].check = p
              /\ m - T[p].base \in T[p].kids
         /\ \A m \in Taken(T) : T[m].check = p => m \in Children(T, p)
         /\ p \notin Children(T, p) /\ Root \notin Children(T, p)
<1>1. ASSUME NEW m \in Children(T, p)
      PROVE  /\ m \in Taken(T) /\ m \in DOMAIN T /\ T[m].check = p
             /\ m - T[p].base \in T[p].kids
  <2>1. PICK c \in T[p].kids : m = T[p].base + c
    BY DEF Children
  <2>2. m \in Taken(T) /\ T[m].check = p
    BY <2>1 DEF Tree
  <2>3. c \in Nat /\ T[p].base \in Int
    BY CellFields
  <2>4. m - T[p].base = c
    BY SMT, <2>1, <2>3
  <2> QED BY <2>1, <2>2, <2>4 DEF Taken
<1>2. ASSUME NEW m \in Taken(T), T[m].check = p PROVE m \in Children(T, p)
  <2>1. m - T[p].base \in T[p].kids /\ m \in DOMAIN T
    BY <1>2 DEF Tree, Taken
  <2>2. m \in Nat /\ T[p].base \in Int
    BY <2>1, CellFields
  <2>3. m = T[p].base + (m - T[p].base)
    BY SMT, <2>2
  <2> QED BY <2>1, <2>3 DEF Children
<1>3. p \notin Children(T, p)
  BY <1>1 DEF Tree
<1>4. Root \notin Children(T, p)
  BY <1>1 DEF Taken
<1> QED BY <1>1, <1>2, <1>3, <1>4

\* What trie_moveBase does to a cell.
Moved(r, base, check) == [r EXCEPT !.base = base, !.check = check]

\* Only base and check differ.
LEMMA MovedFields ==
  ASSUME NEW r, r \in Cell, NEW base, base \in Int, NEW check, check \in Nat
  PROVE  /\ Moved(r, base, check).base = base
         /\ Moved(r, base, check).check = check
         /\ Moved(r, base, check).kids = r.kids
         /\ Moved(r, base, check).data = r.data
         /\ Moved(r, base, check) \in Cell
BY DEF Cell, Moved

\* Where cells go: no two to one place, none to a cell that was taken.
LEMMA Places ==
  ASSUME NEW T, Tree(T), NEW p \in DOMAIN T,
         NEW fb \in Nat, fb > 0,
         \A c \in T[p].kids : fb + c \notin Taken(T),
         NEW P, P = [i \in DOMAIN T |-> NewPlace(T, p, fb, i)]
  PROVE  /\ DOMAIN P = DOMAIN T
         /\ \A i \in DOMAIN T :
              /\ P[i] \in Nat /\ P[i] > 0
              /\ i \in Children(T, p) =>
                   /\ P[i] = fb + (i - T[p].base)
                   /\ P[i] \notin Taken(T) /\ P[i] # Root
              /\ i \notin Children(T, p) => P[i] = i
         /\ \A i, j \in DOMAIN T : P[i] = P[j] => i = j
         /\ P[p] = p /\ P[Root] = Root
<1>1. \A i \in DOMAIN T :
        P[i] = IF i \in Children(T, p) THEN i - T[p].base + fb ELSE i
  BY DEF NewPlace
<1>2. T[p].base \in Int /\ \A i \in DOMAIN T : i \in Nat /\ i > 0
  BY CellFields
<1>3. ASSUME NEW i \in DOMAIN T, i \in Children(T, p)
      PROVE  /\ P[i] = fb + (i - T[p].base) /\ P[i] \in Nat /\ P[i] > 3
             /\ P[i] \notin Taken(T) /\ P[i] # Root
  <2>1. i - T[p].base \in T[p].kids
    BY <1>3, ChildrenFacts
  <2>2. i - T[p].base \in Nat /\ i - T[p].base >= END_OF_TEXT
    BY <2>1, CellFields DEF Tree
  <2>3. P[i] = i - T[p].base + fb
    BY <1>1, <1>3
  <2>4. P[i] = fb + (i - T[p].base) /\ P[i] \in Nat /\ P[i] > 3
    BY SMT, <1>2, <2>2, <2>3 DEF END_OF_TEXT
  <2>5. P[i] # Root
    BY SMT, <2>4 DEF Root
  <2> QED BY <2>1, <2>4, <2>5
<1>4. ASSUME NEW i \in DOMAIN T, i \notin Children(T, p)
      PROVE  P[i] = i /\ P[i] \in Nat /\ P[i] > 0
  BY <1>1, <1>2, <1>4
<1>5. ASSUME NEW i \in DOMAIN T, NEW j \in DOMAIN T, P[i] = P[j]
      PROVE  i = j
  <2>1. CASE i \in Children(T, p) /\ j \in Children(T, p)
    <3>1. P[i] = fb + (i - T[p].base) /\ P[j] = fb + (j - T[p].base)
      BY <1>3, <2>1
    <3> QED BY SMT, <1>2, <1>5, <3>1
  <2>2. CASE i \notin Children(T, p) /\ j \notin Children(T, p)
    BY <1>4, <1>5, <2>2
  <2>3. ASSUME NEW x \in DOMAIN T, NEW y \in DOMAIN T, P[x] = P[y],
               x \in Children(T, p), y \notin Children(T, p)
        PROVE  FALSE
    <3>1. P[x] \notin Taken(T) /\ P[x] # Root
      BY <1>3, <2>3
    <3>2. P[y] = y
      BY <1>4, <2>3
    <3> QED BY <2>3, <3>1, <3>2 DEF Taken
  <2> QED BY <1>5, <2>1, <2>2, <2>3
<1>6. P[p] = p /\ P[Root] = Root
  <2>1. Root \in DOMAIN T
    BY DEF Tree
  <2> QED BY <1>4, <2>1, ChildrenFacts
<1>7. \A i \in DOMAIN T : P[i] \in Nat /\ P[i] > 0
  <2> SUFFICES ASSUME NEW i \in DOMAIN T PROVE P[i] \in Nat /\ P[i] > 0
    OBVIOUS
  <2>1. CASE i \in Children(T, p)
    <3>1. P[i] \in Nat /\ P[i] > 3
      BY <1>3, <2>1
    <3> QED BY SMT, <3>1
  <2>2. CASE i \notin Children(T, p)
    BY <1>4, <2>2
  <2> QED BY <2>1, <2>2
<1> QED BY <1>3, <1>4, <1>5, <1>6, <1>7

\* The fields of the cells after trie_moveBase: every check follows.
LEMMA MoveFields ==
  ASSUME NEW T, Tree(T), NEW p \in DOMAIN T,
         NEW fb \in Nat, fb > 0,
         \A c \in T[p].kids : fb + c \notin Taken(T),
         NEW P, P = [i \in DOMAIN T |-> NewPlace(T, p, fb, i)],
         NEW U, U = MoveBase(T, p, fb)
  PROVE  /\ U \in [DOMAIN U -> Cell]
         /\ \A i \in DOMAIN T : P[i] \in DOMAIN U
         /\ \A j \in DOMAIN U : \E i \in DOMAIN T : j = P[i]
         /\ \A i \in DOMAIN T :
              /\ U[P[i]].base = IF i = p THEN fb ELSE T[i].base
              /\ U[P[i]].kids = T[i].kids
              /\ U[P[i]].data = T[i].data
              /\ i # Root => U[P[i]].check = P[T[i].check]
<1> DEFINE Place(i) == NewPlace(T, p, fb, i)
           Source(j) == CHOOSE i \in DOMAIN T : Place(i) = j
           Movers(i) == {m \in Children(T, p) : i \in Children(T, m)}
           Base(j) == IF j = p THEN fb ELSE T[Source(j)].base
           Check(i) == IF Movers(i) = {} THEN T[i].check
                       ELSE Place(CHOOSE m \in Movers(i) : TRUE)
<1>1. /\ DOMAIN U = {Place(i) : i \in DOMAIN T}
      /\ U = [j \in DOMAIN U |-> U[j]]
      /\ \A j \in DOMAIN U :
           U[j] = Moved(T[Source(j)], Base(j), Check(Source(j)))
  BY Zenon DEF MoveBase, Moved
<1>2. \A i \in DOMAIN T : P[i] = Place(i)
  OBVIOUS
<1>p. /\ \A i, j \in DOMAIN T : P[i] = P[j] => i = j
      /\ P[p] = p
  BY Places
<1>m. \A r \in Cell, b \in Int, c \in Nat :
        /\ Moved(r, b, c).base = b /\ Moved(r, b, c).check = c
        /\ Moved(r, b, c).kids = r.kids /\ Moved(r, b, c) \in Cell
        /\ Moved(r, b, c).data = r.data
  BY MovedFields
<1>3. \A i \in DOMAIN T : Source(P[i]) = i
  <2> SUFFICES ASSUME NEW i \in DOMAIN T PROVE Source(P[i]) = i
    OBVIOUS
  <2>1. \A k \in DOMAIN T : Place(k) = P[i] => k = i
    BY <1>2, <1>p
  <2>2. Source(P[i]) \in DOMAIN T /\ Place(Source(P[i])) = P[i]
    BY Zenon, <1>2
  <2> QED BY <2>1, <2>2
<1>4. ASSUME NEW i \in DOMAIN T
      PROVE  Check(i) \in Nat /\ (i # Root => Check(i) = P[T[i].check])
  <2>1. CASE i = Root
    <3>1. Movers(i) = {}
      BY <2>1, ChildrenFacts
    <3> QED BY <2>1, <3>1, CellFields
  <2>2. CASE i # Root
    <3>1. i \in Taken(T) /\ T[i].check \in DOMAIN T
      BY <2>2 DEF Taken, Tree
    <3>2. i \in Children(T, T[i].check)
      BY <3>1, ChildrenFacts
    <3>3. \A m \in Movers(i) : m = T[i].check
      BY ChildrenFacts
    <3>4. CASE T[i].check \in Children(T, p)
      <4>1. T[i].check \in Movers(i)
        BY <3>2, <3>4
      <4>2. (CHOOSE m \in Movers(i) : TRUE) = T[i].check
        BY <3>3, <4>1
      <4>3. Check(i) = P[T[i].check]
        BY <1>2, <3>1, <4>1, <4>2
      <4> QED BY <3>1, <4>3, Places
    <3>5. CASE T[i].check \notin Children(T, p)
      <4>1. Movers(i) = {}
        BY <3>3, <3>5
      <4>2. Check(i) = T[i].check
        BY <4>1
      <4> QED BY <3>1, <3>5, <4>2, Places
    <3> QED BY <3>4, <3>5
  <2> QED BY <2>1, <2>2
<1>5. ASSUME NEW i \in DOMAIN T
      PROVE  Base(P[i]) \in Int /\ Base(P[i]) = IF i = p THEN fb ELSE T[i].base
  <2>1. P[i] = p <=> i = p
    BY <1>p
  <2>2. T[i].base \in Int /\ fb \in Int
    BY CellFields
  <2>3. Base(P[i]) = IF P[i] = p THEN fb ELSE T[i].base
    <3>1. Source(P[i]) = i
      BY <1>3
    <3> QED BY Zenon, <3>1
  <2> HIDE DEF Base
  <2> QED BY <2>1, <2>2, <2>3
<1> HIDE DEF Check, Base, Source, Place, Movers
<1>6. ASSUME NEW i \in DOMAIN T
      PROVE  /\ P[i] \in DOMAIN U
             /\ U[P[i]].base = Base(P[i]) /\ U[P[i]].check = Check(i)
             /\ U[P[i]].kids = T[i].kids /\ U[P[i]] \in Cell
             /\ U[P[i]].data = T[i].data
  <2>1. P[i] \in DOMAIN U
    BY <1>1, <1>2
  <2>2. U[P[i]] = Moved(T[i], Base(P[i]), Check(i))
    BY <1>1, <1>3, <2>1
  <2>3. T[i] \in Cell /\ Base(P[i]) \in Int /\ Check(i) \in Nat
    BY <1>4, <1>5, CellFields
  <2>4. /\ Moved(T[i], Base(P[i]), Check(i)).base = Base(P[i])
        /\ Moved(T[i], Base(P[i]), Check(i)).check = Check(i)
        /\ Moved(T[i], Base(P[i]), Check(i)).kids = T[i].kids
        /\ Moved(T[i], Base(P[i]), Check(i)).data = T[i].data
        /\ Moved(T[i], Base(P[i]), Check(i)) \in Cell
    BY <1>m, <2>3
  <2> QED BY Zenon, <2>1, <2>2, <2>4
<1>7. \A j \in DOMAIN U : \E i \in DOMAIN T : j = P[i]
  BY <1>1, <1>2
<1>8. U \in [DOMAIN U -> Cell]
  <2>1. \A j \in DOMAIN U : U[j] \in Cell
    BY <1>6, <1>7
  <2> QED BY Zenon, <1>1, <2>1
<1> QED BY <1>4, <1>5, <1>6, <1>7, <1>8

\* Each cell is where its parent and its character have gone.
Follows(T, U, P) ==
  /\ P[Root] = Root
  /\ \A i \in Taken(T) :
       /\ U[P[i]].check = P[T[i].check]
       /\ P[i] - U[P[T[i].check]].base = i - T[T[i].check].base

\* Each cell has the data it had.
Kept(T, U, P) == \A i \in DOMAIN T : U[P[i]].data = T[i].data

\* trie_moveBase keeps the tree: each cell has the character it had.
LEMMA MoveTree ==
  ASSUME NEW T, Tree(T), NEW p \in DOMAIN T,
         NEW fb \in Nat, fb > 0,
         \A c \in T[p].kids : fb + c \notin Taken(T),
         NEW P, P = [i \in DOMAIN T |-> NewPlace(T, p, fb, i)],
         NEW U, U = MoveBase(T, p, fb)
  PROVE  /\ Tree(U)
         /\ \A i \in DOMAIN T : Inner(T, i) => Inner(U, P[i])
         /\ Follows(T, U, P) /\ Kept(T, U, P)
<1>1. /\ \A i \in DOMAIN T :
           /\ P[i] \in Nat /\ P[i] > 0
           /\ i \in Children(T, p) =>
                /\ P[i] = fb + (i - T[p].base) /\ P[i] # Root
           /\ i \notin Children(T, p) => P[i] = i
      /\ \A i, j \in DOMAIN T : P[i] = P[j] => i = j
      /\ P[p] = p /\ P[Root] = Root
  BY Places
<1>2. /\ U \in [DOMAIN U -> Cell]
      /\ \A i \in DOMAIN T : P[i] \in DOMAIN U
      /\ \A j \in DOMAIN U : \E i \in DOMAIN T : j = P[i]
      /\ \A i \in DOMAIN T :
           /\ U[P[i]].base = IF i = p THEN fb ELSE T[i].base
           /\ U[P[i]].kids = T[i].kids
           /\ i # Root => U[P[i]].check = P[T[i].check]
  BY SMTT(30), MoveFields
<1>3. Root \in DOMAIN T /\ \A i \in DOMAIN T : i \in Nat /\ i > 0
  BY CellFields DEF Tree
<1>4. \A i \in DOMAIN T : i # Root =>
        i \in Taken(T) /\ P[i] \in Taken(U) /\ P[i] # Root
  BY <1>1, <1>2, <1>3 DEF Taken
<1>5. ASSUME NEW i \in DOMAIN T, NEW c \in T[i].kids
      PROVE  /\ T[i].base + c \in DOMAIN T /\ T[i].base + c # Root
             /\ T[T[i].base + c].check = i
             /\ U[P[i]].base + c = P[T[i].base + c]
  <2>1. /\ T[i].base + c \in Taken(T) /\ T[T[i].base + c].check = i
        /\ c \in Nat /\ T[i].base \in Int
    BY CellFields DEF Tree
  <2>2. T[i].base + c \in DOMAIN T /\ T[i].base + c # Root
    BY <2>1 DEF Taken
  <2>3. CASE i = p
    <3>1. T[i].base + c \in Children(T, p)
      BY <2>3 DEF Children
    <3>2. P[T[i].base + c] = fb + ((T[i].base + c) - T[i].base)
      BY <1>1, <2>2, <2>3, <3>1
    <3>3. (T[i].base + c) - T[i].base = c
      BY SMT, <2>1
    <3> QED BY <1>2, <2>1, <2>2, <2>3, <3>2, <3>3
  <2>4. CASE i # p
    <3>1. T[i].base + c \notin Children(T, p)
      BY <2>1, <2>4, ChildrenFacts
    <3> QED BY <1>1, <1>2, <2>1, <2>2, <2>4, <3>1
  <2> QED BY <2>1, <2>2, <2>3, <2>4
<1>6. ASSUME NEW i \in DOMAIN T, i # Root
      PROVE  /\ T[i].check \in DOMAIN T /\ T[i].check # i
             /\ U[P[i]].check = P[T[i].check]
             /\ i - T[T[i].check].base \in T[T[i].check].kids
             /\ P[i] - U[P[T[i].check]].base = i - T[T[i].check].base
  <2>1. /\ T[i].check \in DOMAIN T /\ T[i].check # i
        /\ i - T[T[i].check].base \in T[T[i].check].kids
    BY <1>4, <1>6 DEF Tree
  <2>2. U[P[i]].check = P[T[i].check]
    BY <1>2, <1>6
  <2>3. PICK q \in DOMAIN T : q = T[i].check
    BY <2>1
  <2>4. PICK c \in T[q].kids : c = i - T[q].base
    BY <2>1, <2>3
  <2>5. c \in Nat /\ T[q].base \in Int /\ i \in Nat
    BY <1>3, CellFields
  <2>6. i = T[q].base + c
    BY SMT, <2>4, <2>5
  <2>7. U[P[q]].base + c = P[i]
    BY <1>5, <2>6
  <2>8. U[P[q]].base \in Int
    BY <1>2, CellFields
  <2>9. P[i] - U[P[q]].base = c
    BY SMT, <2>5, <2>7, <2>8
  <2> QED BY <2>1, <2>2, <2>3, <2>4, <2>9
<1>7. Tree(U)
  <2>1. /\ U \in [DOMAIN U -> Cell] /\ DOMAIN U \subseteq Nat
        /\ Root \in DOMAIN U /\ U[Root].base > 0
    <3>1. T[Root].base > 0
      BY DEF Tree
    <3> QED BY <1>1, <1>2, <1>3, <3>1
  <2>2. \E max \in DOMAIN U : \A j \in DOMAIN U : 1 <= j /\ j <= max
    <3>1. PICK n \in DOMAIN T : \A i \in DOMAIN T : i <= n
      BY DEF Tree
    <3>2. \A i \in DOMAIN T : P[i] \in Nat /\ P[i] > 0 /\ P[i] <= n + fb
      <4> SUFFICES ASSUME NEW i \in DOMAIN T
                   PROVE  P[i] \in Nat /\ P[i] > 0 /\ P[i] <= n + fb
        OBVIOUS
      <4>1. i \in Nat /\ n \in Nat /\ i <= n /\ P[i] \in Nat /\ P[i] > 0
        BY <1>1, <1>3, <3>1
      <4>2. CASE i \in Children(T, p)
        <5>1. P[i] = fb + (i - T[p].base) /\ T[p].base \in Int
          BY <1>1, <4>2, CellFields
        <5>2. T[p].base # 0 /\ ~(T[p].base < 0)
          BY <4>2 DEF Tree, Children
        <5>3. \A b \in Int, f, j, m \in Nat :
                b # 0 /\ ~(b < 0) /\ j <= m => f + (j - b) <= m + f
          OBVIOUS
        <5>4. fb + (i - T[p].base) <= n + fb
          BY Zenon, <4>1, <5>1, <5>2, <5>3
        <5> QED BY <4>1, <5>1, <5>4
      <4>3. CASE i \notin Children(T, p)
        <5>1. P[i] = i
          BY <1>1, <4>3
        <5> QED BY SMT, <4>1, <5>1
      <4> QED BY <4>2, <4>3
    <3>3. \A j \in DOMAIN U : j \in Nat /\ j > 0 /\ j <= n + fb
      BY <1>2, <3>2
    <3>4. DOMAIN U \subseteq Nat /\ DOMAIN U # {} /\ n + fb \in Nat
      BY <1>3, <2>1, <3>1
    <3>5. PICK max \in DOMAIN U : \A j \in DOMAIN U : j <= max
      BY <3>3, <3>4, Greatest
    <3>6. \A j \in DOMAIN U : 1 <= j
      BY <3>3
    <3> QED BY <3>5, <3>6
  <2>3. ASSUME NEW j \in DOMAIN U
        PROVE  /\ U[j].base # 0
               /\ U[j].base < 0 => U[j].kids = {}
               /\ END_OF_TEXT \in U[j].kids =>
                    U[U[j].base + END_OF_TEXT].base > 0
    <3>1. PICK i \in DOMAIN T : j = P[i]
      BY <1>2
    <3>2. U[j].base = IF i = p THEN fb ELSE T[i].base
      BY <1>2, <3>1
    <3>3. U[j].kids = T[i].kids
      BY <1>2, <3>1
    <3>4. T[i].base # 0 /\ (T[i].base < 0 => T[i].kids = {})
      BY DEF Tree
    <3>5. U[j].base # 0 /\ (U[j].base < 0 => U[j].kids = {})
      BY <3>2, <3>3, <3>4
    <3>6. ASSUME END_OF_TEXT \in U[j].kids
          PROVE  U[U[j].base + END_OF_TEXT].base > 0
      <4>1. END_OF_TEXT \in T[i].kids
        BY <3>3, <3>6
      <4>2. /\ T[i].base + END_OF_TEXT \in DOMAIN T
            /\ U[j].base + END_OF_TEXT = P[T[i].base + END_OF_TEXT]
        BY <1>5, <3>1, <4>1
      <4>3. T[T[i].base + END_OF_TEXT].base > 0
        BY <4>1 DEF Tree
      <4> QED BY <1>2, <4>2, <4>3
    <3> QED BY <3>5, <3>6
  <2>4. ASSUME NEW j \in Taken(U)
        PROVE  /\ U[j].check \in DOMAIN U /\ U[j].check # j
               /\ j - U[U[j].check].base \in U[U[j].check].kids
    <3>1. j \in DOMAIN U /\ j # Root
      BY <2>4 DEF Taken
    <3>2. PICK i \in DOMAIN T : j = P[i]
      BY <1>2, <3>1
    <3>3. i # Root
      BY <1>1, <3>1, <3>2
    <3>4. /\ T[i].check \in DOMAIN T /\ T[i].check # i
          /\ U[j].check = P[T[i].check]
          /\ j - U[P[T[i].check]].base \in T[T[i].check].kids
      BY <1>6, <3>2, <3>3
    <3>5. P[T[i].check] \in DOMAIN U /\ P[T[i].check] # j
      BY <1>1, <1>2, <3>2, <3>4
    <3>6. U[P[T[i].check]].kids = T[T[i].check].kids
      BY <1>2, <3>4
    <3> QED BY <3>4, <3>5, <3>6
  <2>5. ASSUME NEW j \in DOMAIN U, NEW c \in U[j].kids
        PROVE  /\ c >= END_OF_TEXT
               /\ U[j].base + c \in Taken(U)
               /\ U[U[j].base + c].check = j
    <3>1. PICK i \in DOMAIN T : j = P[i]
      BY <1>2
    <3>2. c \in T[i].kids
      BY <1>2, <2>5, <3>1
    <3>3. c >= END_OF_TEXT
      BY <3>2 DEF Tree
    <3>4. PICK m \in DOMAIN T :
            m # Root /\ T[m].check = i /\ U[j].base + c = P[m]
      BY <1>5, <3>1, <3>2
    <3> QED BY <1>2, <1>4, <3>1, <3>3, <3>4
  <2> QED BY <2>1, <2>2, <2>3, <2>4, <2>5 DEF Tree
<1>8. ASSUME NEW i \in DOMAIN T, Inner(T, i) PROVE Inner(U, P[i])
  <2>1. CASE i = Root
    BY <1>1, <2>1 DEF Inner
  <2>2. CASE i # Root
    <3>1. i - T[T[i].check].base > END_OF_TEXT
      BY <1>8, <2>2 DEF Inner
    <3>2. P[i] - U[U[P[i]].check].base = i - T[T[i].check].base
      BY <1>6, <2>2
    <3> QED BY <3>1, <3>2 DEF Inner
  <2> QED BY <2>1, <2>2
<1>9. Follows(T, U, P)
  BY <1>1, <1>6 DEF Follows, Taken
<1>10. Kept(T, U, P)
  BY SMTT(30), MoveFields DEF Kept
<1> QED BY <1>7, <1>8, <1>9, <1>10

-----------------------------------------------------------------------------
(* trie_collisionInArray *)

\* What the insertion of char below last makes of T: cell i is now P[i], and
\* the node new has joined.  If last had no children, only the cell that is
\* where char leads from last may have moved.
Grown(T, U, P, last, char, base, new) ==
  /\ Tree(U) /\ new \in DOMAIN U /\ DOMAIN P = DOMAIN T
  /\ \A i \in DOMAIN T : P[i] \in DOMAIN U /\ P[i] # new
  /\ \A i, j \in DOMAIN T : P[i] = P[j] => i = j
  /\ \A j \in DOMAIN U : j = new \/ \E i \in DOMAIN T : j = P[i]
  /\ \A i \in DOMAIN T :
       /\ \/ U[P[i]].base = T[i].base
          \/ U[P[i]].base > 0 /\ T[i].base > 0
       /\ U[P[i]].kids = T[i].kids \union Added(i, last, char)
       /\ Inner(T, i) => Inner(U, P[i])
  /\ Follows(T, U, P) /\ new = U[P[last]].base + char
  /\ U[new].base = base /\ U[new].kids = {} /\ U[new].check = P[last]
  /\ char > END_OF_TEXT => Inner(U, new)
  /\ T[last].kids = {} =>
       \A i \in DOMAIN T : i # T[last].base + char => P[i] = i

\* V has the cells of T, each where P tells.
Rearranged(T, V, P) ==
  /\ Tree(V) /\ DOMAIN P = DOMAIN T
  /\ \A i \in DOMAIN T : P[i] \in DOMAIN V
  /\ \A i, j \in DOMAIN T : P[i] = P[j] => i = j
  /\ \A j \in DOMAIN V : \E i \in DOMAIN T : j = P[i]
  /\ \A i \in DOMAIN T :
       /\ \/ V[P[i]].base = T[i].base
          \/ V[P[i]].base > 0 /\ T[i].base > 0
       /\ V[P[i]].kids = T[i].kids
       /\ Inner(T, i) => Inner(V, P[i])
  /\ Follows(T, V, P) /\ Kept(T, V, P)

\* trie_insertNode after cells moved by P: together they make the tree grow.
LEMMA InsertGrown ==
  ASSUME NEW T, Tree(T), NEW V, NEW P, Rearranged(T, V, P),
         NEW last \in DOMAIN T, V[P[last]].base > 0,
         NEW char \in Nat, char >= END_OF_TEXT,
         NEW new, new = V[P[last]].base + char, new \notin Taken(V),
         NEW base \in Int, base # 0, char = END_OF_TEXT => base > 0,
         T[last].kids = {} =>
           \A i \in DOMAIN T : i # T[last].base + char => P[i] = i,
         NEW U, U = Insert(V, new, base, P[last])
  PROVE  Grown(T, U, P, last, char, base, new) /\ Kept(T, U, P)
<1>0. /\ Tree(V) /\ DOMAIN P = DOMAIN T
      /\ \A i \in DOMAIN T : P[i] \in DOMAIN V
      /\ \A i, j \in DOMAIN T : P[i] = P[j] => i = j
      /\ \A j \in DOMAIN V : \E i \in DOMAIN T : j = P[i]
      /\ \A i \in DOMAIN T :
           /\ \/ V[P[i]].base = T[i].base
              \/ V[P[i]].base > 0 /\ T[i].base > 0
           /\ V[P[i]].kids = T[i].kids
           /\ Inner(T, i) => Inner(V, P[i])
      /\ Follows(T, V, P) /\ Kept(T, V, P)
  BY DEF Rearranged
<1> PICK q \in DOMAIN V : q = P[last]
  BY <1>0
<1>1. U = Insert(V, new, base, q) /\ new = V[q].base + char
  OBVIOUS
<1>2. V[q].base > 0
  OBVIOUS
<1>3. /\ Tree(U) /\ new \notin DOMAIN V
      /\ DOMAIN U = DOMAIN V \union {new}
      /\ \A i \in DOMAIN V :
           /\ U[i].base = V[i].base /\ U[i].check = V[i].check
           /\ U[i].data = V[i].data
           /\ U[i].kids = V[i].kids \union Added(i, q, char)
      /\ U[new].base = base /\ U[new].check = q /\ U[new].kids = {}
  <2>1. /\ Tree(V) /\ q \in DOMAIN V /\ new \notin Taken(V)
        /\ char \in Nat /\ char >= END_OF_TEXT
        /\ base \in Int /\ base # 0 /\ (char = END_OF_TEXT => base > 0)
    BY <1>0
  <2>2. Inserted(V, U, q, char, base, new)
    BY <1>1, <1>2, <2>1, InsertTree
  <2> QED BY <2>2 DEF Inserted
<1>4. \A i \in DOMAIN T : Added(P[i], q, char) = Added(i, last, char)
  BY <1>0 DEF Added
<1>5. ASSUME NEW i \in DOMAIN T
      PROVE  /\ \/ U[P[i]].base = T[i].base
                \/ U[P[i]].base > 0 /\ T[i].base > 0
             /\ U[P[i]].kids = T[i].kids \union Added(i, last, char)
  BY <1>0, <1>3, <1>4
<1>6. ASSUME NEW j \in DOMAIN V, Inner(V, j) PROVE Inner(U, j)
  <2>1. CASE j = Root
    BY <2>1 DEF Inner
  <2>2. CASE j # Root
    <3>1. V[j].check \in DOMAIN V
      BY <1>0, <2>2 DEF Tree, Taken
    <3>2. j - V[V[j].check].base > END_OF_TEXT
      BY <1>6, <2>2 DEF Inner
    <3>3. U[j].check = V[j].check /\ U[V[j].check].base = V[V[j].check].base
      BY <1>3, <3>1
    <3> QED BY <3>2, <3>3 DEF Inner
  <2> QED BY <2>1, <2>2
<1>7. char > END_OF_TEXT => Inner(U, new)
  <2>1. V[q].base \in Int
    BY <1>0, CellFields
  <2>2. new - V[q].base = char
    BY SMT, <1>1, <2>1
  <2>3. new - U[U[new].check].base = char
    <3>1. U[new].check = q
      BY <1>3
    <3>2. U[q].base = V[q].base
      BY <1>3
    <3> QED BY Zenon, <2>2, <3>1, <3>2
  <2> QED BY <2>3 DEF Inner
<1>8. /\ \A i \in DOMAIN T : P[i] \in DOMAIN U /\ P[i] # new
      /\ \A j \in DOMAIN U : j = new \/ \E i \in DOMAIN T : j = P[i]
  BY <1>0, <1>3
<1>9. \A i \in DOMAIN T : Inner(T, i) => Inner(U, P[i])
  BY <1>0, <1>6
<1>10. Follows(T, U, P)
  <2>1. \A i \in Taken(T) : i \in DOMAIN T /\ T[i].check \in DOMAIN T
    BY DEF Tree, Taken
  <2>2. \A i \in DOMAIN T : P[i] \in DOMAIN V
    BY <1>0
  <2>3. \A i \in DOMAIN T : /\ U[P[i]].base = V[P[i]].base
                            /\ U[P[i]].check = V[P[i]].check
    BY <1>3, <2>2
  <2> QED BY <1>0, <2>1, <2>3 DEF Follows
<1>11. Kept(T, U, P)
  BY <1>0, <1>3 DEF Kept
<1>12. new = U[P[last]].base + char
  BY <1>1, <1>3
<1> QED BY <1>0, <1>3, <1>5, <1>7, <1>8, <1>9, <1>10, <1>11, <1>12 DEF Grown

\* A cell has finitely many children: each has a cell of its own.
LEMMA KidsFinite ==
  ASSUME NEW T, Tree(T), NEW i \in DOMAIN T
  PROVE  IsFiniteSet(T[i].kids)
<1>1. PICK max \in DOMAIN T : \A j \in DOMAIN T : j <= max
  BY DEF Tree
<1>2. max \in Nat /\ T[i].base \in Int /\ T[i].kids \subseteq Nat
  BY CellFields
<1>3. ASSUME NEW c \in T[i].kids PROVE c \in 0..max
  <2>1. c \in Nat /\ T[i].base + c \in DOMAIN T /\ T[i].base + c <= max
    BY <1>1, <1>2 DEF Tree, Taken
  <2>2. T[i].base # 0 /\ ~(T[i].base < 0)
    BY DEF Tree
  <2> QED BY SMT, <1>2, <2>1, <2>2
<1>4. IsFiniteSet(0..max)
  <2>1. 0 \in Int /\ max \in Int
    BY <1>2
  <2> QED BY <2>1, FS_Interval
<1> QED BY <1>3, <1>4, FS_Subset

\* What a cardinality of at most 1 means.
LEMMA OneMember ==
  ASSUME NEW S, IsFiniteSet(S), NEW x \in S, NEW y \in S,
         ~(1 < Cardinality(S))
  PROVE  x = y
<1> SUFFICES ASSUME x # y PROVE FALSE
  OBVIOUS
<1>1. IsFiniteSet({x}) /\ Cardinality({x}) = 1
  BY FS_Singleton
<1>2. IsFiniteSet({x} \union {y}) /\ Cardinality({x} \union {y}) = 2
  <2>1. y \notin {x}
    OBVIOUS
  <2>2. /\ IsFiniteSet({x} \union {y})
        /\ Cardinality({x} \union {y}) = Cardinality({x}) + 1
    BY Zenon, <1>1, <2>1, FS_AddElement
  <2> QED BY <1>1, <2>2
<1>3. {x} \union {y} \subseteq S
  OBVIOUS
<1>4. Cardinality({x} \union {y}) <= Cardinality(S) /\ Cardinality(S) \in Nat
  BY <1>3, FS_Subset, FS_CardinalityType
<1> QED BY SMT, <1>2, <1>4

\* trie_collisionInArray: whichever family moves, the node is inserted where
\* no other cell is.
LEMMA CollisionGrown ==
  ASSUME NEW T, Tree(T), NEW last \in DOMAIN T, T[last].base > 0,
         NEW char \in Nat, char >= END_OF_TEXT, char \notin T[last].kids,
         NEW taken, taken = T[last].base + char, taken \in Taken(T),
         NEW base \in Int, base # 0, char = END_OF_TEXT => base > 0,
         NEW r, r = CollisionInArray(T, taken, base, last, char)
  PROVE  \E P : /\ Grown(T, r.cells, P, last, char, base, r.state)
                /\ Kept(T, r.cells, P)
<1>1. PICK owner \in DOMAIN T : owner = T[taken].check
  BY DEF Tree
<1>2. /\ taken \in DOMAIN T /\ taken \in Children(T, owner)
      /\ taken - T[owner].base \in T[owner].kids
  BY <1>1, ChildrenFacts DEF Taken
<1>3. T[last].base \in Int /\ taken - T[last].base = char
  <2>1. T[last].base \in Int
    BY CellFields
  <2> QED BY SMT, <2>1
<1>4. owner # last
  BY <1>2, <1>3
<1> DEFINE Moves == Cardinality(T[last].kids) + 1 < Cardinality(T[owner].kids)
           p == IF Moves THEN last ELSE owner
           chars == T[p].kids \union IF Moves THEN {char} ELSE {}
           fb == FreeBase(T, p, chars)
           P == [i \in DOMAIN T |-> NewPlace(T, p, fb, i)]
           V == MoveBase(T, p, fb)
           new == IF Moves THEN fb + char ELSE taken
<1>5. /\ r.cells = Insert(V, new, base, NewPlace(T, p, fb, last))
      /\ r.state = new
  BY Zenon, <1>1 DEF CollisionInArray
<1>6. p \in DOMAIN T
  OBVIOUS
<1>7. \A c \in chars : c \in Nat /\ c >= END_OF_TEXT
  <2>1. \A c \in T[p].kids : c \in Nat /\ c >= END_OF_TEXT
    BY <1>6, CellFields DEF Tree
  <2> QED BY <2>1
<1>8. fb \in Nat /\ fb > 0 /\ \A c \in chars : fb + c \notin Taken(T)
  BY <1>6, <1>7, FreeBaseIsFree
<1>9. DOMAIN P = DOMAIN T /\ P[last] = NewPlace(T, p, fb, last)
  OBVIOUS
<1>10. \A c \in T[p].kids : fb + c \notin Taken(T)
  BY <1>8
<1>11. Moves => p = last /\ new = fb + char /\ fb + char \notin Taken(T)
  BY <1>8
<1>12. ~Moves => p = owner /\ new = taken
  OBVIOUS
<1>13. ~Moves /\ T[last].kids = {} =>
         \A c \in T[owner].kids : c = taken - T[owner].base
  <2> SUFFICES ASSUME ~Moves, T[last].kids = {}, NEW c \in T[owner].kids
               PROVE  c = taken - T[owner].base
    OBVIOUS
  <2>1. Cardinality(T[last].kids) = 0
    BY FS_EmptySet
  <2>2. IsFiniteSet(T[owner].kids) /\ Cardinality(T[owner].kids) \in Nat
    BY KidsFinite, FS_CardinalityType
  <2>3. ~(1 < Cardinality(T[owner].kids))
    BY SMT, <2>1, <2>2
  <2> HIDE DEF Moves
  <2> QED BY <1>2, <2>2, <2>3, OneMember
<1> PICK fb0 : fb0 = fb
  OBVIOUS
<1> PICK p0 : p0 = p
  OBVIOUS
<1> PICK P0 : P0 = P
  OBVIOUS
<1> PICK V0 : V0 = V
  OBVIOUS
<1> PICK new0 : new0 = new
  OBVIOUS
<1> HIDE DEF fb, p, P, V, new, Moves, chars
<1>a. /\ r.cells = Insert(V0, new0, base, P0[last]) /\ r.state = new0
      /\ p0 \in DOMAIN T /\ fb0 \in Nat /\ fb0 > 0
      /\ DOMAIN P0 = DOMAIN T
      /\ \A c \in T[p0].kids : fb0 + c \notin Taken(T)
      /\ Moves => p0 = last /\ new0 = fb0 + char /\ fb0 + char \notin Taken(T)
      /\ ~Moves => p0 = owner /\ new0 = taken
      /\ ~Moves /\ T[last].kids = {} =>
           \A c \in T[owner].kids : c = taken - T[owner].base
  BY <1>5, <1>6, <1>8, <1>9, <1>10, <1>11, <1>12, <1>13
<1>b. P0 = [i \in DOMAIN T |-> NewPlace(T, p0, fb0, i)]
      /\ V0 = MoveBase(T, p0, fb0)
  BY DEF P, V
<1>c. /\ \A i \in DOMAIN T :
           /\ i \in Children(T, p0) =>
                /\ P0[i] = fb0 + (i - T[p0].base)
                /\ P0[i] \notin Taken(T)
           /\ i \notin Children(T, p0) => P0[i] = i
      /\ \A i, j \in DOMAIN T : P0[i] = P0[j] => i = j
      /\ P0[p0] = p0 /\ P0[Root] = Root
  BY <1>a, <1>b, Places
<1>d. /\ \A i \in DOMAIN T : P0[i] \in DOMAIN V0
      /\ \A j \in DOMAIN V0 : \E i \in DOMAIN T : j = P0[i]
      /\ \A i \in DOMAIN T :
           /\ V0[P0[i]].base = IF i = p0 THEN fb0 ELSE T[i].base
           /\ V0[P0[i]].kids = T[i].kids
  BY <1>a, <1>b, MoveFields
<1>e. /\ Tree(V0) /\ \A i \in DOMAIN T : Inner(T, i) => Inner(V0, P0[i])
      /\ Follows(T, V0, P0) /\ Kept(T, V0, P0)
  BY <1>a, <1>b, MoveTree
<1>f. T[owner].base > 0
  <2>1. T[owner].base \in Int /\ T[owner].base # 0 /\ ~(T[owner].base < 0)
    BY <1>2, CellFields DEF Tree
  <2> QED BY SMT, <2>1
<1>g. \A i \in DOMAIN T : \/ V0[P0[i]].base = T[i].base
                          \/ V0[P0[i]].base > 0 /\ T[i].base > 0
  BY <1>a, <1>d, <1>f
<1>h. /\ V0[P0[last]].base > 0 /\ new0 = V0[P0[last]].base + char
      /\ new0 \notin Taken(V0)
  <2>1. ASSUME new0 \in Taken(V0)
        PROVE  \E i \in DOMAIN T : new0 = P0[i] /\ i \in Taken(T)
    BY <1>c, <1>d, <2>1 DEF Taken
  <2>2. CASE Moves
    <3>1. p0 = last /\ new0 = fb0 + char /\ fb0 + char \notin Taken(T)
      BY <1>a, <2>2
    <3>2. ASSUME NEW i \in Taken(T), i \in DOMAIN T, new0 = P0[i]
          PROVE  FALSE
      <4>1. CASE i \in Children(T, p0)
        <5>1. P0[i] = fb0 + (i - T[last].base)
          BY <1>c, <3>1, <3>2, <4>1
        <5>2. i - T[last].base \in T[last].kids
          BY <3>1, <4>1, ChildrenFacts
        <5>3. i - T[last].base \in Nat
          BY <5>2, CellFields
        <5>4. i - T[last].base = char
          BY SMT, <1>a, <3>1, <3>2, <5>1, <5>3
        <5> QED BY <5>2, <5>4
      <4>2. CASE i \notin Children(T, p0)
        BY <1>c, <3>1, <3>2, <4>2
      <4> QED BY <4>1, <4>2
    <3> QED BY <1>a, <1>d, <2>1, <3>1, <3>2
  <2>3. CASE ~Moves
    <3>1. p0 = owner /\ new0 = taken
      BY <1>a, <2>3
    <3>2. V0[P0[last]].base = T[last].base
      BY <1>4, <1>d, <3>1
    <3>3. ASSUME NEW i \in Taken(T), i \in DOMAIN T, new0 = P0[i]
          PROVE  FALSE
      BY <1>2, <1>c, <3>1, <3>3
    <3> QED BY <2>1, <3>1, <3>2, <3>3
  <2> QED BY <2>2, <2>3
<1>i. ASSUME T[last].kids = {}, NEW i \in DOMAIN T, i # taken
      PROVE  P0[i] = i
  <2>1. i \notin Children(T, p0)
    <3> SUFFICES ASSUME i \in Children(T, p0) PROVE FALSE
      OBVIOUS
    <3>1. i - T[p0].base \in T[p0].kids
      BY <1>a, ChildrenFacts
    <3>2. p0 = owner /\ ~Moves
      BY <1>a, <1>i, <3>1
    <3>3. i - T[owner].base = taken - T[owner].base
      BY <1>a, <1>i, <3>1, <3>2
    <3>4. i \in Int /\ taken \in Int /\ T[owner].base \in Int
      BY <1>2, CellFields
    <3> QED BY SMT, <1>i, <3>3, <3>4
  <2> QED BY <1>c, <2>1
<1>j. /\ Grown(T, r.cells, P0, last, char, base, new0)
      /\ Kept(T, r.cells, P0)
  <2>1. DOMAIN P0 = DOMAIN T /\ \A i \in DOMAIN T : P0[i] \in DOMAIN V0
    BY <1>a, <1>d
  <2>2. /\ \A i, j \in DOMAIN T : P0[i] = P0[j] => i = j
        /\ \A j \in DOMAIN V0 : \E i \in DOMAIN T : j = P0[i]
    BY <1>c, <1>d
  <2>3. \A i \in DOMAIN T :
           /\ \/ V0[P0[i]].base = T[i].base
              \/ V0[P0[i]].base > 0 /\ T[i].base > 0
           /\ V0[P0[i]].kids = T[i].kids
           /\ Inner(T, i) => Inner(V0, P0[i])
    BY <1>d, <1>e, <1>g
  <2>4. T[last].kids = {} =>
           \A i \in DOMAIN T : i # T[last].base + char => P0[i] = i
    BY <1>i
  <2>5. PICK U : U = r.cells
    OBVIOUS
  <2>6. U = Insert(V0, new0, base, P0[last])
    BY <1>a, <2>5
  <2>7. /\ V0[P0[last]].base > 0 /\ new0 = V0[P0[last]].base + char
        /\ new0 \notin Taken(V0) /\ Tree(T)
        /\ last \in DOMAIN T /\ char \in Nat /\ char >= END_OF_TEXT
        /\ base \in Int /\ base # 0 /\ (char = END_OF_TEXT => base > 0)
    BY <1>h, <1>e
  <2>9. Rearranged(T, V0, P0)
    BY <1>e, <2>1, <2>2, <2>3 DEF Rearranged
  <2>8. Grown(T, U, P0, last, char, base, new0) /\ Kept(T, U, P0)
    BY ONLY <2>4, <2>6, <2>7, <2>9, InsertGrown
  <2> QED BY <2>5, <2>8
<1> QED BY <1>a, <1>j

-----------------------------------------------------------------------------
(* trie_storeCharacter and trie_insertEndOfText *)

\* The same cells but for their data.
SameShape(T, U) ==
  /\ U \in [DOMAIN U -> Cell] /\ DOMAIN U = DOMAIN T
  /\ \A i \in DOMAIN T : /\ U[i].base = T[i].base /\ U[i].check = T[i].check
                         /\ U[i].kids = T[i].kids

\* The data play no part in the tree,
LEMMA SameTree ==
  ASSUME NEW T, Tree(T), NEW U, SameShape(T, U)
  PROVE  Tree(U) /\ \A i \in DOMAIN T : Inner(T, i) => Inner(U, i)
<1>1. /\ U \in [DOMAIN U -> Cell] /\ DOMAIN U = DOMAIN T
      /\ \A i \in DOMAIN T : /\ U[i].base = T[i].base
                             /\ U[i].check = T[i].check
                             /\ U[i].kids = T[i].kids
  BY DEF SameShape
<1>2. Taken(U) = Taken(T) /\ Taken(T) \subseteq DOMAIN T
  BY <1>1 DEF Taken
<1>3. /\ Root \in DOMAIN T /\ T[Root].base > 0 /\ DOMAIN T \subseteq Nat
      /\ \E max \in DOMAIN T : \A i \in DOMAIN T : 1 <= i /\ i <= max
      /\ \A i \in Taken(T) :
           /\ T[i].check \in DOMAIN T /\ T[i].check # i
           /\ i - T[T[i].check].base \in T[T[i].check].kids
      /\ \A i \in DOMAIN T : \A c \in T[i].kids :
           /\ c >= END_OF_TEXT
           /\ T[i].base + c \in Taken(T)
           /\ T[T[i].base + c].check = i
      /\ \A i \in DOMAIN T : T[i].base # 0
      /\ \A i \in DOMAIN T : T[i].base < 0 => T[i].kids = {}
      /\ \A i \in DOMAIN T :
           END_OF_TEXT \in T[i].kids => T[T[i].base + END_OF_TEXT].base > 0
  BY DEF Tree
<1>4. \A i \in Taken(U) :
        /\ U[i].check \in DOMAIN U /\ U[i].check # i
        /\ i - U[U[i].check].base \in U[U[i].check].kids
  BY <1>1, <1>2, <1>3
<1>5. \A i \in DOMAIN U : \A c \in U[i].kids :
        /\ c >= END_OF_TEXT
        /\ U[i].base + c \in Taken(U)
        /\ U[U[i].base + c].check = i
  BY <1>1, <1>2, <1>3
<1>6. ASSUME NEW i \in DOMAIN U
      PROVE  /\ U[i].base # 0
             /\ U[i].base < 0 => U[i].kids = {}
             /\ END_OF_TEXT \in U[i].kids =>
                  U[U[i].base + END_OF_TEXT].base > 0
  <2>1. ASSUME END_OF_TEXT \in U[i].kids
        PROVE  U[U[i].base + END_OF_TEXT].base > 0
    <3>1. END_OF_TEXT \in T[i].kids /\ i \in DOMAIN T
      BY <1>1, <2>1
    <3>2. T[i].base + END_OF_TEXT \in DOMAIN T
      BY <1>2, <1>3, <3>1
    <3> QED BY <1>1, <1>3, <3>1, <3>2
  <2> QED BY <1>1, <1>3, <2>1
<1>7. Tree(U)
  <2>1. \E max \in DOMAIN U : \A i \in DOMAIN U : 1 <= i /\ i <= max
    BY Zenon, <1>1, <1>3
  <2>2. DOMAIN U \subseteq Nat /\ Root \in DOMAIN U /\ U[Root].base > 0
    BY <1>1, <1>3
  <2> QED BY <1>1, <1>4, <1>5, <1>6, <2>1, <2>2 DEF Tree
<1>8. \A i \in DOMAIN T : Inner(T, i) => Inner(U, i)
  <2> SUFFICES ASSUME NEW i \in DOMAIN T, Inner(T, i), i # Root
               PROVE  Inner(U, i)
    BY DEF Inner
  <2>1. T[i].check \in DOMAIN T
    BY <1>3 DEF Taken
  <2> QED BY <1>1, <2>1 DEF Inner
<1> QED BY <1>7, <1>8

\* nor in how it grows.
LEMMA SameGrown ==
  ASSUME NEW T, Tree(T), NEW V, NEW P, NEW last, NEW char, NEW base, NEW new,
         Grown(T, V, P, last, char, base, new), last \in DOMAIN T,
         NEW U, SameShape(V, U)
  PROVE  Grown(T, U, P, last, char, base, new)
<1>1. Tree(V) /\ new \in DOMAIN V
  BY DEF Grown
<1>2. Tree(U) /\ \A i \in DOMAIN V : Inner(V, i) => Inner(U, i)
  BY <1>1, SameTree
<1>3. DOMAIN U = DOMAIN V
  BY DEF SameShape
<1>4. \A i \in DOMAIN V : /\ U[i].base = V[i].base /\ U[i].check = V[i].check
                          /\ U[i].kids = V[i].kids
  BY <1>3 DEF SameShape
<1>5. Follows(T, U, P)
  <2>1. \A i \in Taken(T) : i \in DOMAIN T /\ T[i].check \in DOMAIN T
    BY DEF Tree, Taken
  <2>2. \A i \in DOMAIN T : P[i] \in DOMAIN V
    BY DEF Grown
  <2>3. \A i \in DOMAIN T : /\ U[P[i]].base = V[P[i]].base
                            /\ U[P[i]].check = V[P[i]].check
    BY <1>4, <2>2
  <2>4. Follows(T, V, P)
    BY DEF Grown
  <2> QED BY <2>1, <2>3, <2>4 DEF Follows
<1>6. P[last] \in DOMAIN V
  BY DEF Grown
<1> QED BY <1>1, <1>2, <1>3, <1>4, <1>5, <1>6 DEF Grown

\* userDataList_set writes data alone.
LEMMA SetDataShape ==
  ASSUME NEW T, Tree(T), NEW i \in DOMAIN T, NEW value \in Data
  PROVE  SameShape(T, SetData(T, i, value))
<1> DEFINE U == SetData(T, i, value)
<1>0. T \in [DOMAIN T -> Cell]
  BY DEF Tree
<1>1. /\ DOMAIN U = DOMAIN T /\ U = [j \in DOMAIN U |-> U[j]]
      /\ U[i] = [T[i] EXCEPT !.data = value]
      /\ \A j \in DOMAIN T : j # i => U[j] = T[j]
  BY Zenon, <1>0 DEF SetData
<1>2. T[i] \in Cell
  BY <1>0
<1>3. ASSUME NEW r \in Cell
      PROVE  /\ [r EXCEPT !.data = value] \in Cell
             /\ [r EXCEPT !.data = value].base = r.base
             /\ [r EXCEPT !.data = value].check = r.check
             /\ [r EXCEPT !.data = value].kids = r.kids
  BY DEF Cell
<1>4. /\ U[i] \in Cell /\ U[i].base = T[i].base /\ U[i].check = T[i].check
      /\ U[i].kids = T[i].kids
  BY Zenon, <1>1, <1>2, <1>3
<1> HIDE DEF U
<1>5. \A j \in DOMAIN T :
        /\ U[j] \in Cell /\ U[j].base = T[j].base /\ U[j].check = T[j].check
        /\ U[j].kids = T[j].kids
  BY <1>0, <1>1, <1>4
<1>6. U \in [DOMAIN U -> Cell]
  BY Zenon, <1>1, <1>5
<1>7. SameShape(T, U)
  BY <1>1, <1>5, <1>6 DEF SameShape
<1> QED BY <1>7 DEF U

\* trie_storeCharacter, when the character is new to the parent.
LEMMA StoreGrown ==
  ASSUME NEW T, Tree(T), NEW last \in DOMAIN T, T[last].base > 0,
         NEW char \in Nat, char >= END_OF_TEXT, char \notin T[last].kids,
         NEW base \in Int, base # 0, char = END_OF_TEXT => base > 0,
         NEW r, r = StoreCharacter(T, last, base, char)
  PROVE  \E P : /\ Grown(T, r.cells, P, last, char, base, r.state)
                /\ Kept(T, r.cells, P)
<1> PICK new : new = T[last].base + char
  OBVIOUS
<1>1. CASE new \notin Taken(T)
  <2>1. r.cells = Insert(T, new, base, last) /\ r.state = new
    BY Zenon, <1>1 DEF StoreCharacter
  <2> PICK P : P = [i \in DOMAIN T |-> i]
    OBVIOUS
  <2>2. DOMAIN P = DOMAIN T /\ \A i \in DOMAIN T : P[i] = i
    OBVIOUS
  <2> PICK U : U = r.cells
    OBVIOUS
  <2>3. U = Insert(T, new, base, P[last])
    BY <2>1, <2>2
  <2>4. /\ \A i \in DOMAIN T : P[i] \in DOMAIN T
        /\ \A i, j \in DOMAIN T : P[i] = P[j] => i = j
        /\ \A j \in DOMAIN T : \E i \in DOMAIN T : j = P[i]
    BY <2>2
  <2>9. T[last].kids = {} =>
          \A i \in DOMAIN T : i # T[last].base + char => P[i] = i
    BY <2>2
  <2>5. \A i \in DOMAIN T :
           /\ \/ T[P[i]].base = T[i].base
              \/ T[P[i]].base > 0 /\ T[i].base > 0
           /\ T[P[i]].kids = T[i].kids
           /\ Inner(T, i) => Inner(T, P[i])
    BY <2>2
  <2>6. /\ T[P[last]].base > 0 /\ new = T[P[last]].base + char
        /\ new \notin Taken(T) /\ Tree(T) /\ last \in DOMAIN T
        /\ char \in Nat /\ char >= END_OF_TEXT
        /\ base \in Int /\ base # 0 /\ (char = END_OF_TEXT => base > 0)
    BY <1>1, <2>2
  <2>8. Rearranged(T, T, P)
    <3>1. Root \in DOMAIN T /\ \A i \in Taken(T) : i \in DOMAIN T
                              /\ T[i].check \in DOMAIN T
      BY DEF Tree, Taken
    <3>2. Follows(T, T, P) /\ Kept(T, T, P)
      BY <2>2, <3>1 DEF Follows, Kept
    <3> QED BY <2>2, <2>4, <2>5, <3>2 DEF Rearranged
  <2>7. Grown(T, U, P, last, char, base, new) /\ Kept(T, U, P)
    BY ONLY <2>3, <2>6, <2>8, <2>9, InsertGrown
  <2> QED BY <2>1, <2>7
<1>2. CASE new \in Taken(T)
  <2>1. T[new].check # last
    <3> SUFFICES ASSUME T[new].check = last PROVE FALSE
      OBVIOUS
    <3>1. new - T[last].base \in T[last].kids
      BY <1>2 DEF Tree
    <3>2. T[last].base \in Int
      BY CellFields
    <3>3. new - T[last].base = char
      BY SMT, <3>2
    <3> QED BY <3>1, <3>3
  <2>2. r = CollisionInArray(T, new, base, last, char)
    BY Zenon, <1>2, <2>1 DEF StoreCharacter
  <2> QED BY <1>2, <2>2, CollisionGrown
<1> QED BY <1>1, <1>2

\* trie_storeCharacter, when the parent has the character already.
LEMMA StoreThere ==
  ASSUME NEW T, Tree(T), NEW last \in DOMAIN T,
         NEW char \in T[last].kids, T[T[last].base + char].base > 0,
         NEW base, NEW r, r = StoreCharacter(T, last, base, char)
  PROVE  r.cells = T /\ r.state = T[last].base + char /\ r.state \in DOMAIN T
<1> PICK new : new = T[last].base + char
  OBVIOUS
<1>1. new \in Taken(T) /\ T[new].check = last
  BY DEF Tree
<1>2. new \in DOMAIN T
  BY <1>1 DEF Taken
<1>3. ~(T[new].base < 0)
  <2>1. T[new].base \in Int
    BY <1>2, CellFields
  <2> QED BY SMT, <2>1
<1>4. r = [cells |-> T, state |-> new]
  BY Zenon, <1>1, <1>3 DEF StoreCharacter
<1> QED BY <1>2, <1>4

\* trie_insertEndOfText: a new end of text, or the one that is there.
LEMMA EndGrown ==
  ASSUME NEW T, Tree(T), NEW last \in DOMAIN T, T[last].base > 0,
         NEW value \in Data,
         NEW U, U = InsertEndOfText(T, last, value)
  PROVE  \/ SameShape(T, U)
         \/ \E P, new :
              Grown(T, U, P, last, END_OF_TEXT, T[last].base, new)
<1> PICK r : r = StoreCharacter(T, last, T[last].base, END_OF_TEXT)
  OBVIOUS
<1>1. U = IF options.useUserData THEN SetData(r.cells, r.state, value)
          ELSE r.cells
  BY Zenon DEF InsertEndOfText
<1>2. T[last].base \in Int /\ T[last].base # 0
      /\ END_OF_TEXT \in Nat /\ END_OF_TEXT >= END_OF_TEXT
  BY CellFields DEF END_OF_TEXT
<1>3. ASSUME NEW V, Tree(V), V = r.cells, r.state \in DOMAIN V
      PROVE  SameShape(V, U)
  <2>1. CASE options.useUserData
    BY <1>1, <1>3, <2>1, SetDataShape
  <2>2. CASE ~options.useUserData
    <3>1. U = V
      BY <1>1, <1>3, <2>2
    <3>2. SameShape(V, V)
      BY <1>3 DEF SameShape, Tree
    <3> QED BY <3>1, <3>2
  <2> QED BY <2>1, <2>2
<1>4. CASE END_OF_TEXT \in T[last].kids
  <2>1. T[T[last].base + END_OF_TEXT].base > 0
    BY <1>4 DEF Tree
  <2>2. r.cells = T /\ r.state \in DOMAIN T
    BY <1>4, <2>1, StoreThere
  <2> QED BY <1>3, <2>2
<1>5. CASE END_OF_TEXT \notin T[last].kids
  <2>1. PICK P : Grown(T, r.cells, P, last, END_OF_TEXT, T[last].base, r.state)
    BY <1>2, <1>5, StoreGrown
  <2>2. PICK V : V = r.cells
    OBVIOUS
  <2>3. Tree(V) /\ r.state \in DOMAIN V
    BY <2>1, <2>2 DEF Grown
  <2>4. SameShape(V, U)
    BY <1>3, <2>2, <2>3
  <2>5. Grown(T, U, P, last, END_OF_TEXT, T[last].base, r.state)
    BY <2>1, <2>2, <2>4, SameGrown
  <2> QED BY <2>5
<1> QED BY <1>4, <1>5

\* The same leaves belong to the same suffixes.
LEMMA LinkedSame ==
  ASSUME NEW T, NEW U, SameShape(T, U), NEW X, Linked(T, X)
  PROVE  Linked(U, X)
BY DEF SameShape, Linked

\* A node with a positive base is no leaf,
LEMMA LinkedGrown ==
  ASSUME NEW T, Tree(T), NEW U, NEW P, NEW last, NEW char, NEW base \in Int,
         base > 0, NEW new, Grown(T, U, P, last, char, base, new),
         NEW X, X \subseteq Nat, Linked(T, X)
  PROVE  Linked(U, X)
<1>1. ASSUME NEW j \in DOMAIN U, U[j].base < 0
      PROVE  \E i \in DOMAIN T : j = P[i] /\ T[i].base = U[j].base
  <2>1. j # new
    <3> SUFFICES ASSUME j = new PROVE FALSE
      OBVIOUS
    <3>1. base < 0
      BY <1>1 DEF Grown
    <3> QED BY SMT, <3>1
  <2>2. PICK i \in DOMAIN T : j = P[i]
    BY <2>1 DEF Grown
  <2>3. U[j].base = T[i].base \/ U[j].base > 0
    BY <2>2 DEF Grown
  <2>4. U[j].base \in Int
    BY CellFields DEF Grown
  <2>5. ~(U[j].base > 0)
    BY SMT, <1>1, <2>4
  <2> QED BY <2>2, <2>3, <2>5
<1>2. \A j \in DOMAIN U : U[j].base < 0 => -U[j].base \in X
  BY <1>1 DEF Linked
<1>3. ASSUME NEW x \in X PROVE \E j \in DOMAIN U : U[j].base = -x
  <2>1. PICK i \in DOMAIN T : T[i].base = -x
    BY DEF Linked
  <2>2. ~(T[i].base > 0)
    <3>1. x \in Nat
      OBVIOUS
    <3> QED BY SMT, <2>1, <3>1
  <2>3. P[i] \in DOMAIN U /\ U[P[i]].base = T[i].base
    BY <2>2 DEF Grown
  <2> QED BY <2>1, <2>3
<1>4. ASSUME NEW j \in DOMAIN U, NEW k \in DOMAIN U, U[j].base < 0,
             U[j].base = U[k].base
      PROVE  j = k
  <2>1. PICK i \in DOMAIN T : j = P[i] /\ T[i].base = U[j].base
    BY <1>1, <1>4
  <2>2. PICK h \in DOMAIN T : k = P[h] /\ T[h].base = U[k].base
    BY <1>1, <1>4
  <2>3. i = h
    BY <1>4, <2>1, <2>2 DEF Linked
  <2> QED BY <2>1, <2>2, <2>3
<1> QED BY <1>2, <1>3, <1>4 DEF Linked

\* and one with a negative base takes the suffix of that number.
LEMMA LinkedLeaf ==
  ASSUME NEW T, Tree(T), NEW U, NEW P, NEW last, NEW char,
         NEW x \in Nat, x > 0,
         NEW new, Grown(T, U, P, last, char, -x, new),
         NEW X, X \subseteq Nat, Linked(T, X), x \notin X
  PROVE  Linked(U, X \union {x})
<1>0. new \in DOMAIN U /\ U[new].base = -x
  BY DEF Grown
<1>1. ASSUME NEW j \in DOMAIN U, U[j].base < 0, j # new
      PROVE  \E i \in DOMAIN T : j = P[i] /\ T[i].base = U[j].base
  <2>2. PICK i \in DOMAIN T : j = P[i]
    BY <1>1 DEF Grown
  <2>3. U[j].base = T[i].base \/ U[j].base > 0
    BY <2>2 DEF Grown
  <2>4. U[j].base \in Int
    BY CellFields DEF Grown
  <2>5. ~(U[j].base > 0)
    BY SMT, <1>1, <2>4
  <2> QED BY <2>2, <2>3, <2>5
<1>a. -(-x) = x
  BY SMT
<1>2. \A j \in DOMAIN U : U[j].base < 0 => -U[j].base \in X \union {x}
  <2> SUFFICES ASSUME NEW j \in DOMAIN U, U[j].base < 0
               PROVE  -U[j].base \in X \union {x}
    OBVIOUS
  <2>1. CASE j = new
    BY <1>0, <1>a, <2>1
  <2>2. CASE j # new
    BY <1>1, <2>2 DEF Linked
  <2> QED BY <2>1, <2>2
<1>3. ASSUME NEW y \in X PROVE \E j \in DOMAIN U : U[j].base = -y
  <2>1. PICK i \in DOMAIN T : T[i].base = -y
    BY DEF Linked
  <2>2. ~(T[i].base > 0)
    <3>1. y \in Nat
      OBVIOUS
    <3> QED BY SMT, <2>1, <3>1
  <2>3. P[i] \in DOMAIN U /\ U[P[i]].base = T[i].base
    BY <2>2 DEF Grown
  <2> QED BY <2>1, <2>3
<1>4. ASSUME NEW j \in DOMAIN U, U[j].base < 0, U[j].base = -x PROVE j = new
  <2> SUFFICES ASSUME j # new PROVE FALSE
    OBVIOUS
  <2>1. PICK i \in DOMAIN T : j = P[i] /\ T[i].base = U[j].base
    BY <1>1, <1>4
  <2>2. -T[i].base \in X
    BY <1>4, <2>1 DEF Linked
  <2> QED BY <1>4, <1>a, <2>1, <2>2
<1>5. ASSUME NEW j \in DOMAIN U, NEW k \in DOMAIN U, U[j].base < 0,
             U[j].base = U[k].base
      PROVE  j = k
  <2>1. CASE j = new
    BY <1>0, <1>4, <1>5, <2>1
  <2>2. CASE k = new
    BY <1>0, <1>4, <1>5, <2>2
  <2>3. CASE j # new /\ k # new
    <3>1. PICK i \in DOMAIN T : j = P[i] /\ T[i].base = U[j].base
      BY <1>1, <1>5, <2>3
    <3>2. PICK h \in DOMAIN T : k = P[h] /\ T[h].base = U[k].base
      BY <1>1, <1>5, <2>3
    <3>3. i = h
      BY <1>5, <3>1, <3>2 DEF Linked
    <3> QED BY <3>1, <3>2, <3>3
  <2> QED BY <2>1, <2>2, <2>3
<1> QED BY <1>0, <1>2, <1>3, <1>5 DEF Linked

-----------------------------------------------------------------------------
(* Sequences of characters *)

\* What is left of a word from one of its characters on.
LEMMA RestOf ==
  ASSUME NEW s \in Seq(Nat), \A k \in DOMAIN s : s[k] > END_OF_TEXT,
         NEW m \in 1..(Len(s) + 1),
         NEW rest, rest = SubSeq(s, m, Len(s))
  PROVE  /\ rest \in Seq(Nat) /\ Len(rest) = Len(s) - m + 1
         /\ \A k \in 1..Len(rest) : rest[k] = s[m + k - 1]
         /\ \A k \in DOMAIN rest : rest[k] > END_OF_TEXT
         /\ Len(rest) > 0 => Head(rest) = s[m]
<1>1. /\ Len(s) \in Nat /\ DOMAIN s = 1..Len(s)
      /\ \A i \in 1..Len(s) : s[i] \in Nat
  BY LenProperties
<1>2. m \in Int /\ Len(s) \in Int /\ m >= 1 /\ m <= Len(s) + 1
  BY <1>1
<1>3. \A i \in m..Len(s) : s[i] \in Nat
  BY <1>1, <1>2
<1>4. /\ rest \in Seq(Nat)
      /\ Len(rest) = IF m <= Len(s) THEN Len(s) - m + 1 ELSE 0
      /\ \A i \in 1..(Len(s) - m + 1) : rest[i] = s[m + i - 1]
  BY <1>2, <1>3, SubSeqProperties
<1>5. Len(rest) = Len(s) - m + 1
  BY <1>2, <1>4
<1>6. \A k \in 1..Len(rest) : rest[k] = s[m + k - 1]
  BY <1>4, <1>5
<1>7. DOMAIN rest = 1..Len(rest)
  BY <1>4, LenProperties
<1>8. ASSUME NEW k \in DOMAIN rest PROVE rest[k] > END_OF_TEXT
  <2>1. m + k - 1 \in 1..Len(s)
    BY <1>2, <1>5, <1>7
  <2> QED BY <1>1, <1>6, <1>7, <2>1
<1>9. ASSUME Len(rest) > 0 PROVE Head(rest) = s[m]
  <2>1. m \in 1..Len(s) /\ Len(s) \in m..Len(s)
    BY <1>2, <1>5, <1>9
  <2> QED BY <2>1, HeadTailOfSubSeq
<1> QED BY <1>4, <1>5, <1>6, <1>8, <1>9

\* What is left of it after its first character.
LEMMA TailOf ==
  ASSUME NEW s \in Seq(Nat), \A k \in DOMAIN s : s[k] > END_OF_TEXT,
         Len(s) > 0
  PROVE  Tail(s) \in Seq(Nat)
         /\ \A k \in DOMAIN Tail(s) : Tail(s)[k] > END_OF_TEXT
<1>1. s # << >> /\ Len(s) \in Nat /\ DOMAIN s = 1..Len(s)
  BY LenProperties, EmptySeq
<1>2. /\ Tail(s) \in Seq(Nat) /\ Len(Tail(s)) = Len(s) - 1
      /\ \A i \in 1..Len(Tail(s)) : Tail(s)[i] = s[i + 1]
  BY <1>1, HeadTailProperties
<1>3. DOMAIN Tail(s) = 1..(Len(s) - 1)
  BY <1>2, LenProperties
<1>4. \A k \in 1..(Len(s) - 1) : k + 1 \in 1..Len(s)
  BY <1>1
<1> QED BY <1>1, <1>2, <1>3, <1>4

\* trie_collisionInTail stops at a difference or at an end.
LEMMA CommonStops ==
  ASSUME NEW s \in Seq(Nat), NEW t \in Seq(Nat),
         NEW n, n = CommonLength(s, t)
  PROVE  /\ n \in Nat /\ n <= Len(s) /\ n <= Len(t)
         /\ n = Len(s) \/ n = Len(t) \/ s[n + 1] # t[n + 1]
<1>0. /\ Len(s) \in Nat /\ Len(t) \in Nat
      /\ \A i \in 1..Len(s) : s[i] \in Nat
      /\ \A i \in 1..Len(t) : t[i] \in Nat
  BY LenProperties
<1> DEFINE both == {Len(s), Len(t)}
           least == Min(both)
<1>1. least \in both /\ \A x \in both : least <= x
  BY <1>0, MinIsLeast
<1>2. least \in Nat /\ least <= Len(s) /\ least <= Len(t)
      /\ (least = Len(s) \/ least = Len(t))
  BY <1>0, <1>1
<1> DEFINE S == {k \in 0..least : SubSeq(s, 1, k) = SubSeq(t, 1, k)}
<1>3. n = Max(S)
  BY Zenon DEF CommonLength
<1> HIDE DEF least
<1>4. S \subseteq Nat /\ \A k \in S : k <= least
  BY <1>2
<1>5. 0 \in S
  <2>1. SubSeq(s, 1, 0) = << >> /\ SubSeq(t, 1, 0) = << >>
    BY SubSeqEmpty
  <2> QED BY <1>2, <2>1
<1>6. n \in S /\ \A k \in S : k <= n
  <2>1. S # {}
    BY <1>5
  <2> HIDE DEF S
  <2> QED BY <1>2, <1>3, <1>4, <2>1, MaxIsGreatest
<1>7. n \in Nat /\ n <= least /\ SubSeq(s, 1, n) = SubSeq(t, 1, n)
  BY <1>2, <1>6
<1>8. ASSUME n # Len(s), n # Len(t), s[n + 1] = t[n + 1] PROVE FALSE
  <2>a. /\ Len(s) \in Nat /\ Len(t) \in Nat /\ least \in Nat /\ n \in Nat
        /\ n <= least /\ least <= Len(s) /\ least <= Len(t)
        /\ n # Len(s) /\ n # Len(t) /\ (least = Len(s) \/ least = Len(t))
    BY <1>0, <1>2, <1>7, <1>8
  <2>b. n + 1 <= least /\ n + 1 - 1 = n /\ n + 1 \in Nat /\ 1 <= n + 1
    BY SMT, <2>a
  <2> PICK h \in Nat : h = n + 1
    BY <2>b
  <2>c. h <= least /\ h - 1 = n /\ 1 <= h
    BY SMT, <2>a, <2>b
  <2>1. /\ h \in 1..Len(s) /\ h \in 1..Len(t) /\ h \in 0..least
        /\ h - 1 = n /\ 1 \in 1..Len(s) /\ 1 \in 1..Len(t)
    BY SMT, <2>a, <2>c
  <2>2. ASSUME NEW q \in Seq(Nat), h \in 1..Len(q), 1 \in 1..Len(q)
        PROVE  SubSeq(q, 1, h) = SubSeq(q, 1, h - 1) \o << q[h] >>
    BY <2>2, SubSeqRecursiveSecond
  <2>3. SubSeq(s, 1, h) = SubSeq(s, 1, h - 1) \o << s[h] >>
    BY <2>1, <2>2
  <2>4. SubSeq(t, 1, h) = SubSeq(t, 1, h - 1) \o << t[h] >>
    BY <2>1, <2>2
  <2>5. SubSeq(s, 1, h) = SubSeq(t, 1, h)
    BY Zenon, <1>7, <1>8, <2>1, <2>3, <2>4
  <2>6. n + 1 \in S
    BY <2>1, <2>5
  <2>7. n + 1 <= n
    BY <1>6, <2>6
  <2> QED BY SMT, <1>7, <2>7
<1> QED BY <1>0, <1>2, <1>7, <1>8

\* The types of a needle and of its characters.
LEMMA NeedleFacts ==
  ASSUME NEW w \in Needles
  PROVE  /\ w \in Seq(Nat) /\ \A k \in DOMAIN w : w[k] > END_OF_TEXT
         /\ Len(w) \in Nat /\ DOMAIN w = 1..Len(w)
         /\ \A k \in 1..Len(w) : w[k] \in Nat /\ w[k] > END_OF_TEXT
<1>1. w \in Seq(Nat) /\ \A k \in DOMAIN w : w[k] > END_OF_TEXT
  BY TrieAssumption
<1>2. /\ Len(w) \in Nat /\ DOMAIN w = 1..Len(w)
      /\ \A k \in 1..Len(w) : w[k] \in Nat
  BY <1>1, LenProperties
<1> QED BY <1>1, <1>2

-----------------------------------------------------------------------------
(* The tail *)

\* There is a free tail cell.
LEMMA FreeTailIsFree ==
  ASSUME SuffixesOK(tail)
  PROVE  FreeTail \in Nat /\ FreeTail > 0 /\ FreeTail \notin DOMAIN tail
<1> DEFINE n == Cardinality(DOMAIN tail)
           S == (1..(n + 1)) \ DOMAIN tail
<1>1. IsFiniteSet(DOMAIN tail) /\ n \in Nat
  BY FS_CardinalityType DEF SuffixesOK
<1>2. S # {}
  <2> SUFFICES ASSUME S = {} PROVE FALSE
    OBVIOUS
  <2>1. 1..(n + 1) \subseteq DOMAIN tail
    OBVIOUS
  <2>2. Cardinality(1..(n + 1)) <= n
    BY <1>1, <2>1, FS_Subset
  <2>3. 1 \in Int /\ n + 1 \in Int /\ ~(1 > n + 1) /\ (n + 1) - 1 + 1 = n + 1
    BY <1>1
  <2>4. Cardinality(1..(n + 1)) = n + 1
    BY <2>3, FS_Interval
  <2> HIDE DEF n
  <2> QED BY SMT, <1>1, <2>2, <2>4
<1>3. S \subseteq Nat
  BY <1>1
<1>4. FreeTail = Min(S)
  BY Zenon DEF FreeTail
<1>5. FreeTail \in S
  BY <1>2, <1>3, <1>4, MinIsLeast
<1> QED BY <1>1, <1>5

\* A suffix is added, and none is overwritten.
LEMMA StoreTailKeeps ==
  ASSUME SuffixesOK(tail), NEW rest \in Seq(Nat),
         \A k \in DOMAIN rest : rest[k] > END_OF_TEXT,
         NEW t, t = StoreTail(rest)
  PROVE  /\ SuffixesOK(t)
         /\ DOMAIN t = DOMAIN tail
                         \union IF Len(rest) > 1 THEN {FreeTail} ELSE {}
         /\ \A x \in DOMAIN tail : t[x] = tail[x]
<1>1. FreeTail \in Nat /\ FreeTail > 0 /\ FreeTail \notin DOMAIN tail
  BY FreeTailIsFree
<1>2. CASE Len(rest) > 1
  <2>1. t = [x \in DOMAIN tail \union {FreeTail} |->
               IF x = FreeTail THEN Tail(rest) ELSE tail[x]]
    BY Zenon, <1>2 DEF StoreTail
  <2> PICK free : free = FreeTail
    OBVIOUS
  <2>2. /\ DOMAIN t = DOMAIN tail \union {free} /\ t[free] = Tail(rest)
        /\ \A x \in DOMAIN tail : t[x] = tail[x]
    BY <1>1, <2>1
  <2>3. Len(rest) > 0
    BY <1>2, LenProperties
  <2>4. Tail(rest) \in Seq(Nat)
        /\ \A k \in DOMAIN Tail(rest) : Tail(rest)[k] > END_OF_TEXT
    BY <2>3, TailOf
  <2>5. IsFiniteSet(DOMAIN t)
    <3>1. IsFiniteSet(DOMAIN tail)
      BY DEF SuffixesOK
    <3>2. IsFiniteSet(DOMAIN tail \union {free})
      BY <3>1, FS_AddElement
    <3> QED BY <2>2, <3>2
  <2>6. DOMAIN t \subseteq Nat
    BY <1>1, <2>2 DEF SuffixesOK
  <2>7. ASSUME NEW x \in DOMAIN t
        PROVE  /\ x > 0 /\ t[x] \in Seq(Nat)
               /\ \A k \in DOMAIN t[x] : t[x][k] > END_OF_TEXT
    <3>1. CASE x = free
      BY <1>1, <2>2, <2>4, <3>1
    <3>2. CASE x \in DOMAIN tail
      BY <2>2, <3>2 DEF SuffixesOK
    <3> QED BY <2>2, <3>1, <3>2
  <2> QED BY <1>2, <2>2, <2>5, <2>6, <2>7 DEF SuffixesOK
<1>3. CASE ~(Len(rest) > 1)
  <2>1. t = tail
    BY Zenon, <1>3 DEF StoreTail
  <2> QED BY <1>3, <2>1
<1> QED BY <1>2, <1>3

-----------------------------------------------------------------------------
(* The leaves and the tail *)

\* trie_insertEndOfText keeps the tree, and the leaves.
LEMMA EndKeeps ==
  ASSUME NEW T, Tree(T), NEW last \in DOMAIN T, T[last].base > 0,
         NEW value \in Data,
         NEW U, U = InsertEndOfText(T, last, value),
         NEW X, X \subseteq Nat, Linked(T, X)
  PROVE  Tree(U) /\ Linked(U, X)
<1>1. CASE SameShape(T, U)
  BY <1>1, SameTree, LinkedSame
<1>2. ASSUME NEW P, NEW new,
             Grown(T, U, P, last, END_OF_TEXT, T[last].base, new)
      PROVE  Tree(U) /\ Linked(U, X)
  <2>1. Tree(U)
    BY <1>2 DEF Grown
  <2>2. T[last].base \in Int
    BY CellFields
  <2>3. Linked(U, X)
    BY <1>2, <2>2, LinkedGrown
  <2> QED BY <2>1, <2>3
<1> QED BY <1>1, <1>2, EndGrown

\* An inner cell is not where the end of text of a node with the base 1 goes.
LEMMA InnerCell ==
  ASSUME NEW T, Tree(T), NEW s \in DOMAIN T, Inner(T, s)
  PROVE  s # 1 + END_OF_TEXT
<1>1. 1 + END_OF_TEXT = 4
  BY DEF END_OF_TEXT
<1>2. CASE s = Root
  BY SMT, <1>1, <1>2 DEF Root
<1>3. CASE s # Root
  <2>1. PICK p \in DOMAIN T : p = T[s].check
    BY <1>3 DEF Tree, Taken
  <2>2. s - T[p].base \in T[p].kids /\ s - T[p].base > END_OF_TEXT
    BY <1>3, <2>1 DEF Tree, Taken, Inner
  <2>3. T[p].base # 0 /\ ~(T[p].base < 0)
    BY <2>2 DEF Tree
  <2>4. T[p].base \in Int /\ s \in Nat
    BY CellFields
  <2> QED BY SMT, <1>1, <2>2, <2>3, <2>4 DEF END_OF_TEXT
<1> QED BY <1>2, <1>3

\* An end of text below a node with the base 1 moves no inner cell.
LEMMA EndStays ==
  ASSUME NEW T, Tree(T), NEW last \in DOMAIN T,
         T[last].base = 1, T[last].kids = {},
         NEW value \in Data,
         NEW U, U = InsertEndOfText(T, last, value),
         NEW s \in DOMAIN T, Inner(T, s), T[s].base > 0
  PROVE  /\ s \in DOMAIN U /\ Inner(U, s) /\ U[s].base > 0
         /\ U[s].kids \subseteq T[s].kids \union Added(s, last, END_OF_TEXT)
<1>0. T[last].base > 0
  BY SMT
<1>1. CASE SameShape(T, U)
  <2>1. Inner(U, s)
    BY <1>1, SameTree
  <2> QED BY <1>1, <2>1 DEF SameShape
<1>2. ASSUME NEW P, NEW new,
             Grown(T, U, P, last, END_OF_TEXT, T[last].base, new)
      PROVE  /\ s \in DOMAIN U /\ Inner(U, s) /\ U[s].base > 0
             /\ U[s].kids = T[s].kids \union Added(s, last, END_OF_TEXT)
  <2>1. s # T[last].base + END_OF_TEXT
    BY InnerCell
  <2>2. P[s] = s
    BY <1>2, <2>1 DEF Grown
  <2>3. /\ P[s] \in DOMAIN U /\ Inner(U, P[s])
        /\ U[P[s]].base = T[s].base \/ U[P[s]].base > 0
        /\ U[P[s]].kids = T[s].kids \union Added(s, last, END_OF_TEXT)
    BY <1>2 DEF Grown
  <2> QED BY <2>2, <2>3
<1> QED BY <1>0, <1>1, <1>2, EndGrown

\* A node that is neither a leaf nor an end of text.
LEMMA StoreNode ==
  ASSUME NEW T, Tree(T), NEW last \in DOMAIN T, T[last].base > 0,
         NEW char \in Nat, char > END_OF_TEXT, char \notin T[last].kids,
         NEW X, X \subseteq Nat, Linked(T, X),
         NEW r, r = StoreCharacter(T, last, 1, char),
         NEW U, U = r.cells, NEW s, s = r.state
  PROVE  /\ Tree(U) /\ Linked(U, X)
         /\ s \in DOMAIN U /\ Inner(U, s) /\ U[s].base = 1 /\ U[s].kids = {}
<1>2. char >= END_OF_TEXT /\ char # END_OF_TEXT
  BY SMT DEF END_OF_TEXT
<1>3. PICK P : Grown(T, r.cells, P, last, char, 1, r.state)
  BY <1>2, StoreGrown
<1>4. Grown(T, U, P, last, char, 1, s)
  BY <1>3
<1>5. Linked(U, X)
  <2>1. PICK base \in Int : base = 1 /\ base > 0
    OBVIOUS
  <2> QED BY <1>4, <2>1, LinkedGrown
<1> QED BY <1>4, <1>5 DEF Grown

\* U is T without the leaf at n, whose suffix was one of X.
Reset(T, U, n, X) ==
  /\ Tree(U) /\ DOMAIN U = DOMAIN T
  /\ Linked(U, X \ {-T[n].base})
  /\ \A i \in DOMAIN T : Inner(T, i) => Inner(U, i)
  /\ U[n].base = 1 /\ U[n].kids = {}

\* trie_collisionInTail takes the suffix from a leaf.
LEMMA LeafReset ==
  ASSUME NEW T, Tree(T), NEW n \in DOMAIN T, T[n].base < 0,
         NEW U, U = [T EXCEPT ![n].base = 1],
         NEW X, X \subseteq Nat, Linked(T, X)
  PROVE  Reset(T, U, n, X)
<1>0. T \in [DOMAIN T -> Cell] /\ T[n].kids = {} /\ T[n].base \in Int
  BY CellFields DEF Tree
<1>1. /\ DOMAIN U = DOMAIN T /\ U = [j \in DOMAIN U |-> U[j]]
      /\ U[n] = [T[n] EXCEPT !.base = 1]
      /\ \A j \in DOMAIN T : j # n => U[j] = T[j]
  BY Zenon, <1>0
<1>2. ASSUME NEW r \in Cell
      PROVE  /\ [r EXCEPT !.base = 1] \in Cell
             /\ [r EXCEPT !.base = 1].base = 1
             /\ [r EXCEPT !.base = 1].check = r.check
             /\ [r EXCEPT !.base = 1].kids = r.kids
  BY DEF Cell
<1>3. T[n] \in Cell
  BY <1>0
<1>4. /\ U[n] \in Cell /\ U[n].base = 1 /\ U[n].check = T[n].check
      /\ U[n].kids = T[n].kids
  BY Zenon, <1>1, <1>2, <1>3
<1>5. \A j \in DOMAIN T : /\ U[j] \in Cell /\ U[j].check = T[j].check
                          /\ U[j].kids = T[j].kids
                          /\ j # n => U[j].base = T[j].base
  BY <1>0, <1>1, <1>4
<1>6. U \in [DOMAIN U -> Cell]
  BY Zenon, <1>1, <1>5
<1>7. \A i \in Taken(T) :
        /\ i \in DOMAIN T /\ T[i].check \in DOMAIN T /\ T[i].check # i
        /\ i - T[T[i].check].base \in T[T[i].check].kids
        /\ T[i].check # n
  BY <1>0 DEF Tree, Taken
<1>8. Taken(U) = Taken(T)
  BY <1>1 DEF Taken
<1> DEFINE D == DOMAIN T
<1>9. Tree(U)
  <2>1. \A i \in Taken(U) :
          /\ U[i].check \in DOMAIN U /\ U[i].check # i
          /\ i - U[U[i].check].base \in U[U[i].check].kids
    BY <1>1, <1>5, <1>7, <1>8
  <2>2. ASSUME NEW i \in DOMAIN U, NEW c \in U[i].kids
        PROVE  /\ c >= END_OF_TEXT
               /\ U[i].base + c \in Taken(U)
               /\ U[U[i].base + c].check = i
    <3>1. i \in DOMAIN T /\ c \in T[i].kids /\ i # n
      BY <1>0, <1>1, <1>5, <2>2
    <3>2. /\ c >= END_OF_TEXT /\ T[i].base + c \in Taken(T)
          /\ T[T[i].base + c].check = i
      BY <3>1 DEF Tree
    <3>3. U[i].base = T[i].base
      BY <1>5, <3>1
    <3> QED BY <1>5, <1>7, <1>8, <3>2, <3>3
  <2>3. ASSUME NEW i \in DOMAIN U
        PROVE  /\ U[i].base # 0
               /\ U[i].base < 0 => U[i].kids = {}
               /\ END_OF_TEXT \in U[i].kids =>
                    U[U[i].base + END_OF_TEXT].base > 0
    <3>1. CASE i = n
      BY <1>0, <1>4, <3>1
    <3>2. CASE i # n
      <4>1. U[i].base = T[i].base /\ U[i].kids = T[i].kids /\ i \in DOMAIN T
        BY <1>1, <1>5, <3>2
      <4>2. ASSUME END_OF_TEXT \in T[i].kids
            PROVE  U[T[i].base + END_OF_TEXT].base > 0
        <5>1. T[i].base + END_OF_TEXT \in DOMAIN T
              /\ T[T[i].base + END_OF_TEXT].base > 0
          BY <4>1, <4>2 DEF Tree, Taken
        <5>2. T[i].base + END_OF_TEXT # n
          <6> SUFFICES ASSUME T[i].base + END_OF_TEXT = n PROVE FALSE
            OBVIOUS
          <6> QED BY SMT, <1>0, <5>1
        <5> QED BY <1>5, <5>1, <5>2
      <4> QED BY <4>1, <4>2 DEF Tree
    <3> QED BY <3>1, <3>2
  <2>4. /\ DOMAIN U \subseteq Nat /\ Root \in DOMAIN U /\ U[Root].base > 0
    <3>1. DOMAIN T \subseteq Nat /\ Root \in DOMAIN T /\ T[Root].base > 0
      BY DEF Tree
    <3>2. CASE Root = n
      BY <1>1, <1>4, <3>1, <3>2
    <3>3. CASE Root # n
      BY <1>1, <1>5, <3>1, <3>3
    <3> QED BY <3>2, <3>3
  <2>5. \E max \in DOMAIN U : \A i \in DOMAIN U : 1 <= i /\ i <= max
    BY <1>1 DEF Tree
  <2> QED BY <1>6, <2>1, <2>2, <2>3, <2>4, <2>5 DEF Tree
<1>10. ASSUME NEW i \in DOMAIN T, Inner(T, i) PROVE Inner(U, i)
  <2>1. CASE i = Root
    BY <2>1 DEF Inner
  <2>2. CASE i # Root
    <3>1. i \in Taken(T)
      BY <2>2 DEF Taken
    <3>2. i - T[T[i].check].base > END_OF_TEXT
      BY <1>10, <2>2 DEF Inner
    <3> QED BY <1>5, <1>7, <3>1, <3>2 DEF Inner
  <2> QED BY <2>1, <2>2
<1>11. Linked(U, X \ {-T[n].base})
  <2>1. \A i \in DOMAIN U : U[i].base < 0 => i # n /\ U[i].base = T[i].base
    BY <1>1, <1>4, <1>5
  <2>2. ASSUME NEW i \in DOMAIN U, U[i].base < 0
        PROVE  -U[i].base \in X \ {-T[n].base}
    <3>1. i # n /\ U[i].base = T[i].base /\ i \in DOMAIN T
      BY <1>1, <2>1, <2>2
    <3>2. -T[i].base \in X /\ T[i].base # T[n].base
      BY <2>2, <3>1 DEF Linked
    <3>3. -T[i].base # -T[n].base
      <4>1. T[i].base \in Int
        BY <3>1, CellFields
      <4> QED BY SMT, <1>0, <3>2, <4>1
    <3> QED BY <3>1, <3>2, <3>3
  <2>3. ASSUME NEW x \in X \ {-T[n].base}
        PROVE  \E i \in DOMAIN U : U[i].base = -x
    <3>1. PICK i \in DOMAIN T : T[i].base = -x
      BY DEF Linked
    <3>2. i # n
      <4> SUFFICES ASSUME i = n PROVE FALSE
        OBVIOUS
      <4>1. x \in Nat /\ x # -T[n].base /\ T[n].base = -x
        BY <3>1
      <4> QED BY SMT, <4>1
    <3> QED BY <1>1, <1>5, <3>1, <3>2
  <2>4. \A i, j \in DOMAIN U :
          U[i].base < 0 /\ U[i].base = U[j].base => i = j
    <3> SUFFICES ASSUME NEW i \in DOMAIN U, NEW j \in DOMAIN U,
                        U[i].base < 0, U[i].base = U[j].base
                 PROVE  i = j
      OBVIOUS
    <3>1. U[i].base = T[i].base /\ U[j].base = T[j].base
          /\ i \in DOMAIN T /\ j \in DOMAIN T
      BY <1>1, <2>1
    <3> QED BY <3>1 DEF Linked
  <2> QED BY <2>2, <2>3, <2>4 DEF Linked
<1> QED BY <1>0, <1>1, <1>4, <1>9, <1>10, <1>11 DEF Reset

-----------------------------------------------------------------------------
(* A branch *)

\* What a branch of state with the characters of rest has done: U and t are
\* the cells and the tail, s is where the state is.
Branched(U, s, t, X, rest) ==
  /\ Tree(U) /\ SuffixesOK(t)
  /\ FreeTail \notin DOMAIN tail
  /\ DOMAIN t = DOMAIN tail \union IF Len(rest) > 1 THEN {FreeTail} ELSE {}
  /\ \A x \in DOMAIN tail : t[x] = tail[x]
  /\ Linked(U, X \union IF Len(rest) > 1 THEN {FreeTail} ELSE {})
  /\ cells[state].kids = {} /\ cells[state].base = 1 /\ Inner(cells, state)
     => /\ s \in DOMAIN U /\ Inner(U, s) /\ U[s].base > 0
        /\ U[s].kids \subseteq {IF Len(rest) = 0 THEN END_OF_TEXT
                                ELSE Head(rest)}

\* trie_collisionInTail_needle and _tail, and trie_insertBranch.
LEMMA BranchKeeps ==
  ASSUME Tree(cells), state \in DOMAIN cells, cells[state].base > 0,
         SuffixesOK(tail), NEW X, X \subseteq DOMAIN tail, Linked(cells, X),
         NEW rest \in Seq(Nat), \A k \in DOMAIN rest : rest[k] > END_OF_TEXT,
         Len(rest) > 0 => Head(rest) \notin cells[state].kids,
         NEW value \in Data,
         NEW r, r = Branch(rest, value), NEW t, t = StoreTail(rest)
  PROVE  Branched(r.cells, r.state, t, X, rest)
<1>1. /\ SuffixesOK(t)
      /\ DOMAIN t = DOMAIN tail \union IF Len(rest) > 1 THEN {FreeTail} ELSE {}
      /\ \A x \in DOMAIN tail : t[x] = tail[x]
  BY StoreTailKeeps
<1>2. FreeTail \in Nat /\ FreeTail > 0 /\ FreeTail \notin DOMAIN tail
  BY FreeTailIsFree
<1>3. X \subseteq Nat /\ FreeTail \notin X
  BY <1>2 DEF SuffixesOK
<1>4. Len(rest) \in Nat /\ (Len(rest) = 0 <=> rest = << >>)
  BY LenProperties, EmptySeq
<1>s. /\ Len(rest) = 0 \/ Len(rest) > 0
      /\ Len(rest) > 0 => Len(rest) = 1 \/ Len(rest) > 1
  <2>1. Len(rest) \in Nat
    BY <1>4
  <2>2. \A n \in Nat : /\ n = 0 \/ n > 0
                       /\ n > 0 => n = 1 \/ n > 1
    OBVIOUS
  <2> QED BY Zenon, <2>1, <2>2
<1> PICK T : T = cells
  OBVIOUS
<1> PICK last : last = state
  OBVIOUS
<1> PICK free : free = FreeTail
  OBVIOUS
<1>5. /\ Tree(T) /\ last \in DOMAIN T /\ T[last].base > 0 /\ Linked(T, X)
      /\ Len(rest) > 0 => Head(rest) \notin T[last].kids
      /\ free \in Nat /\ free > 0 /\ free \notin X
  BY <1>2, <1>3
<1> PICK U : U = r.cells
  OBVIOUS
<1> PICK s : s = r.state
  OBVIOUS
<1> SUFFICES
      /\ Tree(U)
      /\ Linked(U, X \union IF Len(rest) > 1 THEN {free} ELSE {})
      /\ T[last].kids = {} /\ T[last].base = 1 /\ Inner(T, last)
         => /\ s \in DOMAIN U /\ Inner(U, s) /\ U[s].base > 0
            /\ U[s].kids \subseteq {IF Len(rest) = 0 THEN END_OF_TEXT
                                    ELSE Head(rest)}
  BY <1>1, <1>2 DEF Branched
<1>6. CASE Len(rest) = 0
  <2>1. U = InsertEndOfText(T, last, value) /\ s = last
    BY Zenon, <1>4, <1>6 DEF Branch
  <2>2. Tree(U) /\ Linked(U, X)
    BY <1>3, <1>5, <2>1, EndKeeps
  <2>3. ASSUME T[last].kids = {}, T[last].base = 1, Inner(T, last)
        PROVE  /\ s \in DOMAIN U /\ Inner(U, s) /\ U[s].base > 0
               /\ U[s].kids \subseteq {END_OF_TEXT}
    <3>1. /\ last \in DOMAIN U /\ Inner(U, last) /\ U[last].base > 0
          /\ U[last].kids \subseteq
               T[last].kids \union Added(last, last, END_OF_TEXT)
      BY <1>5, <2>1, <2>3, EndStays
    <3> QED BY <2>1, <2>3, <3>1 DEF Added
  <2> QED BY <1>6, <2>2, <2>3
<1>7. CASE Len(rest) > 0
  <2>1. PICK char \in Nat : char = Head(rest) /\ char > END_OF_TEXT
    <3>1. DOMAIN rest = 1..Len(rest)
      BY LenProperties
    <3>2. 1 \in DOMAIN rest /\ rest # << >>
      BY <1>4, <1>7, <3>1
    <3>3. Head(rest) = rest[1]
      <4>1. 1 \in 1..Len(rest) /\ Len(rest) \in 1..Len(rest)
        BY <1>4, <1>7
      <4>2. SubSeq(rest, 1, Len(rest)) = rest
        BY SubSeqFull
      <4> QED BY <4>1, <4>2, HeadTailOfSubSeq
    <3> QED BY <3>2, <3>3, HeadTailProperties
  <2>2. char >= END_OF_TEXT /\ char # END_OF_TEXT /\ char \notin T[last].kids
    BY SMT, <1>5, <1>7, <2>1 DEF END_OF_TEXT
  <2> PICK base : base = TailBase(rest)
    OBVIOUS
  <2>3. /\ Len(rest) > 1 => base = -free
        /\ Len(rest) = 1 => base = 1
        /\ base \in Int /\ base # 0
    <3>1. CASE Len(rest) > 1
      <4>1. base = -free
        BY Zenon, <3>1 DEF TailBase
      <4>2. -free \in Int /\ -free # 0 /\ Len(rest) # 1
        BY SMT, <1>5, <3>1
      <4> QED BY <4>1, <4>2
    <3>2. CASE ~(Len(rest) > 1)
      <4>1. base = 1
        BY Zenon, <3>2 DEF TailBase
      <4> QED BY <3>2, <4>1
    <3> QED BY <3>1, <3>2
  <2> PICK q : q = StoreCharacter(T, last, base, char)
    OBVIOUS
  <2> PICK W : W = q.cells
    OBVIOUS
  <2> PICK new : new = q.state
    OBVIOUS
  <2> PICK V : V = SetData(W, new, value)
    OBVIOUS
  <2>4. /\ U = IF Len(rest) = 1 THEN InsertEndOfText(V, new, value) ELSE V
        /\ s = V[new].check
    <3>1. rest # << >>
      BY <1>4, <1>7
    <3>2. q = StoreCharacter(cells, state, TailBase(rest), Head(rest))
          /\ V = SetData(q.cells, q.state, value)
      BY Zenon, <2>1
    <3>3. r = [cells |-> IF Len(rest) = 1
                         THEN InsertEndOfText(V, q.state, value) ELSE V,
               state |-> V[q.state].check]
      BY Zenon, <3>1, <3>2 DEF Branch
    <3>4. U = IF Len(rest) = 1 THEN InsertEndOfText(V, new, value) ELSE V
      BY <3>3
    <3>5. s = V[new].check
      BY <3>3
    <3> QED BY <3>4, <3>5
  <2>5. PICK P : Grown(T, W, P, last, char, base, new)
    BY <1>5, <2>2, <2>3, StoreGrown
  <2>6. SameShape(W, V)
    <3>1. Tree(W) /\ new \in DOMAIN W
      BY <2>5 DEF Grown
    <3> QED BY <3>1, SetDataShape
  <2>7. Grown(T, V, P, last, char, base, new)
    BY <1>5, <2>5, <2>6, SameGrown
  <2>c. V[new].check = P[last]
    BY <2>7 DEF Grown
  <2>d. s = P[last]
    BY <2>4, <2>c
  <2>e. /\ Tree(V) /\ new \in DOMAIN V /\ P[last] \in DOMAIN V
        /\ P[last] # new /\ V[new].base = base /\ V[new].kids = {}
    BY <1>5, <2>7 DEF Grown
  <2>f. /\ V[P[last]].base = T[last].base \/ V[P[last]].base > 0
        /\ V[P[last]].kids = T[last].kids \union Added(last, last, char)
        /\ Inner(T, last) => Inner(V, P[last])
    BY <1>5, <2>7 DEF Grown
  <2>8. /\ Tree(V) /\ new \in DOMAIN V /\ s = P[last] /\ s \in DOMAIN V
        /\ s # new /\ V[new].base = base /\ V[new].kids = {}
        /\ V[s].base = T[last].base \/ V[s].base > 0
        /\ V[s].kids = T[last].kids \union Added(last, last, char)
        /\ Inner(T, last) => Inner(V, s)
    BY Zenon, <2>d, <2>e, <2>f
  <2>9. CASE Len(rest) = 1
    <3>1. base = 1 /\ U = InsertEndOfText(V, new, value) /\ ~(Len(rest) > 1)
      BY <2>3, <2>4, <2>9
    <3>2. base > 0 /\ V[new].base = 1 /\ V[new].base > 0
      BY <2>8, <3>1
    <3>3. Linked(V, X)
      BY <1>3, <1>5, <2>3, <2>7, <3>2, LinkedGrown
    <3>4. Tree(U) /\ Linked(U, X)
      BY <1>3, <2>8, <3>1, <3>2, <3>3, EndKeeps
    <3>5. ASSUME T[last].kids = {}, T[last].base = 1, Inner(T, last)
          PROVE  /\ s \in DOMAIN U /\ Inner(U, s) /\ U[s].base > 0
                 /\ U[s].kids \subseteq {Head(rest)}
      <4>1. Inner(V, s) /\ V[s].base > 0
        BY <2>8, <3>5
      <4>2. /\ s \in DOMAIN U /\ Inner(U, s) /\ U[s].base > 0
            /\ U[s].kids \subseteq V[s].kids \union Added(s, new, END_OF_TEXT)
        BY <2>8, <3>1, <3>2, <4>1, EndStays
      <4>3. V[s].kids = {char} /\ Added(s, new, END_OF_TEXT) = {}
        BY <2>8, <3>5 DEF Added
      <4> QED BY <2>1, <4>2, <4>3
    <3> QED BY <1>7, <3>1, <3>4, <3>5
  <2>10. CASE Len(rest) > 1
    <3>1. base = -free /\ U = V /\ Len(rest) # 1
      BY <1>4, <2>3, <2>4, <2>10
    <3>2. Linked(V, X \union {free})
      BY <1>3, <1>5, <2>7, <3>1, LinkedLeaf
    <3>3. ASSUME T[last].kids = {}, T[last].base = 1, Inner(T, last)
          PROVE  /\ s \in DOMAIN U /\ Inner(U, s) /\ U[s].base > 0
                 /\ U[s].kids \subseteq {Head(rest)}
      BY <2>1, <2>8, <3>1, <3>3 DEF Added
    <3>4. Tree(U) /\ Linked(U, X \union {free})
      BY <2>8, <3>1, <3>2
    <3>5. ~(Len(rest) = 0)
      BY SMT, <2>10
    <3> QED BY Zenon, <2>10, <3>3, <3>4, <3>5
  <2>11. Len(rest) = 1 \/ Len(rest) > 1
    BY Zenon, <1>7, <1>s
  <2> QED BY Zenon, <2>9, <2>10, <2>11
<1> QED BY Zenon, <1>6, <1>7, <1>s

-----------------------------------------------------------------------------
(* The invariant *)

\* The suffix that is being split.
Loose == IF pc \in {"common", "tail"} THEN {tailIndex} ELSE {}

\* What a call in progress relies on.  The state of collisionInTail has the
\* base 1 as long as nothing was put behind it: then an end of text goes to
\* cell 4 and never moves the state, which is not read again.
CallOK ==
  /\ pc \in {"char", "common", "tail"} =>
       needle \in Needles /\ Inner(cells, state) /\ cells[state].base > 0
  /\ pc = "common" => cells[state].kids = {} /\ cells[state].base = 1
  /\ pc \in {"common", "tail"} =>
       /\ options.useTail /\ tailIndex \in DOMAIN tail
       /\ common \in 0..Len(tail[tailIndex]) /\ tailAt \in 1..common + 1
       /\ \/ common = Len(tail[tailIndex]) \/ index > Len(needle)
          \/ tail[tailIndex][common + 1] # needle[index]
  /\ pc = "tail" =>
       /\ tailAt = common + 1
       /\ cells[state].kids \subseteq
            {IF index > Len(needle) THEN END_OF_TEXT ELSE needle[index]}

Arguments ==
  /\ pc \in {"idle", "char", "common", "tail", "crashed"}
  /\ needle \in Needles \union {<< >>} /\ data \in Data
  /\ index \in 1..(Len(needle) + 1)
  /\ state \in DOMAIN cells
  /\ adds \in 0..MaxAdds /\ options \in Options
  /\ tailData \in Data

\* The inductive invariant.
IInv ==
  /\ Arguments
  /\ Tree(cells)
  /\ SuffixesOK(tail)
  /\ ~options.useTail => DOMAIN tail = {}
  /\ Linked(cells, DOMAIN tail \ Loose)
  /\ CallOK

-----------------------------------------------------------------------------
(* The actions, one lemma each *)

\* What a call leaves behind when it returns.
LEMMA EndCallKeeps ==
  ASSUME IInv, pc' \in {"idle", "crashed"}, needle' = << >>, data' = Empty,
         index' = 1, state' = Root, tailData' = Empty,
         UNCHANGED <<options, adds>>,
         Tree(cells'), SuffixesOK(tail'),
         ~options.useTail => DOMAIN tail' = {},
         Linked(cells', DOMAIN tail')
  PROVE  IInv'
<1>1. Loose' = {}
  BY DEF Loose
<1>2. Linked(cells', (DOMAIN tail \ Loose)')
  <2>1. (DOMAIN tail \ Loose)' = DOMAIN tail'
    BY <1>1
  <2> QED BY <2>1
<1>3. Arguments'
  <2>1. index' \in 1..(Len(needle') + 1)
    BY EmptySeq
  <2>2. state' \in DOMAIN cells'
    BY DEF Tree
  <2> QED BY <2>1, <2>2, TrieAssumption DEF IInv, Arguments
<1>4. CallOK'
  BY DEF CallOK
<1> QED BY <1>2, <1>3, <1>4 DEF IInv

\* The next round of the loop of addNeedle.
LEMMA GoOnKeeps ==
  ASSUME IInv, Storing, NEW s, GoOn(s), UNCHANGED tail,
         Tree(cells'), s \in DOMAIN cells', Inner(cells', s),
         cells'[s].base > 0, Linked(cells', DOMAIN tail)
  PROVE  IInv'
<1>1. /\ pc = "char" /\ pc' = "char" /\ state' = s /\ index' = index + 1
      /\ index <= Len(needle) /\ tail' = tail
      /\ UNCHANGED <<tailData, options, needle, data, adds>>
  BY DEF Storing, GoOn, split, call
<1>2. Loose' = {}
  BY <1>1 DEF Loose
<1>3. Linked(cells', (DOMAIN tail \ Loose)')
  <2>1. (DOMAIN tail \ Loose)' = DOMAIN tail
    BY <1>1, <1>2
  <2> QED BY <2>1
<1>4. needle \in Needles
  BY <1>1 DEF IInv, CallOK
<1>5. Arguments'
  <2>1. index' \in 1..(Len(needle') + 1)
    <3>1. Len(needle) \in Nat
      BY <1>4, NeedleFacts
    <3>2. index \in 1..(Len(needle) + 1)
      BY DEF IInv, Arguments
    <3>3. index + 1 \in 1..(Len(needle) + 1)
      BY <1>1, <3>1, <3>2
    <3> QED BY <1>1, <3>3
  <2> QED BY <1>1, <2>1 DEF IInv, Arguments
<1>6. CallOK'
  BY <1>1, <1>4 DEF CallOK
<1> QED BY <1>1, <1>3, <1>5, <1>6 DEF IInv

\* What the loop of addNeedle works with.
LEMMA CharFacts ==
  ASSUME IInv, pc = "char"
  PROVE  /\ Tree(cells) /\ state \in DOMAIN cells /\ cells[state].base > 0
         /\ Inner(cells, state) /\ needle \in Needles /\ data \in Data
         /\ Linked(cells, DOMAIN tail) /\ DOMAIN tail \subseteq Nat
         /\ SuffixesOK(tail) /\ (~options.useTail => DOMAIN tail = {})
<1>1. Loose = {}
  BY DEF Loose
<1>2. Linked(cells, DOMAIN tail)
  <2>1. DOMAIN tail \ Loose = DOMAIN tail
    BY <1>1
  <2> QED BY <2>1 DEF IInv
<1> QED BY <1>2 DEF IInv, Arguments, CallOK, SuffixesOK

\* The character to store, and that it is new where it is inserted.
LEMMA StoringFacts ==
  ASSUME IInv, Storing
  PROVE  /\ needle[index] \in Nat /\ needle[index] > END_OF_TEXT
         /\ index \in 1..Len(needle) /\ Len(needle) \in Nat
         /\ NewState \notin Taken(cells) \/ cells[NewState].check # state =>
              needle[index] \notin cells[state].kids
<1>1. needle \in Needles /\ Tree(cells) /\ state \in DOMAIN cells
  BY CharFacts DEF Storing
<1>2. Len(needle) \in Nat
  BY <1>1, NeedleFacts
<1>3. index \in 1..(Len(needle) + 1) /\ index <= Len(needle)
  BY DEF IInv, Arguments, Storing
<1>4. index \in 1..Len(needle)
  BY <1>2, <1>3
<1>5. needle[index] \in cells[state].kids =>
        NewState \in Taken(cells) /\ cells[NewState].check = state
  BY <1>1 DEF Tree, NewState
<1> QED BY <1>1, <1>2, <1>4, <1>5, NeedleFacts

\* A call begins at the root.
LEMMA AddNeedleKeeps ==
  ASSUME IInv, AddNeedle PROVE IInv'
<1>1. /\ pc = "idle" /\ adds < MaxAdds /\ pc' = "char" /\ adds' = adds + 1
      /\ needle' \in Needles /\ data' \in Data /\ index' = 1 /\ state' = Root
      /\ options' = options /\ cells' = cells /\ tail' = tail
      /\ tailData' = tailData
  BY DEF AddNeedle, structure, split
<1>2. Loose = {} /\ Loose' = {}
  BY <1>1 DEF Loose
<1>3. Linked(cells', (DOMAIN tail \ Loose)')
  <2>1. (DOMAIN tail \ Loose)' = DOMAIN tail \ Loose
    BY <1>1, <1>2
  <2> QED BY <1>1, <2>1 DEF IInv
<1>4. Arguments'
  <2>1. Len(needle') \in Nat
    BY <1>1, NeedleFacts
  <2>2. 1 \in 1..(Len(needle') + 1)
    BY <2>1
  <2>3. adds' \in 0..MaxAdds
    BY <1>1, TrieAssumption DEF IInv, Arguments
  <2>4. Root \in DOMAIN cells'
    BY <1>1 DEF IInv, Tree
  <2> QED BY <1>1, <2>2, <2>3, <2>4 DEF IInv, Arguments
<1>5. CallOK'
  <2>1. Inner(cells', Root) /\ cells'[Root].base > 0
    BY <1>1 DEF Inner, IInv, Tree
  <2> QED BY <1>1, <2>1 DEF CallOK
<1> QED BY <1>1, <1>3, <1>4, <1>5 DEF IInv

\* trie_storeNeedle into a free cell, without a tail.
LEMMA InsertNodeKeeps ==
  ASSUME IInv, InsertNode PROVE IInv'
<1>1. /\ Storing /\ NewState \notin Taken(cells) /\ UNCHANGED tail
      /\ cells' = Insert(cells, NewState, 1, state) /\ GoOn(NewState)
  BY DEF InsertNode
<1> PICK r : r = StoreCharacter(cells, state, 1, needle[index])
  OBVIOUS
<1>2. cells' = r.cells /\ NewState = r.state
  <2>1. r = [cells |-> cells', state |-> NewState]
    BY Zenon, <1>1 DEF StoreCharacter, NewState
  <2> QED BY <2>1
<1>3. /\ Tree(cells) /\ state \in DOMAIN cells /\ cells[state].base > 0
      /\ Linked(cells, DOMAIN tail) /\ DOMAIN tail \subseteq Nat
  BY <1>1, CharFacts DEF Storing
<1>4. /\ needle[index] \in Nat /\ needle[index] > END_OF_TEXT
      /\ needle[index] \notin cells[state].kids
  BY <1>1, StoringFacts
<1>5. /\ Tree(cells') /\ Linked(cells', DOMAIN tail)
      /\ NewState \in DOMAIN cells' /\ Inner(cells', NewState)
      /\ cells'[NewState].base = 1
  BY <1>2, <1>3, <1>4, StoreNode
<1> QED BY <1>1, <1>5, GoOnKeeps

\* trie_storeNeedle into a cell of another parent.
LEMMA CollideKeeps ==
  ASSUME IInv, Collide PROVE IInv'
<1>1. PICK r :
        /\ Storing /\ NewState \in Taken(cells) /\ UNCHANGED tail
        /\ cells[NewState].check # state
        /\ r = CollisionInArray(cells, NewState, 1, state, needle[index])
        /\ cells' = r.cells /\ GoOn(r.state)
  BY DEF Collide
<1> PICK s : s = r.state
  OBVIOUS
<1>2. r = StoreCharacter(cells, state, 1, needle[index])
  BY Zenon, <1>1 DEF StoreCharacter, NewState
<1>3. /\ Tree(cells) /\ state \in DOMAIN cells /\ cells[state].base > 0
      /\ Linked(cells, DOMAIN tail) /\ DOMAIN tail \subseteq Nat
  BY <1>1, CharFacts DEF Storing
<1>4. /\ needle[index] \in Nat /\ needle[index] > END_OF_TEXT
      /\ needle[index] \notin cells[state].kids
  BY <1>1, StoringFacts
<1>5. /\ Tree(cells') /\ Linked(cells', DOMAIN tail)
      /\ s \in DOMAIN cells' /\ Inner(cells', s)
      /\ cells'[s].base = 1
  BY <1>1, <1>2, <1>3, <1>4, StoreNode
<1>6. GoOn(s)
  BY <1>1
<1> QED BY <1>1, <1>5, <1>6, GoOnKeeps

\* The cell that the next character leads to, if it is a child of the state.
LEMMA FollowedFacts ==
  ASSUME IInv, Storing, NewState \in Taken(cells),
         cells[NewState].check = state
  PROVE  /\ NewState \in DOMAIN cells /\ Inner(cells, NewState)
         /\ cells[NewState].base \in Int /\ cells[NewState].base # 0
         /\ cells[NewState].base < 0 =>
              /\ options.useTail /\ cells[NewState].kids = {}
              /\ -cells[NewState].base \in DOMAIN tail
<1>1. /\ Tree(cells) /\ state \in DOMAIN cells
      /\ Linked(cells, DOMAIN tail) /\ (~options.useTail => DOMAIN tail = {})
  BY CharFacts DEF Storing
<1>2. NewState \in DOMAIN cells
  BY DEF Taken
<1>3. Inner(cells, NewState)
  <2>1. cells[state].base \in Int
    BY <1>1, CellFields
  <2>2. needle[index] \in Nat /\ needle[index] > END_OF_TEXT
    BY StoringFacts
  <2>3. NewState - cells[state].base = needle[index]
    BY SMT, <2>1, <2>2 DEF NewState
  <2> QED BY <2>2, <2>3 DEF Inner
<1>4. cells[NewState].base \in Int /\ cells[NewState].base # 0
  BY <1>1, <1>2, CellFields
<1>5. /\ cells[NewState].base < 0 => cells[NewState].kids = {}
      /\ cells[NewState].base < 0 => -cells[NewState].base \in DOMAIN tail
  BY <1>1, <1>2 DEF Tree, Linked
<1> QED BY <1>1, <1>2, <1>3, <1>4, <1>5

\* trie_storeNeedle follows a node that is there.
LEMMA FollowKeeps ==
  ASSUME IInv, Follow PROVE IInv'
<1>1. /\ Storing /\ NewState \in Taken(cells) /\ cells[NewState].check = state
      /\ ~(cells[NewState].base < 0 /\ options.useTail)
      /\ GoOn(NewState) /\ cells' = cells /\ tail' = tail
  BY DEF Follow, structure
<1>2. /\ NewState \in DOMAIN cells /\ Inner(cells, NewState)
      /\ cells[NewState].base \in Int /\ cells[NewState].base # 0
      /\ ~(cells[NewState].base < 0)
  BY <1>1, FollowedFacts
<1>3. cells[NewState].base > 0
  BY SMT, <1>2
<1>4. Tree(cells) /\ Linked(cells, DOMAIN tail)
  BY <1>1, CharFacts DEF Storing
<1> QED BY <1>1, <1>2, <1>3, <1>4, GoOnKeeps

\* The end of text behind the last character.
LEMMA EndOfNeedleKeeps ==
  ASSUME IInv, EndOfNeedle PROVE IInv'
<1>1. /\ pc = "char" /\ cells' = InsertEndOfText(cells, state, data)
      /\ tail' = tail /\ pc' = "idle" /\ needle' = << >> /\ data' = Empty
      /\ index' = 1 /\ state' = Root /\ tailData' = Empty
      /\ UNCHANGED <<options, adds>>
  BY DEF EndOfNeedle, EndCall
<1>2. /\ Tree(cells) /\ state \in DOMAIN cells /\ cells[state].base > 0
      /\ data \in Data
      /\ Linked(cells, DOMAIN tail) /\ DOMAIN tail \subseteq Nat
      /\ SuffixesOK(tail) /\ (~options.useTail => DOMAIN tail = {})
  BY <1>1, CharFacts
<1>3. Tree(cells') /\ Linked(cells', DOMAIN tail)
  BY <1>1, <1>2, EndKeeps
<1> QED BY <1>1, <1>2, <1>3, EndCallKeeps

-----------------------------------------------------------------------------
(* trie_insertBranch and trie_collisionInTail *)

\* trie_insertBranch makes the rest of the needle a branch of the state.
LEMMA InsertBranchIs ==
  ASSUME IInv, InsertBranch,
         NEW rest, rest = SubSeq(needle, index, Len(needle)),
         NEW r, r = Branch(rest, data)
  PROVE  /\ cells' = r.cells /\ tail' = StoreTail(rest)
         /\ rest \in Seq(Nat) /\ Len(rest) > 0 /\ rest # << >>
         /\ \A k \in DOMAIN rest : rest[k] > END_OF_TEXT
         /\ Head(rest) = needle[index]
         /\ needle[index] \notin cells[state].kids
<1> PICK T : T = SetData(Insert(cells, NewState, TailBase(rest), state),
                         NewState, data)
  OBVIOUS
<1>1. /\ Storing /\ options.useTail /\ NewState \notin Taken(cells)
      /\ tail' = StoreTail(rest)
      /\ cells' = IF TailBase(rest) > 0
                  THEN InsertEndOfText(T, NewState, data) ELSE T
  BY Zenon DEF InsertBranch
<1>3. /\ Tree(cells) /\ state \in DOMAIN cells /\ cells[state].base > 0
      /\ needle \in Needles /\ data \in Data
      /\ Linked(cells, DOMAIN tail) /\ SuffixesOK(tail)
  BY <1>1, CharFacts DEF Storing
<1>4. /\ needle[index] \notin cells[state].kids
      /\ index \in 1..Len(needle) /\ Len(needle) \in Nat
  BY <1>1, StoringFacts
<1>5. /\ rest \in Seq(Nat) /\ Len(rest) > 0 /\ Len(rest) \in Nat
      /\ \A k \in DOMAIN rest : rest[k] > END_OF_TEXT
      /\ Head(rest) = needle[index]
  <2>1. /\ needle \in Seq(Nat)
        /\ \A k \in DOMAIN needle : needle[k] > END_OF_TEXT
    BY <1>3, NeedleFacts
  <2>2. index \in 1..(Len(needle) + 1)
    BY <1>4
  <2>3. /\ rest \in Seq(Nat) /\ Len(rest) = Len(needle) - index + 1
        /\ \A k \in DOMAIN rest : rest[k] > END_OF_TEXT
        /\ Len(rest) > 0 => Head(rest) = needle[index]
    BY <2>1, <2>2, RestOf
  <2>4. Len(needle) - index + 1 > 0 /\ Len(needle) - index + 1 \in Nat
    BY SMT, <1>4
  <2> QED BY <2>3, <2>4
<1>6. rest # << >>
  <2>1. Len(<< >>) = 0 /\ ~(0 > 0)
    BY EmptySeq
  <2> QED BY Zenon, <1>5, <2>1
<1>7. TailBase(rest) > 0 <=> Len(rest) = 1
  <2>1. FreeTail \in Nat /\ FreeTail > 0
    BY <1>3, FreeTailIsFree
  <2>2. CASE Len(rest) > 1
    <3>1. TailBase(rest) = -FreeTail
      BY Zenon, <2>2 DEF TailBase
    <3>2. \A n \in Nat : (n > 0 => ~(-n > 0)) /\ (n > 1 => n # 1)
      OBVIOUS
    <3>3. ~(-FreeTail > 0) /\ Len(rest) # 1
      BY Zenon, <1>5, <2>1, <2>2, <3>2
    <3> QED BY Zenon, <3>1, <3>3
  <2>3. CASE ~(Len(rest) > 1)
    <3>1. TailBase(rest) = 1
      BY Zenon, <2>3 DEF TailBase
    <3>2. \A n \in Nat : n > 0 /\ ~(n > 1) => n = 1
      OBVIOUS
    <3>3. Len(rest) = 1 /\ 1 > 0
      BY <1>5, <2>3, <3>2
    <3> QED BY <3>1, <3>3
  <2> QED BY <2>2, <2>3
<1> PICK q : q = StoreCharacter(cells, state, TailBase(rest), Head(rest))
  OBVIOUS
<1>8. q = [cells |-> Insert(cells, NewState, TailBase(rest), state),
           state |-> NewState]
  <2>1. q = StoreCharacter(cells, state, TailBase(rest), needle[index])
    BY <1>5
  <2> QED BY Zenon, <1>1, <2>1 DEF StoreCharacter, NewState
<1>9. cells' = r.cells
  <2> PICK W : W = Insert(cells, NewState, TailBase(rest), state)
    OBVIOUS
  <2> PICK ns : ns = NewState
    OBVIOUS
  <2>b. q = [cells |-> W, state |-> ns]
    BY Zenon, <1>8
  <2>d. \A a, b : /\ [cells |-> a, state |-> b].cells = a
                   /\ [cells |-> a, state |-> b].state = b
    OBVIOUS
  <2>c. q.cells = W /\ q.state = ns
    BY Zenon, <2>b, <2>d
  <2>a. q.cells = Insert(cells, NewState, TailBase(rest), state)
        /\ q.state = NewState
    BY Zenon, <2>c
  <2>1. SetData(q.cells, q.state, data) = T /\ q.state = NewState
    BY Zenon, <2>a
  <2>2. r.cells = IF Len(rest) = 1 THEN InsertEndOfText(T, NewState, data)
                  ELSE T
    BY Zenon, <1>6, <2>1 DEF Branch
  <2>3. CASE Len(rest) = 1
    BY Zenon, <1>1, <1>7, <2>2, <2>3
  <2>4. CASE Len(rest) # 1
    BY Zenon, <1>1, <1>7, <2>2, <2>4
  <2> QED BY <2>3, <2>4
<1> QED BY <1>1, <1>4, <1>5, <1>6, <1>9

\* The suffix goes into the tail.
LEMMA InsertBranchKeeps ==
  ASSUME IInv, InsertBranch PROVE IInv'
<1> PICK rest : rest = SubSeq(needle, index, Len(needle))
  OBVIOUS
<1> PICK r : r = Branch(rest, data)
  OBVIOUS
<1>1. /\ Storing /\ options.useTail /\ pc' \in {"idle", "crashed"}
      /\ needle' = << >> /\ data' = Empty
      /\ index' = 1 /\ state' = Root /\ tailData' = Empty
      /\ UNCHANGED <<options, adds>>
  BY DEF InsertBranch, EndCall
<1>2. /\ cells' = r.cells /\ tail' = StoreTail(rest)
      /\ rest \in Seq(Nat) /\ Len(rest) > 0
      /\ \A k \in DOMAIN rest : rest[k] > END_OF_TEXT
      /\ Head(rest) = needle[index]
      /\ needle[index] \notin cells[state].kids
  BY InsertBranchIs
<1>3. /\ Tree(cells) /\ state \in DOMAIN cells /\ cells[state].base > 0
      /\ data \in Data /\ Linked(cells, DOMAIN tail) /\ SuffixesOK(tail)
  BY <1>1, CharFacts DEF Storing
<1>4. Branched(r.cells, r.state, tail', DOMAIN tail, rest)
  BY <1>2, <1>3, BranchKeeps
<1>5. Tree(cells') /\ SuffixesOK(tail') /\ Linked(cells', DOMAIN tail')
  BY <1>2, <1>4 DEF Branched
<1> QED BY <1>1, <1>5, EndCallKeeps

\* trie_collisionInTail, up to where the suffix and the needle part.
LEMMA CollisionInTailKeeps ==
  ASSUME IInv, CollisionInTail PROVE IInv'
<1> PICK n : n = NewState
  OBVIOUS
<1> PICK x : x = -cells[n].base
  OBVIOUS
<1> PICK suffix : suffix = tail[x]
  OBVIOUS
<1> PICK rest : rest = SubSeq(needle, index + 1, Len(needle))
  OBVIOUS
<1>1. /\ Storing /\ options.useTail /\ n \in Taken(cells)
      /\ cells[n].check = state /\ cells[n].base < 0
  BY DEF CollisionInTail
<1>2. /\ Tree(cells) /\ Linked(cells, DOMAIN tail) /\ SuffixesOK(tail)
      /\ DOMAIN tail \subseteq Nat /\ needle \in Needles
  BY <1>1, CharFacts DEF Storing
<1>3. /\ n \in DOMAIN cells /\ Inner(cells, n)
      /\ x \in DOMAIN tail /\ cells[n].base \in Int
  BY <1>1, FollowedFacts
<1>4. index \in 1..Len(needle) /\ Len(needle) \in Nat
  BY <1>1, StoringFacts
<1>5. CASE suffix = rest /\ UNCHANGED structure /\ EndCall("idle")
  <2>1. /\ pc' = "idle" /\ needle' = << >> /\ data' = Empty
        /\ index' = 1 /\ state' = Root /\ tailData' = Empty
        /\ UNCHANGED <<options, adds>> /\ cells' = cells /\ tail' = tail
    BY <1>5 DEF EndCall, structure
  <2> QED BY <1>1, <1>2, <2>1, EndCallKeeps
<1>6. CASE /\ suffix # rest
           /\ cells' = [cells EXCEPT ![n].base = 1]
           /\ pc' = "common"
           /\ state' = n
           /\ tailIndex' = x
           /\ tailData' = cells[n].data
           /\ tailAt' = 1
           /\ common' = CommonLength(suffix, rest)
           /\ index' = index + 1 + common'
           /\ UNCHANGED <<tail, call>>
  <2>1. /\ UNCHANGED <<options, needle, data, adds>> /\ tail' = tail
        /\ pc' = "common" /\ state' = n /\ tailIndex' = x /\ tailAt' = 1
    BY <1>6 DEF call
  <2>2. /\ Tree(cells') /\ DOMAIN cells' = DOMAIN cells
        /\ Linked(cells', DOMAIN tail \ {x})
        /\ Inner(cells', n) /\ cells'[n].base = 1 /\ cells'[n].kids = {}
    <3> PICK U : U = [cells EXCEPT ![n].base = 1]
      OBVIOUS
    <3>1. Reset(cells, U, n, DOMAIN tail)
      BY <1>1, <1>2, <1>3, LeafReset
    <3>2. cells' = U
      BY <1>6
    <3> QED BY <1>3, <3>1, <3>2 DEF Reset
  <2>3. Linked(cells', (DOMAIN tail \ Loose)')
    <3>1. Loose' = {x}
      BY <2>1 DEF Loose
    <3>2. (DOMAIN tail \ Loose)' = DOMAIN tail \ {x}
      BY <2>1, <3>1
    <3> QED BY <2>2, <3>2
  <2>4. /\ needle \in Seq(Nat)
        /\ \A k \in DOMAIN needle : needle[k] > END_OF_TEXT
    BY <1>2, NeedleFacts
  <2>5. index + 1 \in 1..(Len(needle) + 1)
    BY <1>4
  <2>6. /\ rest \in Seq(Nat) /\ Len(rest) = Len(needle) - (index + 1) + 1
        /\ \A k \in 1..Len(rest) : rest[k] = needle[index + 1 + k - 1]
    BY SMTT(30), <2>4, <2>5, RestOf
  <2>7. suffix \in Seq(Nat) /\ Len(suffix) \in Nat
    BY <1>2, <1>3, LenProperties DEF SuffixesOK
  <2> PICK c : c = common'
    OBVIOUS
  <2>8. /\ c \in Nat /\ c <= Len(suffix) /\ c <= Len(rest)
        /\ c = Len(suffix) \/ c = Len(rest) \/ suffix[c + 1] # rest[c + 1]
    <3>1. c = CommonLength(suffix, rest)
      BY <1>6
    <3>2. /\ c \in Nat /\ c <= Len(suffix) /\ c <= Len(rest)
          /\ c = Len(suffix) \/ c = Len(rest) \/ suffix[c + 1] # rest[c + 1]
      BY Zenon, <2>6, <2>7, <3>1, CommonStops
    <3> QED BY <3>2
  <2>a. c \in Nat /\ c <= Len(suffix) /\ c <= Len(rest)
    BY <2>8
  <2>9. index' = index + 1 + c
    BY <1>6
  <2>10. Len(rest) = Len(needle) - index /\ Len(rest) \in Nat
    BY SMT, <1>4, <2>6
  <2>11. index + 1 + c \in 1..(Len(needle) + 1)
    <3>1. \A i, l, k, m \in Nat :
            i \in 1..l /\ m = l - i /\ k <= m => i + 1 + k \in 1..(l + 1)
      OBVIOUS
    <3>2. index \in Nat
      BY <1>4
    <3> QED BY Zenon, <1>4, <2>a, <2>10, <3>1, <3>2
  <2>12. \/ c = Len(suffix) \/ index' > Len(needle)
         \/ suffix[c + 1] # needle[index']
    <3>1. CASE c = Len(rest)
      BY SMT, <1>4, <2>9, <2>10, <3>1
    <3>2. CASE c # Len(rest)
      <4>1. c + 1 \in 1..Len(rest) /\ index + 1 + (c + 1) - 1 = index + 1 + c
        <5>1. \A i, k, m \in Nat :
                /\ k <= m /\ k # m => k + 1 \in 1..m
                /\ i + 1 + (k + 1) - 1 = i + 1 + k
          OBVIOUS
        <5>2. index \in Nat
          BY <1>4
        <5> QED BY Zenon, <2>a, <2>10, <3>2, <5>1, <5>2
      <4>2. rest[c + 1] = needle[index + 1 + (c + 1) - 1]
        BY <2>6, <4>1
      <4>3. rest[c + 1] = needle[index']
        BY <2>9, <4>1, <4>2
      <4> QED BY <2>8, <3>2, <4>3
    <3> QED BY <3>1, <3>2
  <2>13. cells[n].data \in Data
    BY <1>2, <1>3, CellFields
  <2>14. Arguments'
    BY <1>3, <1>6, <2>1, <2>2, <2>9, <2>11, <2>13 DEF IInv, Arguments
  <2>15. tail'[tailIndex'] = suffix /\ tailIndex' \in DOMAIN tail'
    BY <1>3, <2>1
  <2>16. common' \in 0..Len(suffix) /\ tailAt' \in 1..(common' + 1)
    <3>1. c \in 0..Len(suffix) /\ 1 \in 1..(c + 1)
      BY <2>7, <2>8
    <3> QED BY <2>1, <3>1
  <2>b. \/ common' = Len(tail'[tailIndex']) \/ index' > Len(needle')
        \/ tail'[tailIndex'][common' + 1] # needle'[index']
    BY <2>1, <2>12, <2>15
  <2>c. /\ Inner(cells', state') /\ cells'[state'].base > 0
        /\ cells'[state'].kids = {} /\ cells'[state'].base = 1
    BY <2>1, <2>2
  <2>17. CallOK'
    BY <1>1, <1>2, <2>1, <2>15, <2>16, <2>b, <2>c DEF CallOK
  <2> QED BY <1>1, <1>2, <2>1, <2>2, <2>3, <2>14, <2>17 DEF IInv
<1> QED BY Zenon, <1>5, <1>6 DEF CollisionInTail

\* What the rounds of collisionInTail work with.
LEMMA SplitFacts ==
  ASSUME IInv, pc \in {"common", "tail"}
  PROVE  /\ Tree(cells) /\ state \in DOMAIN cells /\ cells[state].base > 0
         /\ Inner(cells, state) /\ needle \in Needles
         /\ SuffixesOK(tail) /\ tailIndex \in DOMAIN tail
         /\ Loose = {tailIndex} /\ Linked(cells, DOMAIN tail \ {tailIndex})
         /\ DOMAIN tail \ {tailIndex} \subseteq Nat
         /\ options.useTail /\ data \in Data /\ tailData \in Data
         /\ tail[tailIndex] \in Seq(Nat) /\ Len(tail[tailIndex]) \in Nat
         /\ \A k \in 1..Len(tail[tailIndex]) :
              tail[tailIndex][k] \in Nat /\ tail[tailIndex][k] > END_OF_TEXT
         /\ \A k \in DOMAIN tail[tailIndex] :
              tail[tailIndex][k] > END_OF_TEXT
         /\ common \in 0..Len(tail[tailIndex]) /\ tailAt \in 1..(common + 1)
         /\ index \in 1..(Len(needle) + 1) /\ Len(needle) \in Nat
<1>1. Loose = {tailIndex} /\ tailIndex \in DOMAIN tail /\ needle \in Needles
  BY DEF Loose, IInv, CallOK
<1>2. Linked(cells, DOMAIN tail \ {tailIndex})
  <2>1. DOMAIN tail \ Loose = DOMAIN tail \ {tailIndex}
    BY <1>1
  <2> QED BY <2>1 DEF IInv
<1>3. /\ tail[tailIndex] \in Seq(Nat)
      /\ \A k \in DOMAIN tail[tailIndex] : tail[tailIndex][k] > END_OF_TEXT
      /\ DOMAIN tail \subseteq Nat
  BY <1>1 DEF IInv, SuffixesOK
<1>4. /\ DOMAIN tail[tailIndex] = 1..Len(tail[tailIndex])
      /\ Len(tail[tailIndex]) \in Nat
      /\ \A k \in 1..Len(tail[tailIndex]) : tail[tailIndex][k] \in Nat
  BY <1>3, LenProperties
<1>5. Len(needle) \in Nat
  BY <1>1, NeedleFacts
<1> QED BY <1>1, <1>2, <1>3, <1>4, <1>5 DEF IInv, Arguments, CallOK

\* A round of trie_collisionInTail_common: the state has the base 1 again.
LEMMA StoreCommonKeeps ==
  ASSUME IInv, StoreCommon PROVE IInv'
<1> PICK suffix : suffix = tail[tailIndex]
  OBVIOUS
<1> PICK char : char = suffix[tailAt]
  OBVIOUS
<1> PICK r : r = StoreCharacter(cells, state, 1, char)
  OBVIOUS
<1>1. /\ pc = "common" /\ tailAt <= common
      /\ cells' = r.cells /\ state' = r.state /\ tailAt' = tailAt + 1
      /\ UNCHANGED <<tail, pc, index, tailIndex, tailData, common,
                     options, needle, data, adds>>
  BY Zenon DEF StoreCommon, call
<1>2. /\ Tree(cells) /\ state \in DOMAIN cells /\ cells[state].base > 0
      /\ tailIndex \in DOMAIN tail
      /\ Linked(cells, DOMAIN tail \ {tailIndex})
      /\ DOMAIN tail \ {tailIndex} \subseteq Nat /\ needle \in Needles
      /\ Len(suffix) \in Nat
      /\ \A k \in 1..Len(suffix) : suffix[k] \in Nat /\ suffix[k] > END_OF_TEXT
      /\ common \in 0..Len(suffix) /\ tailAt \in 1..(common + 1)
  BY <1>1, SplitFacts
<1>3. cells[state].kids = {}
  BY <1>1 DEF IInv, CallOK
<1>4. tailAt \in 1..Len(suffix) /\ tailAt + 1 \in 1..(common + 1)
  BY SMT, <1>1, <1>2
<1>5. char \in Nat /\ char > END_OF_TEXT /\ char \notin cells[state].kids
  BY <1>2, <1>3, <1>4
<1>7. /\ Tree(cells') /\ Linked(cells', DOMAIN tail \ {tailIndex})
      /\ state' \in DOMAIN cells' /\ Inner(cells', state')
      /\ cells'[state'].base = 1 /\ cells'[state'].kids = {}
  <2> PICK U : U = r.cells
    OBVIOUS
  <2> PICK s : s = r.state
    OBVIOUS
  <2> PICK T : T = cells
    OBVIOUS
  <2> PICK last : last = state
    OBVIOUS
  <2> PICK X : X = DOMAIN tail \ {tailIndex}
    OBVIOUS
  <2>2. /\ Tree(T) /\ last \in DOMAIN T /\ T[last].base > 0
        /\ char \notin T[last].kids /\ X \subseteq Nat /\ Linked(T, X)
    BY <1>2, <1>5
  <2>3. r = StoreCharacter(T, last, 1, char)
    OBVIOUS
  <2>1. /\ Tree(U) /\ Linked(U, X)
        /\ s \in DOMAIN U /\ Inner(U, s) /\ U[s].base = 1
        /\ U[s].kids = {}
    BY <1>5, <2>2, <2>3, StoreNode
  <2> QED BY <1>1, <2>1
<1>8. Linked(cells', (DOMAIN tail \ Loose)')
  <2>1. (DOMAIN tail \ Loose)' = DOMAIN tail \ {tailIndex}
    BY <1>1 DEF Loose
  <2> QED BY <1>7, <2>1
<1>9. Arguments'
  BY <1>1, <1>7 DEF IInv, Arguments
<1>10. CallOK'
  BY <1>1, <1>2, <1>4, <1>7 DEF IInv, CallOK
<1> QED BY <1>1, <1>7, <1>8, <1>9, <1>10 DEF IInv

\* trie_collisionInTail_needle: the state stays where it is.
LEMMA BranchNeedleKeeps ==
  ASSUME IInv, BranchNeedle PROVE IInv'
<1> PICK rest : rest = SubSeq(needle, index, Len(needle))
  OBVIOUS
<1> PICK r : r = Branch(rest, data)
  OBVIOUS
<1> PICK X : X = DOMAIN tail \ {tailIndex}
  OBVIOUS
<1>1. /\ pc = "common" /\ tailAt > common /\ pc' = "tail"
      /\ tail' = StoreTail(rest) /\ cells' = r.cells /\ state' = r.state
      /\ UNCHANGED <<index, tailIndex, tailData, tailAt, common,
                     options, needle, data, adds>>
  BY Zenon DEF BranchNeedle, split, call
<1>2. /\ Tree(cells) /\ state \in DOMAIN cells /\ cells[state].base > 0
      /\ Inner(cells, state) /\ needle \in Needles /\ data \in Data
      /\ SuffixesOK(tail) /\ tailIndex \in DOMAIN tail /\ options.useTail
      /\ Linked(cells, X)
      /\ common \in 0..Len(tail[tailIndex]) /\ tailAt \in 1..(common + 1)
      /\ Len(tail[tailIndex]) \in Nat
      /\ index \in 1..(Len(needle) + 1) /\ Len(needle) \in Nat
  BY <1>1, SplitFacts
<1>3. cells[state].kids = {} /\ cells[state].base = 1
  BY <1>1 DEF IInv, CallOK
<1>4. /\ rest \in Seq(Nat) /\ Len(rest) = Len(needle) - index + 1
      /\ \A k \in DOMAIN rest : rest[k] > END_OF_TEXT
      /\ Len(rest) > 0 => Head(rest) = needle[index]
  <2>1. /\ needle \in Seq(Nat)
        /\ \A k \in DOMAIN needle : needle[k] > END_OF_TEXT
    BY <1>2, NeedleFacts
  <2> QED BY <1>2, <2>1, RestOf
<1>5. Branched(r.cells, r.state, tail', X, rest)
  <2>1. Len(rest) > 0 => Head(rest) \notin cells[state].kids
    BY <1>3
  <2>2. X \subseteq DOMAIN tail
    OBVIOUS
  <2> QED BY <1>1, <1>2, <1>4, <2>1, <2>2, BranchKeeps
<1> PICK N : N = IF Len(rest) > 1 THEN {FreeTail} ELSE {}
  OBVIOUS
<1>6. /\ Tree(cells') /\ SuffixesOK(tail') /\ FreeTail \notin DOMAIN tail
      /\ DOMAIN tail' = DOMAIN tail \union N
      /\ \A x \in DOMAIN tail : tail'[x] = tail[x]
      /\ Linked(cells', X \union N)
      /\ state' \in DOMAIN cells' /\ Inner(cells', state')
      /\ cells'[state'].base > 0
      /\ cells'[state'].kids \subseteq
           {IF Len(rest) = 0 THEN END_OF_TEXT ELSE Head(rest)}
  BY <1>1, <1>2, <1>3, <1>5 DEF Branched
<1>7. Linked(cells', (DOMAIN tail \ Loose)')
  <2>1. Loose' = {tailIndex}
    BY <1>1 DEF Loose
  <2>2. tailIndex \notin N
    BY <1>2, <1>6
  <2>3. (DOMAIN tail \ Loose)' = X \union N
    BY <1>6, <2>1, <2>2
  <2> QED BY <1>6, <2>3
<1>8. Arguments'
  BY <1>1, <1>6 DEF IInv, Arguments
<1>9. tailAt = common + 1
  BY SMT, <1>1, <1>2
<1>10. /\ index > Len(needle) => Len(rest) = 0
       /\ ~(index > Len(needle)) => Len(rest) # 0 /\ Len(rest) > 0
  BY SMT, <1>2, <1>4
<1>11. cells'[state'].kids \subseteq
         {IF index > Len(needle) THEN END_OF_TEXT ELSE needle[index]}
  <2>1. CASE index > Len(needle)
    BY <1>6, <1>10, <2>1
  <2>2. CASE ~(index > Len(needle))
    BY <1>4, <1>6, <1>10, <2>2
  <2> QED BY <2>1, <2>2
<1>12. tail'[tailIndex'] = tail[tailIndex] /\ tailIndex' \in DOMAIN tail'
  BY <1>1, <1>2, <1>6
<1>13. CallOK'
  BY <1>1, <1>2, <1>6, <1>9, <1>11, <1>12 DEF IInv, CallOK
<1> QED BY <1>1, <1>2, <1>6, <1>7, <1>8, <1>13 DEF IInv

\* The rest of the suffix that is split begins with no character of the state.
LEMMA SplitRest ==
  ASSUME IInv, pc = "tail", NEW suffix, suffix = tail[tailIndex],
         NEW rest, rest = SubSeq(suffix, tailAt, Len(suffix))
  PROVE  /\ tailAt = common + 1 /\ tailAt \in 1..(Len(suffix) + 1)
         /\ rest \in Seq(Nat) /\ Len(rest) = Len(suffix) - tailAt + 1
         /\ \A k \in DOMAIN rest : rest[k] > END_OF_TEXT
         /\ Len(rest) > 0 => Head(rest) \notin cells[state].kids
<1>2. /\ suffix \in Seq(Nat) /\ Len(suffix) \in Nat
      /\ \A k \in 1..Len(suffix) : suffix[k] > END_OF_TEXT
      /\ \A k \in DOMAIN suffix : suffix[k] > END_OF_TEXT
      /\ common \in 0..Len(suffix)
      /\ index \in 1..(Len(needle) + 1) /\ Len(needle) \in Nat
  BY SplitFacts
<1>3. /\ tailAt = common + 1
      /\ cells[state].kids \subseteq
           {IF index > Len(needle) THEN END_OF_TEXT ELSE needle[index]}
      /\ \/ common = Len(suffix) \/ index > Len(needle)
         \/ suffix[common + 1] # needle[index]
  BY DEF IInv, CallOK
<1>4. tailAt \in 1..(Len(suffix) + 1)
  BY SMT, <1>2, <1>3
<1>5. /\ rest \in Seq(Nat) /\ Len(rest) = Len(suffix) - tailAt + 1
      /\ \A k \in DOMAIN rest : rest[k] > END_OF_TEXT
      /\ Len(rest) > 0 => Head(rest) = suffix[tailAt]
  BY ZenonT(30), <1>2, <1>4, RestOf
<1>6. ASSUME Len(rest) > 0 PROVE Head(rest) \notin cells[state].kids
  <2>1. common # Len(suffix) /\ tailAt \in 1..Len(suffix)
    BY SMT, <1>2, <1>3, <1>5, <1>6
  <2>2. suffix[tailAt] > END_OF_TEXT
    BY <1>2, <2>1
  <2>3. CASE index > Len(needle)
    BY <1>3, <1>5, <1>6, <2>2, <2>3 DEF END_OF_TEXT
  <2>4. CASE ~(index > Len(needle))
    BY <1>3, <1>5, <1>6, <2>1, <2>4
  <2> QED BY <2>3, <2>4
<1> QED BY <1>3, <1>4, <1>5, <1>6

\* trie_collisionInTail_tail: the suffix split has no leaf, and is freed.
LEMMA BranchTailKeeps ==
  ASSUME IInv, BranchTail PROVE IInv'
<1> PICK suffix : suffix = tail[tailIndex]
  OBVIOUS
<1> PICK rest : rest = SubSeq(suffix, tailAt, Len(suffix))
  OBVIOUS
<1> PICK grown : grown = StoreTail(rest)
  OBVIOUS
<1> PICK r : r = Branch(rest, tailData)
  OBVIOUS
<1> PICK X : X = DOMAIN tail \ {tailIndex}
  OBVIOUS
<1>1. /\ pc = "tail" /\ cells' = r.cells
      /\ tail' = [i \in DOMAIN grown \ {tailIndex} |-> grown[i]]
      /\ pc' = "idle" /\ needle' = << >> /\ data' = Empty
      /\ index' = 1 /\ state' = Root /\ tailData' = Empty
      /\ UNCHANGED <<options, adds>>
  BY Zenon DEF BranchTail, EndCall
<1>2. /\ Tree(cells) /\ state \in DOMAIN cells /\ cells[state].base > 0
      /\ needle \in Needles /\ tailData \in Data
      /\ SuffixesOK(tail) /\ tailIndex \in DOMAIN tail /\ options.useTail
      /\ Linked(cells, X)
  BY <1>1, SplitFacts
<1>3. /\ rest \in Seq(Nat) /\ \A k \in DOMAIN rest : rest[k] > END_OF_TEXT
      /\ Len(rest) > 0 => Head(rest) \notin cells[state].kids
  BY <1>1, SplitRest
<1>4. Branched(r.cells, r.state, grown, X, rest)
  <2>1. X \subseteq DOMAIN tail
    OBVIOUS
  <2> QED BY <1>2, <1>3, <2>1, BranchKeeps
<1> PICK N : N = IF Len(rest) > 1 THEN {FreeTail} ELSE {}
  OBVIOUS
<1>5. /\ Tree(cells') /\ SuffixesOK(grown) /\ FreeTail \notin DOMAIN tail
      /\ DOMAIN grown = DOMAIN tail \union N
      /\ Linked(cells', X \union N)
  BY <1>1, <1>4 DEF Branched
<1>6. /\ DOMAIN tail' = DOMAIN grown \ {tailIndex}
      /\ \A x \in DOMAIN tail' : tail'[x] = grown[x]
  BY <1>1
<1>7. Linked(cells', DOMAIN tail')
  <2>1. tailIndex \notin N
    BY <1>2, <1>5
  <2>2. DOMAIN tail' = X \union N
    BY <1>5, <1>6, <2>1
  <2> QED BY <1>5, <2>2
<1>8. SuffixesOK(tail')
  <2>1. DOMAIN tail' \subseteq DOMAIN grown
    BY <1>6
  <2>2. IsFiniteSet(DOMAIN tail')
    BY <1>5, <2>1, FS_Subset DEF SuffixesOK
  <2> QED BY <1>5, <1>6, <2>1, <2>2 DEF SuffixesOK
<1> QED BY <1>1, <1>2, <1>5, <1>7, <1>8, EndCallKeeps

-----------------------------------------------------------------------------
(* Theorems *)

\* createTrie.
LEMMA InitKeeps ==
  ASSUME Init PROVE IInv
<1>1. /\ options \in Options /\ pc = "idle" /\ tail = << >>
      /\ needle = << >> /\ data = Empty /\ index = 1 /\ state = Root
      /\ tailData = Empty /\ adds = 0
  BY DEF Init
<1> PICK r : r = [base |-> 1, check |-> 0, kids |-> {}, data |-> Empty]
  OBVIOUS
<1>2. /\ cells = [i \in {Root} |-> r] /\ DOMAIN cells = {Root}
      /\ cells[Root] = r
  BY DEF Init
<1>3. Empty \in Data /\ 0 \in 0..MaxAdds
  BY TrieAssumption
<1>4. r \in Cell /\ r.base = 1 /\ r.check = 0 /\ r.kids = {}
  BY <1>3 DEF Cell
<1>5. DOMAIN tail = {} /\ IsFiniteSet(DOMAIN tail)
  <2>1. DOMAIN tail = {}
    BY <1>1
  <2> QED BY <2>1, FS_EmptySet
<1>6. Tree(cells)
  <2>1. Taken(cells) = {}
    BY <1>2 DEF Taken
  <2>2. cells \in [DOMAIN cells -> Cell]
    BY <1>2, <1>4
  <2>3. \A i \in DOMAIN cells : i = Root /\ cells[i].base = 1
                                /\ cells[i].kids = {}
    BY <1>2, <1>4
  <2>4. /\ DOMAIN cells \subseteq Nat /\ Root \in DOMAIN cells
        /\ \E max \in DOMAIN cells :
             \A i \in DOMAIN cells : 1 <= i /\ i <= max
    BY <1>2 DEF Root
  <2> QED BY <2>1, <2>2, <2>3, <2>4 DEF Tree
<1>7. SuffixesOK(tail)
  BY <1>5 DEF SuffixesOK
<1>8. Linked(cells, DOMAIN tail \ Loose)
  <2>1. \A i \in DOMAIN cells : cells[i].base = 1
    BY <1>2, <1>4
  <2>2. DOMAIN tail \ Loose = {}
    BY <1>5
  <2> QED BY <2>1, <2>2 DEF Linked
<1>9. Arguments
  <2>1. index \in 1..(Len(needle) + 1)
    BY <1>1, EmptySeq
  <2> QED BY <1>1, <1>2, <1>3, <2>1 DEF Arguments
<1>10. CallOK
  BY <1>1 DEF CallOK
<1> QED BY <1>5, <1>6, <1>7, <1>8, <1>9, <1>10 DEF IInv

\* A step that changes nothing.
LEMMA StutterKeeps ==
  ASSUME IInv, UNCHANGED vars PROVE IInv'
<1>1. UNCHANGED <<cells, tail, pc, needle, data, index, state, tailIndex,
                  tailData, tailAt, common, adds, options>>
  BY DEF vars, structure, split, call
<1>2. Arguments'
  BY <1>1 DEF IInv, Arguments
<1>3. Tree(cells') /\ SuffixesOK(tail')
  BY <1>1 DEF IInv
<1>4. Linked(cells', (DOMAIN tail \ Loose)')
  <2>1. (DOMAIN tail \ Loose)' = DOMAIN tail \ Loose
    BY <1>1 DEF Loose
  <2> QED BY <1>1, <2>1 DEF IInv
<1>5. CallOK'
  BY <1>1 DEF IInv, CallOK
<1> QED BY <1>1, <1>2, <1>3, <1>4, <1>5 DEF IInv

\* IInv is an invariant.
THEOREM Invariance == Spec => []IInv
<1>1. Init => IInv
  BY InitKeeps
<1>2. IInv /\ [Next]_vars => IInv'
  <2> SUFFICES ASSUME IInv, [Next]_vars PROVE IInv'
    OBVIOUS
  <2>1. CASE AddNeedle BY <2>1, AddNeedleKeeps
  <2>2. CASE InsertBranch BY <2>2, InsertBranchKeeps
  <2>3. CASE InsertNode BY <2>3, InsertNodeKeeps
  <2>4. CASE Collide BY <2>4, CollideKeeps
  <2>5. CASE Follow BY <2>5, FollowKeeps
  <2>6. CASE EndOfNeedle BY <2>6, EndOfNeedleKeeps
  <2>7. CASE CollisionInTail BY <2>7, CollisionInTailKeeps
  <2>8. CASE StoreCommon BY <2>8, StoreCommonKeeps
  <2>9. CASE BranchNeedle BY <2>9, BranchNeedleKeeps
  <2>10. CASE BranchTail BY <2>10, BranchTailKeeps
  <2>11. CASE UNCHANGED vars BY <2>11, StutterKeeps
  <2> QED
    BY Zenon, <2>1, <2>2, <2>3, <2>4, <2>5, <2>6, <2>7, <2>8, <2>9, <2>10,
       <2>11 DEF Next
<1> QED
  BY <1>1, <1>2, PTL DEF Spec

\* The types of the variables; each base is a base or the number of a suffix.
THEOREM TypeCorrect == Spec => []TypeOK
<1>1. ASSUME IInv PROVE TypeOK
  <2>1. Root \in DOMAIN cells /\ Tree(cells)
    BY <1>1 DEF IInv, Tree
  <2>2. ASSUME NEW i \in DOMAIN cells
        PROVE  /\ i \in Nat \ {0}
               /\ cells[i].base \in Int \ {0} /\ cells[i].check \in Nat
               /\ cells[i].kids \subseteq Nat /\ cells[i].data \in Data
    <3>1. /\ i \in Nat /\ i > 0
          /\ cells[i].base \in Int /\ cells[i].base # 0
          /\ cells[i].check \in Nat
          /\ cells[i].kids \subseteq Nat /\ cells[i].data \in Data
      BY <2>1, CellFields
    <3>2. i # 0
      BY SMT, <3>1
    <3> QED BY Zenon, <3>1, <3>2
  <2>3. DOMAIN tail \subseteq Nat \ {0}
    <3> SUFFICES ASSUME NEW x \in DOMAIN tail PROVE x \in Nat \ {0}
      OBVIOUS
    <3>1. x \in Nat /\ x > 0
      BY <1>1 DEF IInv, SuffixesOK
    <3>2. x # 0
      BY SMT, <3>1
    <3> QED BY Zenon, <3>1, <3>2
  <2>4. DOMAIN cells \subseteq Nat \ {0}
    BY Zenon, <2>2
  <2>5. Arguments
    BY <1>1 DEF IInv
  <2> QED BY Zenon, <2>1, <2>2, <2>3, <2>4, <2>5 DEF TypeOK, Arguments
<1> QED
  BY <1>1, Invariance, PTL

\* base, check and the children lists tell one tree at all times, whatever
\* moved to make room for whatever.
THEOREM OneTree == Spec => []DoubleArray
<1>1. IInv => DoubleArray
  BY DEF IInv, Tree, DoubleArray
<1> QED
  BY <1>1, Invariance, PTL

\* Every leaf has a suffix of its own, and every suffix a leaf but the one
\* that is being split.
THEOREM OneLeafPerSuffix == Spec => []TailLinks
<1>1. ASSUME IInv PROVE TailLinks
  <2> DEFINE leaves == {i \in DOMAIN cells : cells[i].base < 0}
  <2> PICK L : L = leaves
    OBVIOUS
  <2> PICK X : X = DOMAIN tail \ Loose
    OBVIOUS
  <2> HIDE DEF leaves
  <2>1. Tree(cells) /\ Linked(cells, X)
    BY <1>1 DEF IInv
  <2>2. \A i \in L : i \in DOMAIN cells /\ cells[i].base < 0
    BY DEF leaves
  <2>3. \A i \in DOMAIN cells : cells[i].base < 0 => i \in L
    BY DEF leaves
  <2>4. \A i \in DOMAIN cells : cells[i].base \in Int
    BY <2>1, CellFields
  <2>5. \A a, b \in Int : -a = -b => a = b
    OBVIOUS
  <2>6. /\ \A i \in L : -cells[i].base \in X /\ cells[i].kids = {}
        /\ \A i, j \in L : -cells[i].base = -cells[j].base => i = j
    <3>1. \A i \in L : -cells[i].base \in X /\ cells[i].kids = {}
      BY <2>1, <2>2 DEF Linked, Tree
    <3>2. ASSUME NEW i \in L, NEW j \in L, -cells[i].base = -cells[j].base
          PROVE  i = j
      <4>1. cells[i].base = cells[j].base
        BY Zenon, <2>2, <2>4, <2>5, <3>2
      <4> QED BY <2>1, <2>2, <4>1 DEF Linked
    <3> QED BY Zenon, <3>1, <3>2
  <2>7. \A x \in X : x \in Nat /\ x > 0
    BY <1>1 DEF IInv, SuffixesOK
  <2>8. \A x \in X : \E i \in L : -cells[i].base = x
    <3> SUFFICES ASSUME NEW x \in X PROVE \E i \in L : -cells[i].base = x
      OBVIOUS
    <3>1. PICK i \in DOMAIN cells : cells[i].base = -x
      BY <2>1 DEF Linked
    <3>2. x \in Nat /\ x > 0
      BY <2>7
    <3>3. -x < 0 /\ -(-x) = x
      BY SMT, <3>2
    <3>4. i \in L
      BY <2>3, <3>1, <3>3
    <3> QED BY <3>1, <3>3, <3>4
  <2>9. IsFiniteSet(X)
    <3>1. IsFiniteSet(DOMAIN tail)
      BY <1>1 DEF IInv, SuffixesOK
    <3> QED BY <3>1, FS_Subset
  <2>10. Cardinality(L) = Cardinality(X)
    <3> PICK f : f = [i \in L |-> -cells[i].base]
      OBVIOUS
    <3>1. /\ f \in [L -> X] /\ DOMAIN f = L
          /\ \A i \in L : f[i] = -cells[i].base
      BY <2>6
    <3>2. f \in Injection(L, X)
      <4>1. \A i, j \in L : f[i] = f[j] => i = j
        BY <2>6, <3>1
      <4>2. IsInjective(f)
        BY Zenon, <3>1, <4>1 DEF IsInjective
      <4> QED BY Zenon, <3>1, <4>2 DEF Injection
    <3>3. f \in Surjection(L, X)
      BY Zenon, <2>8, <3>1 DEF Surjection
    <3> QED BY <2>9, <3>2, <3>3, FS_Injection
  <2>11. {-cells[i].base : i \in L} = X
    BY <2>6, <2>8
  <2>12. Loose \subseteq DOMAIN tail
    BY <1>1 DEF IInv, CallOK, Loose
  <2> QED BY Zenon, <2>6, <2>10, <2>11, <2>12 DEF TailLinks, Loose, leaves
<1> QED
  BY <1>1, Invariance, PTL

-----------------------------------------------------------------------------
(* The ways of words *)

\* Induction over the naturals.
LEMMA Upward ==
  ASSUME NEW S, 0 \in S, \A n \in Nat : n \in S => n + 1 \in S
  PROVE  \A n \in Nat : n \in S
<1> SUFFICES ASSUME NEW n \in Nat, n \notin S PROVE FALSE
  OBVIOUS
<1> DEFINE B == {k \in Nat : k \notin S}
<1>1. B \subseteq Nat /\ B # {}
  OBVIOUS
<1>2. PICK m \in B : \A x \in B : m <= x
  BY <1>1, Least
<1>3. m \in Nat /\ m # 0 /\ m - 1 \in Nat
  OBVIOUS
<1>4. m - 1 \notin B
  <2>1. ~(m <= m - 1)
    BY SMT, <1>3
  <2> QED BY <1>2, <2>1
<1>5. m - 1 + 1 = m
  BY SMT, <1>3
<1> QED BY <1>3, <1>4, <1>5

\* p is the way of word.
Stepwise(p, T, word) ==
  p = [k \in 0..Len(word) |->
         IF k = 0 THEN Root ELSE Child(T, p[k - 1], word[k])]

\* There is one.
LEMMA StepwiseExists ==
  ASSUME NEW T, NEW word, Len(word) \in Nat
  PROVE  \E p : Stepwise(p, T, word)
<1> PICK L \in Nat : L = Len(word)
  OBVIOUS
<1> DEFINE Rhs(p, k) == IF k = 0 THEN Root ELSE Child(T, p[k - 1], word[k])
           Upto(b) == \E p : \A k \in 0..L : k <= b => p[k] = Rhs(p, k)
           S == {b \in Nat : Upto(b)}
<1>1. 0 \in S
  <2> PICK p : p = [k \in 0..L |-> Root]
    OBVIOUS
  <2>1. ASSUME NEW k \in 0..L, k <= 0 PROVE p[k] = Rhs(p, k)
    <3>1. k = 0
      BY <2>1
    <3> QED BY <3>1
  <2> QED BY <2>1
<1>2. ASSUME NEW b \in Nat, b \in S PROVE b + 1 \in S
  <2>1. PICK p : \A k \in 0..L : k <= b => p[k] = Rhs(p, k)
    BY <1>2
  <2> PICK h : h = [k \in 0..L |-> IF k <= b THEN p[k] ELSE Rhs(p, k)]
    OBVIOUS
  <2>2. ASSUME NEW k \in 0..L, k <= b + 1 PROVE h[k] = Rhs(h, k)
    <3>1. h[k] = Rhs(p, k)
      BY <2>1
    <3>2. CASE k = 0
      BY <3>1, <3>2
    <3>3. CASE k # 0
      <4>1. k - 1 \in 0..L /\ k - 1 <= b
        BY <2>2, <3>3
      <4>2. h[k - 1] = p[k - 1]
        BY <4>1
      <4> QED BY <3>1, <3>3, <4>2
    <3> QED BY <3>2, <3>3
  <2>3. Upto(b + 1)
    BY ZenonT(30), <2>2
  <2> QED BY <2>3
<1> HIDE DEF S
<1>3. L \in S
  BY <1>1, <1>2, Upward
<1> USE DEF S
<1>4. PICK p : \A k \in 0..L : k <= L => p[k] = Rhs(p, k)
  BY <1>3
<1> PICK h : h = [k \in 0..L |-> p[k]]
  OBVIOUS
<1>5. \A k \in 0..L : h[k] = p[k] /\ p[k] = Rhs(p, k)
  BY <1>4
<1>6. ASSUME NEW k \in 0..L PROVE h[k] = Rhs(h, k)
  <2>1. k # 0 => k - 1 \in 0..L
    OBVIOUS
  <2>2. h[k] = Rhs(p, k)
    BY Zenon, <1>5
  <2>3. k # 0 => h[k - 1] = p[k - 1]
    BY <1>5, <2>1
  <2> QED BY <2>2, <2>3
<1>7. h = [k \in 0..L |-> Rhs(h, k)]
  BY <1>6
<1> QED BY <1>7 DEF Stepwise

\* Where a word leads, character by character.
LEMMA PathSteps ==
  ASSUME NEW T, NEW word, Len(word) \in Nat
  PROVE  /\ Path(T, word)[0] = Root
         /\ \A k \in 1..Len(word) :
              Path(T, word)[k] = Child(T, Path(T, word)[k - 1], word[k])
<1> PICK p : p = Path(T, word)
  OBVIOUS
<1>1. p = CHOOSE q : Stepwise(q, T, word)
  BY Zenon DEF Path, Stepwise
<1>2. Stepwise(p, T, word)
  BY <1>1, StepwiseExists
<1> PICK L \in Nat : L = Len(word)
  OBVIOUS
<1>3. p = [k \in 0..L |->
             IF k = 0 THEN Root ELSE Child(T, p[k - 1], word[k])]
  BY <1>2 DEF Stepwise
<1>4. \A k \in 0..L :
        p[k] = IF k = 0 THEN Root ELSE Child(T, p[k - 1], word[k])
  BY Zenon, <1>3
<1>5. 0 \in 0..L /\ \A k \in 1..L : k \in 0..L /\ k # 0
  OBVIOUS
<1> QED BY <1>4, <1>5

\* A character leads from a cell to a child, if that lists it.
LEMMA ChildIs ==
  ASSUME NEW T, Tree(T), NEW s \in DOMAIN T, NEW c \in Nat
  PROVE  /\ c \in T[s].kids => Child(T, s, c) = T[s].base + c
         /\ c \notin T[s].kids => Child(T, s, c) = 0
         /\ Child(T, s, c) # 0 =>
              /\ Child(T, s, c) \in Taken(T) /\ Child(T, s, c) \in DOMAIN T
              /\ T[Child(T, s, c)].check = s
              /\ Child(T, s, c) - T[s].base = c
<1>1. /\ s \in Nat /\ s > 0 /\ T[s].base \in Int /\ T[s].base # 0
      /\ T[s].base < 0 => T[s].kids = {}
  BY CellFields DEF Tree
<1>2. s # 0
  BY <1>1
<1> PICK n : n = T[s].base + c
  OBVIOUS
<1>3. n - T[s].base = c
  BY SMT, <1>1
<1>4. ASSUME c \in T[s].kids
      PROVE  T[s].base > 0 /\ n \in Taken(T) /\ T[n].check = s
  <2>1. n \in Taken(T) /\ T[n].check = s
    BY <1>4 DEF Tree
  <2>2. ~(T[s].base < 0)
    BY <1>1, <1>4
  <2>3. T[s].base > 0
    BY SMT, <1>1, <2>2
  <2> QED BY <2>1, <2>3
<1>5. ASSUME n \in Taken(T), T[n].check = s PROVE c \in T[s].kids
  <2>1. n - T[T[n].check].base \in T[T[n].check].kids
    BY <1>5 DEF Tree
  <2> QED BY <1>3, <1>5, <2>1
<1>6. Child(T, s, c) =
        IF T[s].base > 0 /\ n \in Taken(T) /\ T[n].check = s THEN n ELSE 0
  BY Zenon, <1>2 DEF Child
<1> QED BY <1>3, <1>4, <1>5, <1>6 DEF Taken

\* Nothing leads on from nowhere.
LEMMA ChildOfNone ==
  ASSUME NEW T, NEW c PROVE Child(T, 0, c) = 0
BY DEF Child

\* A word: its characters come behind the end of text.
Word(w) == w \in Seq(Nat) /\ \A k \in DOMAIN w : w[k] > END_OF_TEXT

\* The types of a word and of its characters.
LEMMA WordFacts ==
  ASSUME NEW w, Word(w)
  PROVE  /\ Len(w) \in Nat /\ DOMAIN w = 1..Len(w)
         /\ \A k \in 1..Len(w) : w[k] \in Nat /\ w[k] > END_OF_TEXT
<1>1. w \in Seq(Nat) /\ \A k \in DOMAIN w : w[k] > END_OF_TEXT
  BY DEF Word
<1>2. /\ Len(w) \in Nat /\ DOMAIN w = 1..Len(w)
      /\ \A k \in 1..Len(w) : w[k] \in Nat
  BY <1>1, LenProperties
<1> QED BY <1>1, <1>2

\* A word leads to cells, and to nowhere behind the last.
LEMMA PathCells ==
  ASSUME NEW T, Tree(T), NEW w, Word(w)
  PROVE  \A k \in 0..Len(w) : Path(T, w)[k] = 0 \/ Path(T, w)[k] \in DOMAIN T
<1>1. Len(w) \in Nat /\ \A k \in 1..Len(w) : w[k] \in Nat
  BY WordFacts
<1> PICK p : p = Path(T, w)
  OBVIOUS
<1> PICK L \in Nat : L = Len(w)
  BY <1>1
<1>2. /\ p[0] = Root
      /\ \A k \in 1..L : p[k] = Child(T, p[k - 1], w[k])
  BY <1>1, PathSteps
<1> DEFINE S == {k \in Nat : k <= L => p[k] = 0 \/ p[k] \in DOMAIN T}
<1>3. 0 \in S
  BY <1>2 DEF Tree
<1>4. ASSUME NEW k \in Nat, k \in S PROVE k + 1 \in S
  <2> SUFFICES ASSUME k + 1 <= L
               PROVE  p[k + 1] = 0 \/ p[k + 1] \in DOMAIN T
    OBVIOUS
  <2>1. k + 1 \in 1..L /\ k + 1 - 1 = k /\ k <= L
    BY SMT
  <2>2. p[k + 1] = Child(T, p[k], w[k + 1])
    BY <1>2, <2>1
  <2>3. w[k + 1] \in Nat
    BY <1>1, <2>1
  <2>4. p[k] = 0 \/ p[k] \in DOMAIN T
    BY <1>4, <2>1
  <2> QED BY <2>2, <2>3, <2>4, ChildIs, ChildOfNone
<1> HIDE DEF S
<1>5. \A k \in Nat : k \in S
  BY <1>3, <1>4, Upward
<1> QED BY <1>5 DEF S

\* Words that begin alike lead to the same cells.
LEMMA PathAgrees ==
  ASSUME NEW T, NEW v, Word(v), NEW w, Word(w),
         NEW n \in Nat, n <= Len(v), n <= Len(w),
         \A k \in 1..n : v[k] = w[k]
  PROVE  \A k \in 0..n : Path(T, v)[k] = Path(T, w)[k]
<1>1. Len(v) \in Nat /\ Len(w) \in Nat
  BY WordFacts
<1> PICK p : p = Path(T, v)
  OBVIOUS
<1> PICK q : q = Path(T, w)
  OBVIOUS
<1>2. p[0] = Root /\ q[0] = Root
  BY <1>1, PathSteps
<1>3. \A k \in 1..n : /\ p[k] = Child(T, p[k - 1], v[k])
                      /\ q[k] = Child(T, q[k - 1], w[k])
  <2>1. \A k \in 1..n : k \in 1..Len(v) /\ k \in 1..Len(w)
    BY <1>1
  <2> QED BY <1>1, <2>1, PathSteps
<1> DEFINE S == {k \in Nat : k <= n => p[k] = q[k]}
<1>4. 0 \in S
  BY <1>2
<1>5. ASSUME NEW k \in Nat, k \in S PROVE k + 1 \in S
  <2> SUFFICES ASSUME k + 1 <= n PROVE p[k + 1] = q[k + 1]
    OBVIOUS
  <2>1. k + 1 \in 1..n /\ k + 1 - 1 = k /\ k <= n
    BY SMT
  <2>2. p[k] = q[k]
    BY <1>5, <2>1
  <2>3. p[k + 1] = Child(T, p[k], v[k + 1]) /\ q[k + 1] = Child(T, q[k], w[k + 1])
    BY <1>3, <2>1
  <2>4. v[k + 1] = w[k + 1]
    BY <2>1
  <2> QED BY <2>2, <2>3, <2>4
<1> HIDE DEF S
<1>6. \A k \in Nat : k \in S
  BY <1>4, <1>5, Upward
<1> QED BY <1>6 DEF S

\* The step to the next cell.
LEMMA PathNext ==
  ASSUME NEW T, Tree(T), NEW w, Word(w), NEW k \in 1..Len(w),
         Path(T, w)[k] # 0
  PROVE  /\ Path(T, w)[k - 1] \in DOMAIN T
         /\ w[k] \in T[Path(T, w)[k - 1]].kids
         /\ Path(T, w)[k] \in Taken(T) /\ Path(T, w)[k] \in DOMAIN T
         /\ T[Path(T, w)[k]].check = Path(T, w)[k - 1]
         /\ Path(T, w)[k] - T[Path(T, w)[k - 1]].base = w[k]
<1>1. Len(w) \in Nat /\ w[k] \in Nat
  BY WordFacts
<1> PICK s : s = Path(T, w)[k - 1]
  OBVIOUS
<1> PICK n : n = Path(T, w)[k]
  OBVIOUS
<1>2. n = Child(T, s, w[k])
  BY <1>1, PathSteps
<1>3. k - 1 \in 0..Len(w)
  BY <1>1
<1>4. s = 0 \/ s \in DOMAIN T
  BY <1>3, PathCells
<1>5. s \in DOMAIN T
  BY <1>2, <1>4, ChildOfNone
<1> QED BY <1>1, <1>2, <1>5, ChildIs

\* A cell is reached in one way.
LEMMA PathOne ==
  ASSUME NEW T, Tree(T), NEW v, Word(v), NEW w, Word(w),
         NEW k \in 0..Len(v), NEW m \in 0..Len(w),
         Path(T, v)[k] = Path(T, w)[m], Path(T, v)[k] # 0
  PROVE  k = m /\ \A j \in 1..k : v[j] = w[j]
<1> PICK p : p = Path(T, v)
  OBVIOUS
<1> PICK q : q = Path(T, w)
  OBVIOUS
<1>1. Len(v) \in Nat /\ Len(w) \in Nat
  BY WordFacts
<1> DEFINE Way(a) == \A b \in 0..Len(w) : p[a] = q[b] /\ p[a] # 0 =>
                       a = b /\ \A j \in 1..a : v[j] = w[j]
           S == {a \in Nat : a <= Len(v) => Way(a)}
<1>2. p[0] = Root /\ q[0] = Root
  BY <1>1, PathSteps
<1>3. \A a \in 1..Len(v) : p[a] # 0 =>
        /\ p[a - 1] \in DOMAIN T /\ p[a] \in Taken(T)
        /\ T[p[a]].check = p[a - 1] /\ p[a] - T[p[a - 1]].base = v[a]
  BY PathNext
<1>4. \A b \in 1..Len(w) : q[b] # 0 =>
        /\ q[b - 1] \in DOMAIN T /\ q[b] \in Taken(T)
        /\ T[q[b]].check = q[b - 1] /\ q[b] - T[q[b - 1]].base = w[b]
  BY PathNext
<1>5. Root # 0 /\ Root \notin Taken(T) /\ 0 \notin DOMAIN T
  <2>1. \A i \in DOMAIN T : i > 0
    BY CellFields
  <2> QED BY <2>1 DEF Root, Taken
<1>6. 0 \in S
  <2> SUFFICES ASSUME NEW b \in 0..Len(w), p[0] = q[b] PROVE 0 = b
    OBVIOUS
  <2>1. CASE b \in 1..Len(w)
    BY <1>2, <1>4, <1>5, <2>1
  <2> QED BY <2>1
<1>7. ASSUME NEW a \in Nat, a \in S PROVE a + 1 \in S
  <2> SUFFICES ASSUME a + 1 <= Len(v), NEW b \in 0..Len(w),
                      p[a + 1] = q[b], p[a + 1] # 0
               PROVE  a + 1 = b /\ \A j \in 1..(a + 1) : v[j] = w[j]
    OBVIOUS
  <2>1. a + 1 \in 1..Len(v) /\ a + 1 - 1 = a /\ a <= Len(v)
    BY SMT, <1>1
  <2>2. /\ p[a] \in DOMAIN T /\ p[a + 1] \in Taken(T)
        /\ T[p[a + 1]].check = p[a] /\ p[a + 1] - T[p[a]].base = v[a + 1]
    BY <1>3, <2>1
  <2>3. b \in 1..Len(w)
    <3>1. b # 0
      BY <1>2, <1>5, <2>2
    <3> QED BY <1>1, <3>1
  <2>4. /\ q[b - 1] \in DOMAIN T
        /\ T[q[b]].check = q[b - 1] /\ q[b] - T[q[b - 1]].base = w[b]
    BY <1>4, <2>3
  <2>5. p[a] = q[b - 1] /\ v[a + 1] = w[b] /\ p[a] # 0
    BY <1>5, <2>2, <2>4
  <2>6. b - 1 \in 0..Len(w)
    BY <1>1, <2>3
  <2>7. a = b - 1 /\ \A j \in 1..a : v[j] = w[j]
    BY <1>7, <2>1, <2>5, <2>6
  <2>8. a + 1 = b
    BY SMT, <2>3, <2>7
  <2> QED BY <2>5, <2>7, <2>8
<1> HIDE DEF S
<1>8. \A a \in Nat : a \in S
  BY <1>6, <1>7, Upward
<1>9. k \in Nat /\ k <= Len(v)
  BY <1>1
<1> QED BY <1>8, <1>9 DEF S

-----------------------------------------------------------------------------
(* How the ways change when the trie grows *)

\* In U each cell leads where it led in T, last to the new one, and that
\* nowhere.
Leads(T, U, P, last, char, new) ==
  \A c \in Nat :
    /\ Child(U, new, c) = 0
    /\ \A s \in DOMAIN T :
         /\ Child(T, s, c) # 0 => Child(U, P[s], c) = P[Child(T, s, c)]
         /\ Child(T, s, c) = 0 =>
              Child(U, P[s], c) = IF s = last /\ c = char THEN new ELSE 0

\* That is so when a character was inserted.
LEMMA GrownChild ==
  ASSUME NEW T, Tree(T), NEW U, NEW P, NEW last \in DOMAIN T, NEW char \in Nat,
         NEW base, NEW new, Grown(T, U, P, last, char, base, new)
  PROVE  Leads(T, U, P, last, char, new)
<1> SUFFICES ASSUME NEW c \in Nat
             PROVE  /\ Child(U, new, c) = 0
                    /\ \A s \in DOMAIN T :
                         /\ Child(T, s, c) # 0 =>
                              Child(U, P[s], c) = P[Child(T, s, c)]
                         /\ Child(T, s, c) = 0 =>
                              Child(U, P[s], c) =
                                IF s = last /\ c = char THEN new ELSE 0
  BY DEF Leads
<1>1. Tree(U) /\ new \in DOMAIN U /\ U[new].kids = {}
  BY DEF Grown
<1>2. Child(U, new, c) = 0
  BY <1>1, ChildIs
<1>3. ASSUME NEW s \in DOMAIN T, Child(T, s, c) # 0
      PROVE  Child(U, P[s], c) = P[Child(T, s, c)]
  <2> PICK n : n = Child(T, s, c)
    OBVIOUS
  <2>1. /\ n \in Taken(T) /\ n \in DOMAIN T
        /\ T[n].check = s /\ n - T[s].base = c /\ c \in T[s].kids
    BY <1>3, ChildIs
  <2>2. P[n] - U[P[s]].base = c
    BY <2>1 DEF Grown, Follows
  <2>3. P[s] \in DOMAIN U /\ P[n] \in DOMAIN U /\ c \in U[P[s]].kids
    BY <2>1 DEF Grown
  <2>4. Child(U, P[s], c) = U[P[s]].base + c
    BY <1>1, <2>3, ChildIs
  <2>5. U[P[s]].base \in Int /\ P[n] \in Int
    BY <1>1, <2>3, CellFields
  <2>6. P[n] = U[P[s]].base + c
    BY SMT, <2>2, <2>5
  <2> QED BY <2>4, <2>6
<1>4. ASSUME NEW s \in DOMAIN T, Child(T, s, c) = 0
      PROVE  Child(U, P[s], c) = IF s = last /\ c = char THEN new ELSE 0
  <2>1. c \notin T[s].kids
    <3>1. ASSUME c \in T[s].kids PROVE FALSE
      <4>1. T[s].base + c \in Taken(T)
        BY <3>1 DEF Tree
      <4>2. T[s].base + c # 0
        BY <4>1, CellFields DEF Taken
      <4> QED BY <1>4, <3>1, <4>2, ChildIs
    <3> QED BY <3>1
  <2>2. P[s] \in DOMAIN U /\ U[P[s]].kids = T[s].kids \union Added(s, last, char)
    BY DEF Grown
  <2>3. CASE s = last /\ c = char
    <3>1. c \in U[P[s]].kids
      BY <2>2, <2>3 DEF Added
    <3>2. new = U[P[s]].base + c
      BY <2>3 DEF Grown
    <3> QED BY <1>1, <2>2, <2>3, <3>1, <3>2, ChildIs
  <2>4. CASE ~(s = last /\ c = char)
    <3>1. c \notin U[P[s]].kids
      BY <2>1, <2>2, <2>4 DEF Added
    <3>2. Child(U, P[s], c) = 0
      BY <1>1, <2>2, <3>1, ChildIs
    <3> QED BY <2>4, <3>2
  <2> QED BY <2>3, <2>4
<1> QED BY <1>2, <1>3, <1>4

\* The characters of w lead where they led; if they led to last and go on with
\* char they now lead to the new cell, and no further.
WayGrows(T, U, P, last, char, new, w) ==
  \A k \in 0..Len(w) :
    /\ Path(T, w)[k] # 0 => Path(U, w)[k] = P[Path(T, w)[k]]
    /\ Path(T, w)[k] = 0 =>
         Path(U, w)[k] =
           IF k > 0 /\ Path(T, w)[k - 1] = last /\ w[k] = char
           THEN new ELSE 0

\* That is so when a character was inserted.
LEMMA GrownPath ==
  ASSUME NEW T, Tree(T), NEW U, NEW P, NEW last \in DOMAIN T, NEW char \in Nat,
         NEW base, NEW new, Grown(T, U, P, last, char, base, new),
         NEW w, Word(w)
  PROVE  WayGrows(T, U, P, last, char, new, w)
<1>g. /\ \A c \in Nat : Child(U, new, c) = 0
      /\ \A c \in Nat, s \in DOMAIN T :
           /\ Child(T, s, c) # 0 => Child(U, P[s], c) = P[Child(T, s, c)]
           /\ Child(T, s, c) = 0 =>
                Child(U, P[s], c) = IF s = last /\ c = char THEN new ELSE 0
  <2>1. Leads(T, U, P, last, char, new)
    BY GrownChild
  <2> QED BY <2>1 DEF Leads
<1>1. Len(w) \in Nat /\ \A k \in 1..Len(w) : w[k] \in Nat
  BY WordFacts
<1> PICK p : p = Path(T, w)
  OBVIOUS
<1> PICK u : u = Path(U, w)
  OBVIOUS
<1> DEFINE To(k) ==
             /\ p[k] # 0 => u[k] = P[p[k]]
             /\ p[k] = 0 => u[k] = IF k > 0 /\ p[k - 1] = last /\ w[k] = char
                                   THEN new ELSE 0
           S == {k \in Nat : k <= Len(w) => To(k)}
<1>2. p[0] = Root /\ u[0] = Root /\ P[Root] = Root /\ Root # 0
  BY <1>1, PathSteps DEF Grown, Follows, Root
<1>3. \A k \in 1..Len(w) : /\ p[k] = Child(T, p[k - 1], w[k])
                           /\ u[k] = Child(U, u[k - 1], w[k])
  BY <1>1, PathSteps
<1>4. \A k \in 0..Len(w) : p[k] = 0 \/ p[k] \in DOMAIN T
  BY PathCells
<1>5. last # 0
  BY CellFields
<1>6. 0 \in S
  BY <1>2
<1>7. ASSUME NEW k \in Nat, k \in S PROVE k + 1 \in S
  <2> SUFFICES ASSUME k + 1 <= Len(w) PROVE To(k + 1)
    OBVIOUS
  <2>1. k + 1 \in 1..Len(w) /\ k + 1 - 1 = k /\ k <= Len(w) /\ k + 1 > 0
        /\ k \in 0..Len(w)
    BY SMT, <1>1
  <2> PICK c \in Nat : c = w[k + 1]
    BY <1>1, <2>1
  <2>2. p[k + 1] = Child(T, p[k], c) /\ u[k + 1] = Child(U, u[k], c)
    BY <1>3, <2>1
  <2>3. To(k)
    BY <1>7, <2>1
  <2>4. CASE p[k] = 0
    <3>1. p[k + 1] = 0
      BY <2>2, <2>4, ChildOfNone
    <3>2. u[k] = new \/ u[k] = 0
      BY <2>3, <2>4
    <3>3. u[k + 1] = 0
      BY <1>g, <2>2, <3>2, ChildOfNone
    <3> QED BY <1>5, <2>1, <2>4, <3>1, <3>3
  <2>5. CASE p[k] # 0
    <3>1. p[k] \in DOMAIN T /\ u[k] = P[p[k]]
      BY <1>4, <2>1, <2>3, <2>5
    <3>2. /\ Child(T, p[k], c) # 0 =>
               Child(U, P[p[k]], c) = P[Child(T, p[k], c)]
          /\ Child(T, p[k], c) = 0 =>
               Child(U, P[p[k]], c) = IF p[k] = last /\ c = char THEN new ELSE 0
      BY <1>g, <3>1
    <3> QED BY <2>1, <2>2, <3>1, <3>2
  <2> QED BY <2>4, <2>5
<1> HIDE DEF S
<1>8. \A k \in Nat : k \in S
  BY <1>6, <1>7, Upward
<1> QED BY <1>8 DEF S, WayGrows

-----------------------------------------------------------------------------
(* The ends of words *)

\* The end of text of w, 0 if none.
TextEnd(T, w) == Child(T, Path(T, w)[Len(w)], END_OF_TEXT)

\* The first k characters of w lead to a leaf with the others in the tail.
LeafEnd(T, X, w, k) ==
  /\ k \in 1..(Len(w) - 1) /\ Path(T, w)[k] # 0
  /\ -T[Path(T, w)[k]].base \in DOMAIN X
  /\ X[-T[Path(T, w)[k]].base] = SubSeq(w, k + 1, Len(w))

\* Ends in these words.
LEMMA EndsAre ==
  ASSUME NEW T, NEW X, NEW w
  PROVE  \A e : e \in Ends(T, X, w) <=>
                  \/ e # 0 /\ e = TextEnd(T, w)
                  \/ \E k : LeafEnd(T, X, w, k) /\ e = Path(T, w)[k]
<1> PICK p : p = Path(T, w)
  OBVIOUS
<1>1. Ends(T, X, w) =
        ({TextEnd(T, w)} \ {0})
        \union {p[k] : k \in {k \in 1..(Len(w) - 1) : LeafEnd(T, X, w, k)}}
  BY Zenon DEF Ends, TextEnd, LeafEnd
<1>2. \A k : LeafEnd(T, X, w, k) => k \in 1..(Len(w) - 1)
  BY Zenon DEF LeafEnd
<1> QED BY Zenon, <1>1, <1>2

\* What leads somewhere has led somewhere before.
LEMMA PathDown ==
  ASSUME NEW T, Tree(T), NEW w, Word(w), NEW m \in 0..Len(w),
         Path(T, w)[m] # 0
  PROVE  \A k \in 0..m : /\ Path(T, w)[k] \in DOMAIN T
                         /\ k < m => w[k + 1] \in T[Path(T, w)[k]].kids
<1> PICK p : p = Path(T, w)
  OBVIOUS
<1>1. Len(w) \in Nat
  BY WordFacts
<1>2. \A k \in 1..Len(w) : p[k] # 0 =>
        p[k - 1] \in DOMAIN T /\ w[k] \in T[p[k - 1]].kids
  BY PathNext
<1>3. \A k \in 0..Len(w) : p[k] = 0 \/ p[k] \in DOMAIN T
  BY PathCells
<1>z. 0 \notin DOMAIN T
  BY CellFields
<1> DEFINE S == {d \in Nat : d <= m => p[m - d] \in DOMAIN T}
<1>4. 0 \in S
  BY <1>1, <1>3
<1>5. ASSUME NEW d \in Nat, d \in S PROVE d + 1 \in S
  <2> SUFFICES ASSUME d + 1 <= m PROVE p[m - (d + 1)] \in DOMAIN T
    OBVIOUS
  <2>1. m - d \in 1..Len(w) /\ (m - d) - 1 = m - (d + 1) /\ d <= m
    BY SMT, <1>1
  <2>2. p[m - d] \in DOMAIN T
    BY <1>5, <2>1
  <2>3. p[m - d] # 0
    BY <1>z, <2>2
  <2> QED BY <1>2, <2>1, <2>3
<1> HIDE DEF S
<1>6. \A d \in Nat : d \in S
  BY <1>4, <1>5, Upward
<1>7. ASSUME NEW k \in 0..m PROVE p[k] \in DOMAIN T
  <2>1. m - k \in Nat /\ m - k <= m /\ m - (m - k) = k
    BY SMT, <1>1
  <2>2. m - k \in S
    BY <1>6, <2>1
  <2>3. p[m - (m - k)] \in DOMAIN T
    BY <2>1, <2>2 DEF S
  <2> QED BY <2>1, <2>3
<1>8. ASSUME NEW k \in 0..m, k < m PROVE w[k + 1] \in T[p[k]].kids
  <2>1. k + 1 \in 0..m /\ k + 1 \in 1..Len(w) /\ k + 1 - 1 = k
    BY SMT, <1>1, <1>8
  <2>2. p[k + 1] # 0
    BY <1>7, <1>z, <2>1
  <2>3. w[k + 1] \in T[p[k + 1 - 1]].kids
    BY <1>2, <2>1, <2>2
  <2> QED BY <2>1, <2>3
<1> QED BY <1>7, <1>8

\* The leaf of a word has its suffix; nothing goes on from there.
LEMMA LeafFacts ==
  ASSUME NEW T, Tree(T), NEW X, SuffixesOK(X), NEW w, Word(w),
         NEW k, LeafEnd(T, X, w, k)
  PROVE  /\ k \in 1..(Len(w) - 1) /\ k \in 0..Len(w) /\ k \in Nat
         /\ Path(T, w)[k] \in DOMAIN T /\ T[Path(T, w)[k]].base < 0
         /\ \A m \in 0..Len(w) : k < m => Path(T, w)[m] = 0
<1> PICK p : p = Path(T, w)
  OBVIOUS
<1>1. /\ k \in 1..(Len(w) - 1) /\ p[k] # 0 /\ -T[p[k]].base \in DOMAIN X
      /\ Len(w) \in Nat
  BY WordFacts DEF LeafEnd
<1>2. k \in 0..Len(w) /\ k \in Nat
  BY <1>1
<1>3. p[k] \in DOMAIN T
  BY <1>1, <1>2, PathCells
<1>4. T[p[k]].base < 0
  <2>1. -T[p[k]].base \in Nat /\ -T[p[k]].base > 0
    BY <1>1 DEF SuffixesOK
  <2>2. T[p[k]].base \in Int
    BY <1>3, CellFields
  <2> QED BY SMT, <2>1, <2>2
<1>5. T[p[k]].kids = {}
  BY <1>3, <1>4 DEF Tree
<1>6. ASSUME NEW m \in 0..Len(w), k < m, p[m] # 0 PROVE FALSE
  <2>1. k \in 0..m
    BY <1>2, <1>6
  <2>2. w[k + 1] \in T[p[k]].kids
    BY <1>6, <2>1, PathDown
  <2> QED BY <1>5, <2>2
<1> QED BY <1>1, <1>2, <1>3, <1>4, <1>6

\* Where a text ends.
LEMMA TextFacts ==
  ASSUME NEW T, Tree(T), NEW w, Word(w), TextEnd(T, w) # 0
  PROVE  /\ Path(T, w)[Len(w)] \in DOMAIN T
         /\ TextEnd(T, w) \in DOMAIN T
         /\ T[TextEnd(T, w)].check = Path(T, w)[Len(w)]
         /\ TextEnd(T, w) - T[Path(T, w)[Len(w)]].base = END_OF_TEXT
<1>1. Len(w) \in 0..Len(w)
  BY WordFacts
<1>2. Path(T, w)[Len(w)] = 0 \/ Path(T, w)[Len(w)] \in DOMAIN T
  BY <1>1, PathCells
<1>3. Path(T, w)[Len(w)] \in DOMAIN T
  BY <1>2, ChildOfNone DEF TextEnd
<1>4. END_OF_TEXT \in Nat
  BY DEF END_OF_TEXT
<1> QED BY <1>3, <1>4, ChildIs DEF TextEnd

\* No word ends twice.
LEMMA OneEnd ==
  ASSUME NEW T, Tree(T), NEW X, SuffixesOK(X), NEW w, Word(w),
         NEW e \in Ends(T, X, w), NEW f \in Ends(T, X, w)
  PROVE  e = f
<1>1. /\ \/ e # 0 /\ e = TextEnd(T, w)
         \/ \E k : LeafEnd(T, X, w, k) /\ e = Path(T, w)[k]
      /\ \/ f # 0 /\ f = TextEnd(T, w)
         \/ \E k : LeafEnd(T, X, w, k) /\ f = Path(T, w)[k]
  BY EndsAre
<1>2. ASSUME NEW k, LeafEnd(T, X, w, k), TextEnd(T, w) # 0 PROVE FALSE
  <2>1. Path(T, w)[Len(w)] \in DOMAIN T
    BY <1>2, TextFacts
  <2>2. 0 \notin DOMAIN T
    BY CellFields
  <2>3. k \in 1..(Len(w) - 1) /\ Len(w) \in Nat
    BY <1>2, LeafFacts, WordFacts
  <2>4. Len(w) \in 0..Len(w) /\ k < Len(w)
    BY <2>3
  <2> QED BY <1>2, <2>1, <2>2, <2>4, LeafFacts
<1>3. ASSUME NEW k, LeafEnd(T, X, w, k), NEW m, LeafEnd(T, X, w, m), k < m
      PROVE  FALSE
  <2>1. m \in 0..Len(w)
    BY <1>3, LeafFacts
  <2>2. Path(T, w)[m] = 0
    BY <1>3, <2>1, LeafFacts
  <2>3. Path(T, w)[m] # 0
    BY <1>3 DEF LeafEnd
  <2> QED BY <2>2, <2>3
<1>4. ASSUME NEW k, LeafEnd(T, X, w, k), NEW m, LeafEnd(T, X, w, m)
      PROVE  k = m
  <2>1. k \in Nat /\ m \in Nat
    BY <1>4, LeafFacts
  <2>2. ~(k < m) /\ ~(m < k)
    BY <1>3, <1>4
  <2> QED BY SMT, <2>1, <2>2
<1>5. CASE e # 0 /\ e = TextEnd(T, w)
  BY <1>1, <1>2, <1>5
<1>6. ASSUME NEW k, LeafEnd(T, X, w, k), e = Path(T, w)[k] PROVE e = f
  <2>1. ~(f # 0 /\ f = TextEnd(T, w))
    BY <1>2, <1>6
  <2>2. PICK m : LeafEnd(T, X, w, m) /\ f = Path(T, w)[m]
    BY <1>1, <2>1
  <2>3. k = m
    BY <1>4, <1>6, <2>2
  <2> QED BY <1>6, <2>2, <2>3
<1> QED BY <1>1, <1>5, <1>6

\* Only the suffixes of leaves count.
LEMMA EndsOfLeaves ==
  ASSUME NEW T, Tree(T), NEW X, SuffixesOK(X), NEW Y, SuffixesOK(Y),
         \A i \in DOMAIN T : T[i].base < 0 =>
           /\ -T[i].base \in DOMAIN X <=> -T[i].base \in DOMAIN Y
           /\ -T[i].base \in DOMAIN X => X[-T[i].base] = Y[-T[i].base],
         NEW w, Word(w)
  PROVE  Ends(T, X, w) = Ends(T, Y, w)
<1>1. ASSUME NEW k, LeafEnd(T, X, w, k) PROVE LeafEnd(T, Y, w, k)
  <2>1. Path(T, w)[k] \in DOMAIN T /\ T[Path(T, w)[k]].base < 0
    BY <1>1, LeafFacts
  <2> QED BY <1>1, <2>1 DEF LeafEnd
<1>2. ASSUME NEW k, LeafEnd(T, Y, w, k) PROVE LeafEnd(T, X, w, k)
  <2>1. Path(T, w)[k] \in DOMAIN T /\ T[Path(T, w)[k]].base < 0
    BY <1>2, LeafFacts
  <2> QED BY <1>2, <2>1 DEF LeafEnd
<1>3. \A e : e \in Ends(T, X, w) <=>
               \/ e # 0 /\ e = TextEnd(T, w)
               \/ \E k : LeafEnd(T, X, w, k) /\ e = Path(T, w)[k]
  BY EndsAre
<1>4. \A e : e \in Ends(T, Y, w) <=>
               \/ e # 0 /\ e = TextEnd(T, w)
               \/ \E k : LeafEnd(T, Y, w, k) /\ e = Path(T, w)[k]
  BY EndsAre
<1>5. \A e : e \in Ends(T, X, w) <=> e \in Ends(T, Y, w)
  BY Zenon, <1>1, <1>2, <1>3, <1>4
<1> QED BY Zenon, <1>5

-----------------------------------------------------------------------------
(* What growth does to the ends *)

\* Whether w ends in the node that char leads to from last, which has base.
NewEnd(T, Y, w, last, char, base) ==
  \/ char = END_OF_TEXT /\ Path(T, w)[Len(w)] = last
  \/ \E k \in 1..(Len(w) - 1) :
       /\ Path(T, w)[k - 1] = last /\ w[k] = char
       /\ -base \in DOMAIN Y /\ Y[-base] = SubSeq(w, k + 1, Len(w))

\* The ends of w move by P, and new is one if isNew.
EndsGrow(T, U, P, new, Y, w, isNew) ==
  /\ \A e \in Ends(T, Y, w) : P[e] \in Ends(U, Y, w)
  /\ \A f \in Ends(U, Y, w) : \/ f = new /\ isNew
                              \/ \E e \in Ends(T, Y, w) : f = P[e]
  /\ isNew => new \in Ends(U, Y, w)

\* An end is a cell.
LEMMA EndsCells ==
  ASSUME NEW T, Tree(T), NEW X, SuffixesOK(X), NEW w, Word(w),
         NEW e \in Ends(T, X, w)
  PROVE  e \in DOMAIN T
<1>1. \/ e # 0 /\ e = TextEnd(T, w)
      \/ \E k : LeafEnd(T, X, w, k) /\ e = Path(T, w)[k]
  BY EndsAre
<1>2. CASE e # 0 /\ e = TextEnd(T, w)
  BY <1>2, TextFacts
<1>3. ASSUME NEW k, LeafEnd(T, X, w, k), e = Path(T, w)[k]
      PROVE  e \in DOMAIN T
  BY <1>3, LeafFacts
<1> QED BY <1>1, <1>2, <1>3

\* Insertion moves the ends with their cells.
LEMMA GrownEnds ==
  ASSUME NEW T, Tree(T), NEW U, NEW P, NEW last \in DOMAIN T,
         NEW char \in Nat, char >= END_OF_TEXT, char \notin T[last].kids,
         NEW base, NEW new, Grown(T, U, P, last, char, base, new),
         NEW Y, SuffixesOK(Y), NEW w, Word(w)
  PROVE  EndsGrow(T, U, P, new, Y, w, NewEnd(T, Y, w, last, char, base))
<1>a. \A e : e \in Ends(T, Y, w) <=>
               \/ e # 0 /\ e = TextEnd(T, w)
               \/ \E k : LeafEnd(T, Y, w, k) /\ e = Path(T, w)[k]
  BY EndsAre
<1>b. \A e : e \in Ends(U, Y, w) <=>
               \/ e # 0 /\ e = TextEnd(U, w)
               \/ \E k : LeafEnd(U, Y, w, k) /\ e = Path(U, w)[k]
  BY EndsAre
<1>c. /\ Tree(U) /\ new \in DOMAIN U /\ U[new].base = base
      /\ \A i \in DOMAIN T : P[i] \in DOMAIN U /\ P[i] # new
      /\ \A i \in DOMAIN T : \/ U[P[i]].base = T[i].base
                             \/ U[P[i]].base > 0 /\ T[i].base > 0
  BY DEF Grown
<1>d. \A k \in 0..Len(w) :
        /\ Path(T, w)[k] # 0 => Path(U, w)[k] = P[Path(T, w)[k]]
        /\ Path(T, w)[k] = 0 =>
             Path(U, w)[k] =
               IF k > 0 /\ Path(T, w)[k - 1] = last /\ w[k] = char
               THEN new ELSE 0
  <2>1. WayGrows(T, U, P, last, char, new, w)
    BY GrownPath
  <2> QED BY <2>1 DEF WayGrows
<1>e. /\ \A c \in Nat : Child(U, new, c) = 0
      /\ \A c \in Nat, s \in DOMAIN T :
           /\ Child(T, s, c) # 0 => Child(U, P[s], c) = P[Child(T, s, c)]
           /\ Child(T, s, c) = 0 =>
                Child(U, P[s], c) = IF s = last /\ c = char THEN new ELSE 0
  <2>1. Leads(T, U, P, last, char, new)
    BY GrownChild
  <2> QED BY <2>1 DEF Leads
<1>f. END_OF_TEXT \in Nat /\ Len(w) \in Nat /\ Len(w) \in 0..Len(w)
      /\ \A k \in 1..Len(w) : w[k] \in Nat /\ w[k] > END_OF_TEXT
  BY WordFacts DEF END_OF_TEXT
<1>g. 0 \notin DOMAIN T /\ 0 \notin DOMAIN U
  BY <1>c, CellFields
<1>h. \A k \in 0..Len(w) : Path(T, w)[k] = 0 \/ Path(T, w)[k] \in DOMAIN T
  BY PathCells
<1> PICK L : L = Len(w)
  OBVIOUS
<1>i. L \in Nat /\ \A k \in 1..(L - 1) : k \in 0..L /\ k \in 1..L /\ k > 0
  BY <1>f
<1>1. ASSUME NEW e \in Ends(T, Y, w) PROVE P[e] \in Ends(U, Y, w)
  <2>0. e \in DOMAIN T
    BY EndsCells
  <2>1. CASE e # 0 /\ e = TextEnd(T, w)
    <3> PICK s : s = Path(T, w)[L]
      OBVIOUS
    <3>1. s \in DOMAIN T /\ Child(T, s, END_OF_TEXT) = e
      BY <2>1, TextFacts DEF TextEnd
    <3>2. Path(U, w)[L] = P[s]
      BY <1>d, <1>f, <1>g, <3>1
    <3>3. Child(U, P[s], END_OF_TEXT) = P[e]
      BY <1>e, <1>f, <2>1, <3>1
    <3>4. P[e] = TextEnd(U, w) /\ P[e] # 0
      BY <1>c, <1>g, <2>0, <3>2, <3>3 DEF TextEnd
    <3> QED BY <1>b, <3>4
  <2>2. ASSUME NEW k, LeafEnd(T, Y, w, k), e = Path(T, w)[k]
        PROVE  P[e] \in Ends(U, Y, w)
    <3>1. T[e].base < 0 /\ k \in 1..(L - 1) /\ T[e].base \in Int
      BY <2>0, <2>2, LeafFacts, CellFields
    <3>2. Path(U, w)[k] = P[e]
      BY <1>d, <1>g, <1>i, <2>0, <2>2, <3>1
    <3>3. U[P[e]].base = T[e].base
      <4>1. ~(T[e].base > 0)
        BY SMT, <3>1
      <4> QED BY <1>c, <2>0, <4>1
    <3>4. LeafEnd(U, Y, w, k)
      BY <1>c, <1>g, <2>0, <2>2, <3>2, <3>3 DEF LeafEnd
    <3> QED BY <1>b, <3>2, <3>4
  <2> QED BY <1>a, <2>1, <2>2
<1>2. ASSUME NEW f \in Ends(U, Y, w)
      PROVE  \/ f = new /\ NewEnd(T, Y, w, last, char, base)
             \/ \E e \in Ends(T, Y, w) : f = P[e]
  <2>1. CASE f # 0 /\ f = TextEnd(U, w)
    <3> PICK s : s = Path(T, w)[L]
      OBVIOUS
    <3> PICK u : u = Path(U, w)[L]
      OBVIOUS
    <3>1. u \in DOMAIN U /\ Child(U, u, END_OF_TEXT) = f
      BY <1>c, <2>1, TextFacts DEF TextEnd
    <3>2. s # 0
      <4> SUFFICES ASSUME s = 0 PROVE FALSE
        OBVIOUS
      <4>1. u = new
        BY <1>d, <1>f, <1>g, <3>1
      <4> QED BY <1>e, <1>f, <2>1, <3>1, <4>1
    <3>3. s \in DOMAIN T /\ u = P[s]
      BY <1>d, <1>f, <1>h, <3>2
    <3>4. CASE Child(T, s, END_OF_TEXT) # 0
      <4>1. f = P[Child(T, s, END_OF_TEXT)]
        BY <1>e, <1>f, <3>1, <3>3, <3>4
      <4>2. Child(T, s, END_OF_TEXT) \in Ends(T, Y, w)
        BY <1>a, <3>4 DEF TextEnd
      <4> QED BY <4>1, <4>2
    <3>5. CASE Child(T, s, END_OF_TEXT) = 0
      <4>1. f = IF s = last /\ END_OF_TEXT = char THEN new ELSE 0
        BY <1>e, <1>f, <3>1, <3>3, <3>5
      <4>2. f = new /\ s = last /\ END_OF_TEXT = char
        BY <2>1, <4>1
      <4> QED BY <4>2 DEF NewEnd
    <3> QED BY <3>4, <3>5
  <2>2. ASSUME NEW k, LeafEnd(U, Y, w, k), f = Path(U, w)[k]
        PROVE  \/ f = new /\ NewEnd(T, Y, w, last, char, base)
               \/ \E e \in Ends(T, Y, w) : f = P[e]
    <3>1. /\ k \in 1..(L - 1) /\ f # 0 /\ f \in DOMAIN U
          /\ -U[f].base \in DOMAIN Y /\ Y[-U[f].base] = SubSeq(w, k + 1, L)
          /\ U[f].base < 0 /\ U[f].base \in Int
      BY <1>c, <2>2, LeafFacts, CellFields DEF LeafEnd
    <3> PICK e : e = Path(T, w)[k]
      OBVIOUS
    <3>2. CASE e = 0
      <4>1. f = new /\ Path(T, w)[k - 1] = last /\ w[k] = char
        BY <1>d, <1>i, <2>2, <3>1, <3>2
      <4> QED BY <1>c, <3>1, <4>1 DEF NewEnd
    <3>3. CASE e # 0
      <4>1. e \in DOMAIN T /\ f = P[e]
        BY <1>d, <1>h, <1>i, <2>2, <3>1, <3>3
      <4>2. U[f].base = T[e].base
        <5>1. ~(U[f].base > 0)
          BY SMT, <3>1
        <5> QED BY <1>c, <4>1, <5>1
      <4>3. LeafEnd(T, Y, w, k)
        BY <3>1, <3>3, <4>2 DEF LeafEnd
      <4> QED BY <1>a, <4>1, <4>3
    <3> QED BY <3>2, <3>3
  <2> QED BY <1>b, <2>1, <2>2
<1>3. ASSUME NewEnd(T, Y, w, last, char, base) PROVE new \in Ends(U, Y, w)
  <2>n. new # 0
    BY <1>c, <1>g
  <2>c. Child(T, last, char) = 0
    BY ChildIs
  <2>1. CASE char = END_OF_TEXT /\ Path(T, w)[Len(w)] = last
    <3>1. Path(U, w)[Len(w)] = P[last]
      BY <1>d, <1>f, <1>g, <2>1
    <3>2. Child(U, P[last], END_OF_TEXT) = new
      BY <1>e, <1>f, <2>c, <2>1
    <3>3. new = TextEnd(U, w)
      BY <3>1, <3>2 DEF TextEnd
    <3> QED BY <1>b, <2>n, <3>3
  <2>2. ASSUME NEW k \in 1..(L - 1),
               Path(T, w)[k - 1] = last, w[k] = char,
               -base \in DOMAIN Y, Y[-base] = SubSeq(w, k + 1, L)
        PROVE  new \in Ends(U, Y, w)
    <3>1. Path(T, w)[k] = 0
      <4>1. Path(T, w)[k] = Child(T, Path(T, w)[k - 1], w[k])
        BY ZenonT(60), <1>f, <1>i, PathSteps
      <4> QED BY <2>2, <2>c, <4>1
    <3>2. Path(U, w)[k] = new
      BY <1>d, <1>i, <2>2, <3>1
    <3>3. LeafEnd(U, Y, w, k)
      BY <1>c, <2>n, <2>2, <3>2 DEF LeafEnd
    <3> QED BY <1>b, <3>2, <3>3
  <2> QED BY <1>3, <2>1, <2>2 DEF NewEnd
<1> QED BY <1>1, <1>2, <1>3 DEF EndsGrow

-----------------------------------------------------------------------------
(* The data at the ends *)

\* The data at the ends of w.
EndData(T, X, w) == {T[e].data : e \in Ends(T, X, w)}

\* The words keep their data.
AsBefore(T, X, U, Y) ==
  \A w : Word(w) => EndData(U, Y, w) = EndData(T, X, w)

\* The words keep their data but for v, which has value.
Stored(T, X, U, Y, v, value) ==
  \A w : Word(w) =>
    EndData(U, Y, w) = IF w = v THEN {value} ELSE EndData(T, X, w)

\* The data of the ends of w stay, and that of new joins them if isNew.
DataGrows(T, U, new, Y, w, isNew) ==
  /\ isNew => EndData(U, Y, w) = EndData(T, Y, w) \union {U[new].data}
  /\ ~isNew => EndData(U, Y, w) = EndData(T, Y, w)

\* The data move with the ends, and the new end brings its own.
LEMMA DataGrow ==
  ASSUME NEW T, Tree(T), NEW U, NEW P, NEW new, NEW Y, SuffixesOK(Y),
         NEW w, Word(w), NEW isNew,
         EndsGrow(T, U, P, new, Y, w, isNew), Kept(T, U, P)
  PROVE  DataGrows(T, U, new, Y, w, isNew)
<1>1. \A e \in Ends(T, Y, w) : e \in DOMAIN T
  BY EndsCells
<1>2. \A e \in Ends(T, Y, w) : U[P[e]].data = T[e].data
  BY <1>1 DEF Kept
<1>3. /\ \A e \in Ends(T, Y, w) : P[e] \in Ends(U, Y, w)
      /\ \A f \in Ends(U, Y, w) : \/ f = new /\ isNew
                                  \/ \E e \in Ends(T, Y, w) : f = P[e]
      /\ isNew => new \in Ends(U, Y, w)
  BY DEF EndsGrow
<1>4. ASSUME NEW d \in EndData(U, Y, w)
      PROVE  d \in EndData(T, Y, w) \/ (isNew /\ d = U[new].data)
  <2>1. PICK f \in Ends(U, Y, w) : d = U[f].data
    BY DEF EndData
  <2>2. (\E e \in Ends(T, Y, w) : f = P[e]) => d \in EndData(T, Y, w)
    BY <1>2, <2>1 DEF EndData
  <2> QED BY Zenon, <1>3, <2>1, <2>2
<1>5. ASSUME NEW d \in EndData(T, Y, w) PROVE d \in EndData(U, Y, w)
  BY <1>2, <1>3 DEF EndData
<1>6. ASSUME isNew PROVE U[new].data \in EndData(U, Y, w)
  BY <1>3, <1>6 DEF EndData
<1> QED BY <1>4, <1>5, <1>6 DEF DataGrows

\* A word that has not been led beyond m has no end.
LEMMA NoEnd ==
  ASSUME NEW T, Tree(T), NEW X, SuffixesOK(X), NEW v, Word(v),
         NEW m \in 0..Len(v), NEW last \in DOMAIN T,
         Path(T, v)[m] = last, T[last].base > 0,
         (IF m = Len(v) THEN END_OF_TEXT ELSE v[m + 1]) \notin T[last].kids
  PROVE  Ends(T, X, v) = {}
<1>1. Len(v) \in Nat /\ END_OF_TEXT \in Nat
  BY WordFacts DEF END_OF_TEXT
<1>z. 0 \notin DOMAIN T
  BY CellFields
<1>2. ASSUME TextEnd(T, v) # 0 PROVE FALSE
  <2>1. Path(T, v)[Len(v)] \in DOMAIN T
    BY <1>2, TextFacts
  <2>2. Path(T, v)[Len(v)] # 0 /\ Len(v) \in 0..Len(v)
    BY <1>1, <1>z, <2>1
  <2>3. CASE m = Len(v)
    <3>1. TextEnd(T, v) = Child(T, last, END_OF_TEXT)
      BY <2>3 DEF TextEnd
    <3>2. Child(T, last, END_OF_TEXT) = 0
      BY <1>1, <2>3, ChildIs
    <3> QED BY <1>2, <3>1, <3>2
  <2>4. CASE m # Len(v)
    <3>1. m \in 0..Len(v) /\ m < Len(v)
      BY <1>1, <2>4
    <3>2. v[m + 1] \in T[Path(T, v)[m]].kids
      BY <2>2, <3>1, PathDown
    <3> QED BY <2>4, <3>2
  <2> QED BY <2>3, <2>4
<1>3. ASSUME NEW k, LeafEnd(T, X, v, k) PROVE FALSE
  <2>1. /\ k \in 1..(Len(v) - 1) /\ k \in 0..Len(v) /\ k \in Nat
        /\ Path(T, v)[k] \in DOMAIN T /\ T[Path(T, v)[k]].base < 0
        /\ \A j \in 0..Len(v) : k < j => Path(T, v)[j] = 0
    BY <1>3, LeafFacts
  <2>2. CASE k < m
    BY <1>z, <2>1, <2>2
  <2>3. CASE k = m
    <3>1. T[last].base \in Int
      BY CellFields
    <3> QED BY SMT, <2>1, <2>3, <3>1
  <2>4. CASE m < k
    <3>1. m # Len(v) /\ m \in 0..k
      BY <1>1, <2>1, <2>4
    <3>2. Path(T, v)[k] # 0
      BY <1>z, <2>1
    <3>3. v[m + 1] \in T[Path(T, v)[m]].kids
      BY <2>1, <2>4, <3>1, <3>2, PathDown
    <3> QED BY <3>1, <3>3
  <2>5. k < m \/ k = m \/ m < k
    BY SMT, <1>1, <2>1
  <2> QED BY <2>2, <2>3, <2>4, <2>5
<1>4. \A e : e \in Ends(T, X, v) <=>
               \/ e # 0 /\ e = TextEnd(T, v)
               \/ \E k : LeafEnd(T, X, v, k) /\ e = Path(T, v)[k]
  BY EndsAre
<1>5. \A e : e \notin Ends(T, X, v)
  BY <1>2, <1>3, <1>4
<1> QED BY <1>5

\* What is left of w from k + 1 on is s.
LEMMA SuffixIs ==
  ASSUME NEW w, Word(w), NEW k \in 0..Len(w), NEW s, Word(s)
  PROVE  SubSeq(w, k + 1, Len(w)) = s <=>
           Len(w) = k + Len(s) /\ \A j \in 1..Len(s) : w[k + j] = s[j]
<1>1. /\ Len(w) \in Nat /\ Len(s) \in Nat
      /\ w \in Seq(Nat) /\ \A j \in DOMAIN w : w[j] > END_OF_TEXT
      /\ DOMAIN w = 1..Len(w)
  BY WordFacts DEF Word
<1> PICK L \in Nat : L = Len(w)
  BY <1>1
<1> PICK rest : rest = SubSeq(w, k + 1, Len(w))
  OBVIOUS
<1>2. k + 1 \in 1..(Len(w) + 1) /\ k \in Nat
  BY <1>1
<1>3. /\ rest \in Seq(Nat) /\ Len(rest) = Len(w) - (k + 1) + 1
      /\ \A j \in 1..Len(rest) : rest[j] = w[(k + 1) + j - 1]
  BY SMTT(30), <1>1, <1>2, RestOf
<1>4. Len(rest) = Len(w) - k
  BY SMT, <1>1, <1>2, <1>3
<1>5. \A j \in 1..Len(rest) : rest[j] = w[k + j]
  <2> SUFFICES ASSUME NEW j \in 1..Len(rest) PROVE rest[j] = w[k + j]
    OBVIOUS
  <2>1. (k + 1) + j - 1 = k + j
    BY SMT, <1>2
  <2> QED BY <1>3, <2>1
<1>6. ASSUME rest = s
      PROVE  Len(w) = k + Len(s) /\ \A j \in 1..Len(s) : w[k + j] = s[j]
  <2>1. Len(w) = k + Len(s)
    BY SMT, <1>1, <1>2, <1>4, <1>6
  <2> QED BY <1>5, <1>6, <2>1
<1>7. ASSUME Len(w) = k + Len(s), \A j \in 1..Len(s) : w[k + j] = s[j]
      PROVE  rest = s
  <2>1. Len(rest) = Len(s)
    BY SMT, <1>1, <1>2, <1>4, <1>7
  <2>2. \A j \in 1..Len(rest) : rest[j] = s[j]
    BY <1>5, <1>7, <2>1
  <2>3. s \in Seq(Nat)
    BY DEF Word
  <2> QED BY <1>3, <2>1, <2>2, <2>3, SeqEqual
<1> QED BY <1>6, <1>7

\* Two words are one if they agree in the first k characters and in the rest.
LEMMA SameWord ==
  ASSUME NEW v, Word(v), NEW w, Word(w), NEW k \in Nat, k <= Len(v),
         k <= Len(w), \A j \in 1..k : v[j] = w[j],
         SubSeq(v, k + 1, Len(v)) = SubSeq(w, k + 1, Len(w))
  PROVE  v = w
<1>1. /\ Len(v) \in Nat /\ Len(w) \in Nat
      /\ v \in Seq(Nat) /\ w \in Seq(Nat)
      /\ \A j \in DOMAIN v : v[j] > END_OF_TEXT
      /\ DOMAIN v = 1..Len(v)
  BY WordFacts DEF Word
<1> PICK s : s = SubSeq(v, k + 1, Len(v))
  OBVIOUS
<1>2. k + 1 \in 1..(Len(v) + 1) /\ k \in 0..Len(v) /\ k \in 0..Len(w)
  BY <1>1
<1>3. Word(s)
  <2>1. s \in Seq(Nat) /\ \A j \in DOMAIN s : s[j] > END_OF_TEXT
    BY <1>1, <1>2, RestOf
  <2> QED BY <2>1 DEF Word
<1>4. Len(v) = k + Len(s) /\ \A j \in 1..Len(s) : v[k + j] = s[j]
  BY <1>2, <1>3, SuffixIs
<1>5. Len(w) = k + Len(s) /\ \A j \in 1..Len(s) : w[k + j] = s[j]
  BY <1>2, <1>3, SuffixIs
<1>6. Len(s) \in Nat
  BY <1>3, WordFacts
<1>7. ASSUME NEW j \in 1..Len(v) PROVE v[j] = w[j]
  <2>1. CASE j <= k
    BY <1>1, <2>1
  <2>2. CASE ~(j <= k)
    <3>1. j - k \in 1..Len(s) /\ k + (j - k) = j
      BY SMT, <1>1, <1>4, <1>6, <2>2
    <3>2. v[k + (j - k)] = s[j - k] /\ w[k + (j - k)] = s[j - k]
      BY <1>4, <1>5, <3>1
    <3> QED BY <3>1, <3>2
  <2> QED BY <2>1, <2>2
<1>8. Len(v) = Len(w)
  BY <1>4, <1>5
<1> QED BY <1>1, <1>7, <1>8, SeqEqual

\* A node that is neither an end of text nor a leaf changes no word.
LEMMA NodeData ==
  ASSUME NEW T, Tree(T), NEW U, NEW P, NEW last \in DOMAIN T,
         NEW char \in Nat, char > END_OF_TEXT, char \notin T[last].kids,
         NEW base \in Int, base > 0,
         NEW new, Grown(T, U, P, last, char, base, new), Kept(T, U, P),
         NEW Y, SuffixesOK(Y)
  PROVE  AsBefore(T, Y, U, Y)
<1> SUFFICES ASSUME NEW w, Word(w)
             PROVE  EndData(U, Y, w) = EndData(T, Y, w)
  BY DEF AsBefore
<1>1. char >= END_OF_TEXT /\ char # END_OF_TEXT
  BY SMT DEF END_OF_TEXT
<1>2. -base \notin DOMAIN Y
  <2> SUFFICES ASSUME -base \in DOMAIN Y PROVE FALSE
    OBVIOUS
  <2>1. -base > 0
    BY DEF SuffixesOK
  <2> QED BY SMT, <2>1
<1> PICK isNew : isNew = NewEnd(T, Y, w, last, char, base)
  OBVIOUS
<1>3. ~isNew
  BY <1>1, <1>2 DEF NewEnd
<1>4. EndsGrow(T, U, P, new, Y, w, isNew)
  BY <1>1, GrownEnds
<1>5. ~isNew => EndData(U, Y, w) = EndData(T, Y, w)
  <2>1. DataGrows(T, U, new, Y, w, isNew)
    BY <1>4, DataGrow
  <2> QED BY <2>1 DEF DataGrows
<1> QED BY <1>3, <1>5

\* The first m characters of v lead to last, the next one, char, to nowhere.
Missing(T, v, m, last, char) ==
  /\ Word(v) /\ m \in Nat /\ m + 1 <= Len(v) /\ Path(T, v)[m] = last
  /\ char = v[m + 1] /\ char \notin T[last].kids

\* x is the suffix of v behind its first m + 1 characters.
SuffixOf(Y, x, v, m) ==
  m + 2 <= Len(v) /\ x \in DOMAIN Y /\ Y[x] = SubSeq(v, m + 2, Len(v))

\* A leaf below the way of v, with the rest of v in the tail, is the end of v
\* and of no other word.
LEMMA LeafData ==
  ASSUME NEW T, Tree(T), NEW U, NEW P, NEW last \in DOMAIN T,
         T[last].base > 0,
         NEW v, NEW m, NEW char, Missing(T, v, m, last, char),
         NEW Y, SuffixesOK(Y), NEW x, SuffixOf(Y, x, v, m),
         NEW base, base = -x,
         NEW new, Grown(T, U, P, last, char, base, new), Kept(T, U, P),
         NEW value, U[new].data = value
  PROVE  Stored(T, Y, U, Y, v, value)
<1>0. /\ Word(v) /\ m \in Nat /\ m + 1 <= Len(v) /\ Path(T, v)[m] = last
      /\ char = v[m + 1] /\ char \notin T[last].kids
      /\ m + 2 <= Len(v) /\ x \in DOMAIN Y /\ Y[x] = SubSeq(v, m + 2, Len(v))
  BY DEF Missing, SuffixOf
<1>1. /\ Len(v) \in Nat /\ \A k \in 1..Len(v) : v[k] \in Nat /\ v[k] > END_OF_TEXT
  BY <1>0, WordFacts
<1>2. /\ m + 1 \in 1..(Len(v) - 1) /\ m + 1 \in 1..Len(v) /\ m \in 0..Len(v)
      /\ m # Len(v) /\ (m + 1) - 1 = m /\ (m + 1) + 1 = m + 2
  BY SMT, <1>0, <1>1
<1>3. char \in Nat /\ char >= END_OF_TEXT /\ char # END_OF_TEXT
  <2>1. char \in Nat /\ char > END_OF_TEXT
    BY <1>0, <1>1, <1>2
  <2> QED BY SMT, <2>1 DEF END_OF_TEXT
<1>4. -base = x
  <2>1. x \in Nat
    BY <1>0 DEF SuffixesOK
  <2> QED BY SMT, <2>1
<1> SUFFICES ASSUME NEW w, Word(w)
             PROVE  EndData(U, Y, w) = IF w = v THEN {value}
                                       ELSE EndData(T, Y, w)
  BY DEF Stored
<1> PICK isNew : isNew = NewEnd(T, Y, w, last, char, base)
  OBVIOUS
<1>5. EndsGrow(T, U, P, new, Y, w, isNew)
  BY <1>0, <1>3, GrownEnds
<1>6. /\ isNew => EndData(U, Y, w) = EndData(T, Y, w) \union {U[new].data}
      /\ ~isNew => EndData(U, Y, w) = EndData(T, Y, w)
  <2>1. DataGrows(T, U, new, Y, w, isNew)
    BY <1>5, DataGrow
  <2> QED BY <2>1 DEF DataGrows
<1>7. CASE w = v
  <2>1. isNew
    BY <1>0, <1>2, <1>4, <1>7 DEF NewEnd
  <2>2. Ends(T, Y, v) = {}
    BY <1>0, <1>2, NoEnd
  <2>3. EndData(T, Y, w) = {}
    BY <1>7, <2>2 DEF EndData
  <2> QED BY <1>6, <1>7, <2>1, <2>3
<1>8. CASE w # v
  <2>1. ~isNew
    <3> SUFFICES ASSUME isNew PROVE FALSE
      OBVIOUS
    <3>1. PICK k \in 1..(Len(w) - 1) :
            /\ Path(T, w)[k - 1] = last /\ w[k] = char
            /\ Y[x] = SubSeq(w, k + 1, Len(w))
      BY <1>3, <1>4 DEF NewEnd
    <3>2. Len(w) \in Nat
      BY WordFacts
    <3>3. k - 1 \in 0..Len(w) /\ k \in 1..Len(w) /\ k <= Len(w)
      BY SMT, <3>2
    <3>4. last # 0
      BY CellFields
    <3>5. m = k - 1 /\ \A j \in 1..m : v[j] = w[j]
      BY <1>0, <1>2, <3>1, <3>3, <3>4, PathOne
    <3>6. k = m + 1
      BY SMT, <3>5
    <3>7. \A j \in 1..(m + 1) : v[j] = w[j]
      <4> SUFFICES ASSUME NEW j \in 1..(m + 1) PROVE v[j] = w[j]
        OBVIOUS
      <4>1. j \in 1..m \/ j = m + 1
        BY <1>0
      <4> QED BY <1>0, <3>1, <3>5, <3>6, <4>1
    <3>8. SubSeq(v, (m + 1) + 1, Len(v)) = SubSeq(w, (m + 1) + 1, Len(w))
      BY <1>0, <1>2, <3>1, <3>6
    <3>9. m + 1 \in Nat /\ m + 1 <= Len(v) /\ m + 1 <= Len(w)
      BY <1>1, <1>2, <3>3, <3>6
    <3> QED BY <1>0, <1>8, <3>7, <3>8, <3>9, SameWord
  <2> QED BY <1>6, <1>8, <2>1
<1> QED BY <1>7, <1>8

\* trie_storeCharacter and the data of the node.
LEMMA StoreData ==
  ASSUME NEW T, Tree(T), NEW last \in DOMAIN T, T[last].base > 0,
         NEW char \in Nat, char >= END_OF_TEXT, char \notin T[last].kids,
         NEW base \in Int, base # 0, char = END_OF_TEXT => base > 0,
         NEW value \in Data,
         NEW r, r = StoreCharacter(T, last, base, char),
         NEW U, U = SetData(r.cells, r.state, value)
  PROVE  \E P : /\ Grown(T, U, P, last, char, base, r.state)
                /\ Kept(T, U, P) /\ U[r.state].data = value
<1> PICK W : W = r.cells
  OBVIOUS
<1> PICK new : new = r.state
  OBVIOUS
<1>1. PICK P : Grown(T, W, P, last, char, base, new) /\ Kept(T, W, P)
  BY StoreGrown
<1>2. Tree(W) /\ new \in DOMAIN W
      /\ \A i \in DOMAIN T : P[i] \in DOMAIN W /\ P[i] # new
  BY <1>1 DEF Grown
<1>3. U = [W EXCEPT ![new].data = value]
  BY Zenon DEF SetData
<1>4. SameShape(W, U)
  BY <1>2, <1>3, SetDataShape DEF SetData
<1>5. Grown(T, U, P, last, char, base, new)
  BY <1>1, <1>4, SameGrown
<1>6. W \in [DOMAIN W -> Cell]
  BY <1>2 DEF Tree
<1>7. /\ U[new] = [W[new] EXCEPT !.data = value]
      /\ \A j \in DOMAIN W : j # new => U[j] = W[j]
  BY Zenon, <1>2, <1>3, <1>6
<1>8. U[new].data = value
  <2>1. \A c \in Cell : [c EXCEPT !.data = value].data = value
    BY DEF Cell
  <2> QED BY <1>2, <1>6, <1>7, <2>1
<1>9. Kept(T, U, P)
  BY <1>1, <1>2, <1>7 DEF Kept
<1> QED BY <1>5, <1>8, <1>9

-----------------------------------------------------------------------------
(* Ways that stay *)

\* U has the children that T has.
SameKids(T, U) ==
  /\ DOMAIN U = DOMAIN T
  /\ \A i \in DOMAIN T : /\ U[i].kids = T[i].kids
                         /\ T[i].kids # {} => U[i].base = T[i].base

\* All words lead where they led.
SameWays(T, U) ==
  \A w : Word(w) =>
    /\ \A k \in 0..Len(w) : Path(U, w)[k] = Path(T, w)[k]
    /\ TextEnd(U, w) = TextEnd(T, w)

\* The children tell the ways.
LEMMA SamePaths ==
  ASSUME NEW T, Tree(T), NEW U, Tree(U), SameKids(T, U)
  PROVE  SameWays(T, U)
<1>1. ASSUME NEW s, s = 0 \/ s \in DOMAIN T, NEW c \in Nat
      PROVE  Child(U, s, c) = Child(T, s, c)
  <2>1. CASE s = 0
    BY <2>1, ChildOfNone
  <2>2. CASE s \in DOMAIN T /\ c \in T[s].kids
    <3>1. s \in DOMAIN U /\ c \in U[s].kids /\ U[s].base = T[s].base
      BY <2>2 DEF SameKids
    <3>2. Child(T, s, c) = T[s].base + c
      BY <2>2, ChildIs
    <3>3. Child(U, s, c) = U[s].base + c
      BY <3>1, ChildIs
    <3> QED BY <3>1, <3>2, <3>3
  <2>3. CASE s \in DOMAIN T /\ c \notin T[s].kids
    <3>1. s \in DOMAIN U /\ c \notin U[s].kids
      BY <2>3 DEF SameKids
    <3>2. Child(T, s, c) = 0
      BY <2>3, ChildIs
    <3>3. Child(U, s, c) = 0
      BY <3>1, ChildIs
    <3> QED BY <3>2, <3>3
  <2> QED BY <1>1, <2>1, <2>2, <2>3
<1> SUFFICES ASSUME NEW w, Word(w)
             PROVE  /\ \A k \in 0..Len(w) : Path(U, w)[k] = Path(T, w)[k]
                    /\ TextEnd(U, w) = TextEnd(T, w)
  BY DEF SameWays
<1>2. Len(w) \in Nat /\ \A k \in 1..Len(w) : w[k] \in Nat
  BY WordFacts
<1>3. /\ \A k \in 0..Len(w) : Path(T, w)[k] = 0 \/ Path(T, w)[k] \in DOMAIN T
  BY PathCells
<1>4. /\ Path(T, w)[0] = Root
      /\ \A k \in 1..Len(w) :
           Path(T, w)[k] = Child(T, Path(T, w)[k - 1], w[k])
  BY <1>2, PathSteps
<1>5. /\ Path(U, w)[0] = Root
      /\ \A k \in 1..Len(w) :
           Path(U, w)[k] = Child(U, Path(U, w)[k - 1], w[k])
  BY <1>2, PathSteps
<1> PICK p : p = Path(T, w)
  OBVIOUS
<1> PICK u : u = Path(U, w)
  OBVIOUS
<1> DEFINE S == {k \in Nat : k <= Len(w) => u[k] = p[k]}
<1>6. 0 \in S
  BY <1>4, <1>5
<1>7. ASSUME NEW k \in Nat, k \in S PROVE k + 1 \in S
  <2> SUFFICES ASSUME k + 1 <= Len(w) PROVE u[k + 1] = p[k + 1]
    OBVIOUS
  <2>1. k + 1 \in 1..Len(w) /\ k + 1 - 1 = k /\ k <= Len(w) /\ k \in 0..Len(w)
    BY SMT, <1>2
  <2>2. u[k] = p[k] /\ (p[k] = 0 \/ p[k] \in DOMAIN T) /\ w[k + 1] \in Nat
    BY <1>2, <1>3, <1>7, <2>1
  <2>3. u[k + 1] = Child(U, u[k], w[k + 1]) /\ p[k + 1] = Child(T, p[k], w[k + 1])
    BY <1>4, <1>5, <2>1
  <2> QED BY <1>1, <2>2, <2>3
<1> HIDE DEF S
<1>8. \A k \in Nat : k \in S
  BY <1>6, <1>7, Upward
<1>9. \A k \in 0..Len(w) : u[k] = p[k]
  BY <1>8 DEF S
<1>10. TextEnd(U, w) = TextEnd(T, w)
  <2>1. Len(w) \in 0..Len(w) /\ END_OF_TEXT \in Nat
    BY <1>2 DEF END_OF_TEXT
  <2>2. u[Len(w)] = p[Len(w)] /\ (p[Len(w)] = 0 \/ p[Len(w)] \in DOMAIN T)
    BY <1>3, <1>9, <2>1
  <2> QED BY <1>1, <2>1, <2>2 DEF TextEnd
<1> QED BY <1>9, <1>10

\* The ends of words do not depend on the data.
LEMMA SameEnds ==
  ASSUME NEW T, Tree(T), NEW U, SameShape(T, U),
         NEW X, SuffixesOK(X), NEW w, Word(w)
  PROVE  Ends(U, X, w) = Ends(T, X, w)
<1>1. Tree(U)
  BY SameTree
<1>2. DOMAIN U = DOMAIN T
      /\ \A i \in DOMAIN T : U[i].base = T[i].base /\ U[i].kids = T[i].kids
  BY DEF SameShape
<1>3. SameWays(T, U)
  <2>1. SameKids(T, U)
    BY <1>2 DEF SameKids
  <2> QED BY <1>1, <2>1, SamePaths
<1>4. /\ \A k \in 0..Len(w) : Path(U, w)[k] = Path(T, w)[k]
      /\ TextEnd(U, w) = TextEnd(T, w)
  BY <1>3 DEF SameWays
<1>5. ASSUME NEW k, LeafEnd(T, X, w, k)
      PROVE  LeafEnd(U, X, w, k) /\ Path(U, w)[k] = Path(T, w)[k]
  <2>1. k \in 0..Len(w) /\ Path(T, w)[k] \in DOMAIN T
    BY <1>5, LeafFacts
  <2> QED BY <1>2, <1>4, <1>5, <2>1 DEF LeafEnd
<1>6. ASSUME NEW k, LeafEnd(U, X, w, k)
      PROVE  LeafEnd(T, X, w, k) /\ Path(U, w)[k] = Path(T, w)[k]
  <2>1. k \in 0..Len(w) /\ Path(U, w)[k] \in DOMAIN U
    BY <1>1, <1>6, LeafFacts
  <2> QED BY <1>2, <1>4, <1>6, <2>1 DEF LeafEnd
<1>7. \A e : e \in Ends(T, X, w) <=>
               \/ e # 0 /\ e = TextEnd(T, w)
               \/ \E k : LeafEnd(T, X, w, k) /\ e = Path(T, w)[k]
  BY EndsAre
<1>8. \A e : e \in Ends(U, X, w) <=>
               \/ e # 0 /\ e = TextEnd(U, w)
               \/ \E k : LeafEnd(U, X, w, k) /\ e = Path(U, w)[k]
  BY EndsAre
<1>9. ASSUME NEW e \in Ends(T, X, w) PROVE e \in Ends(U, X, w)
  BY <1>4, <1>5, <1>7, <1>8
<1>10. ASSUME NEW e \in Ends(U, X, w) PROVE e \in Ends(T, X, w)
  BY <1>4, <1>6, <1>7, <1>8
<1> QED BY <1>9, <1>10

\* An end of text ends one word only.
LEMMA TextEndOfOne ==
  ASSUME NEW T, Tree(T), NEW X, SuffixesOK(X), NEW v, Word(v),
         NEW w, Word(w), TextEnd(T, v) # 0, TextEnd(T, v) \in Ends(T, X, w)
  PROVE  v = w
<1> PICK e : e = TextEnd(T, v)
  OBVIOUS
<1>1. Len(v) \in Nat /\ Len(w) \in Nat
      /\ v \in Seq(Nat) /\ w \in Seq(Nat)
  BY WordFacts DEF Word
<1>2. /\ Path(T, v)[Len(v)] \in DOMAIN T /\ e \in DOMAIN T
      /\ T[e].check = Path(T, v)[Len(v)]
      /\ e - T[Path(T, v)[Len(v)]].base = END_OF_TEXT
  BY TextFacts
<1>3. T[e].base > 0
  <2> PICK s : s = Path(T, v)[Len(v)]
    OBVIOUS
  <2>1. END_OF_TEXT \in Nat
    BY DEF END_OF_TEXT
  <2>2. END_OF_TEXT \in T[s].kids
    <3>1. Child(T, s, END_OF_TEXT) = e
      BY DEF TextEnd
    <3> QED BY <1>2, <2>1, <3>1, ChildIs
  <2>3. e = T[s].base + END_OF_TEXT
    BY <1>2, <2>1, <2>2, ChildIs DEF TextEnd
  <2> QED BY <1>2, <2>2, <2>3 DEF Tree
<1>4. \/ e # 0 /\ e = TextEnd(T, w)
      \/ \E k : LeafEnd(T, X, w, k) /\ e = Path(T, w)[k]
  BY EndsAre
<1>5. CASE e = TextEnd(T, w)
  <2>1. /\ Path(T, w)[Len(w)] \in DOMAIN T
        /\ T[e].check = Path(T, w)[Len(w)]
    BY <1>5, TextFacts
  <2>2. Path(T, v)[Len(v)] = Path(T, w)[Len(w)] /\ Path(T, v)[Len(v)] # 0
    BY <1>2, <2>1, CellFields
  <2>3. Len(v) \in 0..Len(v) /\ Len(w) \in 0..Len(w)
    BY <1>1
  <2>4. Len(v) = Len(w) /\ \A j \in 1..Len(v) : v[j] = w[j]
    BY <2>2, <2>3, PathOne
  <2> QED BY <1>1, <2>4, SeqEqual
<1>6. ASSUME NEW k, LeafEnd(T, X, w, k), e = Path(T, w)[k] PROVE FALSE
  <2>1. T[e].base < 0 /\ T[e].base \in Int
    BY <1>2, <1>6, LeafFacts, CellFields
  <2> QED BY SMT, <1>3, <2>1
<1> QED BY <1>4, <1>5, <1>6

-----------------------------------------------------------------------------
(* What the calls do to the data *)

\* trie_insertEndOfText behind the last cell of v stores its data, and leaves
\* those of other words alone.
LEMMA TextData ==
  ASSUME NEW T, Tree(T), NEW last \in DOMAIN T, T[last].base > 0,
         NEW v, Word(v), Path(T, v)[Len(v)] = last,
         options.useUserData, NEW value \in Data,
         NEW U, U = InsertEndOfText(T, last, value),
         NEW Y, SuffixesOK(Y)
  PROVE  Stored(T, Y, U, Y, v, value)
<1> PICK r : r = StoreCharacter(T, last, T[last].base, END_OF_TEXT)
  OBVIOUS
<1>1. U = SetData(r.cells, r.state, value)
  BY Zenon DEF InsertEndOfText
<1>2. T[last].base \in Int /\ T[last].base # 0
      /\ END_OF_TEXT \in Nat /\ END_OF_TEXT >= END_OF_TEXT
  BY CellFields DEF END_OF_TEXT
<1>3. /\ Len(v) \in Nat /\ Len(v) \in 0..Len(v) /\ v \in Seq(Nat)
      /\ last # 0
  BY WordFacts, CellFields DEF Word
<1> SUFFICES ASSUME NEW w, Word(w)
             PROVE  EndData(U, Y, w) = IF w = v THEN {value}
                                       ELSE EndData(T, Y, w)
  BY DEF Stored
<1>4. CASE END_OF_TEXT \notin T[last].kids
  <2> PICK new : new = r.state
    OBVIOUS
  <2>1. PICK P : /\ Grown(T, U, P, last, END_OF_TEXT, T[last].base, new)
                 /\ Kept(T, U, P) /\ U[new].data = value
    BY <1>1, <1>2, <1>4, StoreData
  <2> PICK isNew :
        isNew = NewEnd(T, Y, w, last, END_OF_TEXT, T[last].base)
    OBVIOUS
  <2>2. EndsGrow(T, U, P, new, Y, w, isNew)
    BY <1>2, <1>4, <2>1, GrownEnds
  <2>3. DataGrows(T, U, new, Y, w, isNew)
    BY <2>1, <2>2, DataGrow
  <2>4. CASE w = v
    <3>1. isNew
      BY <2>4 DEF NewEnd
    <3>2. Ends(T, Y, v) = {}
      BY <1>3, <1>4, NoEnd
    <3> QED BY <2>1, <2>3, <2>4, <3>1, <3>2 DEF DataGrows, EndData
  <2>5. CASE w # v
    <3>1. ~isNew
      <4> SUFFICES ASSUME isNew PROVE FALSE
        OBVIOUS
      <4>1. \A k \in 1..Len(w) : w[k] \in Nat /\ w[k] > END_OF_TEXT
            /\ Len(w) \in Nat /\ w \in Seq(Nat)
        BY WordFacts DEF Word
      <4>2. ASSUME NEW k \in 1..(Len(w) - 1), w[k] = END_OF_TEXT PROVE FALSE
        <5>1. Len(w) \in Nat
          BY WordFacts
        <5>2. k \in 1..Len(w)
          BY <5>1
        <5>3. END_OF_TEXT > END_OF_TEXT
          BY <4>1, <4>2, <5>2
        <5> QED BY SMT, <1>2, <5>3
      <4>3. Path(T, w)[Len(w)] = last
        BY <4>2 DEF NewEnd
      <4>4. Len(w) \in Nat /\ Len(w) \in 0..Len(w) /\ w \in Seq(Nat)
        BY WordFacts DEF Word
      <4>5. Len(v) = Len(w) /\ \A j \in 1..Len(v) : v[j] = w[j]
        BY <1>3, <4>3, <4>4, PathOne
      <4>6. v = w
        BY <1>3, <4>4, <4>5, SeqEqual
      <4> QED BY <2>5, <4>6
    <3> QED BY <2>3, <2>5, <3>1 DEF DataGrows
  <2> QED BY <2>4, <2>5
<1>5. CASE END_OF_TEXT \in T[last].kids
  <2> PICK e : e = T[last].base + END_OF_TEXT
    OBVIOUS
  <2>1. T[e].base > 0
    BY <1>5 DEF Tree
  <2>2. r.cells = T /\ r.state = e /\ e \in DOMAIN T
    BY <1>5, <2>1, StoreThere
  <2>3. SameShape(T, U)
    BY <1>1, <2>2, SetDataShape
  <2>4. Ends(U, Y, w) = Ends(T, Y, w)
    BY <2>3, SameEnds
  <2>5. TextEnd(T, v) = e /\ e # 0
    <3>1. Child(T, last, END_OF_TEXT) = e
      BY <1>2, <1>5, ChildIs
    <3>2. e # 0
      BY <2>2, CellFields
    <3> QED BY <3>1, <3>2 DEF TextEnd
  <2>6. /\ U[e].data = value
        /\ \A i \in DOMAIN T : i # e => U[i] = T[i]
    <3>1. U = [T EXCEPT ![e].data = value] /\ T \in [DOMAIN T -> Cell]
      BY <1>1, <2>2 DEF SetData, Tree
    <3>2. /\ U[e] = [T[e] EXCEPT !.data = value]
          /\ \A j \in DOMAIN T : j # e => U[j] = T[j]
      BY Zenon, <2>2, <3>1
    <3>3. \A c \in Cell : [c EXCEPT !.data = value].data = value
      BY DEF Cell
    <3>4. T[e] \in Cell
      BY <2>2, <3>1
    <3> QED BY Zenon, <3>2, <3>3, <3>4
  <2>7. CASE w = v
    <3>1. e \in Ends(T, Y, v)
      <4>1. \A f : f \in Ends(T, Y, v) <=>
                     \/ f # 0 /\ f = TextEnd(T, v)
                     \/ \E k : LeafEnd(T, Y, v, k) /\ f = Path(T, v)[k]
        BY EndsAre
      <4> QED BY <2>5, <4>1
    <3>2. \A f \in Ends(T, Y, v) : f = e
      BY <3>1, OneEnd
    <3>3. Ends(U, Y, w) = {e}
      BY <2>4, <2>7, <3>1, <3>2
    <3> QED BY <2>6, <2>7, <3>3 DEF EndData
  <2>8. CASE w # v
    <3>1. \A f \in Ends(T, Y, w) : f # e
      BY <2>5, <2>8, TextEndOfOne
    <3>2. \A f \in Ends(T, Y, w) : f \in DOMAIN T
      BY EndsCells
    <3>3. \A f \in Ends(T, Y, w) : U[f] = T[f]
      BY <2>6, <3>1, <3>2
    <3> QED BY <2>4, <2>8, <3>3 DEF EndData
  <2> QED BY <2>7, <2>8
<1> QED BY <1>4, <1>5

\* A suffix that no leaf has plays no part.
LEMMA SuffixData ==
  ASSUME NEW T, Tree(T), NEW X, SuffixesOK(X), NEW Y, SuffixesOK(Y),
         NEW L, L \subseteq DOMAIN X, L \subseteq DOMAIN Y, Linked(T, L),
         \A x \in L : X[x] = Y[x]
  PROVE  AsBefore(T, X, T, Y)
<1> SUFFICES ASSUME NEW w, Word(w)
             PROVE  EndData(T, Y, w) = EndData(T, X, w)
  BY DEF AsBefore
<1>1. \A i \in DOMAIN T : T[i].base < 0 =>
        /\ -T[i].base \in DOMAIN X <=> -T[i].base \in DOMAIN Y
        /\ -T[i].base \in DOMAIN X => X[-T[i].base] = Y[-T[i].base]
  BY DEF Linked
<1>2. Ends(T, X, w) = Ends(T, Y, w)
  BY <1>1, EndsOfLeaves
<1> QED BY <1>2 DEF EndData

\* d consists of the first b characters of v and of s.
Joined(d, v, b, s) ==
  /\ Word(d) /\ Word(s) /\ b \in Nat /\ b <= Len(v) /\ Len(d) = b + Len(s)
  /\ \A k \in 1..b : d[k] = v[k]
  /\ SubSeq(d, b + 1, Len(d)) = s

\* U is T with a node in place of the leaf n.
NoLeaf(T, U, n) ==
  /\ Tree(U) /\ DOMAIN U = DOMAIN T /\ U[n].base = 1 /\ U[n].kids = {}
  /\ U[n].data = T[n].data /\ \A i \in DOMAIN T : i # n => U[i] = T[i]

\* trie_collisionInTail turns a leaf into a node.
LEMMA LeafToNode ==
  ASSUME NEW T, Tree(T), NEW n \in DOMAIN T, T[n].base < 0,
         NEW X, SuffixesOK(X), Linked(T, DOMAIN X),
         NEW U, U = [T EXCEPT ![n].base = 1]
  PROVE  NoLeaf(T, U, n)
<1>1. Reset(T, U, n, DOMAIN X)
  BY LeafReset DEF SuffixesOK
<1>2. Tree(U) /\ DOMAIN U = DOMAIN T /\ U[n].base = 1 /\ U[n].kids = {}
  BY <1>1 DEF Reset
<1>3. T \in [DOMAIN T -> Cell] /\ T[n] \in Cell
  BY CellFields DEF Tree
<1>4. /\ \A i \in DOMAIN T : i # n => U[i] = T[i]
      /\ U[n] = [T[n] EXCEPT !.base = 1]
  BY Zenon, <1>3
<1>5. \A c \in Cell : [c EXCEPT !.base = 1].data = c.data
  BY DEF Cell
<1>6. U[n].data = T[n].data
  BY Zenon, <1>3, <1>4, <1>5
<1> QED BY <1>2, <1>4, <1>6 DEF NoLeaf

\* The word d that ended in n has no end any more; all others keep theirs.
Unfound(T, U, X, n, b, d) ==
  /\ EndData(T, X, d) = {T[n].data}
  /\ \A w : Word(w) =>
       EndData(U, X, w) = IF w = d THEN {} ELSE EndData(T, X, w)
  /\ Path(U, d)[b] = n

\* trie_collisionInTail, where it takes the suffix of the leaf n: the word d
\* that ended there has no end any more; all others keep theirs.
LEMMA ResetData ==
  ASSUME NEW T, Tree(T), NEW n \in DOMAIN T, T[n].base < 0,
         NEW U, NoLeaf(T, U, n),
         NEW X, SuffixesOK(X), Linked(T, DOMAIN X),
         NEW v, Word(v), NEW b \in 1..Len(v), Path(T, v)[b] = n,
         NEW x, x = -T[n].base, X[x] # << >>,
         NEW d, Joined(d, v, b, X[x])
  PROVE  Unfound(T, U, X, n, b, d)
<1> PICK s : s = X[x]
  OBVIOUS
<1>1. /\ Word(d) /\ Word(s) /\ b \in Nat /\ b <= Len(v)
      /\ Len(d) = b + Len(s)
      /\ \A k \in 1..b : d[k] = v[k]
      /\ SubSeq(d, b + 1, Len(d)) = s
  BY DEF Joined
<1>2. /\ Len(v) \in Nat /\ Len(d) \in Nat /\ Len(s) \in Nat /\ Len(s) # 0
  <2>1. s \in Seq(Nat) /\ s # << >>
    BY <1>1 DEF Word
  <2> QED BY <1>1, <2>1, WordFacts, EmptySeq
<1>3. /\ b <= Len(d) /\ b \in 0..Len(d) /\ b \in 0..Len(v)
      /\ b \in 1..(Len(d) - 1) /\ b \in 0..b
  BY SMT, <1>1, <1>2
<1>4. Path(T, d)[b] = n
  <2>1. /\ b \in Nat /\ b <= Len(d) /\ b <= Len(v) /\ Word(d)
        /\ \A k \in 1..b : d[k] = v[k]
    BY <1>1, <1>3
  <2>2. \A k \in 0..b : Path(T, d)[k] = Path(T, v)[k]
    BY SMTT(30), <2>1, PathAgrees
  <2> QED BY <1>3, <2>2
<1>5. n # 0 /\ x \in DOMAIN X
  BY CellFields DEF Linked
<1>6. /\ Tree(U) /\ DOMAIN U = DOMAIN T /\ U[n].base = 1 /\ U[n].kids = {}
      /\ U[n].data = T[n].data
  BY DEF NoLeaf
<1>7. Tree(U) /\ DOMAIN U = DOMAIN T /\ U[n].base = 1 /\ U[n].kids = {}
  BY <1>6
<1>8. \A i \in DOMAIN T : i # n => U[i] = T[i]
  BY DEF NoLeaf
<1>9. U[n].data = T[n].data
  BY <1>6
<1>10. SameWays(T, U)
  <2>1. T[n].kids = {}
    BY DEF Tree
  <2>2. SameKids(T, U)
    BY <1>7, <1>8, <2>1 DEF SameKids
  <2> QED BY <1>7, <2>2, SamePaths
<1>11. LeafEnd(T, X, d, b)
  BY <1>1, <1>3, <1>4, <1>5 DEF LeafEnd
<1>12. \A w : Word(w) => \A e : e \in Ends(T, X, w) <=>
               \/ e # 0 /\ e = TextEnd(T, w)
               \/ \E k : LeafEnd(T, X, w, k) /\ e = Path(T, w)[k]
  BY EndsAre
<1>13. Ends(T, X, d) = {n}
  <2>1. n \in Ends(T, X, d)
    BY <1>1, <1>4, <1>11, <1>12
  <2>2. \A f \in Ends(T, X, d) : f = n
    BY <1>1, <2>1, OneEnd
  <2> QED BY <2>1, <2>2
<1>14. ASSUME NEW w, Word(w), n \in Ends(T, X, w) PROVE w = d
  <2>1. ASSUME n = TextEnd(T, w) PROVE FALSE
    <3> PICK l : l = Path(T, w)[Len(w)]
      OBVIOUS
    <3>1. /\ l \in DOMAIN T /\ n - T[l].base = END_OF_TEXT /\ T[n].check = l
          /\ Child(T, l, END_OF_TEXT) = n
      BY <1>5, <1>14, <2>1, TextFacts DEF TextEnd
    <3>2. END_OF_TEXT \in Nat
      BY DEF END_OF_TEXT
    <3>3. END_OF_TEXT \in T[l].kids /\ n = T[l].base + END_OF_TEXT
      BY <1>5, <3>1, <3>2, ChildIs
    <3>4. T[n].base > 0 /\ T[n].base \in Int
      BY <3>1, <3>3, CellFields DEF Tree
    <3> QED BY SMT, <3>4
  <2>2. PICK k : LeafEnd(T, X, w, k) /\ n = Path(T, w)[k]
    BY <1>12, <1>14, <2>1
  <2>3. k \in 0..Len(w) /\ Len(w) \in Nat /\ SubSeq(w, k + 1, Len(w)) = s
    BY <1>14, <2>2, LeafFacts, WordFacts DEF LeafEnd
  <2>a. Path(T, d)[b] = Path(T, w)[k] /\ Path(T, d)[b] # 0
    BY <1>4, <1>5, <2>2
  <2>b. Word(d) /\ Word(w) /\ b \in 0..Len(d) /\ k \in 0..Len(w)
    BY <1>1, <1>3, <1>14, <2>3
  <2>4. b = k /\ \A j \in 1..b : d[j] = w[j]
    BY <2>a, <2>b, PathOne
  <2>5. b <= Len(w)
    BY <2>3, <2>4
  <2> QED BY <1>1, <1>3, <1>14, <2>3, <2>4, <2>5, SameWord
<1>15. ASSUME NEW w, Word(w)
       PROVE  \A e : e \in Ends(U, X, w) <=> e # n /\ e \in Ends(T, X, w)
  <2>1. /\ \A k \in 0..Len(w) : Path(U, w)[k] = Path(T, w)[k]
        /\ TextEnd(U, w) = TextEnd(T, w)
    BY <1>10, <1>15 DEF SameWays
  <2>2. ASSUME NEW e, e # 0, e = TextEnd(T, w) PROVE e # n
    <3> SUFFICES ASSUME e = n PROVE FALSE
      OBVIOUS
    <3> PICK l : l = Path(T, w)[Len(w)]
      OBVIOUS
    <3>1. /\ l \in DOMAIN T /\ Child(T, l, END_OF_TEXT) = n
      BY <1>15, <2>2, TextFacts DEF TextEnd
    <3>2. END_OF_TEXT \in Nat
      BY DEF END_OF_TEXT
    <3>3. END_OF_TEXT \in T[l].kids /\ n = T[l].base + END_OF_TEXT
      BY <1>5, <3>1, <3>2, ChildIs
    <3>4. T[n].base > 0 /\ T[n].base \in Int
      BY <3>1, <3>3, CellFields DEF Tree
    <3> QED BY SMT, <3>4
  <2>3. ASSUME NEW k, LeafEnd(T, X, w, k), Path(T, w)[k] # n
        PROVE  LeafEnd(U, X, w, k) /\ Path(U, w)[k] = Path(T, w)[k]
    <3>1. k \in 0..Len(w) /\ Path(T, w)[k] \in DOMAIN T
      BY <1>15, <2>3, LeafFacts
    <3> QED BY <1>8, <2>1, <2>3, <3>1 DEF LeafEnd
  <2>4. ASSUME NEW k, LeafEnd(U, X, w, k)
        PROVE  /\ LeafEnd(T, X, w, k) /\ Path(U, w)[k] = Path(T, w)[k]
               /\ Path(U, w)[k] # n
    <3>1. /\ k \in 0..Len(w) /\ Path(U, w)[k] \in DOMAIN U
          /\ U[Path(U, w)[k]].base < 0
      BY <1>7, <1>15, <2>4, LeafFacts
    <3>2. Path(U, w)[k] # n
      BY <1>7, <3>1
    <3> QED BY <1>7, <1>8, <2>1, <2>4, <3>1, <3>2 DEF LeafEnd
  <2>5. \A e : e \in Ends(T, X, w) <=>
                 \/ e # 0 /\ e = TextEnd(T, w)
                 \/ \E k : LeafEnd(T, X, w, k) /\ e = Path(T, w)[k]
    BY <1>12, <1>15
  <2>6. \A e : e \in Ends(U, X, w) <=>
                 \/ e # 0 /\ e = TextEnd(U, w)
                 \/ \E k : LeafEnd(U, X, w, k) /\ e = Path(U, w)[k]
    BY EndsAre
  <2>7. ASSUME NEW e \in Ends(U, X, w) PROVE e # n /\ e \in Ends(T, X, w)
    <3>1. CASE e # 0 /\ e = TextEnd(U, w)
      BY <2>1, <2>2, <2>5, <3>1
    <3>2. ASSUME NEW k, LeafEnd(U, X, w, k), e = Path(U, w)[k]
          PROVE  e # n /\ e \in Ends(T, X, w)
      <4>1. LeafEnd(T, X, w, k) /\ e = Path(T, w)[k] /\ e # n
        BY <2>4, <3>2
      <4> QED BY <2>5, <4>1
    <3> QED BY <2>6, <3>1, <3>2
  <2>8. ASSUME NEW e \in Ends(T, X, w), e # n PROVE e \in Ends(U, X, w)
    <3>1. CASE e # 0 /\ e = TextEnd(T, w)
      BY <2>1, <2>6, <3>1
    <3>2. ASSUME NEW k, LeafEnd(T, X, w, k), e = Path(T, w)[k]
          PROVE  e \in Ends(U, X, w)
      <4>1. LeafEnd(U, X, w, k) /\ e = Path(U, w)[k]
        BY <2>3, <2>8, <3>2
      <4> QED BY <2>6, <4>1
    <3> QED BY <2>5, <3>1, <3>2
  <2> QED BY <2>7, <2>8
<1>16. ASSUME NEW w, Word(w), w # d PROVE EndData(U, X, w) = EndData(T, X, w)
  <2>1. n \notin Ends(T, X, w)
    BY <1>14, <1>16
  <2>2. Ends(U, X, w) = Ends(T, X, w)
    BY <1>15, <1>16, <2>1
  <2>3. \A e \in Ends(T, X, w) : e \in DOMAIN T /\ U[e] = T[e]
    BY <1>8, <1>16, <2>1, EndsCells
  <2> QED BY <2>2, <2>3 DEF EndData
<1>17. EndData(U, X, d) = {}
  BY <1>1, <1>13, <1>15 DEF EndData
<1>18. EndData(T, X, d) = {T[n].data}
  BY <1>13 DEF EndData
<1>19. Path(U, d)[b] = n
  BY <1>1, <1>3, <1>4, <1>10 DEF SameWays
<1> QED BY <1>16, <1>17, <1>18, <1>19 DEF Unfound

-----------------------------------------------------------------------------
(* What a branch does to the data *)

\* Where a word leads that goes on to the new node.
LEMMA PathNew ==
  ASSUME NEW T, Tree(T), NEW U, NEW P, NEW last \in DOMAIN T,
         NEW v, NEW m, NEW char, Missing(T, v, m, last, char),
         NEW base, NEW new, Grown(T, U, P, last, char, base, new)
  PROVE  Path(U, v)[m + 1] = new
<1>0. /\ Word(v) /\ m \in Nat /\ m + 1 <= Len(v) /\ Path(T, v)[m] = last
      /\ char = v[m + 1] /\ char \notin T[last].kids
  BY DEF Missing
<1>1. /\ Len(v) \in Nat
      /\ \A k \in 1..Len(v) : v[k] \in Nat /\ v[k] > END_OF_TEXT
  BY <1>0, WordFacts
<1> PICK n : n = m + 1
  OBVIOUS
<1>2. n \in 1..Len(v) /\ n \in 0..Len(v) /\ n - 1 = m /\ n > 0
  BY SMT, <1>0, <1>1
<1>3. char \in Nat /\ char > END_OF_TEXT
  BY <1>0, <1>1, <1>2
<1>4. WayGrows(T, U, P, last, char, new, v)
  BY <1>0, <1>3, GrownPath
<1>5. Path(T, v)[n] = 0
  <2>0. Path(T, v)[n] = Child(T, Path(T, v)[n - 1], v[n])
    BY <1>1, <1>2, PathSteps
  <2>1. Path(T, v)[n] = Child(T, last, char)
    BY <1>0, <1>2, <2>0
  <2> QED BY <1>0, <1>3, <2>1, ChildIs
<1>6. Path(U, v)[n] = IF n > 0 /\ Path(T, v)[n - 1] = last /\ v[n] = char
                      THEN new ELSE 0
  BY <1>0, <1>2, <1>4, <1>5 DEF WayGrows
<1> QED BY <1>0, <1>2, <1>6

\* A branch of rest has grown cells into V by the node new; if that is all of
\* rest, an end of text follows.
Branching(rest, value, r, V, P, new) ==
  /\ Grown(cells, V, P, state, Head(rest), TailBase(rest), new)
  /\ Kept(cells, V, P) /\ V[new].data = value
  /\ r.cells = IF Len(rest) = 1 THEN InsertEndOfText(V, new, value) ELSE V
  /\ r.state = P[state]
  /\ TailBase(rest) \in Int /\ TailBase(rest) # 0
  /\ Len(rest) = 1 => TailBase(rest) = 1
  /\ Len(rest) # 1 => Len(rest) > 1 /\ TailBase(rest) = -FreeTail

\* Each branch that is not empty is one of these.
LEMMA BranchParts ==
  ASSUME Tree(cells), state \in DOMAIN cells, cells[state].base > 0,
         SuffixesOK(tail),
         NEW rest \in Seq(Nat), rest # << >>,
         Head(rest) \in Nat, Head(rest) > END_OF_TEXT,
         Head(rest) \notin cells[state].kids,
         NEW value \in Data, NEW r, r = Branch(rest, value)
  PROVE  \E V, P, new : Branching(rest, value, r, V, P, new)
<1>1. FreeTail \in Nat /\ FreeTail > 0
  BY FreeTailIsFree
<1> PICK free : free = FreeTail
  OBVIOUS
<1> PICK base : base = TailBase(rest)
  OBVIOUS
<1> PICK char : char = Head(rest)
  OBVIOUS
<1>2. Len(rest) \in Nat /\ Len(rest) # 0
  BY LenProperties, EmptySeq
<1>3. /\ base \in Int /\ base # 0
      /\ Len(rest) = 1 => base = 1
      /\ Len(rest) # 1 => Len(rest) > 1 /\ base = -free
  <2>a. \A n \in Nat : /\ n # 0 /\ ~(n > 1) => n = 1
                       /\ n > 1 => n # 1
                       /\ n > 0 => -n \in Int /\ -n # 0
    OBVIOUS
  <2>1. CASE Len(rest) > 1
    <3>1. base = -free
      BY Zenon, <2>1 DEF TailBase
    <3>2. Len(rest) # 1 /\ -free \in Int /\ -free # 0
      BY Zenon, <1>1, <1>2, <2>a, <2>1
    <3> QED BY Zenon, <2>1, <3>1, <3>2
  <2>2. CASE ~(Len(rest) > 1)
    <3>1. base = 1
      BY Zenon, <2>2 DEF TailBase
    <3>2. Len(rest) = 1
      BY Zenon, <1>2, <2>a, <2>2
    <3> QED BY <3>1, <3>2
  <2> QED BY <2>1, <2>2
<1>4. char >= END_OF_TEXT /\ char # END_OF_TEXT
  BY SMT DEF END_OF_TEXT
<1> PICK q : q = StoreCharacter(cells, state, base, char)
  OBVIOUS
<1> PICK new : new = q.state
  OBVIOUS
<1> PICK V : V = SetData(q.cells, q.state, value)
  OBVIOUS
<1>5. PICK P : /\ Grown(cells, V, P, state, char, base, new)
               /\ Kept(cells, V, P) /\ V[new].data = value
  <2>1. \E P : /\ Grown(cells, V, P, state, char, base, q.state)
               /\ Kept(cells, V, P) /\ V[q.state].data = value
    BY <1>3, <1>4, StoreData
  <2> QED BY <2>1
<1>6. r = [cells |-> IF Len(rest) = 1
                     THEN InsertEndOfText(V, q.state, value) ELSE V,
           state |-> V[q.state].check]
  <2>1. q = StoreCharacter(cells, state, TailBase(rest), Head(rest))
        /\ V = SetData(q.cells, q.state, value)
    BY Zenon
  <2> QED BY Zenon, <2>1 DEF Branch
<1>7. V[new].check = P[state]
  BY <1>5 DEF Grown
<1>8. /\ r.cells = IF Len(rest) = 1 THEN InsertEndOfText(V, new, value) ELSE V
      /\ r.state = P[state]
  BY <1>6, <1>7
<1> QED BY <1>3, <1>5, <1>8 DEF Branching

\* rest is the rest of v behind its first m characters.
RestIs(rest, v, m) ==
  /\ rest \in Seq(Nat) /\ Len(rest) = Len(v) - m /\ Len(rest) \in Nat
  /\ \A k \in DOMAIN rest : rest[k] > END_OF_TEXT
  /\ m = Len(v) <=> rest = << >>
  /\ m # Len(v) => /\ m + 1 <= Len(v) /\ Head(rest) = v[m + 1]
                   /\ Head(rest) \in Nat /\ Head(rest) > END_OF_TEXT
  /\ Len(rest) > 1 => /\ m + 2 <= Len(v)
                      /\ Tail(rest) = SubSeq(v, m + 2, Len(v))

\* The rest of a word from a character on.
LEMMA RestFacts ==
  ASSUME NEW v, Word(v), NEW m \in 0..Len(v),
         NEW rest, rest = SubSeq(v, m + 1, Len(v))
  PROVE  RestIs(rest, v, m)
<1>1. /\ Len(v) \in Nat /\ v \in Seq(Nat)
      /\ \A k \in DOMAIN v : v[k] > END_OF_TEXT
      /\ \A k \in 1..Len(v) : v[k] \in Nat /\ v[k] > END_OF_TEXT
  BY WordFacts DEF Word
<1> PICK n : n = m + 1
  OBVIOUS
<1>2. n \in 1..(Len(v) + 1) /\ m \in Nat /\ n = m + 1
  BY <1>1
<1>3. /\ rest \in Seq(Nat) /\ Len(rest) = Len(v) - n + 1
      /\ \A k \in 1..Len(rest) : rest[k] = v[n + k - 1]
      /\ \A k \in DOMAIN rest : rest[k] > END_OF_TEXT
      /\ Len(rest) > 0 => Head(rest) = v[n]
  BY SMTT(30), <1>1, <1>2, RestOf
<1>4. /\ Len(rest) = Len(v) - m /\ Len(rest) \in Nat
      /\ m # Len(v) => Len(rest) > 0 /\ n \in 1..Len(v) /\ n <= Len(v)
      /\ m = Len(v) <=> Len(rest) = 0
      /\ Len(rest) > 1 => /\ Len(rest) > 0 /\ Len(rest) # 0
                          /\ m + 2 <= Len(v)
  BY SMT, <1>1, <1>2, <1>3
<1>5. m = Len(v) <=> rest = << >>
  BY <1>3, <1>4, EmptySeq
<1>6. ASSUME Len(rest) > 1 PROVE Tail(rest) = SubSeq(v, m + 2, Len(v))
  <2>1. rest # << >>
    BY Zenon, <1>4, <1>5, <1>6
  <2> PICK s : s = Tail(rest)
    OBVIOUS
  <2>2. /\ s \in Seq(Nat) /\ Len(s) = Len(rest) - 1
        /\ \A i \in 1..Len(s) : s[i] = rest[i + 1]
    BY <1>3, <2>1, HeadTailProperties
  <2> PICK h : h = n + 1
    OBVIOUS
  <2> PICK q : q = SubSeq(v, h, Len(v))
    OBVIOUS
  <2>3. m # Len(v)
    BY <1>4, <1>6
  <2>4. h \in 1..(Len(v) + 1) /\ h = m + 2
    BY <1>1, <1>2, <1>4, <2>3
  <2>5. /\ q \in Seq(Nat) /\ Len(q) = Len(v) - h + 1
        /\ \A k \in 1..Len(q) : q[k] = v[h + k - 1]
    BY SMTT(30), <1>1, <2>4, RestOf
  <2> PICK l : l = Len(v)
    OBVIOUS
  <2>6. l \in Nat /\ Len(rest) = l - m /\ Len(q) = l - h + 1
    BY <1>1, <1>4, <2>5
  <2>7. Len(q) = Len(s)
    BY SMT, <1>2, <2>2, <2>4, <2>6
  <2>8. ASSUME NEW i \in 1..Len(s) PROVE s[i] = q[i]
    <3>1. s[i] = rest[i + 1] /\ q[i] = v[h + i - 1]
      BY <2>2, <2>5, <2>7
    <3>2. i + 1 \in 1..Len(rest) /\ n + (i + 1) - 1 = h + i - 1
      BY SMT, <1>2, <1>4, <2>2, <2>4
    <3> QED BY <1>3, <3>1, <3>2
  <2>9. s = q
    BY <2>2, <2>5, <2>7, <2>8, SeqEqual
  <2> QED BY <2>4, <2>9
<1> QED BY <1>1, <1>3, <1>4, <1>5, <1>6 DEF RestIs

\* An end of text below a node with the base 1 leaves the way to an inner cell.
LEMMA EndLeavesWay ==
  ASSUME NEW T, Tree(T), NEW last \in DOMAIN T,
         T[last].base = 1, T[last].kids = {},
         NEW value \in Data,
         NEW U, U = InsertEndOfText(T, last, value),
         NEW s \in DOMAIN T, Inner(T, s),
         NEW z, Word(z), NEW m \in 0..Len(z), Path(T, z)[m] = s
  PROVE  Path(U, z)[m] = s
<1>0. T[last].base > 0 /\ s # 0 /\ END_OF_TEXT \in Nat
  BY CellFields DEF END_OF_TEXT
<1>1. CASE SameShape(T, U)
  <2>1. Tree(U)
    BY <1>1, SameTree
  <2>2. SameKids(T, U)
    BY <1>1 DEF SameShape, SameKids
  <2>3. SameWays(T, U)
    BY <2>1, <2>2, SamePaths
  <2> QED BY <2>3 DEF SameWays
<1>2. ASSUME NEW P, NEW new,
             Grown(T, U, P, last, END_OF_TEXT, T[last].base, new)
      PROVE  Path(U, z)[m] = s
  <2>1. s # T[last].base + END_OF_TEXT
    BY InnerCell
  <2>2. P[s] = s
    BY <1>2, <2>1 DEF Grown
  <2>3. Path(U, z)[m] = P[Path(T, z)[m]]
    <3>1. WayGrows(T, U, P, last, END_OF_TEXT, new, z)
      BY <1>0, <1>2, GrownPath
    <3> QED BY <1>0, <3>1 DEF WayGrows
  <2> QED BY <2>2, <2>3
<1>3. \/ SameShape(T, U)
      \/ \E P, new : Grown(T, U, P, last, END_OF_TEXT, T[last].base, new)
  BY <1>0, EndGrown
<1> QED BY <1>1, <1>2, <1>3

\* The state that a branch returns is where its word led before.
LEMMA BranchState ==
  ASSUME Tree(cells), state \in DOMAIN cells, SuffixesOK(tail),
         cells[state].kids = {}, cells[state].base = 1, Inner(cells, state),
         NEW rest \in Seq(Nat),
         rest # << >> => Head(rest) \in Nat /\ Head(rest) > END_OF_TEXT,
         NEW value \in Data, NEW r, r = Branch(rest, value),
         NEW z, Word(z), NEW m \in 0..Len(z), Path(cells, z)[m] = state
  PROVE  Path(r.cells, z)[m] = r.state
<1>1. CASE rest = << >>
  <2>1. r = [cells |-> InsertEndOfText(cells, state, value), state |-> state]
    BY Zenon, <1>1 DEF Branch
  <2> PICK U : U = InsertEndOfText(cells, state, value)
    OBVIOUS
  <2>2. Path(U, z)[m] = state
    BY EndLeavesWay
  <2>3. r.cells = U /\ r.state = state
    BY <2>1
  <2> QED BY <2>2, <2>3
<1>2. CASE rest # << >>
  <2>0. cells[state].base > 0 /\ state # 0 /\ Head(rest) \notin cells[state].kids
    BY CellFields
  <2>1. PICK V, P, new : Branching(rest, value, r, V, P, new)
    BY <1>2, <2>0, BranchParts
  <2> PICK s : s = P[state]
    OBVIOUS
  <2>2. /\ Grown(cells, V, P, state, Head(rest), TailBase(rest), new)
        /\ r.cells = IF Len(rest) = 1 THEN InsertEndOfText(V, new, value) ELSE V
        /\ r.state = s
        /\ Len(rest) = 1 => TailBase(rest) = 1
    BY <2>1 DEF Branching
  <2>3. Path(V, z)[m] = s
    <3>1. WayGrows(cells, V, P, state, Head(rest), new, z)
      BY <1>2, <2>2, GrownPath
    <3> QED BY <2>0, <3>1 DEF WayGrows
  <2>4. CASE Len(rest) = 1
    <3>1. /\ Tree(V) /\ new \in DOMAIN V /\ V[new].base = 1 /\ V[new].kids = {}
          /\ s \in DOMAIN V /\ Inner(V, s)
      BY <2>2, <2>4 DEF Grown
    <3> PICK U : U = InsertEndOfText(V, new, value)
      OBVIOUS
    <3>2. Path(U, z)[m] = s
      BY <2>3, <3>1, EndLeavesWay
    <3> QED BY <2>2, <2>4, <3>2
  <2>5. CASE Len(rest) # 1
    BY <2>2, <2>3, <2>5
  <2> QED BY <2>4, <2>5
<1> QED BY <1>1, <1>2

\* trie_insertBranch, and the needle or the suffix in trie_collisionInTail: the
\* rest of v becomes a branch of the state, and v is found with its data.
LEMMA BranchData ==
  ASSUME Tree(cells), state \in DOMAIN cells, cells[state].base > 0,
         SuffixesOK(tail), NEW L, L \subseteq DOMAIN tail, Linked(cells, L),
         options.useUserData,
         NEW v, Word(v), NEW m \in 0..Len(v), Path(cells, v)[m] = state,
         NEW rest, rest = SubSeq(v, m + 1, Len(v)),
         rest # << >> => Head(rest) \notin cells[state].kids,
         NEW value \in Data, NEW r, r = Branch(rest, value),
         NEW t, t = StoreTail(rest)
  PROVE  Stored(cells, tail, r.cells, t, v, value)
<1>1. /\ rest \in Seq(Nat) /\ Len(rest) = Len(v) - m /\ Len(rest) \in Nat
      /\ \A k \in DOMAIN rest : rest[k] > END_OF_TEXT
      /\ m = Len(v) <=> rest = << >>
      /\ m # Len(v) => /\ m + 1 <= Len(v) /\ Head(rest) = v[m + 1]
                       /\ Head(rest) \in Nat /\ Head(rest) > END_OF_TEXT
      /\ Len(rest) > 1 => /\ m + 2 <= Len(v)
                          /\ Tail(rest) = SubSeq(v, m + 2, Len(v))
  <2>1. RestIs(rest, v, m)
    BY RestFacts
  <2> QED BY <2>1 DEF RestIs
<1>2. /\ SuffixesOK(t)
      /\ \A x \in DOMAIN tail : x \in DOMAIN t /\ t[x] = tail[x]
  BY <1>1, StoreTailKeeps
<1>3. m \in Nat /\ Len(v) \in Nat
  BY WordFacts
<1>4. CASE rest = << >>
  <2>1. r = [cells |-> InsertEndOfText(cells, state, value), state |-> state]
    BY Zenon, <1>4 DEF Branch
  <2> PICK U : U = InsertEndOfText(cells, state, value)
    OBVIOUS
  <2>2. r.cells = U /\ t = tail
    <3>0. Len(<< >>) = 0 /\ ~(0 > 1)
      BY EmptySeq
    <3>1. ~(Len(rest) > 1)
      BY Zenon, <1>4, <3>0
    <3>2. t = tail
      BY Zenon, <3>1 DEF StoreTail
    <3> QED BY <2>1, <3>2
  <2>3. Path(cells, v)[Len(v)] = state
    BY <1>1, <1>4
  <2>4. Stored(cells, tail, U, tail, v, value)
    BY <2>3, TextData
  <2> QED BY <2>2, <2>4
<1>5. CASE rest # << >>
  <2> PICK char : char = Head(rest)
    OBVIOUS
  <2> PICK base : base = TailBase(rest)
    OBVIOUS
  <2>0. /\ m + 1 <= Len(v) /\ char = v[m + 1]
        /\ char \in Nat /\ char > END_OF_TEXT /\ char \notin cells[state].kids
    BY <1>1, <1>5
  <2>m. Missing(cells, v, m, state, char)
    BY <1>3, <2>0 DEF Missing
  <2>1. PICK V, P, new : Branching(rest, value, r, V, P, new)
    BY <1>1, <1>5, <2>0, BranchParts
  <2>2. /\ Grown(cells, V, P, state, char, base, new)
        /\ Kept(cells, V, P) /\ V[new].data = value
        /\ r.cells = IF Len(rest) = 1 THEN InsertEndOfText(V, new, value) ELSE V
        /\ base \in Int /\ base # 0
        /\ Len(rest) = 1 => base = 1
        /\ Len(rest) # 1 => Len(rest) > 1 /\ base = -FreeTail
    BY <2>1 DEF Branching
  <2>3. Path(V, v)[m + 1] = new
    BY <2>2, <2>m, PathNew
  <2>4. Tree(V) /\ new \in DOMAIN V /\ V[new].base = base
    BY <2>2 DEF Grown
  <2>5. CASE Len(rest) = 1
    <3>0. 1 > 0 /\ ~(1 > 1)
      OBVIOUS
    <3>1. base = 1 /\ base > 0 /\ ~(Len(rest) > 1)
      BY Zenon, <2>2, <2>5, <3>0
    <3>2. t = tail
      BY Zenon, <3>1 DEF StoreTail
    <3>3. AsBefore(cells, tail, V, tail)
      BY <2>0, <2>2, <3>1, NodeData
    <3> PICK U : U = InsertEndOfText(V, new, value)
      OBVIOUS
    <3>4. m + 1 = Len(v)
      <4> PICK l : l = Len(v)
        OBVIOUS
      <4>1. l \in Nat /\ m \in Nat /\ 1 = l - m
        BY <1>1, <1>3, <2>5
      <4>2. m + 1 = l
        BY SMT, <4>1
      <4> QED BY <4>2
    <3>5. Stored(V, tail, U, tail, v, value)
      BY <2>3, <2>4, <3>1, <3>4, TextData
    <3> QED BY <2>2, <2>5, <3>2, <3>3, <3>5 DEF Stored, AsBefore
  <2>6. CASE Len(rest) # 1
    <3> PICK x : x = FreeTail
      OBVIOUS
    <3>1. /\ Len(rest) > 1 /\ base = -x /\ r.cells = V
          /\ m + 2 <= Len(v) /\ Tail(rest) = SubSeq(v, m + 2, Len(v))
      BY <1>1, <2>2, <2>6
    <3>2. x \in DOMAIN t /\ t[x] = SubSeq(v, m + 2, Len(v))
      <4>1. t = [y \in DOMAIN tail \union {FreeTail} |->
                   IF y = FreeTail THEN Tail(rest) ELSE tail[y]]
        BY Zenon, <3>1 DEF StoreTail
      <4> QED BY <3>1, <4>1
    <3>a. SuffixOf(t, x, v, m)
      BY <3>1, <3>2 DEF SuffixOf
    <3>3. AsBefore(cells, tail, cells, t)
      <4>1. L \subseteq DOMAIN t /\ \A y \in L : tail[y] = t[y]
        BY <1>2
      <4> QED BY <1>2, <4>1, SuffixData
    <3>4. Stored(cells, t, V, t, v, value)
      BY SMTT(30), <1>2, <2>m, <2>2, <3>1, <3>a, LeafData
    <3> QED BY <3>1, <3>3, <3>4 DEF Stored, AsBefore
  <2> QED BY <2>5, <2>6
<1> QED BY <1>4, <1>5

\* The first characters of two sequences are the same, as far as they have
\* something in common.
LEMMA CommonSame ==
  ASSUME NEW s \in Seq(Nat), NEW t \in Seq(Nat),
         NEW n, n = CommonLength(s, t)
  PROVE  \A k \in 1..n : s[k] = t[k]
<1>0. n \in Nat /\ n <= Len(s) /\ n <= Len(t)
  BY Zenon, CommonStops
<1>1. /\ Len(s) \in Nat /\ Len(t) \in Nat
      /\ \A k \in 1..Len(s) : s[k] \in Nat
      /\ \A k \in 1..Len(t) : t[k] \in Nat
  BY LenProperties
<1> DEFINE S == {k \in 0..Min({Len(s), Len(t)}) : SubSeq(s, 1, k) = SubSeq(t, 1, k)}
<1>2. n = Max(S)
  BY Zenon DEF CommonLength
<1>3. Min({Len(s), Len(t)}) \in Nat
  BY <1>1, MinIsLeast
<1>4. S \subseteq Nat /\ \A k \in S : k <= Min({Len(s), Len(t)})
  BY <1>3
<1>5. S # {}
  <2>1. SubSeq(s, 1, 0) = << >> /\ SubSeq(t, 1, 0) = << >>
    BY SubSeqEmpty
  <2>2. 0 \in S
    BY <1>3, <2>1
  <2> QED BY <2>2
<1>6. n \in S
  <2> HIDE DEF S
  <2> QED BY <1>2, <1>3, <1>4, <1>5, MaxIsGreatest
<1>7. SubSeq(s, 1, n) = SubSeq(t, 1, n)
  BY <1>6
<1>8. \A k \in 1..n : k \in 1..Len(s) /\ k \in 1..Len(t)
  BY SMT, <1>0, <1>1
<1>9. ASSUME NEW q, \A k \in 1..n : q[k] \in Nat
      PROVE  \A k \in 1..n : SubSeq(q, 1, n)[k] = q[k]
  <2>1. \A i \in 1..(n - 1 + 1) : SubSeq(q, 1, n)[i] = q[1 + i - 1]
    BY <1>0, <1>9, SubSeqProperties
  <2>2. \A k \in 1..n : k \in 1..(n - 1 + 1) /\ 1 + k - 1 = k
    BY SMT, <1>0
  <2> QED BY <2>1, <2>2
<1>10. /\ \A k \in 1..n : SubSeq(s, 1, n)[k] = s[k]
       /\ \A k \in 1..n : SubSeq(t, 1, n)[k] = t[k]
  BY <1>1, <1>8, <1>9
<1> QED BY Zenon, <1>7, <1>10

\* The beginning of a word and another one after it.
LEMMA JoinedIs ==
  ASSUME NEW v, Word(v), NEW b \in 0..Len(v), NEW s, Word(s)
  PROVE  Joined(SubSeq(v, 1, b) \o s, v, b, s)
<1>1. /\ Len(v) \in Nat /\ Len(s) \in Nat /\ v \in Seq(Nat) /\ s \in Seq(Nat)
      /\ \A k \in 1..Len(v) : v[k] \in Nat /\ v[k] > END_OF_TEXT
      /\ \A k \in 1..Len(s) : s[k] \in Nat /\ s[k] > END_OF_TEXT
  BY WordFacts DEF Word
<1> PICK p : p = SubSeq(v, 1, b)
  OBVIOUS
<1>2. b \in Nat /\ b <= Len(v)
  BY <1>1
<1>3. p \in Seq(Nat) /\ Len(p) = b /\ \A k \in 1..b : p[k] = v[k]
  <2>1. \A k \in 1..b : v[k] \in Nat
    BY <1>1, <1>2
  <2>2. /\ p \in Seq(Nat) /\ Len(p) = IF 1 <= b THEN b - 1 + 1 ELSE 0
        /\ \A i \in 1..(b - 1 + 1) : p[i] = v[1 + i - 1]
    BY <1>2, <2>1, SubSeqProperties
  <2>3. Len(p) = b
    BY SMT, <1>2, <2>2
  <2>4. \A k \in 1..b : k \in 1..(b - 1 + 1) /\ 1 + k - 1 = k
    BY SMT, <1>2
  <2> QED BY <2>2, <2>3, <2>4
<1> PICK d : d = p \o s
  OBVIOUS
<1>4. /\ d \in Seq(Nat) /\ Len(d) = b + Len(s)
      /\ \A i \in 1..(b + Len(s)) : d[i] = IF i <= b THEN p[i] ELSE s[i - b]
  BY <1>1, <1>3, ConcatProperties
<1>5. \A k \in 1..b : d[k] = v[k]
  <2>1. \A k \in 1..b : k \in 1..(b + Len(s)) /\ k <= b
    BY SMT, <1>1, <1>2
  <2> QED BY <1>3, <1>4, <2>1
<1>6. \A j \in 1..Len(s) : d[b + j] = s[j]
  <2> SUFFICES ASSUME NEW j \in 1..Len(s) PROVE d[b + j] = s[j]
    OBVIOUS
  <2>1. b + j \in 1..(b + Len(s)) /\ ~(b + j <= b) /\ (b + j) - b = j
    BY SMT, <1>1, <1>2
  <2> QED BY <1>4, <2>1
<1>7. \A k \in DOMAIN d : d[k] > END_OF_TEXT
  <2> SUFFICES ASSUME NEW k \in 1..(b + Len(s)) PROVE d[k] > END_OF_TEXT
    BY <1>4, LenProperties
  <2>1. CASE k <= b
    <3>1. k \in 1..b /\ k \in 1..Len(v)
      BY SMT, <1>1, <1>2, <2>1
    <3> QED BY <1>1, <1>5, <3>1
  <2>2. CASE ~(k <= b)
    <3>1. k - b \in 1..Len(s)
      BY SMT, <1>1, <1>2, <2>2
    <3> QED BY <1>1, <1>4, <2>2, <3>1
  <2> QED BY <2>1, <2>2
<1>8. Word(d)
  BY <1>4, <1>7 DEF Word
<1>9. SubSeq(d, b + 1, Len(d)) = s
  <2>1. b \in 0..Len(d)
    BY SMT, <1>1, <1>2, <1>4
  <2> QED BY <1>4, <1>6, <1>8, <2>1, SuffixIs
<1> QED BY <1>2, <1>4, <1>5, <1>8, <1>9 DEF Joined

-----------------------------------------------------------------------------
(* The words and their data *)

\* The data of w in the dictionary W.
DataOf(W, w) == {d \in Data : <<w, d>> \in W}

\* The trie holds W.
Holds(T, X, W) == \A w \in Needles : EndData(T, X, w) = DataOf(W, w)

\* The trie holds W without d.
HoldsBut(T, X, W, d) ==
  \A w \in Needles : EndData(T, X, w) = IF w = d THEN {} ELSE DataOf(W, w)

\* The trie holds W, with value as the data of v.
HoldsWith(T, X, W, v, value) ==
  \A w \in Needles : EndData(T, X, w) = IF w = v THEN {value} ELSE DataOf(W, w)

\* The same without d.
HoldsWithBut(T, X, W, d, v, value) ==
  \A w \in Needles :
    EndData(T, X, w) =
      IF w = d THEN {} ELSE IF w = v THEN {value} ELSE DataOf(W, w)

\* The data at the ends of a word are data.
LEMMA EndDataType ==
  ASSUME NEW T, Tree(T), NEW X, SuffixesOK(X), NEW w, Word(w)
  PROVE  EndData(T, X, w) \subseteq Data
<1>1. \A e \in Ends(T, X, w) : T[e].data \in Data
  BY EndsCells, CellFields
<1> QED BY <1>1 DEF EndData

\* A needle is a word.
LEMMA NeedleWord == ASSUME NEW w \in Needles PROVE Word(w)
  BY NeedleFacts DEF Word

\* The words found are those that the trie holds.
LEMMA HeldIs ==
  ASSUME NEW T, Tree(T), NEW X, SuffixesOK(X), NEW W, W = Held(T, X)
  PROVE  /\ W \subseteq Needles \X Data
         /\ Holds(T, X, W)
         /\ \A w, d : <<w, d>> \in W <=> w \in Needles /\ d \in EndData(T, X, w)
<1> DEFINE F(w) == {<<w, T[e].data>> : e \in Ends(T, X, w)}
<1>1. W = UNION {F(w) : w \in Needles}
  BY DEF Held
<1>2. \A w, d : <<w, d>> \in W <=> w \in Needles /\ d \in EndData(T, X, w)
  <2> SUFFICES ASSUME NEW w, NEW d
               PROVE  <<w, d>> \in W <=> w \in Needles /\ d \in EndData(T, X, w)
    OBVIOUS
  <2>1. <<w, d>> \in W <=> \E v \in Needles : <<w, d>> \in F(v)
    BY <1>1
  <2>2. \A v : <<w, d>> \in F(v) <=> v = w /\ d \in EndData(T, X, v)
    BY DEF EndData
  <2> QED BY <2>1, <2>2
<1>3. \A w \in Needles : EndData(T, X, w) \subseteq Data
  BY EndDataType, NeedleWord
<1>4. W \subseteq Needles \X Data
  <2>1. \A p \in W : \E w \in Needles : \E e \in Ends(T, X, w) :
          p = <<w, T[e].data>>
    BY <1>1
  <2>2. \A w \in Needles : \A e \in Ends(T, X, w) : T[e].data \in Data
    BY <1>3 DEF EndData
  <2> QED BY <2>1, <2>2
<1>5. Holds(T, X, W)
  BY <1>2, <1>3 DEF Holds, DataOf
<1> QED BY <1>2, <1>4, <1>5

\* The words found after v was stored are the others and v.
LEMMA HeldWith ==
  ASSUME NEW T, Tree(T), NEW X, SuffixesOK(X), NEW Z, Z = Held(T, X),
         NEW W, W \subseteq Needles \X Data,
         NEW v \in Needles, NEW value \in Data, HoldsWith(T, X, W, v, value)
  PROVE  Z = (W \ {pair \in W : pair[1] = v}) \union {<<v, value>>}
<1> PICK R : R = (W \ {pair \in W : pair[1] = v}) \union {<<v, value>>}
  OBVIOUS
<1>1. /\ Z \subseteq Needles \X Data
      /\ \A w, d : <<w, d>> \in Z <=> w \in Needles /\ d \in EndData(T, X, w)
  BY HeldIs
<1>2. R \subseteq Needles \X Data
  OBVIOUS
<1>3. ASSUME NEW w \in Needles, NEW d \in Data
      PROVE  <<w, d>> \in Z <=> <<w, d>> \in R
  <2>1. <<w, d>> \in Z <=> d \in EndData(T, X, w)
    BY <1>1
  <2>2. EndData(T, X, w) = IF w = v THEN {value} ELSE DataOf(W, w)
    BY DEF HoldsWith
  <2>3. <<w, d>>[1] = w /\ (<<w, d>> = <<v, value>> <=> w = v /\ d = value)
    OBVIOUS
  <2>4. <<w, d>> \in R <=> IF w = v THEN d = value ELSE <<w, d>> \in W
    BY <2>3
  <2> QED BY <2>1, <2>2, <2>4 DEF DataOf
<1>4. Z = R
  <2>1. \A p \in Needles \X Data : p \in Z <=> p \in R
    BY <1>3
  <2> QED BY <1>1, <1>2, <2>1
<1> QED BY <1>4

\* The words found are the same if the trie holds them.
LEMMA HeldSame ==
  ASSUME NEW T, Tree(T), NEW X, SuffixesOK(X), NEW Z, Z = Held(T, X),
         NEW W, W \subseteq Needles \X Data, Holds(T, X, W)
  PROVE  Z = W
<1>1. /\ Z \subseteq Needles \X Data
      /\ \A w, d : <<w, d>> \in Z <=> w \in Needles /\ d \in EndData(T, X, w)
  BY HeldIs
<1>2. ASSUME NEW w \in Needles, NEW d \in Data
      PROVE  <<w, d>> \in Z <=> <<w, d>> \in W
  BY <1>1 DEF Holds, DataOf
<1>3. \A p \in Needles \X Data : p \in Z <=> p \in W
  BY <1>2
<1> QED BY <1>1, <1>3

\* An empty sequence is the only one of length 0.
LEMMA LongTail ==
  ASSUME NEW s \in Seq(Nat), Len(s) > 1 PROVE Tail(s) # << >>
<1>1. Len(s) \in Nat /\ s # << >>
  <2>1. Len(<< >>) = 0 /\ ~(0 > 1)
    BY EmptySeq
  <2> QED BY <2>1, LenProperties
<1>2. Len(Tail(s)) = Len(s) - 1
  BY <1>1, HeadTailProperties
<1>3. Len(Tail(s)) # 0
  BY SMT, <1>1, <1>2
<1> QED BY <1>3, EmptySeq

\* No suffix in the tail is empty.
Filled(X) == \A x \in DOMAIN X : X[x] # << >>

\* trie_insertBranch and trie_collisionInTail store no empty suffix.
LEMMA StoreTailFilled ==
  ASSUME SuffixesOK(tail), Filled(tail), NEW rest \in Seq(Nat),
         NEW t, t = StoreTail(rest)
  PROVE  Filled(t)
<1>1. CASE Len(rest) > 1
  <2>1. t = [x \in DOMAIN tail \union {FreeTail} |->
               IF x = FreeTail THEN Tail(rest) ELSE tail[x]]
    BY Zenon, <1>1 DEF StoreTail
  <2>2. Tail(rest) # << >>
    BY <1>1, LongTail
  <2> QED BY <2>1, <2>2 DEF Filled
<1>2. CASE ~(Len(rest) > 1)
  <2>1. t = tail
    BY Zenon, <1>2 DEF StoreTail
  <2> QED BY <2>1
<1> QED BY <1>1, <1>2

\* trie_storeCharacter of the next character of v, with a node that is neither
\* an end of text nor a leaf.
LEMMA StoreOn ==
  ASSUME NEW T, Tree(T), NEW last \in DOMAIN T, T[last].base > 0,
         NEW v, NEW m, NEW char, Missing(T, v, m, last, char),
         NEW r, r = StoreCharacter(T, last, 1, char),
         NEW X, SuffixesOK(X)
  PROVE  AsBefore(T, X, r.cells, X) /\ Path(r.cells, v)[m + 1] = r.state
<1> PICK U : U = r.cells
  OBVIOUS
<1> PICK new : new = r.state
  OBVIOUS
<1> PICK base \in Int : base = 1 /\ base # 0 /\ base > 0
  OBVIOUS
<1>1. /\ char \in Nat /\ char > END_OF_TEXT /\ char >= END_OF_TEXT
      /\ char \notin T[last].kids
  <2>1. /\ Word(v) /\ m \in Nat /\ m + 1 <= Len(v)
        /\ char = v[m + 1] /\ char \notin T[last].kids
    BY DEF Missing
  <2>2. /\ Len(v) \in Nat
        /\ \A k \in 1..Len(v) : v[k] \in Nat /\ v[k] > END_OF_TEXT
    BY <2>1, WordFacts
  <2>3. m + 1 \in 1..Len(v)
    BY SMT, <2>1, <2>2
  <2>4. char \in Nat /\ char > END_OF_TEXT
    BY <2>1, <2>2, <2>3
  <2> QED BY SMT, <2>1, <2>4 DEF END_OF_TEXT
<1>2. r = StoreCharacter(T, last, base, char)
  OBVIOUS
<1>3. PICK P : Grown(T, U, P, last, char, base, new) /\ Kept(T, U, P)
  BY <1>1, <1>2, StoreGrown
<1>4. AsBefore(T, X, U, X)
  BY <1>1, <1>3, NodeData
<1>5. Path(U, v)[m + 1] = new
  BY <1>3, PathNew
<1> QED BY <1>4, <1>5

-----------------------------------------------------------------------------
(* The words and the call in progress *)

\* How much of the needle has been stored when its suffix is split, and the
\* word whose suffix that is.
Before == index - 1 - common
Divided == SubSeq(needle, 1, Before) \o tail[tailIndex]

\* d begins with the first b characters of v and goes on with s, which has c
\* characters in common with v there; it is another word than v, and if it is
\* one of W it has value there.
Apart(d, v, b, s, c, W, value) ==
  /\ Joined(d, v, b, s) /\ d # v
  /\ \A k \in 1..c : s[k] = v[b + k]
  /\ d \in Needles => DataOf(W, d) = {value}

\* What the trie holds besides words: while a suffix is split its word is
\* missing, and once the needle has got its branch it is found too.
WordsOK ==
  /\ words \subseteq Needles \X Data /\ Filled(tail)
  /\ pc \in {"idle", "char"} => Holds(cells, tail, words)
  /\ pc = "common" => HoldsBut(cells, tail, words, Divided)
  /\ pc = "tail" => HoldsWithBut(cells, tail, words, Divided, needle, data)
  /\ pc \in {"common", "tail"} =>
       Apart(Divided, needle, Before, tail[tailIndex], common, words, tailData)

\* The state is where the needle has led, or the word that is divided.
WayOK ==
  /\ pc = "char" => Path(cells, needle)[index - 1] = state
  /\ pc \in {"common", "tail"} =>
       Path(cells, Divided)[Before + tailAt - 1] = state

\* The inductive invariant of the dictionary.
DInv ==
  /\ IInv /\ WordsOK /\ WayOK
  /\ options.useUserData /\ pc # "crashed"

\* A step of the dictionary.
DictionaryStep == Promise!Next \/ UNCHANGED Promise!dvars

-----------------------------------------------------------------------------
(* What each action does to the words *)

\* A call returns, and the needle is in the trie.
LEMMA ReturnKeeps ==
  ASSUME DInv, IInv', EndCall("idle"), pc # "idle",
         needle \in Needles, data \in Data, Filled(tail'),
         \/ HoldsWith(cells', tail', words, needle, data)
         \/ Holds(cells', tail', words) /\ DataOf(words, needle) # {}
  PROVE  DInv' /\ DictionaryStep
<1>1. /\ pc' = "idle" /\ words' = Held(cells', tail') /\ options' = options
  BY DEF EndCall
<1>2. Tree(cells') /\ SuffixesOK(tail')
  BY DEF IInv
<1>3. words' \subseteq Needles \X Data /\ Holds(cells', tail', words')
  BY <1>1, <1>2, HeldIs
<1>4. DInv'
  <2>1. WordsOK'
    BY <1>1, <1>3 DEF WordsOK
  <2>2. WayOK'
    BY <1>1 DEF WayOK
  <2> QED BY <1>1, <2>1, <2>2 DEF DInv
<1> PICK old : old = {pair \in words : pair[1] = needle}
  OBVIOUS
<1>5. words \subseteq Needles \X Data
  BY DEF DInv, WordsOK
<1>6. \/ words' = (words \ old) \union {<<needle, data>>}
      \/ old # {} /\ words' = words
  <2>1. CASE HoldsWith(cells', tail', words, needle, data)
    BY <1>1, <1>2, <1>5, <2>1, HeldWith
  <2>2. CASE Holds(cells', tail', words) /\ DataOf(words, needle) # {}
    <3>1. words' = words
      BY <1>1, <1>2, <1>5, <2>2, HeldSame
    <3>2. old # {}
      <4>1. PICK d : <<needle, d>> \in words
        BY <2>2 DEF DataOf
      <4> QED BY <4>1
    <3> QED BY <3>1, <3>2
  <2> QED BY <2>1, <2>2
<1>7. Promise!Return
  <2>1. <<needle, data>>[1] = needle
    OBVIOUS
  <2> QED BY Zenon, <1>1, <1>6, <2>1 DEF Promise!Return
<1> QED BY <1>4, <1>7 DEF DictionaryStep, Promise!Next

\* A step within a call.
LEMMA InCall ==
  ASSUME pc # "idle", pc' # "idle", UNCHANGED <<needle, data, words>>
  PROVE  DictionaryStep
<1>1. UNCHANGED Promise!dvars
  BY Zenon DEF Promise!dvars
<1> QED BY <1>1 DEF DictionaryStep

\* A call begins.
LEMMA AddNeedleWords ==
  ASSUME DInv, IInv', AddNeedle PROVE DInv' /\ DictionaryStep
<1>1. /\ pc = "idle" /\ pc' = "char" /\ needle' \in Needles /\ data' \in Data
      /\ index' = 1 /\ state' = Root /\ options' = options /\ cells' = cells
      /\ tail' = tail /\ words' = words
  BY DEF AddNeedle, structure, split
<1>2. WordsOK'
  BY <1>1 DEF DInv, WordsOK
<1>3. WayOK'
  <2>1. Len(needle') \in Nat
    BY <1>1, NeedleFacts
  <2>2. Path(cells', needle')[0] = Root
    BY <2>1, PathSteps
  <2>3. index' - 1 = 0
    BY <1>1
  <2> QED BY <1>1, <2>2, <2>3 DEF WayOK
<1>4. Promise!AddNeedle(needle', data')
  BY Zenon, <1>1 DEF Promise!AddNeedle
<1>5. DictionaryStep
  BY <1>1, <1>4 DEF DictionaryStep, Promise!Next
<1> QED BY <1>1, <1>2, <1>3, <1>5 DEF DInv

\* What a round of the loop of addNeedle needs.
LEMMA GoOnWords ==
  ASSUME DInv, IInv', Storing, NEW s, GoOn(s), UNCHANGED tail,
         AsBefore(cells, tail, cells', tail),
         Path(cells', needle)[(index - 1) + 1] = s
  PROVE  DInv' /\ DictionaryStep
<1>1. /\ pc = "char" /\ pc' = "char" /\ state' = s /\ index' = index + 1
      /\ tail' = tail /\ words' = words /\ needle' = needle /\ data' = data
      /\ options' = options
  BY DEF Storing, GoOn, split, call
<1>2. Holds(cells', tail', words')
  <2>1. Holds(cells, tail, words)
    BY <1>1 DEF DInv, WordsOK
  <2> QED BY <1>1, <2>1, NeedleWord DEF Holds, AsBefore
<1>3. WordsOK'
  BY <1>1, <1>2 DEF DInv, WordsOK
<1>4. WayOK'
  <2>1. index \in Int
    BY DEF DInv, IInv, Arguments
  <2>2. index' - 1 = (index - 1) + 1
    BY SMT, <1>1, <2>1
  <2> QED BY <1>1, <2>2 DEF WayOK
<1>5. DictionaryStep
  BY <1>1, InCall
<1> QED BY <1>1, <1>3, <1>4, <1>5 DEF DInv

\* Where the loop of addNeedle is.
LEMMA LoopFacts ==
  ASSUME DInv, Storing
  PROVE  /\ Tree(cells) /\ state \in DOMAIN cells /\ cells[state].base > 0
         /\ SuffixesOK(tail) /\ Linked(cells, DOMAIN tail) /\ Filled(tail)
         /\ needle \in Needles /\ Word(needle) /\ data \in Data
         /\ Path(cells, needle)[index - 1] = state
         /\ index \in 1..Len(needle) /\ Len(needle) \in Nat
         /\ index - 1 \in Nat /\ (index - 1) + 1 = index
         /\ index - 1 \in 0..Len(needle)
         /\ needle[index] \in Nat /\ needle[index] > END_OF_TEXT
         /\ Holds(cells, tail, words)
         /\ words \subseteq Needles \X Data
<1>1. IInv /\ pc = "char"
  BY DEF DInv, Storing
<1>2. /\ Tree(cells) /\ state \in DOMAIN cells /\ cells[state].base > 0
      /\ needle \in Needles /\ data \in Data /\ SuffixesOK(tail)
      /\ Linked(cells, DOMAIN tail)
  BY <1>1, CharFacts
<1>3. /\ needle[index] \in Nat /\ needle[index] > END_OF_TEXT
      /\ index \in 1..Len(needle) /\ Len(needle) \in Nat
  BY <1>1, StoringFacts
<1>4. /\ index - 1 \in Nat /\ (index - 1) + 1 = index
      /\ index - 1 \in 0..Len(needle)
  BY SMT, <1>3
<1>5. /\ Path(cells, needle)[index - 1] = state /\ Filled(tail)
      /\ Holds(cells, tail, words) /\ words \subseteq Needles \X Data
  BY <1>1 DEF DInv, WordsOK, WayOK
<1> QED BY <1>2, <1>3, <1>4, <1>5, NeedleWord

\* The next character leads to nowhere.
LEMMA NextMissing ==
  ASSUME DInv, Storing,
         NewState \notin Taken(cells) \/ cells[NewState].check # state
  PROVE  Missing(cells, needle, index - 1, state, needle[index])
<1>1. needle[index] \notin cells[state].kids
  BY StoringFacts DEF DInv
<1>2. index <= Len(needle)
  BY LoopFacts
<1> QED BY <1>1, <1>2, LoopFacts DEF Missing

\* trie_storeNeedle into a free cell, without a tail.
LEMMA InsertNodeWords ==
  ASSUME DInv, IInv', InsertNode PROVE DInv' /\ DictionaryStep
<1>1. /\ Storing /\ NewState \notin Taken(cells) /\ UNCHANGED tail
      /\ cells' = Insert(cells, NewState, 1, state) /\ GoOn(NewState)
  BY DEF InsertNode
<1> PICK r : r = StoreCharacter(cells, state, 1, needle[index])
  OBVIOUS
<1>2. cells' = r.cells /\ NewState = r.state
  <2>1. r = [cells |-> cells', state |-> NewState]
    BY Zenon, <1>1 DEF StoreCharacter, NewState
  <2> QED BY <2>1
<1>3. Missing(cells, needle, index - 1, state, needle[index])
  BY <1>1, NextMissing
<1>4. /\ Tree(cells) /\ state \in DOMAIN cells /\ cells[state].base > 0
      /\ SuffixesOK(tail)
  BY <1>1, LoopFacts
<1>5. /\ AsBefore(cells, tail, cells', tail)
      /\ Path(cells', needle)[(index - 1) + 1] = NewState
  BY <1>2, <1>3, <1>4, StoreOn
<1> QED BY <1>1, <1>5, GoOnWords

\* trie_storeNeedle into a cell of another parent.
LEMMA CollideWords ==
  ASSUME DInv, IInv', Collide PROVE DInv' /\ DictionaryStep
<1>1. PICK r :
        /\ Storing /\ NewState \in Taken(cells) /\ UNCHANGED tail
        /\ cells[NewState].check # state
        /\ r = CollisionInArray(cells, NewState, 1, state, needle[index])
        /\ cells' = r.cells /\ GoOn(r.state)
  BY DEF Collide
<1>2. r = StoreCharacter(cells, state, 1, needle[index])
  BY Zenon, <1>1 DEF StoreCharacter, NewState
<1>3. Missing(cells, needle, index - 1, state, needle[index])
  BY <1>1, NextMissing
<1>4. /\ Tree(cells) /\ state \in DOMAIN cells /\ cells[state].base > 0
      /\ SuffixesOK(tail)
  BY <1>1, LoopFacts
<1>5. /\ AsBefore(cells, tail, cells', tail)
      /\ Path(cells', needle)[(index - 1) + 1] = r.state
  BY <1>1, <1>2, <1>3, <1>4, StoreOn
<1> QED BY <1>1, <1>5, GoOnWords

\* The way to a child that is there.
LEMMA NextThere ==
  ASSUME DInv, Storing, NewState \in Taken(cells),
         cells[NewState].check = state
  PROVE  Path(cells, needle)[index] = NewState
<1>1. /\ Tree(cells) /\ state \in DOMAIN cells /\ Word(needle)
      /\ Path(cells, needle)[index - 1] = state /\ index \in 1..Len(needle)
      /\ Len(needle) \in Nat /\ needle[index] \in Nat
  BY LoopFacts
<1>2. NewState - cells[state].base \in cells[state].kids
  BY <1>1 DEF Tree
<1>3. NewState - cells[state].base = needle[index]
  <2>1. cells[state].base \in Int
    BY <1>1, CellFields
  <2> QED BY SMT, <1>1, <2>1 DEF NewState
<1>4. Child(cells, state, needle[index]) = NewState
  BY <1>1, <1>2, <1>3, ChildIs DEF NewState
<1> QED BY <1>1, <1>4, PathSteps

\* trie_storeNeedle follows a node that is there.
LEMMA FollowWords ==
  ASSUME DInv, IInv', Follow PROVE DInv' /\ DictionaryStep
<1>1. /\ Storing /\ NewState \in Taken(cells) /\ cells[NewState].check = state
      /\ GoOn(NewState) /\ cells' = cells /\ tail' = tail
  BY DEF Follow, structure
<1>2. AsBefore(cells, tail, cells', tail)
  BY <1>1 DEF AsBefore
<1>3. Path(cells', needle)[(index - 1) + 1] = NewState
  BY <1>1, NextThere, LoopFacts
<1> QED BY <1>1, <1>2, <1>3, GoOnWords

\* The end of text behind the last character.
LEMMA EndOfNeedleWords ==
  ASSUME DInv, IInv', EndOfNeedle PROVE DInv' /\ DictionaryStep
<1>1. /\ pc = "char" /\ index > Len(needle)
      /\ cells' = InsertEndOfText(cells, state, data)
      /\ tail' = tail /\ EndCall("idle")
  BY DEF EndOfNeedle
<1>2. /\ Tree(cells) /\ state \in DOMAIN cells /\ cells[state].base > 0
      /\ needle \in Needles /\ data \in Data /\ SuffixesOK(tail)
  BY <1>1, CharFacts DEF DInv
<1>3. index \in 1..(Len(needle) + 1) /\ Len(needle) \in Nat
  BY <1>2, NeedleFacts DEF DInv, IInv, Arguments
<1>4. index - 1 = Len(needle)
  BY SMT, <1>1, <1>3
<1>5. Path(cells, needle)[Len(needle)] = state
  BY <1>1, <1>4 DEF DInv, WayOK
<1>6. Stored(cells, tail, cells', tail, needle, data)
  BY <1>1, <1>2, <1>5, NeedleWord, TextData DEF DInv
<1>7. HoldsWith(cells', tail', words, needle, data)
  <2>1. Holds(cells, tail, words)
    BY <1>1 DEF DInv, WordsOK
  <2> QED BY <1>1, <1>6, <2>1, NeedleWord DEF Holds, HoldsWith, Stored
<1>8. Filled(tail') /\ pc # "idle"
  BY <1>1 DEF DInv, WordsOK
<1> QED BY <1>1, <1>2, <1>7, <1>8, ReturnKeeps

-----------------------------------------------------------------------------
(* The words in trie_insertBranch and trie_collisionInTail *)

\* trie_insertBranch.
LEMMA InsertBranchWords ==
  ASSUME DInv, IInv', InsertBranch PROVE DInv' /\ DictionaryStep
<1> PICK rest : rest = SubSeq(needle, index, Len(needle))
  OBVIOUS
<1> PICK r : r = Branch(rest, data)
  OBVIOUS
<1>1. Storing /\ EndCall("idle") /\ pc # "idle"
  BY DEF InsertBranch, DInv, Storing
<1>2. /\ cells' = r.cells /\ tail' = StoreTail(rest)
      /\ rest \in Seq(Nat) /\ Head(rest) = needle[index]
      /\ needle[index] \notin cells[state].kids
  BY InsertBranchIs DEF DInv
<1>3. /\ Tree(cells) /\ state \in DOMAIN cells /\ cells[state].base > 0
      /\ SuffixesOK(tail) /\ Linked(cells, DOMAIN tail) /\ Filled(tail)
      /\ needle \in Needles /\ Word(needle) /\ data \in Data
      /\ Path(cells, needle)[index - 1] = state
      /\ index - 1 \in 0..Len(needle)
      /\ Holds(cells, tail, words)
  BY <1>1, LoopFacts
<1>4. Stored(cells, tail, cells', tail', needle, data)
  <2>1. rest = SubSeq(needle, (index - 1) + 1, Len(needle))
    <3>1. (index - 1) + 1 = index
      BY <1>1, LoopFacts
    <3> QED BY <3>1
  <2>2. options.useUserData
    BY DEF DInv
  <2> QED BY <1>2, <1>3, <2>1, <2>2, BranchData
<1>5. HoldsWith(cells', tail', words, needle, data)
  BY <1>3, <1>4, NeedleWord DEF Holds, HoldsWith, Stored
<1>6. Filled(tail')
  BY <1>2, <1>3, StoreTailFilled
<1> QED BY <1>1, <1>3, <1>5, <1>6, ReturnKeeps

\* The second part of a joined word.
LEMMA JoinedRest ==
  ASSUME NEW d, NEW v, NEW b, NEW s, Joined(d, v, b, s)
  PROVE  /\ Len(d) \in Nat /\ Len(s) \in Nat /\ b \in Nat
         /\ Len(d) = b + Len(s)
         /\ \A j \in 1..Len(s) : d[b + j] = s[j]
<1>1. /\ Word(d) /\ Word(s) /\ b \in Nat /\ Len(d) = b + Len(s)
      /\ SubSeq(d, b + 1, Len(d)) = s
  BY DEF Joined
<1>2. Len(d) \in Nat /\ Len(s) \in Nat
  BY <1>1, WordFacts
<1>3. b \in 0..Len(d)
  BY SMT, <1>1, <1>2
<1>4. \A j \in 1..Len(s) : d[b + j] = s[j]
  BY <1>1, <1>3, SuffixIs
<1> QED BY <1>1, <1>2, <1>4

\* What is left of s behind k characters is what is left of d.
SameRest(d, b, s, k) ==
  /\ b + k \in 0..Len(d)
  /\ SubSeq(s, k + 1, Len(s)) = SubSeq(d, (b + k) + 1, Len(d))

\* What is left of the second part is what is left of the word.
LEMMA JoinedEnd ==
  ASSUME NEW d, NEW v, NEW b, NEW s, Joined(d, v, b, s),
         NEW k \in 0..Len(s)
  PROVE  SameRest(d, b, s, k)
<1>1. /\ Len(d) \in Nat /\ Len(s) \in Nat /\ b \in Nat
      /\ Len(d) = b + Len(s) /\ \A j \in 1..Len(s) : d[b + j] = s[j]
  BY JoinedRest
<1>2. Word(d) /\ Word(s)
  BY DEF Joined
<1>3. b + k \in 0..Len(d) /\ k + 1 \in 1..(Len(s) + 1) /\ k \in Nat
  BY SMT, <1>1
<1>4. ASSUME NEW m \in 0..Len(d), NEW q, Word(q), Len(d) = m + Len(q),
             \A j \in 1..Len(q) : d[m + j] = q[j]
      PROVE  SubSeq(d, m + 1, Len(d)) = q
  BY <1>2, <1>4, SuffixIs
<1>5. ASSUME NEW q, Word(q), Len(s) = k + Len(q),
             \A j \in 1..Len(q) : s[k + j] = q[j]
      PROVE  SubSeq(d, (b + k) + 1, Len(d)) = q
  <2>1. Len(q) \in Nat
    BY <1>5, WordFacts
  <2>2. Len(d) = (b + k) + Len(q)
    <3>1. \A l, i, j, m, n \in Nat :
            l = i + m /\ m = j + n => l = (i + j) + n
      OBVIOUS
    <3>2. /\ Len(d) \in Nat /\ b \in Nat /\ Len(s) \in Nat /\ k \in Nat
          /\ Len(q) \in Nat /\ Len(d) = b + Len(s) /\ Len(s) = k + Len(q)
      BY <1>1, <1>3, <1>5, <2>1
    <3> QED BY SMT, <3>1, <3>2
  <2>3. \A j \in 1..Len(q) : d[(b + k) + j] = q[j]
    <3> SUFFICES ASSUME NEW j \in 1..Len(q) PROVE d[(b + k) + j] = q[j]
      OBVIOUS
    <3>1. k + j \in 1..Len(s) /\ b + (k + j) = (b + k) + j
      BY SMT, <1>1, <1>3, <1>5, <2>1
    <3>2. d[b + (k + j)] = s[k + j]
      BY <1>1, <3>1
    <3> QED BY <1>5, <3>1, <3>2
  <2> QED BY Zenon, <1>3, <1>4, <1>5, <2>2, <2>3
<1>6. ASSUME NEW q, q = SubSeq(s, k + 1, Len(s))
      PROVE  /\ Word(q) /\ Len(s) = k + Len(q)
             /\ \A j \in 1..Len(q) : s[k + j] = q[j]
  <2>1. s \in Seq(Nat) /\ \A j \in DOMAIN s : s[j] > END_OF_TEXT
    BY <1>2 DEF Word
  <2>2. Word(q)
    BY <1>3, <1>6, <2>1, RestOf DEF Word
  <2> QED BY <1>2, <1>6, <2>2, SuffixIs
<1> QED BY <1>3, <1>5, <1>6 DEF SameRest

\* A joined word goes along with the other, as far as its second part has
\* something in common with that.
LEMMA JoinedPath ==
  ASSUME NEW T, Tree(T),
         NEW d, NEW v, NEW b, NEW s, NEW c, NEW W, NEW value,
         Apart(d, v, b, s, c, W, value), Word(v),
         c \in 0..Len(s), b + c <= Len(v)
  PROVE  Path(T, d)[b + c] = Path(T, v)[b + c]
<1>1. Joined(d, v, b, s) /\ \A k \in 1..c : s[k] = v[b + k]
  BY DEF Apart
<1>2. /\ Len(d) \in Nat /\ Len(s) \in Nat /\ b \in Nat
      /\ Len(d) = b + Len(s) /\ \A j \in 1..Len(s) : d[b + j] = s[j]
  BY <1>1, JoinedRest
<1>3. Word(d) /\ \A k \in 1..b : d[k] = v[k]
  BY <1>1 DEF Joined
<1>4. Len(v) \in Nat
  BY WordFacts
<1>5. b + c \in Nat /\ b + c <= Len(d) /\ b + c \in 0..(b + c)
  BY SMT, <1>2
<1>6. \A k \in 1..(b + c) : d[k] = v[k]
  <2> SUFFICES ASSUME NEW k \in 1..(b + c) PROVE d[k] = v[k]
    OBVIOUS
  <2>1. CASE k <= b
    <3>1. k \in 1..b
      BY SMT, <1>2, <2>1
    <3> QED BY <1>3, <3>1
  <2>2. CASE ~(k <= b)
    <3>1. k - b \in 1..c /\ k - b \in 1..Len(s) /\ b + (k - b) = k
      BY SMT, <1>2, <2>2
    <3>2. d[b + (k - b)] = s[k - b] /\ s[k - b] = v[b + (k - b)]
      BY <1>1, <1>2, <3>1
    <3> QED BY <3>1, <3>2
  <2> QED BY <2>1, <2>2
<1> QED BY <1>3, <1>5, <1>6, PathAgrees

\* A suffix is a word.
LEMMA SuffixWord ==
  ASSUME NEW X, SuffixesOK(X), NEW x \in DOMAIN X PROVE Word(X[x])
  BY DEF SuffixesOK, Word

\* trie_collisionInTail, if the suffix is the rest of the needle: the needle
\* is one of the words.
LEMMA SameSuffix ==
  ASSUME DInv, Storing, NewState \in Taken(cells),
         cells[NewState].check = state, cells[NewState].base < 0,
         tail[-cells[NewState].base] = SubSeq(needle, index + 1, Len(needle))
  PROVE  DataOf(words, needle) # {}
<1> PICK n : n = NewState
  OBVIOUS
<1>1. /\ Tree(cells) /\ Linked(cells, DOMAIN tail) /\ Filled(tail)
      /\ needle \in Needles /\ Word(needle) /\ index \in 1..Len(needle)
      /\ Len(needle) \in Nat /\ Holds(cells, tail, words)
  BY LoopFacts
<1>2. Path(cells, needle)[index] = n
  BY NextThere
<1>3. n \in DOMAIN cells /\ -cells[n].base \in DOMAIN tail
  BY FollowedFacts DEF DInv
<1>4. n # 0
  BY <1>1, <1>3, CellFields
<1>5. index \in 1..(Len(needle) - 1)
  <2>1. SubSeq(needle, index + 1, Len(needle)) # << >>
    BY <1>1, <1>3 DEF Filled
  <2>2. ASSUME index = Len(needle) PROVE FALSE
    <3>1. Len(needle) < index + 1 /\ index + 1 \in Int /\ Len(needle) \in Int
      BY SMT, <1>1, <2>2
    <3>2. SubSeq(needle, index + 1, Len(needle)) = << >>
      BY <3>1, SubSeqEmpty
    <3> QED BY <2>1, <3>2
  <2> QED BY SMT, <1>1, <2>2
<1>6. LeafEnd(cells, tail, needle, index)
  BY <1>2, <1>3, <1>4, <1>5 DEF LeafEnd
<1>7. n \in Ends(cells, tail, needle)
  BY <1>2, <1>6, EndsAre
<1>8. cells[n].data \in EndData(cells, tail, needle)
  BY <1>7 DEF EndData
<1> QED BY <1>1, <1>8 DEF Holds

\* The first c characters of s are those of v behind its first b.
InCommon(s, v, b, c) == \A k \in 1..c : s[k] = v[b + k]

\* What a suffix and the rest of a word have in common.
LEMMA CommonRest ==
  ASSUME NEW v, Word(v), NEW b \in 1..Len(v), NEW s, Word(s),
         NEW rest, rest = SubSeq(v, b + 1, Len(v)),
         NEW c, c = CommonLength(s, rest)
  PROVE  InCommon(s, v, b, c)
<1>1. /\ v \in Seq(Nat) /\ Len(v) \in Nat /\ s \in Seq(Nat)
      /\ \A k \in DOMAIN v : v[k] > END_OF_TEXT
  BY WordFacts DEF Word
<1>2. b + 1 \in 1..(Len(v) + 1) /\ b \in Nat
  BY <1>1
<1>3. /\ rest \in Seq(Nat) /\ Len(rest) = Len(v) - (b + 1) + 1
      /\ \A k \in 1..Len(rest) : rest[k] = v[(b + 1) + k - 1]
  BY SMTT(30), <1>1, <1>2, RestOf
<1>4. /\ c \in Nat /\ c <= Len(rest)
      /\ \A k \in 1..c : s[k] = rest[k]
  <2>1. c \in Nat /\ c <= Len(rest)
    BY Zenon, <1>1, <1>3, CommonStops
  <2>2. \A k \in 1..c : s[k] = rest[k]
    BY Zenon, <1>1, <1>3, CommonSame
  <2> QED BY <2>1, <2>2
<1>5. Len(rest) \in Nat
  BY <1>3, LenProperties
<1>6. \A k \in 1..c : k \in 1..Len(rest)
  <2>1. \A i, l \in Nat : i <= l => \A k \in 1..i : k \in 1..l
    OBVIOUS
  <2> QED BY Zenon, <1>4, <1>5, <2>1
<1>7. \A k \in 1..c : (b + 1) + k - 1 = b + k
  BY SMT, <1>2, <1>4
<1> QED BY <1>3, <1>4, <1>6, <1>7 DEF InCommon

\* U holds the words without d, whose suffix s was at the leaf n.
TakenOut(U, n, s, d, c) ==
  /\ HoldsBut(U, tail, words, d)
  /\ Apart(d, needle, index, s, c, words, cells[n].data)
  /\ Path(U, d)[index] = n

\* trie_collisionInTail: the word of the suffix is taken out of the trie, to
\* be put back when both have got their branches.
LEMMA TakeSuffix ==
  ASSUME DInv, Storing,
         NEW n \in DOMAIN cells, Path(cells, needle)[index] = n,
         cells[n].base < 0,
         NEW x \in DOMAIN tail, x = -cells[n].base,
         NEW d, Joined(d, needle, index, tail[x]),
         tail[x] # SubSeq(needle, index + 1, Len(needle)),
         NEW c, InCommon(tail[x], needle, index, c),
         NEW U, NoLeaf(cells, U, n)
  PROVE  TakenOut(U, n, tail[x], d, c)
<1>1. /\ Tree(cells) /\ SuffixesOK(tail) /\ Linked(cells, DOMAIN tail)
      /\ Filled(tail) /\ Word(needle) /\ index \in 1..Len(needle)
      /\ Holds(cells, tail, words)
  BY LoopFacts
<1>2. tail[x] # << >>
  BY <1>1 DEF Filled
<1>3. /\ EndData(cells, tail, d) = {cells[n].data}
      /\ \A w : Word(w) =>
           EndData(U, tail, w) = IF w = d THEN {} ELSE EndData(cells, tail, w)
      /\ Path(U, d)[index] = n
  <2>1. Unfound(cells, U, tail, n, index, d)
    BY <1>1, <1>2, ResetData
  <2> QED BY <2>1 DEF Unfound
<1>4. HoldsBut(U, tail, words, d)
  BY <1>1, <1>3, NeedleWord DEF Holds, HoldsBut
<1>5. d \in Needles => DataOf(words, d) = {cells[n].data}
  BY <1>1, <1>3 DEF Holds
<1>6. d # needle
  BY DEF Joined
<1> QED BY <1>3, <1>4, <1>5, <1>6 DEF Apart, InCommon, TakenOut

\* trie_collisionInTail.
LEMMA CollisionInTailWords ==
  ASSUME DInv, IInv', CollisionInTail PROVE DInv' /\ DictionaryStep
<1> PICK n : n = NewState
  OBVIOUS
<1> PICK x : x = -cells[n].base
  OBVIOUS
<1> PICK suffix : suffix = tail[x]
  OBVIOUS
<1> PICK rest : rest = SubSeq(needle, index + 1, Len(needle))
  OBVIOUS
<1>1. /\ Storing /\ pc = "char" /\ n \in Taken(cells)
      /\ cells[n].check = state /\ cells[n].base < 0
  BY DEF CollisionInTail, Storing
<1>2. /\ needle \in Needles /\ data \in Data /\ Filled(tail)
      /\ Holds(cells, tail, words)
  BY <1>1, LoopFacts
<1>3. CASE suffix = rest /\ UNCHANGED structure /\ EndCall("idle")
  <2>1. cells' = cells /\ tail' = tail
    BY <1>3 DEF structure
  <2>2. DataOf(words, needle) # {}
    BY <1>1, <1>3, SameSuffix
  <2>3. Holds(cells', tail', words) /\ Filled(tail')
    BY <1>2, <2>1
  <2> QED BY <1>1, <1>2, <1>3, <2>2, <2>3, ReturnKeeps
<1>4. CASE /\ suffix # rest
           /\ cells' = [cells EXCEPT ![n].base = 1]
           /\ pc' = "common"
           /\ state' = n
           /\ tailIndex' = x
           /\ tailData' = cells[n].data
           /\ tailAt' = 1
           /\ common' = CommonLength(suffix, rest)
           /\ index' = index + 1 + common'
           /\ UNCHANGED <<tail, call>>
  <2> PICK d : d = SubSeq(needle, 1, index) \o suffix
    OBVIOUS
  <2>1. /\ UNCHANGED <<options, needle, data, adds, words>> /\ tail' = tail
        /\ pc' = "common" /\ state' = n /\ tailIndex' = x /\ tailAt' = 1
        /\ tailData' = cells[n].data
    BY <1>4 DEF call
  <2>2. /\ HoldsBut(cells', tail, words, d)
        /\ Apart(d, needle, index, suffix, common', words, cells[n].data)
        /\ Path(cells', d)[index] = n
    <3>1. /\ Tree(cells) /\ SuffixesOK(tail) /\ Linked(cells, DOMAIN tail)
          /\ Word(needle) /\ index \in 1..Len(needle)
          /\ index \in 0..Len(needle) /\ Path(cells, needle)[index] = n
          /\ n \in DOMAIN cells /\ x \in DOMAIN tail
      BY <1>1, LoopFacts, NextThere, FollowedFacts DEF DInv
    <3>2. Word(suffix)
      BY <3>1, SuffixWord
    <3>3. Joined(d, needle, index, suffix)
      BY <3>1, <3>2, JoinedIs
    <3>4. NoLeaf(cells, cells', n)
      BY <1>1, <1>4, <3>1, LeafToNode
    <3>5. InCommon(suffix, needle, index, common')
      BY <1>4, <3>1, <3>2, CommonRest
    <3>6. TakenOut(cells', n, tail[x], d, common')
      BY <1>1, <1>4, <3>1, <3>3, <3>4, <3>5, TakeSuffix
    <3> QED BY <3>6 DEF TakenOut
  <2>3. Before' = index /\ Before' + tailAt' - 1 = index
    <3>1. common' \in Nat /\ index \in Nat
      <4>1. common' \in 0..Len(tail'[tailIndex'])
        BY <2>1 DEF IInv, CallOK
      <4> QED BY <4>1 DEF DInv, IInv, Arguments
    <3>2. index' = index + 1 + common'
      BY <1>4
    <3>3. \A i, k \in Nat : /\ (i + 1 + k) - 1 - k = i
                            /\ i + 1 - 1 = i
      OBVIOUS
    <3>4. Before' = index' - 1 - common'
      BY DEF Before
    <3>5. Before' = index
      BY <3>1, <3>2, <3>3, <3>4
    <3> QED BY <2>1, <3>1, <3>3, <3>5
  <2>4. Divided' = d
    BY <2>1, <2>3 DEF Divided
  <2>5. WordsOK'
    <3>1. HoldsBut(cells', tail', words', Divided')
      BY <2>1, <2>2, <2>4
    <3>2. Apart(Divided', needle', Before', tail'[tailIndex'], common', words',
                tailData')
      BY <2>1, <2>2, <2>3, <2>4
    <3> QED BY <1>2, <2>1, <3>1, <3>2 DEF WordsOK, DInv
  <2>6. WayOK'
    BY <2>1, <2>2, <2>3, <2>4 DEF WayOK
  <2>7. DictionaryStep
    BY <1>1, <2>1, InCall
  <2> QED BY <2>1, <2>5, <2>6, <2>7 DEF DInv
<1> QED BY Zenon, <1>3, <1>4 DEF CollisionInTail

\* What the rounds of collisionInTail know of the words.
LEMMA DividedFacts ==
  ASSUME DInv, pc \in {"common", "tail"}
  PROVE  /\ Apart(Divided, needle, Before, tail[tailIndex], common, words,
                  tailData)
         /\ Joined(Divided, needle, Before, tail[tailIndex])
         /\ Path(cells, Divided)[Before + tailAt - 1] = state
         /\ Before \in Nat /\ Len(tail[tailIndex]) \in Nat
         /\ common \in 0..Len(tail[tailIndex]) /\ tailAt \in 1..(common + 1)
         /\ tail[tailIndex] \in Seq(Nat)
         /\ needle \in Needles /\ Word(needle) /\ Len(needle) \in Nat
         /\ index \in 1..(Len(needle) + 1) /\ index = Before + common + 1
         /\ Word(Divided) /\ Filled(tail) /\ tailIndex \in DOMAIN tail
<1>1. IInv /\ options.useUserData
  BY DEF DInv
<1>2. /\ needle \in Needles /\ tail[tailIndex] \in Seq(Nat)
      /\ Len(tail[tailIndex]) \in Nat /\ tailIndex \in DOMAIN tail
      /\ common \in 0..Len(tail[tailIndex]) /\ tailAt \in 1..(common + 1)
      /\ index \in 1..(Len(needle) + 1) /\ Len(needle) \in Nat
  BY <1>1, SplitFacts
<1>3. /\ Apart(Divided, needle, Before, tail[tailIndex], common, words,
               tailData)
      /\ Path(cells, Divided)[Before + tailAt - 1] = state /\ Filled(tail)
  BY DEF DInv, WordsOK, WayOK
<1>4. Joined(Divided, needle, Before, tail[tailIndex])
  BY <1>3 DEF Apart
<1>5. Word(Divided) /\ Before \in Nat
  BY <1>4 DEF Joined
<1>6. index = Before + common + 1
  BY SMT, <1>2 DEF Before
<1> QED BY <1>2, <1>3, <1>4, <1>5, <1>6, NeedleWord

\* What is left of the suffix is what is left of its word.
LEMMA DividedEnd ==
  ASSUME DInv, pc \in {"common", "tail"}
  PROVE  /\ Before + common \in 0..Len(Divided)
         /\ SubSeq(tail[tailIndex], common + 1, Len(tail[tailIndex]))
              = SubSeq(Divided, (Before + common) + 1, Len(Divided))
<1>1. /\ Joined(Divided, needle, Before, tail[tailIndex])
      /\ common \in 0..Len(tail[tailIndex])
  BY DividedFacts
<1>2. SameRest(Divided, Before, tail[tailIndex], common)
  BY <1>1, JoinedEnd
<1> QED BY <1>2 DEF SameRest

\* A round of trie_collisionInTail_common.
LEMMA StoreCommonWords ==
  ASSUME DInv, IInv', StoreCommon PROVE DInv' /\ DictionaryStep
<1> PICK s : s = tail[tailIndex]
  OBVIOUS
<1> PICK char : char = s[tailAt]
  OBVIOUS
<1> PICK r : r = StoreCharacter(cells, state, 1, char)
  OBVIOUS
<1>1. /\ pc = "common" /\ tailAt <= common
      /\ cells' = r.cells /\ state' = r.state /\ tailAt' = tailAt + 1
      /\ UNCHANGED <<tail, pc, index, tailIndex, tailData, common,
                     options, needle, data, adds, words>>
  BY Zenon DEF StoreCommon, call
<1>2. /\ Joined(Divided, needle, Before, s) /\ Before \in Nat
      /\ Path(cells, Divided)[Before + tailAt - 1] = state
      /\ common \in 0..Len(s) /\ tailAt \in 1..(common + 1) /\ Len(s) \in Nat
      /\ Word(Divided)
  BY <1>1, DividedFacts
<1>3. /\ Len(Divided) \in Nat /\ Len(Divided) = Before + Len(s)
      /\ \A j \in 1..Len(s) : Divided[Before + j] = s[j]
  BY <1>2, JoinedRest
<1>4. cells[state].kids = {} /\ cells[state].base = 1
  BY <1>1 DEF DInv, IInv, CallOK
<1>5. Tree(cells) /\ state \in DOMAIN cells /\ SuffixesOK(tail)
  BY DEF DInv, IInv, Arguments
<1> PICK m : m = Before + tailAt - 1
  OBVIOUS
<1>6. /\ m \in Nat /\ m + 1 <= Len(Divided) /\ tailAt \in 1..Len(s)
      /\ m + 1 = Before + tailAt
  BY SMT, <1>1, <1>2, <1>3
<1>7. char = Divided[m + 1]
  BY <1>3, <1>6
<1>8. Missing(cells, Divided, m, state, char)
  BY <1>2, <1>4, <1>6, <1>7 DEF Missing
<1>9. AsBefore(cells, tail, cells', tail) /\ Path(cells', Divided)[m + 1] = state'
  <2>1. cells[state].base > 0
    BY <1>4
  <2> QED BY <1>1, <1>5, <1>8, <2>1, StoreOn
<1>10. Divided' = Divided /\ Before' = Before
  BY <1>1 DEF Divided, Before
<1>11. WordsOK'
  <2>1. HoldsBut(cells', tail', words', Divided')
    <3>1. HoldsBut(cells, tail, words, Divided)
      BY <1>1 DEF DInv, WordsOK
    <3> QED BY <1>1, <1>9, <1>10, <3>1, NeedleWord DEF HoldsBut, AsBefore
  <2>2. Apart(Divided', needle', Before', tail'[tailIndex'], common', words',
              tailData')
    BY <1>1, <1>10, DividedFacts
  <2> QED BY <1>1, <2>1, <2>2 DEF WordsOK, DInv
<1>12. WayOK'
  <2>1. Before' + tailAt' - 1 = m + 1
    BY SMT, <1>1, <1>2, <1>10
  <2> QED BY <1>1, <1>9, <1>10, <2>1 DEF WayOK
<1>13. DictionaryStep
  BY <1>1, InCall
<1> QED BY <1>1, <1>11, <1>12, <1>13 DEF DInv

\* trie_collisionInTail_needle.
LEMMA BranchNeedleWords ==
  ASSUME DInv, IInv', BranchNeedle PROVE DInv' /\ DictionaryStep
<1> PICK rest : rest = SubSeq(needle, index, Len(needle))
  OBVIOUS
<1> PICK r : r = Branch(rest, data)
  OBVIOUS
<1> PICK s : s = tail[tailIndex]
  OBVIOUS
<1> PICK L : L = DOMAIN tail \ {tailIndex}
  OBVIOUS
<1>1. /\ pc = "common" /\ tailAt > common /\ pc' = "tail"
      /\ tail' = StoreTail(rest) /\ cells' = r.cells /\ state' = r.state
      /\ UNCHANGED <<index, tailIndex, tailData, tailAt, common,
                     options, needle, data, adds, words>>
  BY Zenon DEF BranchNeedle, split, call
<1>2. /\ Apart(Divided, needle, Before, s, common, words, tailData)
      /\ Joined(Divided, needle, Before, s)
      /\ Path(cells, Divided)[Before + tailAt - 1] = state
      /\ Before \in Nat /\ Len(s) \in Nat
      /\ common \in 0..Len(s) /\ tailAt \in 1..(common + 1)
      /\ needle \in Needles /\ Word(needle) /\ Len(needle) \in Nat
      /\ index \in 1..(Len(needle) + 1) /\ index = Before + common + 1
      /\ Word(Divided) /\ Filled(tail)
  BY <1>1, DividedFacts
<1>3. /\ Tree(cells) /\ state \in DOMAIN cells /\ SuffixesOK(tail)
      /\ Inner(cells, state) /\ cells[state].kids = {}
      /\ cells[state].base = 1 /\ Linked(cells, L) /\ data \in Data
      /\ tailIndex \in DOMAIN tail /\ options.useUserData
  BY <1>1, SplitFacts DEF DInv, IInv, CallOK
<1> PICK m : m = Before + common
  OBVIOUS
<1>4. /\ m \in 0..Len(needle) /\ m <= Len(needle) /\ m + 1 = index
      /\ Before + tailAt - 1 = m
  BY SMT, <1>1, <1>2
<1>5. Path(cells, Divided)[m] = state /\ Path(cells, needle)[m] = state
  <2>1. Path(cells, Divided)[m] = state
    BY <1>2, <1>4
  <2>2. common \in 0..Len(s) /\ Before + common <= Len(needle)
    BY <1>2, <1>4
  <2>3. Path(cells, Divided)[Before + common]
          = Path(cells, needle)[Before + common]
    BY SMTT(30), <1>2, <1>3, <2>2, JoinedPath
  <2> QED BY <2>1, <2>3
<1>6. rest = SubSeq(needle, m + 1, Len(needle))
  BY <1>4
<1>7. RestIs(rest, needle, m)
  BY <1>2, <1>4, <1>6, RestFacts
<1>8. /\ rest \in Seq(Nat)
      /\ rest # << >> => Head(rest) \in Nat /\ Head(rest) > END_OF_TEXT
      /\ \A k \in DOMAIN rest : rest[k] > END_OF_TEXT
  BY <1>7 DEF RestIs
<1>9. Stored(cells, tail, cells', tail', needle, data)
  <2>1. cells[state].base > 0 /\ L \subseteq DOMAIN tail
    BY <1>3
  <2>2. rest # << >> => Head(rest) \notin cells[state].kids
    BY <1>3
  <2> QED BY <1>1, <1>2, <1>3, <1>4, <1>5, <1>6, <2>1, <2>2, BranchData
<1>10. Path(cells', Divided)[m] = state'
  <2>1. m \in 0..Len(Divided)
    BY <1>1, DividedEnd
  <2>2. ASSUME NEW k \in 0..Len(Divided), Path(cells, Divided)[k] = state
        PROVE  Path(r.cells, Divided)[k] = r.state
    <3>1. /\ Tree(cells) /\ state \in DOMAIN cells /\ SuffixesOK(tail)
          /\ cells[state].kids = {} /\ cells[state].base = 1
          /\ Inner(cells, state) /\ data \in Data
      BY <1>3
    <3>2. /\ rest \in Seq(Nat)
          /\ rest # << >> => Head(rest) \in Nat /\ Head(rest) > END_OF_TEXT
      BY <1>8
    <3>3. Word(Divided)
      BY <1>2
    <3>4. r = Branch(rest, data)
      OBVIOUS
    <3> QED BY ONLY <2>2, <3>1, <3>2, <3>3, <3>4, BranchState
  <2> QED BY <1>1, <1>5, <2>1, <2>2
<1>11. tail'[tailIndex'] = s /\ Filled(tail')
  BY <1>1, <1>2, <1>3, <1>8, StoreTailKeeps, StoreTailFilled
<1>12. Divided' = Divided /\ Before' = Before
  BY <1>1, <1>11 DEF Divided, Before
<1>13. WordsOK'
  <2>1. HoldsWithBut(cells', tail', words', Divided', needle', data')
    <3>1. HoldsBut(cells, tail, words, Divided)
      BY <1>1 DEF DInv, WordsOK
    <3>2. Divided # needle
      BY <1>2 DEF Apart
    <3>3. HoldsWithBut(cells', tail', words, Divided, needle, data)
      BY <1>9, <3>1, <3>2, NeedleWord DEF HoldsBut, HoldsWithBut, Stored
    <3> QED BY <1>1, <1>12, <3>3
  <2>2. Apart(Divided', needle', Before', tail'[tailIndex'], common', words',
              tailData')
    BY <1>1, <1>2, <1>11, <1>12
  <2> QED BY <1>1, <1>11, <2>1, <2>2 DEF WordsOK, DInv
<1>14. WayOK'
  <2>1. Before' + tailAt' - 1 = m
    BY <1>1, <1>4, <1>12
  <2> QED BY <1>1, <1>10, <1>12, <2>1 DEF WayOK
<1>15. DictionaryStep
  BY <1>1, InCall
<1> QED BY <1>1, <1>13, <1>14, <1>15 DEF DInv

\* trie_collisionInTail_tail, then tailBuilder_freeCell.
LEMMA BranchTailWords ==
  ASSUME DInv, IInv', BranchTail PROVE DInv' /\ DictionaryStep
<1> PICK s : s = tail[tailIndex]
  OBVIOUS
<1> PICK rest : rest = SubSeq(s, tailAt, Len(s))
  OBVIOUS
<1> PICK grown : grown = StoreTail(rest)
  OBVIOUS
<1> PICK r : r = Branch(rest, tailData)
  OBVIOUS
<1> PICK L : L = DOMAIN tail \ {tailIndex}
  OBVIOUS
<1>1. /\ pc = "tail" /\ pc # "idle" /\ cells' = r.cells
      /\ tail' = [i \in DOMAIN grown \ {tailIndex} |-> grown[i]]
      /\ EndCall("idle")
  BY Zenon DEF BranchTail
<1>2. /\ Apart(Divided, needle, Before, s, common, words, tailData)
      /\ Joined(Divided, needle, Before, s)
      /\ Path(cells, Divided)[Before + tailAt - 1] = state
      /\ Before \in Nat /\ Len(s) \in Nat /\ common \in 0..Len(s)
      /\ needle \in Needles /\ Word(Divided) /\ Filled(tail)
  BY <1>1, DividedFacts
<1>3. /\ Tree(cells) /\ state \in DOMAIN cells /\ SuffixesOK(tail)
      /\ cells[state].base > 0 /\ Linked(cells, L)
      /\ tailIndex \in DOMAIN tail /\ options.useUserData
      /\ data \in Data /\ tailData \in Data
  BY <1>1, SplitFacts DEF DInv
<1>4. /\ tailAt = common + 1 /\ rest \in Seq(Nat)
      /\ \A k \in DOMAIN rest : rest[k] > END_OF_TEXT
      /\ Len(rest) > 0 => Head(rest) \notin cells[state].kids
  BY <1>1, SplitRest DEF DInv
<1> PICK m : m = Before + common
  OBVIOUS
<1>5. m \in 0..Len(Divided) /\ rest = SubSeq(Divided, m + 1, Len(Divided))
  <2>1. /\ Before + common \in 0..Len(Divided)
        /\ SubSeq(s, common + 1, Len(s))
             = SubSeq(Divided, (Before + common) + 1, Len(Divided))
    BY <1>1, DividedEnd
  <2> QED BY <1>4, <2>1
<1>6. Path(cells, Divided)[m] = state
  <2>1. Before + tailAt - 1 = m
    BY SMT, <1>2, <1>4
  <2> QED BY <1>2, <2>1
<1>7. Stored(cells, tail, cells', grown, Divided, tailData)
  <2>1. L \subseteq DOMAIN tail
    OBVIOUS
  <2>2. rest # << >> => Head(rest) \notin cells[state].kids
    <3>1. rest # << >> => Len(rest) > 0
      <4>1. Len(rest) \in Nat /\ (rest # << >> => Len(rest) # 0)
        BY <1>4, EmptySeq, LenProperties
      <4>2. \A l \in Nat : l # 0 => l > 0
        OBVIOUS
      <4> QED BY Zenon, <4>1, <4>2
    <3> QED BY <1>4, <3>1
  <2> QED BY <1>1, <1>2, <1>3, <1>5, <1>6, <2>1, <2>2, BranchData
<1> PICK N : N = IF Len(rest) > 1 THEN {FreeTail} ELSE {}
  OBVIOUS
<1>8. /\ Tree(cells') /\ SuffixesOK(grown) /\ Linked(cells', L \union N)
      /\ DOMAIN grown = DOMAIN tail \union N /\ FreeTail \notin DOMAIN tail
  <2>1. L \subseteq DOMAIN tail
    OBVIOUS
  <2>2. Branched(r.cells, r.state, grown, L, rest)
    BY <1>3, <1>4, <2>1, BranchKeeps
  <2> QED BY <1>1, <2>2 DEF Branched
<1>9. /\ DOMAIN tail' = DOMAIN grown \ {tailIndex}
      /\ \A x \in DOMAIN tail' : tail'[x] = grown[x]
  BY <1>1
<1>10. AsBefore(cells', grown, cells', tail')
  <2>1. tailIndex \notin N
    BY <1>3, <1>8
  <2>2. L \union N \subseteq DOMAIN grown /\ L \union N \subseteq DOMAIN tail'
    BY <1>8, <1>9, <2>1
  <2>3. \A x \in L \union N : grown[x] = tail'[x]
    BY <1>9, <2>2
  <2>4. SuffixesOK(tail')
    BY DEF IInv
  <2> QED BY <1>8, <2>2, <2>3, <2>4, SuffixData
<1>11. HoldsWith(cells', tail', words, needle, data)
  <2>1. HoldsWithBut(cells, tail, words, Divided, needle, data)
    BY <1>1 DEF DInv, WordsOK
  <2>2. /\ Divided # needle
        /\ Divided \in Needles => DataOf(words, Divided) = {tailData}
    BY <1>2 DEF Apart
  <2>3. \A w \in Needles :
          EndData(cells', tail', w) =
            IF w = Divided THEN {tailData} ELSE EndData(cells, tail, w)
    BY <1>7, <1>10, NeedleWord DEF Stored, AsBefore
  <2> QED BY <2>1, <2>2, <2>3 DEF HoldsWithBut, HoldsWith
<1>12. Filled(tail')
  <2>1. Filled(grown)
    BY <1>2, <1>3, <1>4, StoreTailFilled
  <2> QED BY <1>9, <2>1 DEF Filled
<1> QED BY <1>1, <1>2, <1>3, <1>11, <1>12, ReturnKeeps

-----------------------------------------------------------------------------
(* The dictionary *)

\* createTrie: there are no words yet.
LEMMA InitWords ==
  ASSUME Init, IInv, \A o \in Options : o.useUserData
  PROVE  DInv /\ Promise!Init
<1>1. /\ options \in Options /\ pc = "idle" /\ tail = << >> /\ words = {}
      /\ cells = [i \in {Root} |->
           [base |-> 1, check |-> 0, kids |-> {}, data |-> Empty]]
  BY DEF Init
<1>2. cells[Root].kids = {} /\ cells[Root].base > 0 /\ Root \in DOMAIN cells
  BY <1>1
<1>3. Tree(cells) /\ SuffixesOK(tail)
  BY DEF IInv
<1>4. ASSUME NEW w \in Needles PROVE Ends(cells, tail, w) = {}
  <2>1. Word(w) /\ Len(w) \in Nat
    BY NeedleWord, NeedleFacts
  <2>2. Path(cells, w)[0] = Root
    BY <2>1, PathSteps
  <2>3. 0 \in 0..Len(w)
    BY <2>1
  <2> QED BY <1>2, <1>3, <2>1, <2>2, <2>3, NoEnd
<1>5. Holds(cells, tail, words)
  BY <1>1, <1>4 DEF Holds, EndData, DataOf
<1>6. Filled(tail)
  BY <1>1 DEF Filled
<1>7. WordsOK
  BY <1>1, <1>5, <1>6 DEF WordsOK
<1>8. WayOK
  BY <1>1 DEF WayOK
<1>9. Promise!Init
  BY Zenon, <1>1 DEF Promise!Init
<1> QED BY <1>1, <1>7, <1>8, <1>9 DEF DInv

\* A step that changes nothing.
LEMMA StutterWords ==
  ASSUME DInv, IInv', UNCHANGED vars PROVE DInv' /\ DictionaryStep
<1>1. UNCHANGED <<cells, tail, pc, needle, data, index, state, tailIndex,
                  tailData, tailAt, common, adds, options, words>>
  BY DEF vars, structure, split, call
<1>2. Before' = Before /\ Divided' = Divided
  BY <1>1 DEF Before, Divided
<1>3. WordsOK'
  BY <1>1, <1>2 DEF DInv, WordsOK
<1>4. WayOK'
  BY <1>1, <1>2 DEF DInv, WayOK
<1>5. UNCHANGED Promise!dvars
  BY Zenon, <1>1 DEF Promise!dvars
<1> QED BY <1>1, <1>3, <1>4, <1>5 DEF DInv, DictionaryStep

\* Every step is one of the dictionary, or changes nothing in it.
LEMMA WordsKept ==
  ASSUME DInv, IInv', [Next]_vars PROVE DInv' /\ DictionaryStep
<1>1. CASE AddNeedle BY <1>1, AddNeedleWords
<1>2. CASE InsertBranch BY <1>2, InsertBranchWords
<1>3. CASE InsertNode BY <1>3, InsertNodeWords
<1>4. CASE Collide BY <1>4, CollideWords
<1>5. CASE Follow BY <1>5, FollowWords
<1>6. CASE EndOfNeedle BY <1>6, EndOfNeedleWords
<1>7. CASE CollisionInTail BY <1>7, CollisionInTailWords
<1>8. CASE StoreCommon BY <1>8, StoreCommonWords
<1>9. CASE BranchNeedle BY <1>9, BranchNeedleWords
<1>10. CASE BranchTail BY <1>10, BranchTailWords
<1>11. CASE UNCHANGED vars BY <1>11, StutterWords
<1> QED
  BY Zenon, <1>1, <1>2, <1>3, <1>4, <1>5, <1>6, <1>7, <1>8, <1>9, <1>10,
     <1>11 DEF Next

\* Whatever is added in whatever order, with a tail and without: after each
\* call the trie holds what it held before and the needle with its data, or,
\* if it held the needle, all that it held; it holds nothing else, and in
\* between nothing is seen.  This is about tries with user data: without them
\* userDataList_set writes through NULL (src/dat.c).
THEOREM ConstructionImplementsDictionary ==
  ASSUME \A o \in Options : o.useUserData
  PROVE  Spec => ImplementsDictionary
<1>1. Init /\ IInv => DInv /\ Promise!Init
  BY InitWords
<1>2. DInv /\ IInv' /\ [Next]_vars => DInv'
  BY WordsKept
<1>3. DInv /\ IInv' /\ [Next]_vars => [Promise!Next]_(Promise!dvars)
  BY WordsKept DEF DictionaryStep
<1> QED
  BY <1>1, <1>2, <1>3, Invariance, PTL DEF Spec, ImplementsDictionary, Promise!Spec

=============================================================================
