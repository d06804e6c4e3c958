---------------------------- MODULE TriePoolProofs ----------------------------
(***************************************************************************)
(* Proofs about the cell pool of src/dat.c, for every initial size, every  *)
(* value a cell may carry and any number of steps.  The chain of free      *)
(* cells is treated as two functions over the set of free cells (Ring in   *)
(* TriePool): the first lemmas say what unlinking an element, linking one  *)
(* in before a member and hanging a second chain onto the last member do   *)
(* to such a ring, without a word about cells; the lemmas after them carry *)
(* each result over to the base and check fields.  The inductive invariant *)
(* is IInv: the ring alone is not inductive, for trie_poolReallocate and   *)
(* trie_freeCell keep it only because the last cell is always free, and    *)
(* the walks only because of what they know of the cells they passed.      *)
(***************************************************************************)
EXTENDS TriePool, TLAPS

\* calculateAllocation (memory.c), as long as its cap is out of reach, leaves
\* at least two cells more than its argument.
LEMMA Allocation ==
  ASSUME NEW n \in Nat, n >= 1
  PROVE  /\ CalculateAllocation(n) \in Nat
         /\ n + 1 < IntMax => CalculateAllocation(n) > n + 1
BY TriePoolAssumption DEF CalculateAllocation

\* trie_poolCheckCapacity never shrinks the pool, and there is a cell beyond
\* the one that is asked for.
LEMMA CapacityGrows ==
  ASSUME size \in Nat, NEW cell \in 2..MaxIndex
  PROVE  /\ Capacity(cell) \in Nat
         /\ Capacity(cell) >= size
         /\ Capacity(cell) > cell + 1
BY Allocation, TriePoolAssumption DEF Capacity

\* In a ring the two links of a member are inverse to each other.
LEMMA Mutual ==
  ASSUME NEW f, NEW p, NEW s,
         \A i \in f : i \in Nat /\ i > 0,
         \A i \in f \union {0} : p[i] \in Nat /\ s[i] \in Nat,
         Ring(p, s, f), NEW i \in f
  PROVE  s[p[i]] = i /\ p[s[i]] = i
<1>0. /\ i \in Nat \ {0} /\ i \in f \union {0}
      /\ p[i] \in f \union {0} /\ s[i] \in f \union {0}
      /\ p[i] \in Nat /\ s[i] \in Nat /\ p[i] < i /\ (s[i] = 0 \/ s[i] > i)
  BY DEF Ring
<1>1. s[p[i]] = i
  <2> DEFINE j == p[i]
             k == s[j]
  <2>1. k \in f /\ k <= i
    BY <1>0 DEF Ring
  <2>2. k > j
    <3>1. CASE j = 0
      BY <2>1, <3>1
    <3>2. CASE j # 0
      BY <1>0, <2>1, <3>2 DEF Ring
    <3> QED
      BY <3>1, <3>2
  <2>3. ~(k < i)
    BY <1>0, <2>1, <2>2 DEF Ring
  <2> QED
    BY <1>0, <2>1, <2>3
<1>2. p[s[i]] = i
  <2> DEFINE j == s[i]
             k == p[j]
  <2>1. CASE j = 0
    <3>1. k \in f /\ i <= k
      BY <1>0, <2>1 DEF Ring
    <3>2. ~(k > i)
      BY <1>0, <2>1, <3>1 DEF Ring
    <3> QED
      BY <1>0, <3>1, <3>2
  <2>2. CASE j # 0
    <3>1. j \in f /\ i < j
      BY <1>0, <2>2
    <3>2. k \in f /\ i <= k /\ k < j
      BY <1>0, <3>1 DEF Ring
    <3>3. ~(k > i)
      BY <1>0, <3>1, <3>2 DEF Ring
    <3> QED
      BY <1>0, <3>2, <3>3
  <2> QED
    BY <2>1, <2>2
<1> QED
  BY <1>1, <1>2

\* trie_allocateCell: bending the two links round a member leaves a ring of
\* the others.
LEMMA RingRemove ==
  ASSUME NEW f, NEW p, NEW s,
         \A i \in f : i \in Nat /\ i > 0,
         \A i \in f \union {0} : p[i] \in Nat /\ s[i] \in Nat,
         Ring(p, s, f), NEW c \in f,
         NEW q, NEW t,
         \A i \in (f \ {c}) \union {0} :
            /\ t[i] = (IF i = p[c] THEN s[c] ELSE s[i])
            /\ q[i] = (IF i = s[c] THEN p[c] ELSE p[i])
  PROVE  Ring(q, t, f \ {c})
<1> DEFINE g == f \ {c}
<1>0. \A i \in f : s[p[i]] = i /\ p[s[i]] = i
  BY Mutual
<1>1. \A i \in f \union {0} : s[i] = c => i = p[c]
  BY <1>0 DEF Ring
<1>2. \A i \in f \union {0} : p[i] = c => i = s[c]
  BY <1>0 DEF Ring
<1>3. /\ p[c] \in g \union {0} /\ s[c] \in g \union {0} /\ p[c] < c
      /\ s[c] = 0 \/ s[c] > c
  BY DEF Ring
<1>4. \A i \in g \union {0} : t[i] \in g \union {0} /\ q[i] \in g \union {0}
  BY <1>1, <1>2, <1>3 DEF Ring
<1>5. \A i \in g : (t[i] = 0 \/ t[i] > i) /\ q[i] < i
  BY <1>3 DEF Ring
<1>6. \A i \in g \union {0}, k \in g : k > i => t[i] # 0 /\ k >= t[i]
  BY <1>0, <1>3, SMTT(60) DEF Ring
<1>7. \A i \in g, k \in g : k < i => k <= q[i]
  BY <1>0, <1>3, SMTT(60) DEF Ring
<1>8. \A k \in g : k <= q[0]
  BY <1>0, <1>3 DEF Ring
<1> QED
  BY <1>4, <1>5, <1>6, <1>7, <1>8 DEF Ring

\* trie_freeCell: linking c in before the member n, when every member below n
\* is below c too, makes a ring of all of them.
LEMMA RingInsert ==
  ASSUME NEW f, NEW p, NEW s,
         \A i \in f : i \in Nat /\ i > 0,
         \A i \in f \union {0} : p[i] \in Nat /\ s[i] \in Nat,
         Ring(p, s, f),
         NEW n \in f, NEW c \in Nat \ {0}, c < n, c \notin f,
         \A k \in f : k < n => k < c,
         NEW q, NEW t,
         t[c] = n, q[c] = p[n],
         \A i \in f \union {0} :
            /\ t[i] = IF i = p[n] THEN c ELSE s[i]
            /\ q[i] = IF i = n THEN c ELSE p[i]
  PROVE  Ring(q, t, f \union {c})
<1> DEFINE g == f \union {c}
<1>0. s[p[n]] = n
  BY Mutual
<1>1. p[n] \in f \union {0} /\ p[n] < c /\ \A k \in f : k < n => k <= p[n]
  BY DEF Ring
<1>2. \A i \in f \union {0} : i # p[n] /\ i < c => s[i] # 0 /\ s[i] <= p[n]
  <2> SUFFICES ASSUME NEW i \in f \union {0}, i # p[n], i < c
               PROVE  s[i] # 0 /\ s[i] <= p[n]
    OBVIOUS
  <2>1. s[i] \in f /\ s[i] <= n
    BY DEF Ring
  <2>2. s[i] # n
    <3>1. CASE i = 0
      BY <1>1, <3>1 DEF Ring
    <3>2. CASE i # 0
      BY <3>2, Mutual
    <3> QED
      BY <3>1, <3>2
  <2> QED
    BY <1>1, <2>1, <2>2
<1>4. \A i \in g \union {0} : t[i] \in g \union {0} /\ q[i] \in g \union {0}
  BY <1>1 DEF Ring
<1>5. \A i \in g : (t[i] = 0 \/ t[i] > i) /\ q[i] < i
  BY <1>0, <1>1 DEF Ring
<1>6. \A i \in g \union {0}, k \in g : k > i => t[i] # 0 /\ k >= t[i]
  BY <1>0, <1>1, <1>2 DEF Ring
<1>7. \A i \in g, k \in g : k < i => k <= q[i]
  BY <1>0, <1>1 DEF Ring
<1>8. \A k \in g : k <= q[0]
  BY <1>0, <1>1 DEF Ring
<1> QED
  BY <1>4, <1>5, <1>6, <1>7, <1>8 DEF Ring

\* A link is the negated field.
LEMMA LinksValue ==
  ASSUME NEW n \in Nat, NEW x \in [0..(n - 1) -> Int]
  PROVE  \A i \in 0..(n - 1) : Links(x)[i] = -x[i]
BY DEF Links

\* createTrie: the chain of an empty pool is a ring of all cells from 2 on.
LEMMA InitInv == Init => IInv
<1> SUFFICES ASSUME Init PROVE IInv
  OBVIOUS
<1>1. TypeOK
  <2>1. FirstFree \in Int
    BY DEF FirstFree
  <2> QED
    BY <2>1, TriePoolAssumption DEF Init, TypeOK
<1>2. Free = 2..(size - 1)
  BY DEF Init, Free, FreeIn
<1>3. FreeRing
  <2> DEFINE p == Links(base)
             s == Links(check)
  <2>1. /\ p[0] = size - 1 /\ s[0] = 2
        /\ \A i \in Free : p[i] = (IF i = 2 THEN 0 ELSE i - 1)
        /\ \A i \in Free : s[i] = (IF i = size - 1 THEN 0 ELSE i + 1)
    <3>1. \A i \in 0..(size - 1) : p[i] = -base[i] /\ s[i] = -check[i]
      BY <1>1, LinksValue DEF TypeOK
    <3> HIDE DEF p, s
    <3>2. size \in Nat /\ size >= 4 /\ \A i \in Free : i \in 2..(size - 1)
      BY <1>1, <1>2 DEF TypeOK
    <3>3. p[0] = -base[0] /\ s[0] = -check[0]
      BY <3>1, <3>2
    <3>4. base[0] = -(size - 1) /\ check[0] = -FirstFree
      BY <3>2 DEF Init
    <3>5. \A i \in Free : base[i] = (IF i = 2 THEN 0 ELSE -(i - 1))
      BY <3>2 DEF Init
    <3>6. \A i \in Free : check[i] = (IF i = size - 1 THEN 0 ELSE -(i + 1))
      BY <3>2 DEF Init
    <3>7. \A i \in Free : p[i] = -base[i] /\ s[i] = -check[i]
      BY <3>1, <3>2
    <3>8. \A i \in Free : p[i] = (IF i = 2 THEN 0 ELSE i - 1)
      BY <3>2, <3>5, <3>7
    <3>9. \A i \in Free : s[i] = (IF i = size - 1 THEN 0 ELSE i + 1)
      BY <3>2, <3>6, <3>7
    <3>10. p[0] = size - 1 /\ s[0] = 2
      <4>1. p[0] = size - 1
        BY <3>2, <3>3, <3>4
      <4>2. FirstFree \in Int
        BY DEF FirstFree
      <4>3. s[0] = FirstFree
        BY <3>3, <3>4, <4>2
      <4> QED
        BY <4>1, <4>3 DEF FirstFree
    <3> QED
      BY <3>8, <3>9, <3>10
  <2> HIDE DEF p, s
  <2>2. Ring(p, s, Free)
    <3>1. /\ size \in Nat /\ size >= 4
          /\ \A i : i \in Free <=> i \in 2..(size - 1)
      BY <1>1, <1>2 DEF TypeOK
    <3> QED
      BY <2>1, <3>1 DEF Ring
  <2> QED
    BY <2>2 DEF FreeRing, p, s
<1>4. LastCellFree /\ WalkInv /\ FoundIsFirst
  <2>1. pc = "idle" /\ size \in Nat /\ size >= 4
    BY <1>1 DEF Init, TypeOK
  <2>2. check[size - 1] = 0 /\ check[1] = 0
    BY <2>1 DEF Init
  <2> QED
    BY <2>1, <2>2 DEF LastCellFree, WalkInv, FoundIsFirst
<1> QED
  BY <1>1, <1>3, <1>4 DEF IInv

\* The links of a free cell and of cell 0 stay among the free cells and 0.
LEMMA RingTypes ==
  ASSUME TypeOK, FreeRing
  PROVE  /\ \A i \in Free : i \in Nat /\ i > 0 /\ i \in 2..(size - 1)
         /\ \A i \in Free \union {0} : i \in 0..(size - 1)
         /\ \A i \in Free \union {0} :
              /\ Links(base)[i] = -base[i] /\ Links(check)[i] = -check[i]
              /\ Links(base)[i] \in Nat /\ Links(check)[i] \in Nat
              /\ -base[i] \in Free \union {0} /\ -check[i] \in Free \union {0}
<1>1. \A i \in Free : i \in Nat /\ i > 0 /\ i \in 2..(size - 1)
  BY DEF TypeOK, Free, FreeIn
<1>2. \A i \in Free \union {0} : i \in 0..(size - 1)
  BY <1>1 DEF TypeOK
<1>3. \A i \in Free \union {0} :
         Links(base)[i] = -base[i] /\ Links(check)[i] = -check[i]
  BY <1>2 DEF Links, TypeOK
<1>4. \A i \in Free \union {0} :
        /\ Links(base)[i] \in Free \union {0}
        /\ Links(check)[i] \in Free \union {0}
  BY DEF FreeRing, Ring
<1> QED
  BY <1>1, <1>2, <1>3, <1>4

\* trie_poolReallocate: the chain of the new cells, hung onto the last free
\* cell, makes one ring; the cells in use keep their fields.
LEMMA GrowRing ==
  ASSUME TypeOK, FreeRing, LastCellFree,
         NEW n \in Nat, n > size
  PROVE  /\ GrownCheck(n) \in [0..(n - 1) -> Int]
         /\ GrownBase(n) \in [0..(n - 1) -> Int]
         /\ \A i \in 1..(size - 1) : check[i] > 0 \/ i = 1 =>
              GrownCheck(n)[i] = check[i] /\ GrownBase(n)[i] = base[i]
         /\ FreeIn(GrownCheck(n), n) = Free \union (size..(n - 1))
         /\ Ring(Links(GrownBase(n)), Links(GrownCheck(n)),
                 Free \union (size..(n - 1)))
<1> DEFINE c == GrownCheck(n)
           b == GrownBase(n)
           f == Free \union (size..(n - 1))
<1>0. size \in Nat /\ size >= 4
  BY DEF TypeOK
<1>1. c \in [0..(n - 1) -> Int] /\ b \in [0..(n - 1) -> Int]
  BY DEF TypeOK, GrownCheck, GrownBase
<1>2. -base[0] = size - 1 /\ size - 1 \in Free
  <2>1. size - 1 \in Free
    BY DEF TypeOK, Free, FreeIn, LastCellFree
  <2>2. Links(base)[0] >= size - 1
    BY <2>1 DEF FreeRing, Ring
  <2> QED
    BY <1>0, <2>1, <2>2, RingTypes
<1>3. /\ \A i \in 0..(size - 2) : c[i] = check[i]
      /\ c[size - 1] = -size
      /\ \A i \in size..(n - 2) : c[i] = -(i + 1)
      /\ c[n - 1] = 0
  BY <1>2 DEF GrownCheck, TypeOK
<1>4. /\ b[0] = -(n - 1)
      /\ \A i \in 1..(size - 1) : b[i] = base[i]
      /\ \A i \in size..(n - 1) : b[i] = -(i - 1)
  BY DEF GrownBase, TypeOK
<1>5. FreeIn(c, n) = f
  <2> HIDE DEF c, b
  <2>1. \A i \in 2..(size - 1) : c[i] <= 0 <=> check[i] <= 0
    BY <1>0, <1>2, <1>3 DEF Free, FreeIn, TypeOK
  <2>2. \A i \in size..(n - 1) : c[i] <= 0
    BY <1>0, <1>3
  <2>3. \A i : i \in FreeIn(c, n) <=> i \in f
    BY <1>0, <2>1, <2>2 DEF FreeIn, Free
  <2> QED
    BY <2>3
<1>6. Ring(Links(b), Links(c), f)
  <2> DEFINE p == Links(base)
             s == Links(check)
             q == Links(b)
             t == Links(c)
  <2>1. \A i \in Free : i \in 2..(size - 1)
    BY RingTypes
  <2>2. /\ q[0] = n - 1
        /\ t[size - 1] = size /\ t[n - 1] = 0
        /\ \A i \in size..(n - 1) : q[i] = i - 1
        /\ \A i \in size..(n - 2) : t[i] = i + 1
    <3>1. \A i \in 0..(n - 1) : q[i] = -b[i] /\ t[i] = -c[i]
      BY <1>1, LinksValue
    <3> HIDE DEF q, t, b, c
    <3> QED
      BY <1>0, <1>3, <1>4, <3>1
  <2>3. /\ \A i \in Free : q[i] = p[i]
        /\ \A i \in Free \union {0} : i # size - 1 => t[i] = s[i]
    <3>1. \A i \in Free \union {0} : i \in 0..(n - 1) /\ i \in 0..(size - 1)
      BY <1>0, <2>1
    <3> QED
      <4>1. \A i \in 0..(n - 1) : q[i] = -b[i] /\ t[i] = -c[i]
        BY <1>1, LinksValue
      <4>2. \A i \in 0..(size - 1) : p[i] = -base[i] /\ s[i] = -check[i]
        BY LinksValue DEF TypeOK
      <4> HIDE DEF p, s, q, t, b, c
      <4> QED
        BY <1>0, <1>3, <1>4, <2>1, <3>1, <4>1, <4>2
  <2>4. Ring(p, s, Free)
    BY DEF FreeRing
  <2> HIDE DEF p, s, q, t
  <2>5. \A i \in f \union {0} : t[i] \in f \union {0} /\ q[i] \in f \union {0}
    BY <1>0, <1>2, <2>1, <2>2, <2>3, <2>4 DEF Ring
  <2>6. \A i \in f : (t[i] = 0 \/ t[i] > i) /\ q[i] < i
    BY <1>0, <1>2, <2>1, <2>2, <2>3, <2>4 DEF Ring
  <2>7. \A i \in f \union {0}, k \in f : k > i => t[i] # 0 /\ k >= t[i]
    BY <1>0, <1>2, <2>1, <2>2, <2>3, <2>4 DEF Ring
  <2>8. \A i \in f, k \in f : k < i => k <= q[i]
    BY <1>0, <1>2, <2>1, <2>2, <2>3, <2>4 DEF Ring
  <2>9. \A k \in f : k <= q[0]
    BY <1>0, <2>1, <2>2
  <2>10. Ring(q, t, f)
    BY <2>5, <2>6, <2>7, <2>8, <2>9 DEF Ring
  <2> QED
    BY <2>10 DEF q, t
<1>7. \A i \in 1..(size - 1) : check[i] > 0 \/ i = 1 =>
        c[i] = check[i] /\ b[i] = base[i]
  BY <1>2, <1>3, <1>4, SMTT(60) DEF TypeOK, Free, FreeIn
<1> QED
  BY <1>1, <1>5, <1>6, <1>7

\* trie_allocateCell, on the fields: the cell leaves the ring, and of the
\* other fields only those of its two neighbours change.
LEMMA UnlinkRing ==
  ASSUME NEW n \in Nat, n >= 2, NEW c \in [0..(n - 1) -> Int],
         NEW b \in [0..(n - 1) -> Int], NEW f,
         \A i \in f : i \in 2..(n - 1),
         Ring(Links(b), Links(c), f),
         NEW cell \in f, NEW v \in Int, NEW parent \in Nat \ {0}
  PROVE  LET c2 == UnlinkedCheck(c, b, cell, parent)
             b2 == UnlinkedBase(c, b, cell, v)
         IN  /\ c2 \in [0..(n - 1) -> Int] /\ b2 \in [0..(n - 1) -> Int]
             /\ \A i \in 0..(n - 1) : i \notin f \union {0} =>
                  c2[i] = c[i] /\ b2[i] = b[i]
             /\ \A i \in f : i # cell => c2[i] \in {c[i], c[cell]}
             /\ c2[cell] = parent
             /\ Ring(Links(b2), Links(c2), f \ {cell})
<1> DEFINE p == Links(b)
           s == Links(c)
           c2 == UnlinkedCheck(c, b, cell, parent)
           b2 == UnlinkedBase(c, b, cell, v)
           q == Links(b2)
           t == Links(c2)
<1>1. \A i \in 0..(n - 1) : p[i] = -b[i] /\ s[i] = -c[i]
  BY DEF Links
<1>2. /\ \A i \in f : i \in Nat /\ i > 0
      /\ \A i \in f \union {0} : p[i] \in f \union {0} /\ s[i] \in f \union {0}
      /\ \A i \in f \union {0} : p[i] \in 0..(n - 1) /\ s[i] \in 0..(n - 1)
      /\ p[cell] < cell /\ s[cell] # cell
      /\ \A i \in f \union {0} : i \in 0..(n - 1)
  <2>1. Ring(p, s, f)
    OBVIOUS
  <2> HIDE DEF p, s, c2, b2, q, t
  <2>2. \A i \in f : i \in 0..(n - 1) /\ i \in Nat /\ i > 0
    OBVIOUS
  <2>3. \A i \in f \union {0} : i \in 0..(n - 1)
    BY <2>2
  <2>4. \A i \in f \union {0} : p[i] \in f \union {0} /\ s[i] \in f \union {0}
    BY <2>1, Zenon DEF Ring
  <2>5. \A i \in f \union {0} : p[i] \in 0..(n - 1) /\ s[i] \in 0..(n - 1)
    BY <2>3, <2>4, Zenon
  <2>6. p[cell] < cell /\ (s[cell] = 0 \/ s[cell] > cell)
    BY <2>1, Zenon DEF Ring
  <2>7. s[cell] # cell
    BY <2>2, <2>6
  <2> QED
    BY <2>2, <2>3, <2>4, <2>5, <2>6, <2>7, Zenon
<1>3. c2 \in [0..(n - 1) -> Int] /\ b2 \in [0..(n - 1) -> Int]
  <2>1. c[cell] \in Int /\ b[cell] \in Int /\ parent \in Int
    BY <1>2
  <2> QED
    BY <2>1 DEF UnlinkedCheck, UnlinkedBase
<1>4. /\ -b[cell] = p[cell] /\ -c[cell] = s[cell]
      /\ p[cell] \in 0..(n - 1) /\ s[cell] \in 0..(n - 1)
      /\ cell \in 0..(n - 1)
  BY <1>1, <1>2
<1>5. \A i \in 0..(n - 1) :
        c2[i] = IF i = cell THEN parent
                ELSE IF i = p[cell] THEN c[cell] ELSE c[i]
  BY <1>4 DEF UnlinkedCheck
<1>6. \A i \in 0..(n - 1) :
        b2[i] = IF i = cell THEN v
                ELSE IF i = s[cell] THEN b[cell] ELSE b[i]
  BY <1>4 DEF UnlinkedBase
<1>7. \A i \in (f \ {cell}) \union {0} :
         /\ t[i] = (IF i = p[cell] THEN s[cell] ELSE s[i])
         /\ q[i] = (IF i = s[cell] THEN p[cell] ELSE p[i])
  <2> HIDE DEF c2, b2, p, s
  <2>1. \A i \in 0..(n - 1) : t[i] = -c2[i] /\ q[i] = -b2[i]
    BY <1>3, LinksValue
  <2> HIDE DEF t, q
  <2>2. cell # 0 /\ b[cell] = -p[cell] /\ c[cell] = -s[cell]
    <3>1. b[cell] \in Int /\ c[cell] \in Int
      BY <1>4
    <3>2. p[cell] = -b[cell] /\ s[cell] = -c[cell]
      BY <1>1, <1>4
    <3>3. cell # 0
      BY <1>2
    <3> QED
      BY <3>1, <3>2, <3>3
  <2>3. \A i \in (f \ {cell}) \union {0} : i \in 0..(n - 1) /\ i # cell
    BY <1>2, <2>2
  <2>4. \A i \in (f \ {cell}) \union {0} :
          t[i] = IF i = p[cell] THEN s[cell] ELSE s[i]
    <3>1. s[cell] \in Int /\ -c[cell] = s[cell]
      BY <1>4
    <3> TAKE i \in (f \ {cell}) \union {0}
    <3>2. t[i] = -c2[i] /\ i \in 0..(n - 1) /\ i # cell /\ s[i] = -c[i]
      BY <1>1, <2>1, <2>3
    <3>3. c2[i] = IF i = p[cell] THEN c[cell] ELSE c[i]
      BY <1>5, <3>2
    <3> QED
      BY <3>1, <3>2, <3>3
  <2>5. \A i \in (f \ {cell}) \union {0} :
          q[i] = IF i = s[cell] THEN p[cell] ELSE p[i]
    <3>1. p[cell] \in Int /\ -b[cell] = p[cell]
      BY <1>4
    <3> TAKE i \in (f \ {cell}) \union {0}
    <3>2. q[i] = -b2[i] /\ i \in 0..(n - 1) /\ i # cell /\ p[i] = -b[i]
      BY <1>1, <2>1, <2>3
    <3>3. b2[i] = IF i = s[cell] THEN b[cell] ELSE b[i]
      BY <1>6, <3>2
    <3> QED
      BY <3>1, <3>2, <3>3
  <2> QED
    BY <2>4, <2>5
<1>8. Ring(q, t, f \ {cell})
  <2> HIDE DEF p, s, q, t
  <2>1. \A i \in f : i \in Nat /\ i > 0
    BY <1>2
  <2>2. \A i \in f \union {0} : p[i] \in Nat /\ s[i] \in Nat
    BY <1>2
  <2>3. Ring(p, s, f)
    BY DEF p, s
  <2> QED
    BY <1>7, <2>1, <2>2, <2>3, RingRemove, ZenonT(60)
<1>9. /\ \A i \in 0..(n - 1) : i \notin f \union {0} =>
           c2[i] = c[i] /\ b2[i] = b[i]
      /\ \A i \in f : i # cell => c2[i] \in {c[i], c[cell]}
      /\ c2[cell] = parent
  <2> HIDE DEF c2, b2, p, s
  <2> QED
    BY <1>2, <1>4, <1>5, <1>6
<1> QED
  BY <1>3, <1>8, <1>9

\* trie_insertNode keeps the invariant, and every cell in use as it is.
LEMMA InsertKeeps ==
  ASSUME IInv, NEW cell \in 2..MaxIndex, NEW value \in Bases,
         NEW parent \in Parents, InsertNode(cell, value, parent)
  PROVE  /\ IInv'
         /\ \A i \in 1..(size - 1) :
              (i = 1 \/ check[i] > 0) =>
                check'[i] = check[i] /\ base'[i] = base[i]
<1> DEFINE n == Capacity(cell)
           c == GrownCheck(n)
           b == GrownBase(n)
           f == FreeIn(c, n)
<1>1. /\ size \in Nat /\ size >= 4 /\ check[1] = 0
      /\ TypeOK /\ FreeRing /\ LastCellFree
      /\ cell \in Nat /\ cell >= 2 /\ cell < size => check[cell] <= 0
  BY DEF IInv, TypeOK, WalkInv, InsertNode, Available
<1>2. n \in Nat /\ n >= size /\ cell < n - 1
  BY <1>1, CapacityGrows
<1>3. value \in Int /\ parent \in Nat \ {0}
  BY TriePoolAssumption
<1>4. /\ c \in [0..(n - 1) -> Int] /\ b \in [0..(n - 1) -> Int]
      /\ \A i \in 1..(size - 1) : check[i] > 0 \/ i = 1 =>
           c[i] = check[i] /\ b[i] = base[i]
      /\ f = Free \union (size..(n - 1))
      /\ Ring(Links(b), Links(c), f)
  <2>1. CASE n = size
    BY <1>1, <2>1 DEF GrownCheck, GrownBase, TypeOK, FreeRing, Free
  <2>2. CASE n > size
    BY <1>1, <1>2, <2>2, GrowRing
  <2> QED
    BY <1>1, <1>2, <2>1, <2>2
<1>5. /\ \A i \in f : i \in 2..(n - 1)
      /\ cell \in f /\ n - 1 \in f
  <2>1. /\ \A i \in Free : i \in 2..(size - 1)
        /\ size - 1 \in Free
        /\ cell < size => cell \in Free
    BY <1>1 DEF Free, FreeIn, LastCellFree, TypeOK
  <2> HIDE DEF n, c, b, f
  <2> QED
    BY <1>1, <1>2, <1>4, <2>1, SMTT(60)
<1>6. /\ size' = n
      /\ check' = UnlinkedCheck(c, b, cell, parent)
      /\ base' = UnlinkedBase(c, b, cell, value)
  BY DEF InsertNode
<1> HIDE DEF n, c, b, f
<1>7. /\ check' \in [0..(n - 1) -> Int] /\ base' \in [0..(n - 1) -> Int]
      /\ \A i \in 0..(n - 1) : i \notin f \union {0} =>
           check'[i] = c[i] /\ base'[i] = b[i]
      /\ \A i \in f : i # cell => check'[i] \in {c[i], c[cell]}
      /\ check'[cell] = parent
      /\ Ring(Links(base'), Links(check'), f \ {cell})
  <2> DEFINE c2 == UnlinkedCheck(c, b, cell, parent)
             b2 == UnlinkedBase(c, b, cell, value)
  <2>1. n >= 2
    BY <1>1, <1>2
  <2>2. /\ c2 \in [0..(n - 1) -> Int] /\ b2 \in [0..(n - 1) -> Int]
        /\ \A i \in 0..(n - 1) : i \notin f \union {0} =>
             c2[i] = c[i] /\ b2[i] = b[i]
        /\ \A i \in f : i # cell => c2[i] \in {c[i], c[cell]}
        /\ c2[cell] = parent
        /\ Ring(Links(b2), Links(c2), f \ {cell})
    <3>1. n \in Nat /\ cell \in f /\ value \in Int /\ parent \in Nat \ {0}
      BY <1>2, <1>3, <1>5
    <3>2. c \in [0..(n - 1) -> Int] /\ b \in [0..(n - 1) -> Int]
      BY <1>4
    <3>3. Ring(Links(b), Links(c), f) /\ \A i \in f : i \in 2..(n - 1)
      BY <1>4, <1>5
    <3> HIDE DEF c2, b2
    <3> QED
      BY <2>1, <3>1, <3>2, <3>3, UnlinkRing, ZenonT(60) DEF c2, b2
  <2> QED
    BY <1>6, <2>2
<1>8. \A i : i \in f <=> i \in 2..(n - 1) /\ c[i] <= 0
  BY DEF f, FreeIn
<1>9. FreeIn(check', n) = f \ {cell}
  <2>1. parent > 0 /\ c[cell] <= 0 /\ parent \in Int
    BY <1>3, <1>5, <1>8
  <2>2. ASSUME NEW i \in 2..(n - 1)
        PROVE  check'[i] <= 0 <=> i \in f /\ i # cell
    <3>1. i \in 0..(n - 1) /\ i # 0
      BY <1>2
    <3>2. CASE i = cell
      BY <1>7, <2>1, <3>2
    <3>3. CASE i \in f /\ i # cell
      BY <1>7, <1>8, <2>1, <3>3
    <3>4. CASE i \notin f
      BY <1>5, <1>7, <1>8, <3>1, <3>4
    <3> QED
      BY <3>2, <3>3, <3>4
  <2>3. \A i : i \in FreeIn(check', n) <=> i \in f \ {cell}
    BY <1>5, <2>2 DEF FreeIn
  <2> QED
    BY <2>3
<1>10. \A i \in 1..(size - 1) : (i = 1 \/ check[i] > 0) =>
         check'[i] = check[i] /\ base'[i] = base[i]
  <2> SUFFICES ASSUME NEW i \in 1..(size - 1), i = 1 \/ check[i] > 0
               PROVE  check'[i] = check[i] /\ base'[i] = base[i]
    OBVIOUS
  <2>1. i \in 0..(n - 1) /\ i # 0 /\ check[i] \in Int
    BY <1>1, <1>2 DEF TypeOK
  <2>2. c[i] = check[i] /\ b[i] = base[i]
    BY <1>4
  <2>3. i \notin f
    BY <1>5, <1>8, <2>1, <2>2
  <2> QED
    BY <1>7, <2>1, <2>2, <2>3
<1>11. IInv'
  <2>1. pc' = "idle" /\ target' \in Nat /\ next' \in Nat
    BY <1>1 DEF InsertNode, walk, TypeOK
  <2>2. TypeOK'
    <3>1. size' \in Nat /\ size' >= 4
      BY <1>1, <1>2, <1>6
    <3>2. /\ base' \in [0..(size' - 1) -> Int]
          /\ check' \in [0..(size' - 1) -> Int]
      BY <1>6, <1>7
    <3> QED
      BY <2>1, <3>1, <3>2 DEF TypeOK
  <2>3. FreeRing'
    BY <1>6, <1>7, <1>9 DEF FreeRing, Free
  <2>4. LastCellFree'
    <3>1. n - 1 \in FreeIn(check', n)
      BY <1>2, <1>5, <1>9
    <3> QED
      BY <1>6, <3>1 DEF FreeIn, LastCellFree
  <2>5. check'[1] = 0
    BY <1>1, <1>10
  <2> QED
    BY <2>1, <2>2, <2>3, <2>4, <2>5 DEF IInv, WalkInv, FoundIsFirst
<1> QED
  BY <1>10, <1>11

\* The last step of trie_freeCell keeps the invariant, and every cell in use
\* but the freed one as it is.
LEMMA LinkKeeps ==
  ASSUME IInv, LinkCell
  PROVE  /\ IInv'
         /\ \A i \in 1..(size - 1) :
              (i = 1 \/ check[i] > 0) /\ i # target =>
                check'[i] = check[i] /\ base'[i] = base[i]
         /\ check'[target] <= 0
<1> DEFINE n == size
           p == Links(base)
           s == Links(check)
           q == Links(base')
           t == Links(check')
           prev == -base[next]
<1>1. /\ size \in Nat /\ size >= 4 /\ check[1] = 0
      /\ TypeOK /\ FreeRing /\ LastCellFree
      /\ target \in 2..(n - 1) /\ check[target] > 0
      /\ next \in Free \union {0}
      /\ next # 0 => \A k \in Free : k < next => k < target
      /\ size' = size
  BY DEF IInv, TypeOK, WalkInv, LinkCell
<1>2. \A i : i \in Free <=> i \in 2..(n - 1) /\ check[i] <= 0
  BY DEF Free, FreeIn
<1>3. next \in Free /\ target < next /\ target \notin Free
  <2>1. target \notin Free /\ target \in Int
    BY <1>1, <1>2 DEF TypeOK
  <2>2. ~(next # 1 /\ next < target)
    BY DEF LinkCell, Scanning
  <2>3. next \in Int /\ next # 1
    BY <1>1, <1>2
  <2> QED
    BY <1>1, <2>1, <2>2, <2>3
<1>4. /\ \A i \in Free : i \in Nat /\ i > 0 /\ i \in 2..(n - 1)
      /\ \A i \in Free \union {0} : i \in 0..(n - 1)
      /\ \A i \in Free \union {0} :
           p[i] = -base[i] /\ s[i] = -check[i] /\ p[i] \in Nat /\ s[i] \in Nat
      /\ prev \in Free \union {0}
  BY <1>1, <1>3, RingTypes
<1>5. /\ check' \in [0..(n - 1) -> Int] /\ base' \in [0..(n - 1) -> Int]
      /\ \A i \in 0..(n - 1) :
           /\ check'[i] = IF i = prev THEN -target
                          ELSE IF i = target THEN -next ELSE check[i]
           /\ base'[i] = IF i = next THEN -target
                         ELSE IF i = target THEN -prev ELSE base[i]
  <2>1. prev \in 0..(n - 1) /\ next \in 0..(n - 1) /\ target \in 0..(n - 1)
    BY <1>1, <1>3, <1>4
  <2>2. check \in [0..(n - 1) -> Int] /\ base \in [0..(n - 1) -> Int]
    BY DEF IInv, TypeOK
  <2>3. /\ check' = [check EXCEPT ![target] = -next, ![prev] = -target]
        /\ base' = [base EXCEPT ![target] = -prev, ![next] = -target]
    BY DEF LinkCell
  <2> HIDE DEF prev
  <2> QED
    BY <2>1, <2>2, <2>3
<1> HIDE DEF prev
<1>6. FreeIn(check', n) = Free \union {target}
  <2>1. target > 0 /\ next > 0 /\ target \in Int /\ next \in Int
    BY <1>1, <1>3, <1>4
  <2>2. ASSUME NEW i \in 2..(n - 1)
        PROVE  check'[i] <= 0 <=> i \in Free \/ i = target
    <3>1. i \in 0..(n - 1) /\ check[i] \in Int
      BY <1>1 DEF TypeOK
    <3>2. check'[i] = IF i = prev THEN -target
                      ELSE IF i = target THEN -next ELSE check[i]
      BY <1>5, <3>1
    <3>3. i = prev => i \in Free
      BY <1>4
    <3> QED
      BY <1>2, <2>1, <3>1, <3>2, <3>3
  <2>3. \A i : i \in FreeIn(check', n) <=> i \in Free \union {target}
    <3>1. \A i \in Free \union {target} : i \in 2..(n - 1)
      BY <1>1, <1>4
    <3> QED
      BY <2>2, <3>1 DEF FreeIn
  <2> QED
    BY <2>3
<1>7. Ring(q, t, Free \union {target})
  <2>1. \A i \in 0..(n - 1) : q[i] = -base'[i] /\ t[i] = -check'[i]
    BY <1>1, <1>5, LinksValue
  <2>2. Ring(p, s, Free)
    BY <1>1 DEF FreeRing
  <2>3. prev = p[next] /\ prev # target /\ prev # next
    <3>1. prev = p[next]
      BY <1>3, <1>4 DEF prev
    <3>2. prev < next
      BY <1>3, <2>2, <3>1 DEF Ring
    <3>3. prev # target
      BY <1>1, <1>3, <1>4
    <3> QED
      BY <1>3, <1>4, <3>1, <3>2, <3>3
  <2> HIDE DEF p, s, q, t
  <2>4. t[target] = next /\ q[target] = p[next]
    <3>1. target \in 0..(n - 1) /\ target # next /\ target # prev
      BY <1>1, <1>3, <2>3
    <3>2. prev \in Int /\ next \in Int
      BY <1>3, <1>4
    <3>3. check'[target] = -next /\ base'[target] = -prev
      BY <1>5, <3>1
    <3>4. t[target] = -check'[target] /\ q[target] = -base'[target]
      BY <2>1, <3>1
    <3> QED
      BY <2>3, <3>2, <3>3, <3>4
  <2>5. \A i \in Free \union {0} :
           /\ t[i] = IF i = p[next] THEN target ELSE s[i]
           /\ q[i] = IF i = next THEN target ELSE p[i]
    <3> TAKE i \in Free \union {0}
    <3>1. i \in 0..(n - 1) /\ i # target /\ target \in Int
      BY <1>1, <1>3, <1>4
    <3>2. p[i] = -base[i] /\ s[i] = -check[i]
      BY <1>4
    <3>3. t[i] = -check'[i] /\ q[i] = -base'[i]
      BY <2>1, <3>1
    <3>4. /\ check'[i] = IF i = prev THEN -target ELSE check[i]
          /\ base'[i] = IF i = next THEN -target ELSE base[i]
      BY <1>5, <3>1
    <3> QED
      BY <2>3, <3>1, <3>2, <3>3, <3>4
  <2>6. \A i \in Free : i \in Nat /\ i > 0
    BY <1>4
  <2>7. \A i \in Free \union {0} : p[i] \in Nat /\ s[i] \in Nat
    BY <1>4
  <2>8. target \in Nat \ {0} /\ \A k \in Free : k < next => k < target
    BY <1>1, <1>3
  <2> QED
    BY <1>3, <2>2, <2>4, <2>5, <2>6, <2>7, <2>8, RingInsert
<1>8. \A i \in 1..(size - 1) : (i = 1 \/ check[i] > 0) /\ i # target =>
         check'[i] = check[i] /\ base'[i] = base[i]
  <2> TAKE i \in 1..(size - 1)
  <2> HAVE (i = 1 \/ check[i] > 0) /\ i # target
  <2>1. i \in 0..(n - 1) /\ i # 0 /\ check[i] \in Int
    BY <1>1 DEF TypeOK
  <2>2. i \notin Free
    BY <1>2, <2>1
  <2> QED
    BY <1>3, <1>4, <1>5, <2>1, <2>2
<1>9. IInv'
  <2>1. pc' = "idle" /\ target' = target /\ next' = next
    BY DEF LinkCell
  <2>2. TypeOK'
    BY <1>1, <1>5, <2>1 DEF TypeOK
  <2>3. FreeRing'
    BY <1>1, <1>6, <1>7 DEF FreeRing, Free
  <2>4. LastCellFree'
    <3>1. n - 1 \in FreeIn(check', n)
      BY <1>1, <1>2, <1>6 DEF LastCellFree
    <3> QED
      BY <1>1, <3>1 DEF FreeIn, LastCellFree
  <2>5. check'[1] = 0
    BY <1>1, <1>8
  <2> QED
    BY <2>1, <2>2, <2>3, <2>4, <2>5 DEF IInv, WalkInv, FoundIsFirst
<1>10. check'[target] <= 0
  BY <1>6, <1>1 DEF FreeIn
<1> QED
  BY <1>8, <1>9, <1>10

\* The steps that leave the cells alone (the walks) keep the invariant.
LEMMA WalkKeeps ==
  ASSUME IInv, UNCHANGED cells,
         \/ \E cell \in 2..MaxIndex : StartFree(cell)
         \/ \E node \in 1..MaxIndex : StartFind(node)
         \/ ScanStep \/ FindStep \/ FindDone \/ Return
         \/ UNCHANGED vars
  PROVE  IInv'
<1>1. /\ size \in Nat /\ size >= 4 /\ check[1] = 0
      /\ TypeOK /\ FreeRing /\ LastCellFree /\ WalkInv /\ FoundIsFirst
      /\ size' = size /\ check' = check /\ base' = base
  BY DEF IInv, TypeOK, WalkInv, cells
<1>2. Free' = Free /\ FreeRing' /\ LastCellFree'
  BY <1>1 DEF Free, FreeRing, LastCellFree
<1> DEFINE s == Links(check)
<1>3. /\ Ring(Links(base), s, Free)
      /\ \A i \in Free \union {0} :
           s[i] = -check[i] /\ s[i] \in Nat /\ s[i] \in Free \union {0}
      /\ \A i \in Free : i \in Nat /\ i > 0
  BY <1>1, RingTypes DEF FreeRing
<1> HIDE DEF s
<1>4. SUFFICES /\ pc' \in {"idle", "scan", "find", "found"}
               /\ target' \in Nat /\ next' \in Nat
               /\ WalkInv' /\ FoundIsFirst'
  BY <1>1, <1>2 DEF IInv, TypeOK
<1>5. ASSUME NEW cell \in 2..MaxIndex, StartFree(cell)
      PROVE  /\ pc' = "scan" /\ target' = cell /\ next' = 0
             /\ WalkInv' /\ FoundIsFirst' /\ target' \in Nat
  <2>1. /\ pc' = "scan" /\ target' = cell /\ next' = 0 /\ cell \in Nat
        /\ cell \in 2..(size - 1) /\ check[cell] > 0
    <3>1. cell \in Nat /\ cell >= 2
      BY TriePoolAssumption
    <3>2. /\ pc' = "scan" /\ target' = cell /\ next' = -check[1]
          /\ cell < size /\ check[cell] > 0
      BY <1>5 DEF StartFree
    <3>3. size \in Nat /\ check[1] = 0
      BY <1>1
    <3>4. next' = 0
      <4>1. \A i \in Int : i <= 0 /\ i >= 0 => -i <= 0 /\ -i >= 0
        OBVIOUS
      <4>2. check[1] \in Int
        BY <3>3
      <4>3. next' \in Int /\ next' <= 0 /\ next' >= 0
        BY <3>2, <3>3, <4>1, <4>2
      <4> QED
        BY <4>3
    <3>5. cell \in 2..(size - 1)
      BY <3>1, <3>2, <3>3
    <3> QED
      BY <3>1, <3>2, <3>4, <3>5
  <2> QED
    BY <1>1, <1>2, <2>1 DEF WalkInv, FoundIsFirst
<1>6. ASSUME NEW node \in 1..MaxIndex, StartFind(node)
      PROVE  /\ pc' = "find" /\ target' = node /\ next' \in Nat
             /\ WalkInv' /\ FoundIsFirst' /\ target' \in Nat
  <2>1. /\ pc' = "find" /\ target' = node /\ next' = -check[0]
        /\ node \in Nat /\ node < size
    BY <1>6, TriePoolAssumption DEF StartFind
  <2>2. next' = s[0] /\ next' \in Free \union {0} /\ next' \in Nat
    BY <1>3, <2>1
  <2>3. \A k \in Free : (next' = 0 \/ k < next') => k <= node
    BY <1>3, <2>1, <2>2 DEF Ring
  <2> QED
    BY <1>1, <1>2, <2>1, <2>2, <2>3 DEF WalkInv, FoundIsFirst
<1>7. ASSUME ScanStep
      PROVE  /\ pc' = "scan" /\ target' \in Nat /\ next' \in Nat
             /\ WalkInv' /\ FoundIsFirst'
  <2>1. /\ pc = "scan" /\ pc' = "scan" /\ target' = target
        /\ next' = -check[next] /\ next < target /\ target \in Nat
        /\ target \in 2..(size - 1) /\ check[target] > 0
        /\ next \in Free \union {0}
    BY <1>1, <1>7 DEF ScanStep, Scanning, WalkInv, TypeOK
  <2>2. next' = s[next] /\ next' \in Free \union {0} /\ next' \in Nat
    BY <1>3, <2>1
  <2>3. next' # 0 => \A k \in Free : k < next' => k < target
    <3> SUFFICES ASSUME NEW k \in Free, next' # 0, k < next'
                 PROVE  k < target
      OBVIOUS
    <3>1. k <= next
      BY <1>3, <2>1, <2>2 DEF Ring
    <3> QED
      BY <1>3, <2>1, <3>1
  <2> QED
    BY <1>1, <1>2, <2>1, <2>2, <2>3 DEF WalkInv, FoundIsFirst
<1>8. ASSUME FindStep
      PROVE  /\ pc' = "find" /\ target' \in Nat /\ next' \in Nat
             /\ WalkInv' /\ FoundIsFirst'
  <2>1. /\ pc = "find" /\ pc' = "find" /\ target' = target
        /\ next' = -check[next] /\ next # 0 /\ next <= target
        /\ target \in Nat /\ target < size
        /\ next \in Free
    BY <1>1, <1>8 DEF FindStep, Finding, WalkInv, TypeOK
  <2>2. next' = s[next] /\ next' \in Free \union {0} /\ next' \in Nat
    BY <1>3, <2>1
  <2>3. \A k \in Free : (next' = 0 \/ k < next') => k <= target
    <3> SUFFICES ASSUME NEW k \in Free, next' = 0 \/ k < next'
                 PROVE  k <= target
      OBVIOUS
    <3>1. k <= next
      BY <1>3, <2>1, <2>2 DEF Ring
    <3> QED
      BY <1>3, <2>1, <3>1
  <2> QED
    BY <1>1, <1>2, <2>1, <2>2, <2>3 DEF WalkInv, FoundIsFirst
<1>9. ASSUME FindDone
      PROVE  /\ pc' = "found" /\ target' \in Nat /\ next' \in Nat
             /\ WalkInv' /\ FoundIsFirst'
  <2>1. /\ pc = "find" /\ pc' = "found" /\ target' = target
        /\ next' = (IF next = 0 THEN size ELSE next)
        /\ next = 0 \/ next > target
        /\ target \in Nat /\ target < size /\ next \in Nat
        /\ next \in Free \union {0}
        /\ \A k \in Free : (next = 0 \/ k < next) => k <= target
    BY <1>1, <1>9 DEF FindDone, Finding, WalkInv, TypeOK
  <2>2. CASE next = 0
    <3>1. next' = size /\ \A k \in Free : k <= target
      BY <2>1, <2>2
    <3> QED
      BY <1>1, <1>2, <2>1, <3>1 DEF WalkInv, FoundIsFirst
  <2>3. CASE next # 0
    <3>1. /\ next' = next /\ next \in Free /\ next > target
          /\ \A k \in Free : k < next => k <= target
      BY <2>1, <2>3
    <3>2. \A k \in Free : k > target => k >= next
      BY <1>3, <2>1, <3>1
    <3> QED
      BY <1>1, <1>2, <2>1, <3>1, <3>2 DEF WalkInv, FoundIsFirst
  <2> QED
    BY <2>2, <2>3
<1>10. ASSUME Return
       PROVE  /\ pc' = "idle" /\ target' \in Nat /\ next' \in Nat
              /\ WalkInv' /\ FoundIsFirst'
  BY <1>1, <1>10 DEF Return, TypeOK, WalkInv, FoundIsFirst
<1>11. ASSUME UNCHANGED vars
       PROVE  /\ pc' \in {"idle", "scan", "find", "found"}
              /\ target' \in Nat /\ next' \in Nat
              /\ WalkInv' /\ FoundIsFirst'
  BY <1>1, <1>2, <1>11 DEF vars, walk, TypeOK, WalkInv, FoundIsFirst
<1> QED
  BY <1>5, <1>6, <1>7, <1>8, <1>9, <1>10, <1>11

\* Every step keeps the invariant.
LEMMA NextInv == IInv /\ [Next]_vars => IInv'
<1> SUFFICES ASSUME IInv, [Next]_vars PROVE IInv'
  OBVIOUS
<1>1. ASSUME NEW cell \in 2..MaxIndex, NEW value \in Bases,
             NEW parent \in Parents, InsertNode(cell, value, parent)
      PROVE  IInv'
  BY <1>1, InsertKeeps
<1>2. ASSUME LinkCell PROVE IInv'
  BY <1>2, LinkKeeps
<1>3. ASSUME NEW cell \in 2..MaxIndex, StartFree(cell) PROVE IInv'
  BY <1>3, WalkKeeps DEF StartFree
<1>4. ASSUME NEW node \in 1..MaxIndex, StartFind(node) PROVE IInv'
  BY <1>4, WalkKeeps DEF StartFind
<1>5. CASE ScanStep
  BY <1>5, WalkKeeps DEF ScanStep, cells
<1>6. CASE FindStep
  BY <1>6, WalkKeeps DEF FindStep, cells
<1>7. CASE FindDone
  BY <1>7, WalkKeeps DEF FindDone
<1>8. CASE Return
  BY <1>8, WalkKeeps DEF Return
<1>9. CASE UNCHANGED vars
  BY <1>9, WalkKeeps DEF vars
<1> QED
  BY <1>1, <1>2, <1>3, <1>4, <1>5, <1>6, <1>7, <1>8, <1>9 DEF Next, WalkStep

\* The invariant holds in every reachable state of the pool.
THEOREM Invariance == Spec => []IInv
<1> QED
  BY InitInv, NextInv, PTL DEF Spec

\* The fields are integers at every index below size.
THEOREM TypeCorrect == Spec => []TypeOK
<1>1. IInv => TypeOK
  BY DEF IInv
<1> QED
  BY <1>1, Invariance, PTL

\* The chain visits every free cell and nothing else, in ascending order, in
\* both directions, whatever is allocated, freed and reallocated.
THEOREM ChainCorrect == Spec => []FreeRing
<1>1. IInv => FreeRing
  BY DEF IInv
<1> QED
  BY <1>1, Invariance, PTL

\* The last cell is free at all times, which three functions of dat.c rely on
\* and none of them checks.
THEOREM RoomAtTheEnd == Spec => []LastCellFree
<1>1. IInv => LastCellFree
  BY DEF IInv
<1> QED
  BY <1>1, Invariance, PTL

\* trie_findEmptyCell answers with the first free cell above the node, or with
\* the first index beyond the pool when there is none.
THEOREM FindsFirst == Spec => []FoundIsFirst
<1>1. IInv => FoundIsFirst
  BY DEF IInv
<1> QED
  BY <1>1, Invariance, PTL

\* No operation on the chain writes into a cell that stays in use.
THEOREM UsedStay == Spec => UsedCellsKept
<1> DEFINE Kept == \A i \in 1..(size - 1) :
             (i = 1 \/ check[i] > 0) /\ (i = 1 \/ check'[i] > 0) =>
               check'[i] = check[i] /\ base'[i] = base[i]
<1>1. IInv /\ [Next]_vars => [Kept]_vars
  <2> SUFFICES ASSUME IInv, Next PROVE Kept
    OBVIOUS
  <2>1. ASSUME NEW cell \in 2..MaxIndex, NEW value \in Bases,
               NEW parent \in Parents, InsertNode(cell, value, parent)
        PROVE  Kept
    BY <2>1, InsertKeeps
  <2>2. ASSUME LinkCell PROVE Kept
    <3>1. /\ check'[target] <= 0
          /\ target \in 2..(size - 1) /\ target # 1
          /\ check'[target] \in Int
      <4>1. IInv'
        BY <2>2, LinkKeeps
      <4>2. target \in 2..(size - 1) /\ target # 1 /\ size' = size
        BY <2>2 DEF IInv, WalkInv, TypeOK, LinkCell
      <4>3. check'[target] \in Int
        BY <4>1, <4>2 DEF IInv, TypeOK
      <4> QED
        BY <2>2, <4>2, <4>3, LinkKeeps
    <3>2. \A i \in 1..(size - 1) :
             (i = 1 \/ check[i] > 0) /\ i # target =>
               check'[i] = check[i] /\ base'[i] = base[i]
      BY <2>2, LinkKeeps
    <3> QED
      BY <3>1, <3>2
  <2>3. ASSUME UNCHANGED cells PROVE Kept
    BY <2>3 DEF cells
  <2> QED
    BY <2>1, <2>2, <2>3
    DEF Next, WalkStep, StartFree, StartFind, ScanStep, FindStep, FindDone,
        Return, cells
<1> QED
  BY <1>1, Invariance, PTL DEF Spec, UsedCellsKept
=============================================================================
