------------------------------ MODULE ListProofs ------------------------------
(***************************************************************************)
(* The list of src/list.c keeps its promise for every size of the pool,    *)
(* all values and every order of calls: the properties of module List that *)
(* List.cfg checks, as theorems.                                           *)
(*                                                                         *)
(* Shape says what the links of a list are: its cells, apart from cell 0,  *)
(* are split into a chain c of items, linked both ways, an ascending chain *)
(* f of free cells, which hangs on cell 0, and loose cells, which a call   *)
(* under way has taken out of both.  The parts that the calls are made of  *)
(* take a cell from one of these to another: TakeFirstFree and SecondFirst *)
(* the first free cell, Unlink an item; Behind and Shove make a loose cell *)
(* an item, FreeCell makes one free, PoolReallocate adds free cells.  For  *)
(* each there is a lemma that says what becomes of Shape.                  *)
(*                                                                         *)
(* Holds adds the items x in these cells, and Arrays that the cells are    *)
(* those from 1 on and the items ascend.  That every call turns Holds or   *)
(* Arrays of x into that of the sequence promised makes Intact, and so     *)
(* IInv, an invariant and the list an implementation of the collection.    *)
(*                                                                         *)
(* The theorems assume ~DeleteWhenFull: list_delete without a free cell    *)
(* loses the cell that it empties, against NoCellLost.                     *)
(***************************************************************************)
EXTENDS List, TLAPS, WellFoundedInduction, FiniteSetTheorems, SequenceTheorems

-----------------------------------------------------------------------------
(* Naturals *)

\* Every nonempty set of naturals has a least element.
LEMMA Least ==
  ASSUME NEW S, S \subseteq Nat, S # {}
  PROVE  \E m \in S : \A x \in S : m <= x
<1> DEFINE R == OpToRel(<, Nat)
<1>1. IsWellFoundedOn(R, Nat)
  BY NatLessThanWellFounded
<1>2. \A x, y \in Nat : x < y => <<x, y>> \in R
  BY Zenon DEF OpToRel
<1> HIDE DEF R
<1>3. PICK m \in S : \A y \in S : ~(<<y, m>> \in R)
  BY <1>1, WFMin
<1>4. \A x \in S : m <= x
  <2> SUFFICES ASSUME NEW x \in S PROVE m <= x
    OBVIOUS
  <2>1. m \in Nat /\ x \in Nat
    OBVIOUS
  <2>2. ~(x < m)
    BY <1>2, <1>3, <2>1
  <2> QED BY SMT, <2>1, <2>2
<1> QED BY <1>4

\* What holds at 0 and of each successor holds of all naturals: induction
\* for a set of naturals.
LEMMA Induction ==
  ASSUME NEW G, 0 \in G, \A n \in Nat : n \in G => n + 1 \in G
  PROVE  Nat \subseteq G
<1> SUFFICES ASSUME Nat \ G # {} PROVE FALSE
  OBVIOUS
<1>1. PICK n \in Nat \ G : \A x \in Nat \ G : n <= x
  BY Least
<1>2. n \in Nat /\ n # 0
  OBVIOUS
<1>3. n - 1 \in Nat /\ ~(n <= n - 1) /\ (n - 1) + 1 = n
  BY <1>2
<1>4. n - 1 \in G
  BY <1>1, <1>3
<1> QED BY <1>1, <1>3, <1>4

-----------------------------------------------------------------------------
(* Chains *)

\* The k-th cell of a chain; the cell 0, the end of every chain, beyond it.
At(q, k) == IF k \in 1..Len(q) THEN q[k] ELSE 0

\* next leads from start through the cells of q to the end.
Forward(next, start, q) ==
  start = At(q, 1) /\ \A k \in 1..Len(q) : next[q[k]] = At(q, k + 1)

\* The function that Chain is defined by.
Walks(g, next, n) ==
  g = [p \in (0..(n - 1)) \X (0..n) |->
         IF p[1] = 0 \/ p[2] = 0 THEN << >>
         ELSE <<p[1]>> \o g[<<next[p[1]], p[2] - 1>>]]

\* It exists, however the cells are linked: it recurses on the steps left.
LEMMA WalkExists ==
  ASSUME NEW n \in Nat, NEW next \in [0..(n - 1) -> 0..(n - 1)]
  PROVE  \E g : Walks(g, next, n)
<1> PICK D : D = (0..(n - 1)) \X Nat
  OBVIOUS
<1> DEFINE Rhs(g, p) == IF p[1] = 0 \/ p[2] = 0 THEN << >>
                        ELSE <<p[1]>> \o g[<<next[p[1]], p[2] - 1>>]
           Upto(b) == \E g : \A p \in D : p[2] <= b => g[p] = Rhs(g, p)
           G == {b \in Nat : Upto(b)}
<1>0. \A p \in D : p[2] \in Nat /\ p[1] \in 0..(n - 1)
  OBVIOUS
<1>1. Upto(0)
  <2> PICK g : g = [p \in D |-> << >>]
    OBVIOUS
  <2>1. ASSUME NEW p \in D, p[2] <= 0 PROVE g[p] = Rhs(g, p)
    <3>1. p[2] = 0
      BY <1>0, <2>1
    <3> QED BY <3>1
  <2> QED BY <2>1
<1>2. ASSUME NEW b \in Nat, Upto(b) PROVE Upto(b + 1)
  <2>1. PICK g : \A p \in D : p[2] <= b => g[p] = Rhs(g, p)
    BY <1>2
  <2> PICK h : h = [p \in D |-> IF p[2] <= b THEN g[p] ELSE Rhs(g, p)]
    OBVIOUS
  <2>2. ASSUME NEW p \in D, p[2] <= b + 1 PROVE h[p] = Rhs(h, p)
    <3>1. h[p] = Rhs(g, p)
      BY <2>1
    <3>2. CASE p[1] = 0 \/ p[2] = 0
      BY <3>1, <3>2
    <3>3. CASE ~(p[1] = 0 \/ p[2] = 0)
      <4> PICK r : r = <<next[p[1]], p[2] - 1>>
        OBVIOUS
      <4>1. p[2] \in Nat /\ p[2] - 1 \in Nat /\ p[2] - 1 <= b
        BY <1>0, <2>2, <3>3
      <4>2. next[p[1]] \in 0..(n - 1)
        BY <1>0
      <4>3. r \in D /\ r[2] <= b
        BY <4>1, <4>2
      <4>4. h[r] = g[r]
        BY <4>3
      <4> QED BY <3>1, <3>3, <4>4
    <3> QED BY <3>2, <3>3
  <2> QED BY ZenonT(30), <2>2
<1>3. Upto(n)
  <2>1. 0 \in G
    BY <1>1
  <2>2. \A b \in Nat : b \in G => b + 1 \in G
    <3> HIDE DEF Upto
    <3> QED BY <1>2
  <2>3. Nat \subseteq G
    <3> HIDE DEF G
    <3> QED BY <2>1, <2>2, Induction
  <2> QED BY <2>3
<1>4. PICK g : \A p \in D : p[2] <= n => g[p] = Rhs(g, p)
  BY <1>3
<1> PICK E : E = (0..(n - 1)) \X (0..n)
  OBVIOUS
<1> PICK h : h = [p \in E |-> g[p]]
  OBVIOUS
<1>5. ASSUME NEW p \in E PROVE h[p] = Rhs(h, p)
  <2>0. p \in D /\ p[2] <= n /\ p[2] \in 0..n /\ p[1] \in 0..(n - 1)
    OBVIOUS
  <2>1. h[p] = Rhs(g, p)
    BY <1>4, <2>0
  <2>2. CASE p[1] = 0 \/ p[2] = 0
    BY <2>1, <2>2
  <2>3. CASE ~(p[1] = 0 \/ p[2] = 0)
    <3> PICK r : r = <<next[p[1]], p[2] - 1>>
      OBVIOUS
    <3>1. p[2] - 1 \in 0..n
      BY <2>0, <2>3
    <3>2. next[p[1]] \in 0..(n - 1)
      BY <2>0
    <3>3. r \in E
      BY <3>1, <3>2
    <3>4. h[r] = g[r]
      BY <3>3
    <3> QED BY <2>1, <2>3, <3>4
  <2> QED BY <2>2, <2>3
<1>6. h = [p \in E |-> Rhs(h, p)]
  <2>1. h = [p \in E |-> h[p]]
    OBVIOUS
  <2> QED BY <1>5, <2>1
<1>7. h = [p \in (0..(n - 1)) \X (0..n) |->
             IF p[1] = 0 \/ p[2] = 0 THEN << >>
             ELSE <<p[1]>> \o h[<<next[p[1]], p[2] - 1>>]]
  BY <1>6, Zenon
<1>8. Walks(h, next, n)
  BY <1>7, Zenon DEF Walks
<1> HIDE DEF Rhs, Upto, G
<1> QED BY <1>8

\* So a chain is one cell and the chain from the next one, or empty.
LEMMA ChainUnfolds ==
  ASSUME NEW s, s.size \in Nat, s.next \in [0..(s.size - 1) -> 0..(s.size - 1)]
  PROVE  \E g :
           /\ \A i \in 0..(s.size - 1), m \in 0..s.size :
                g[<<i, m>>] = IF i = 0 \/ m = 0 THEN << >>
                              ELSE <<i>> \o g[<<s.next[i], m - 1>>]
           /\ \A start : Chain(s, start) = g[<<start, s.size>>]
<1> DEFINE g == CHOOSE g : Walks(g, s.next, s.size)
<1>1. Walks(g, s.next, s.size)
  BY WalkExists
<1>2. \A start : Chain(s, start) = g[<<start, s.size>>]
  BY DEF Chain, Walks
<1> HIDE DEF g
<1>3. \A p \in (0..(s.size - 1)) \X (0..s.size) :
        g[p] = IF p[1] = 0 \/ p[2] = 0 THEN << >>
               ELSE <<p[1]>> \o g[<<s.next[p[1]], p[2] - 1>>]
  BY <1>1 DEF Walks
<1>4. \A i \in 0..(s.size - 1), m \in 0..s.size :
        g[<<i, m>>] = IF i = 0 \/ m = 0 THEN << >>
                      ELSE <<i>> \o g[<<s.next[i], m - 1>>]
  BY <1>3
<1> QED BY <1>2, <1>4

\* A chain linked as a sequence of cells is that sequence.
LEMMA ChainIs ==
  ASSUME NEW s, s.size \in Nat, s.size >= 1,
         s.next \in [0..(s.size - 1) -> 0..(s.size - 1)],
         NEW q \in Seq(Nat), Len(q) <= s.size,
         \A k \in 1..Len(q) : q[k] \in 1..(s.size - 1),
         NEW start, Forward(s.next, start, q)
  PROVE  Chain(s, start) = q
<1>1. PICK g :
        /\ \A i \in 0..(s.size - 1), m \in 0..s.size :
             g[<<i, m>>] = IF i = 0 \/ m = 0 THEN << >>
                           ELSE <<i>> \o g[<<s.next[i], m - 1>>]
        /\ \A a : Chain(s, a) = g[<<a, s.size>>]
  BY ChainUnfolds
<1> PICK n : n = s.size
  OBVIOUS
<1> PICK L : L = Len(q)
  OBVIOUS
<1>2. L \in Nat /\ n \in Nat /\ L <= n /\ n >= 1
  OBVIOUS
<1> DEFINE Rest(m) == \A j \in 0..n : j >= m =>
                        g[<<At(q, L + 1 - m), j>>] = SubSeq(q, L + 1 - m, L)
           G == {m \in Nat : m <= L => Rest(m)}
<1>3. Rest(0)
  <2> SUFFICES ASSUME NEW j \in 0..n
               PROVE  g[<<At(q, L + 1 - 0), j>>] = SubSeq(q, L + 1 - 0, L)
    OBVIOUS
  <2>1. L + 1 - 0 = L + 1 /\ L + 1 \in Int /\ L \in Int /\ L < L + 1
        /\ ~(L + 1 \in 1..L) /\ 0 \in 0..(n - 1)
    BY <1>2
  <2>2. SubSeq(q, L + 1, L) = << >>
    BY <2>1, SubSeqEmpty
  <2>3. At(q, L + 1) = 0
    BY <2>1 DEF At
  <2>4. g[<<0, j>>] = << >>
    BY <1>1, <2>1
  <2> QED BY <2>1, <2>2, <2>3, <2>4
<1>4. ASSUME NEW m \in Nat, m <= L => Rest(m), m + 1 <= L PROVE Rest(m + 1)
  <2> SUFFICES ASSUME NEW j \in 0..n, j >= m + 1
               PROVE  g[<<At(q, L + 1 - (m + 1)), j>>]
                        = SubSeq(q, L + 1 - (m + 1), L)
    OBVIOUS
  <2> PICK k : k = L - m
    OBVIOUS
  <2>1. /\ k \in 1..L /\ L + 1 - (m + 1) = k /\ L + 1 - m = k + 1
        /\ L \in k..L /\ m <= L
        /\ j - 1 \in 0..n /\ j - 1 >= m /\ j # 0 /\ j \in 0..n
    BY <1>2, <1>4
  <2>2. Rest(m)
    BY <1>4, <2>1
  <2>3. g[<<At(q, k + 1), j - 1>>] = SubSeq(q, k + 1, L)
    BY <2>1, <2>2
  <2> HIDE DEF Rest
  <2>4. q[k] \in 1..(n - 1) /\ s.next[q[k]] = At(q, k + 1) /\ At(q, k) = q[k]
    BY <2>1 DEF Forward, At
  <2>5. q[k] \in 0..(s.size - 1) /\ q[k] # 0 /\ j \in 0..s.size
    <3> PICK e : e = q[k]
      OBVIOUS
    <3>1. e \in 1..(n - 1)
      BY <2>4
    <3>2. e \in 0..(n - 1) /\ e # 0
      BY <1>2, <3>1
    <3>3. j \in 0..n
      BY <2>1
    <3> QED BY <3>2, <3>3
  <2>6. g[<<q[k], j>>] = <<q[k]>> \o g[<<s.next[q[k]], j - 1>>]
    BY <1>1, <2>1, <2>5
  <2>7. SubSeq(q, k, L) = <<q[k]>> \o SubSeq(q, k + 1, L)
    BY <2>1, SubSeqRecursiveFirst
  <2> QED BY <2>1, <2>3, <2>4, <2>6, <2>7
<1>5. Rest(L)
  <2>1. 0 \in G
    BY <1>3
  <2>2. \A m \in Nat : m \in G => m + 1 \in G
    <3> SUFFICES ASSUME NEW m \in Nat, m \in G PROVE m + 1 \in G
      OBVIOUS
    <3>1. (m <= L => Rest(m)) /\ (m + 1 <= L => Rest(m + 1)) /\ m + 1 \in Nat
      <4> HIDE DEF Rest
      <4> QED BY <1>4
    <3> HIDE DEF Rest
    <3> QED BY <3>1
  <2>3. Nat \subseteq G
    <3> HIDE DEF G
    <3> QED BY <2>1, <2>2, Induction
  <2> HIDE DEF Rest
  <2>4. L \in Nat /\ L <= L
    BY <1>2
  <2> QED BY <2>3, <2>4
<1>6. g[<<At(q, 1), n>>] = SubSeq(q, 1, L)
  <2>1. L + 1 - L = 1 /\ n \in 0..n /\ n >= L
    BY <1>2
  <2> QED BY <1>5, <2>1
<1>7. SubSeq(q, 1, L) = q
  BY SubSeqFull
<1> QED BY <1>1, <1>6, <1>7 DEF Forward

-----------------------------------------------------------------------------
(* The shape of a list *)

\* Lists of n cells.
Lists(n) ==
  [size : {n}, front : 0..(n - 1), rear : 0..(n - 1),
   value : [0..(n - 1) -> Values \union {0}],
   next : [0..(n - 1) -> 0..(n - 1)],
   prev : [0..(n - 1) -> 0..(n - 1) \union {Wrapped}]]

\* The cells 1 to n - 1 are items (c), free (f) or loose, none of them twice.
Within(n, q) == \A k \in 1..Len(q) : q[k] \in 1..(n - 1)
Ascends(q) == \A j, k \in 1..Len(q) : j < k => q[j] < q[k]
Misses(q, i) == \A k \in 1..Len(q) : q[k] # i
Differ(q) == \A j, k \in 1..Len(q) : q[j] = q[k] => j = k

Owned(n, c, f, loose) ==
  /\ Within(n, c) /\ Within(n, f) /\ Differ(c) /\ Ascends(f)
  /\ \A i \in 1..(n - 1) : i \in loose \/ ~Misses(c, i) \/ ~Misses(f, i)
  /\ \A k \in 1..Len(c) : Misses(f, c[k])
  /\ \A i \in loose : i \in 1..(n - 1) /\ Misses(c, i) /\ Misses(f, i)

\* prev leads from each item to the one before.
Backward(prev, last, q) ==
  last = At(q, Len(q)) /\ \A k \in 1..Len(q) : prev[q[k]] = At(q, k - 1)

\* The free cells, chained from cell 0, which also knows the last one.
FreeChain(next, prev, f) ==
  /\ \A k \in 0..Len(f) : next[At(f, k)] = At(f, k + 1)
  /\ \A k \in 2..(Len(f) + 1) : prev[At(f, k)] = At(f, k - 1)

\* The links of the list s: n cells, items c, free cells f and loose cells,
\* which a call under way has taken out of both.
Shape(s, n, c, f, loose) ==
  /\ n \in Nat /\ n >= 1 /\ s \in Lists(n)
  /\ c \in Seq(Nat) /\ f \in Seq(Nat)
  /\ Owned(n, c, f, loose)
  /\ Forward(s.next, s.front, c) /\ Backward(s.prev, s.rear, c)
  /\ FreeChain(s.next, s.prev, f)
  /\ Len(f) = 0 => n = 1 \/ s.prev[0] = 0
  /\ s.value[0] = 0

-----------------------------------------------------------------------------
(* Sequences of cells *)

\* A function on 1 to n is a sequence.
LEMMA IsSequence ==
  ASSUME NEW S, NEW n \in Nat, NEW q \in [1..n -> S]
  PROVE  q \in Seq(S) /\ Len(q) = n
OBVIOUS

\* A sequence with i put in at place p.
Ins(q, p, i) == [k \in 1..(Len(q) + 1) |->
                   IF k < p THEN q[k] ELSE IF k = p THEN i ELSE q[k - 1]]

\* Its length and elements, for elements of any kind
LEMMA InsOf ==
  ASSUME NEW S, NEW q \in Seq(S), NEW p \in 1..(Len(q) + 1), NEW i \in S
  PROVE  /\ Ins(q, p, i) \in Seq(S)
         /\ Len(Ins(q, p, i)) = Len(q) + 1
         /\ \A k \in 1..(Len(q) + 1) :
              Ins(q, p, i)[k] = IF k < p THEN q[k]
                                ELSE IF k = p THEN i ELSE q[k - 1]
<1> PICK L : L = Len(q) /\ L \in Nat
  OBVIOUS
<1> PICK n : n = L + 1
  OBVIOUS
<1>1. n \in Nat
  OBVIOUS
<1>2. \A k \in 1..n : (IF k < p THEN q[k] ELSE IF k = p THEN i ELSE q[k - 1])
                         \in S
  <2> SUFFICES ASSUME NEW k \in 1..n
      PROVE (IF k < p THEN q[k] ELSE IF k = p THEN i ELSE q[k - 1]) \in S
    OBVIOUS
  <2>1. CASE k < p
    <3>1. k \in 1..L
      BY <2>1
    <3> QED BY <2>1, <3>1, ElementOfSeq
  <2>2. CASE k = p
    BY <2>2
  <2>3. CASE k > p
    <3>1. k - 1 \in 1..L /\ ~(k < p) /\ k # p
      BY <2>3
    <3> QED BY <3>1, ElementOfSeq
  <2> QED BY <2>1, <2>2, <2>3
<1>3. Ins(q, p, i) \in [1..n -> S]
  BY <1>2 DEF Ins
<1>4. Ins(q, p, i) \in Seq(S) /\ Len(Ins(q, p, i)) = n
  BY <1>1, <1>3, IsSequence
<1> QED BY <1>4 DEF Ins

\* and for cells.
LEMMA InsIs ==
  ASSUME NEW q \in Seq(Nat), NEW p \in 1..(Len(q) + 1), NEW i \in Nat
  PROVE  /\ Ins(q, p, i) \in Seq(Nat)
         /\ Len(Ins(q, p, i)) = Len(q) + 1
         /\ \A k \in 1..(Len(q) + 1) :
              Ins(q, p, i)[k] = IF k < p THEN q[k]
                                ELSE IF k = p THEN i ELSE q[k - 1]
<1>1. Ins(q, p, i) \in Seq(Nat)
  BY InsOf
<1>2. Len(Ins(q, p, i)) = Len(q) + 1
  BY InsOf
<1>3. ASSUME NEW k \in 1..(Len(q) + 1)
      PROVE  Ins(q, p, i)[k] = IF k < p THEN q[k]
                               ELSE IF k = p THEN i ELSE q[k - 1]
  BY DEF Ins
<1> QED BY <1>1, <1>2, <1>3

-----------------------------------------------------------------------------
(* list_freeCell *)

\* list_freeCell, as far as the links go.
LinkNext(next, f, p, i) ==
  [j \in DOMAIN next |-> IF j = i THEN At(f, p)
                         ELSE IF j = At(f, p - 1) THEN i ELSE next[j]]
LinkPrev(prev, f, p, i) ==
  [j \in DOMAIN prev |-> IF j = i THEN At(f, p - 1)
                         ELSE IF j = At(f, p) THEN i ELSE prev[j]]

\* What At says of an ascending or otherwise injective sequence of cells.
LEMMA AtIs ==
  ASSUME NEW n \in Nat, NEW q \in Seq(Nat), Within(n, q)
  PROVE  /\ Len(q) \in Nat
         /\ \A k \in 1..Len(q) : At(q, k) = q[k] /\ At(q, k) \in 1..(n - 1)
         /\ At(q, 0) = 0 /\ At(q, Len(q) + 1) = 0
         /\ \A k \in 1..Len(q) : At(q, k) # 0
<1> PICK L : L = Len(q)
  OBVIOUS
<1>1. L \in Nat
  BY LenProperties
<1>2. /\ ~(0 \in 1..L) /\ ~(L + 1 \in 1..L) /\ ~(0 \in 1..(n - 1))
  BY <1>1
<1> QED BY <1>1, <1>2 DEF At, Within

\* What ascends has no element twice.
LEMMA AscendingDiffers ==
  ASSUME NEW L \in Nat, NEW f,
         \A k \in 1..L : f[k] \in Nat,
         \A j, k \in 1..L : j < k => f[j] < f[k]
  PROVE  \A j, k \in 1..L : f[j] = f[k] => j = k
<1> SUFFICES ASSUME NEW j \in 1..L, NEW k \in 1..L, j # k PROVE f[j] # f[k]
  OBVIOUS
<1>1. j < k \/ k < j
  OBVIOUS
<1> QED BY <1>1

\* The cells a[1] to a[L], linked from cell 0 and back to it.
InOrder(L, a, next, prev) ==
  /\ \A k \in 0..L : next[a[k]] = a[k + 1]
  /\ \A k \in 2..(L + 1) : prev[a[k]] = a[k - 1]

\* Cell i is put between a[p - 1] and a[p].
Spliced(L, n, i, p, a, b, next, prev, N, P) ==
  /\ L \in Nat /\ n \in Nat /\ i \in 1..(n - 1) /\ p \in 1..(L + 1)
  /\ a[0] = 0 /\ a[L + 1] = 0
  /\ \A k \in 1..L : a[k] \in 1..(n - 1) /\ a[k] # i
  /\ \A j, k \in 1..L : j < k => a[j] < a[k]
  /\ InOrder(L, a, next, prev)
  /\ \A k \in 0..(L + 2) : b[k] = IF k < p THEN a[k]
                                  ELSE IF k = p THEN i ELSE a[k - 1]
  /\ \A j \in 0..(n - 1) : N[j] = IF j = i THEN a[p]
                                  ELSE IF j = a[p - 1] THEN i ELSE next[j]
  /\ \A j \in 0..(n - 1) : P[j] = IF j = i THEN a[p - 1]
                                  ELSE IF j = a[p] THEN i ELSE prev[j]

\* Then the cells with i among them are linked from cell 0 and back to it.
LEMMA SpliceOrder ==
  ASSUME NEW L, NEW n, NEW i, NEW p, NEW a, NEW b, NEW next, NEW prev,
         NEW N, NEW P, Spliced(L, n, i, p, a, b, next, prev, N, P)
  PROVE  InOrder(L + 1, b, N, P)
<1>0. /\ L \in Nat /\ n \in Nat /\ i \in 1..(n - 1) /\ p \in 1..(L + 1)
      /\ a[0] = 0 /\ a[L + 1] = 0
      /\ \A k \in 1..L : a[k] \in 1..(n - 1) /\ a[k] # i
      /\ \A k \in 0..(L + 2) : b[k] = IF k < p THEN a[k]
                                      ELSE IF k = p THEN i ELSE a[k - 1]
  BY DEF Spliced
<1>1. \A j, k \in 1..L : a[j] = a[k] => j = k
  <2>1. /\ \A k \in 1..L : a[k] \in Nat
        /\ \A j, k \in 1..L : j < k => a[j] < a[k]
    BY <1>0 DEF Spliced
  <2> QED BY <1>0, <2>1, AscendingDiffers
<1>2. \A k \in 0..(L + 1) : a[k] \in 0..(n - 1) /\ a[k] # i
  <2> SUFFICES ASSUME NEW k \in 0..(L + 1)
               PROVE  a[k] \in 0..(n - 1) /\ a[k] # i
    OBVIOUS
  <2>1. k = 0 \/ k = L + 1 \/ k \in 1..L
    BY <1>0
  <2>2. 0 \in 0..(n - 1) /\ 0 # i
    BY <1>0
  <2>3. CASE k \in 1..L
    <3>1. a[k] \in 1..(n - 1) /\ a[k] # i
      BY <1>0, <2>3
    <3> QED BY <1>0, <3>1
  <2> QED BY <1>0, <2>1, <2>2, <2>3
<1>3. \A k \in 1..L : a[k] # 0
  BY <1>0
<1>4. \A k \in 0..L : k # p - 1 => a[k] # a[p - 1]
  <2> SUFFICES ASSUME NEW k \in 0..L, k # p - 1 PROVE a[k] # a[p - 1]
    OBVIOUS
  <2>1. p - 1 = 0 \/ p - 1 \in 1..L
    BY <1>0
  <2>2. k = 0 \/ k \in 1..L
    BY <1>0
  <2> QED BY <1>0, <1>1, <1>3, <2>1, <2>2
<1>5. \A k \in 1..(L + 1) : k # p => a[k] # a[p]
  <2> SUFFICES ASSUME NEW k \in 1..(L + 1), k # p PROVE a[k] # a[p]
    OBVIOUS
  <2>1. p = L + 1 \/ p \in 1..L
    BY <1>0
  <2>2. k = L + 1 \/ k \in 1..L
    BY <1>0
  <2> QED BY <1>0, <1>1, <1>3, <2>1, <2>2
<1>6. N[i] = a[p] /\ N[a[p - 1]] = i /\ P[i] = a[p - 1] /\ P[a[p]] = i
  BY <1>0, <1>2 DEF Spliced
<1>7. \A k \in 0..L : k # p - 1 => N[a[k]] = a[k + 1]
  BY <1>0, <1>2, <1>4 DEF Spliced, InOrder
<1>8. \A k \in 2..(L + 1) : k # p => P[a[k]] = a[k - 1]
  <2> SUFFICES ASSUME NEW k \in 2..(L + 1), k # p PROVE P[a[k]] = a[k - 1]
    OBVIOUS
  <2>1. k \in 0..(L + 1) /\ k \in 1..(L + 1)
    BY <1>0
  <2>2. a[k] \in 0..(n - 1) /\ a[k] # i /\ a[k] # a[p]
    BY <1>2, <1>5, <2>1
  <2>3. P[a[k]] = prev[a[k]]
    BY <2>2 DEF Spliced
  <2> QED BY <2>3 DEF Spliced, InOrder
<1>9. ASSUME NEW k \in 0..(L + 1) PROVE N[b[k]] = b[k + 1]
  <2>0. k \in 0..(L + 2) /\ k + 1 \in 0..(L + 2) /\ (k + 1) - 1 = k
    BY <1>0
  <2>1. CASE k + 1 < p
    BY <1>0, <1>7, <2>0, <2>1
  <2>2. CASE k + 1 = p
    BY <1>0, <1>6, <2>0, <2>2
  <2>3. CASE k = p
    BY <1>0, <1>6, <2>0, <2>3
  <2>4. CASE k > p
    <3> PICK m : m = k - 1
      OBVIOUS
    <3>1. m \in 0..L /\ m + 1 = k /\ m # p - 1 /\ ~(k < p) /\ k # p
          /\ ~(k + 1 < p) /\ k + 1 # p
      BY <1>0, <2>4
    <3>2. b[k] = a[m] /\ b[k + 1] = a[k]
      BY <1>0, <2>0, <3>1
    <3> QED BY <1>7, <3>1, <3>2
  <2> QED BY <1>0, <2>1, <2>2, <2>3, <2>4
<1>10. ASSUME NEW k \in 2..(L + 2) PROVE P[b[k]] = b[k - 1]
  <2>0. k \in 0..(L + 2) /\ k - 1 \in 0..(L + 2)
    BY <1>0
  <2>1. CASE k < p
    BY <1>0, <1>8, <2>0, <2>1
  <2>2. CASE k = p
    BY <1>0, <1>6, <2>0, <2>2
  <2>3. CASE k = p + 1
    BY <1>0, <1>6, <2>0, <2>3
  <2>4. CASE k > p + 1
    <3> PICK m : m = k - 1
      OBVIOUS
    <3>1. m \in 2..(L + 1) /\ m # p /\ ~(k < p) /\ k # p /\ ~(m < p)
      BY <1>0, <2>4
    <3>2. b[k] = a[m] /\ b[k - 1] = a[m - 1]
      BY <1>0, <2>0, <3>1
    <3> QED BY <1>8, <3>1, <3>2
  <2> QED BY <1>0, <2>1, <2>2, <2>3, <2>4
<1>11. (L + 1) + 1 = L + 2
  BY <1>0
<1> QED
  BY <1>9, <1>10, <1>11 DEF InOrder

\* What is linked in stays in order.
LEMMA LinkKeeps ==
  ASSUME NEW n \in Nat, NEW next, NEW prev,
         DOMAIN next = 0..(n - 1), DOMAIN prev = 0..(n - 1),
         NEW f \in Seq(Nat), FreeChain(next, prev, f), Within(n, f),
         Ascends(f), NEW i \in 1..(n - 1), Misses(f, i),
         NEW p \in 1..(Len(f) + 1)
  PROVE  FreeChain(LinkNext(next, f, p, i), LinkPrev(prev, f, p, i), Ins(f, p, i))
<1>0. i \in Nat
  OBVIOUS
<1>1. /\ Ins(f, p, i) \in Seq(Nat)
      /\ Len(Ins(f, p, i)) = Len(f) + 1
      /\ \A k \in 1..(Len(f) + 1) :
           Ins(f, p, i)[k] = IF k < p THEN f[k]
                             ELSE IF k = p THEN i ELSE f[k - 1]
  BY <1>0, InsIs
<1>2. /\ Len(f) \in Nat
      /\ \A k \in 1..Len(f) : At(f, k) = f[k] /\ At(f, k) \in 1..(n - 1)
      /\ At(f, 0) = 0 /\ At(f, Len(f) + 1) = 0
      /\ \A k \in 1..Len(f) : At(f, k) # 0
  BY AtIs
<1>3. /\ \A j \in 0..(n - 1) : LinkNext(next, f, p, i)[j]
           = IF j = i THEN At(f, p)
             ELSE IF j = At(f, p - 1) THEN i ELSE next[j]
      /\ \A j \in 0..(n - 1) : LinkPrev(prev, f, p, i)[j]
           = IF j = i THEN At(f, p - 1) ELSE IF j = At(f, p) THEN i ELSE prev[j]
  BY DEF LinkNext, LinkPrev
<1>4. /\ \A k \in 0..Len(f) : next[At(f, k)] = At(f, k + 1)
      /\ \A k \in 2..(Len(f) + 1) : prev[At(f, k)] = At(f, k - 1)
  BY DEF FreeChain
<1>5. \A k \in 0..(Len(f) + 2) :
        At(Ins(f, p, i), k) = IF k < p THEN At(f, k)
                              ELSE IF k = p THEN i ELSE At(f, k - 1)
  <2> PICK q : q = Ins(f, p, i)
    OBVIOUS
  <2> PICK L : L = Len(f) /\ L \in Nat
    BY <1>2
  <2> SUFFICES ASSUME NEW k \in 0..(L + 2)
               PROVE  At(q, k) = IF k < p THEN At(f, k)
                                 ELSE IF k = p THEN i ELSE At(f, k - 1)
    BY Zenon
  <2>1. CASE k = 0
    BY <1>1, <1>2, <2>1 DEF At
  <2>2. CASE k = L + 2
    BY <1>1, <1>2, <2>2 DEF At
  <2>3. CASE k \in 1..(L + 1)
    BY <1>1, <1>2, <2>3 DEF At
  <2> QED BY <2>1, <2>2, <2>3
<1> PICK L : L = Len(f)
  OBVIOUS
<1> PICK a : a = [k \in 0..(L + 1) |-> At(f, k)]
  OBVIOUS
<1> PICK b : b = [k \in 0..(L + 2) |-> At(Ins(f, p, i), k)]
  OBVIOUS
<1> PICK N : N = LinkNext(next, f, p, i)
  OBVIOUS
<1> PICK P : P = LinkPrev(prev, f, p, i)
  OBVIOUS
<1>6. /\ L \in Nat /\ p \in 1..(L + 1)
      /\ \A k \in 0..(L + 1) : a[k] = At(f, k)
      /\ \A k \in 0..(L + 2) : b[k] = At(Ins(f, p, i), k)
  BY <1>2
<1>7. /\ a[0] = 0 /\ a[L + 1] = 0
      /\ \A k \in 1..L : a[k] \in 1..(n - 1) /\ a[k] # i
      /\ \A j, k \in 1..L : j < k => a[j] < a[k]
  <2>1. 0 \in 0..(L + 1) /\ L + 1 \in 0..(L + 1)
        /\ \A k \in 1..L : k \in 0..(L + 1)
    BY <1>6
  <2>2. a[0] = 0 /\ a[L + 1] = 0
    BY <1>2, <1>6, <2>1
  <2>3. \A k \in 1..L : a[k] = f[k] /\ a[k] \in 1..(n - 1)
    BY <1>2, <1>6, <2>1
  <2>4. \A k \in 1..L : a[k] # i
    BY <2>3 DEF Misses
  <2>5. \A j, k \in 1..L : j < k => a[j] < a[k]
    BY <2>3 DEF Ascends
  <2> QED BY <2>2, <2>3, <2>4, <2>5
<1>8. InOrder(L, a, next, prev)
  BY <1>4, <1>6 DEF InOrder
<1>9. \A k \in 0..(L + 2) : b[k] = IF k < p THEN a[k]
                                      ELSE IF k = p THEN i ELSE a[k - 1]
  BY <1>5, <1>6
<1>10. /\ \A j \in 0..(n - 1) : N[j] = IF j = i THEN a[p]
                                ELSE IF j = a[p - 1] THEN i ELSE next[j]
       /\ \A j \in 0..(n - 1) : P[j] = IF j = i THEN a[p - 1]
                                ELSE IF j = a[p] THEN i ELSE prev[j]
  BY <1>3, <1>6
<1>11. Spliced(L, n, i, p, a, b, next, prev, N, P)
  BY <1>6, <1>7, <1>8, <1>9, <1>10, Zenon DEF Spliced
<1>12. InOrder(L + 1, b, N, P)
  BY <1>11, SpliceOrder, Zenon
<1>13. (L + 1) + 1 = L + 2
  BY <1>6
<1>14. /\ \A k \in 0..(L + 1) : N[At(Ins(f, p, i), k)] = At(Ins(f, p, i), k + 1)
       /\ \A k \in 2..(L + 2) : P[At(Ins(f, p, i), k)] = At(Ins(f, p, i), k - 1)
  <2>1. /\ \A k \in 0..(L + 1) : N[b[k]] = b[k + 1]
        /\ \A k \in 2..(L + 2) : P[b[k]] = b[k - 1]
    BY <1>12, <1>13 DEF InOrder
  <2>2. \A k \in 0..(L + 1) : k \in 0..(L + 2) /\ k + 1 \in 0..(L + 2)
    BY <1>6
  <2>3. \A k \in 2..(L + 2) : k \in 0..(L + 2) /\ k - 1 \in 0..(L + 2)
    BY <1>6
  <2> HIDE DEF InOrder
  <2>4. ASSUME NEW k \in 0..(L + 1)
        PROVE  N[At(Ins(f, p, i), k)] = At(Ins(f, p, i), k + 1)
    BY <1>6, <2>1, <2>2
  <2>5. ASSUME NEW k \in 2..(L + 2)
        PROVE  P[At(Ins(f, p, i), k)] = At(Ins(f, p, i), k - 1)
    BY <1>6, <2>1, <2>3
  <2> QED BY <2>4, <2>5
<1> QED BY <1>1, <1>6, <1>13, <1>14 DEF FreeChain

\* Different cells out of n - 1 are at most as many.
LEMMA Pigeons ==
  ASSUME NEW n \in Nat, n >= 1, NEW q \in Seq(Nat), Within(n, q), Differ(q)
  PROVE  Len(q) <= n - 1
<1> PICK L : L = Len(q)
  OBVIOUS
<1>1. L \in Nat
  BY LenProperties
<1> PICK S : S = 1..L
  OBVIOUS
<1> PICK T : T = 1..(n - 1)
  OBVIOUS
<1> PICK g : g = [k \in S |-> q[k]]
  OBVIOUS
<1>2. /\ g \in [S -> T]
      /\ \A j, k \in S : g[j] = g[k] => j = k
  BY DEF Within, Differ
<1>3. g \in Injection(S, T)
  BY <1>2 DEF Injection, IsInjective
<1>4. /\ IsFiniteSet(S) /\ Cardinality(S) = L
      /\ IsFiniteSet(T) /\ Cardinality(T) = n - 1
  <2>1. \A m \in Nat : IsFiniteSet(1..m) /\ Cardinality(1..m) = m
    <3> SUFFICES ASSUME NEW m \in Nat
                 PROVE  IsFiniteSet(1..m) /\ Cardinality(1..m) = m
      OBVIOUS
    <3>1. 1 \in Int /\ m \in Int /\ (IF 1 > m THEN 0 ELSE m - 1 + 1) = m
      OBVIOUS
    <3>2. IsFiniteSet(1..m) /\ Cardinality(1..m) = IF 1 > m THEN 0 ELSE m - 1 + 1
      BY <3>1, FS_Interval
    <3> QED BY <3>1, <3>2
  <2>2. n - 1 \in Nat
    OBVIOUS
  <2> QED BY <1>1, <2>1, <2>2
<1>5. Cardinality(S) <= Cardinality(T)
  BY <1>3, <1>4, FS_Injection
<1> QED BY <1>4, <1>5

\* Nor has an ascending chain more than n - 1 cells.
LEMMA AscendsIs ==
  ASSUME NEW n \in Nat, n >= 1, NEW f \in Seq(Nat), Within(n, f), Ascends(f)
  PROVE  Differ(f) /\ Len(f) <= n - 1
<1>1. Len(f) \in Nat
  BY LenProperties
<1>2. /\ \A k \in 1..Len(f) : f[k] \in Nat
      /\ \A j, k \in 1..Len(f) : j < k => f[j] < f[k]
  BY DEF Within, Ascends
<1>3. Differ(f)
  BY <1>1, <1>2, AscendingDiffers DEF Differ
<1> QED BY <1>3, Pigeons

\* Where i belongs in an ascending sequence.
LEMMA Place ==
  ASSUME NEW n \in Nat, n >= 1, NEW f \in Seq(Nat), Within(n, f), Ascends(f),
         NEW i \in Nat, Misses(f, i)
  PROVE  \E p \in 1..(Len(f) + 1) :
           /\ \A k \in 1..Len(f) : k < p => f[k] < i
           /\ \A k \in 1..Len(f) : k >= p => i < f[k]
<1> PICK L : L = Len(f)
  OBVIOUS
<1>1. L \in Nat
  BY LenProperties
<1>2. /\ \A k \in 1..L : f[k] \in Nat /\ f[k] # i
      /\ \A j, k \in 1..L : j < k => f[j] < f[k]
  BY DEF Within, Ascends, Misses
<1> PICK S : S = {k \in 1..(L + 1) : k = L + 1 \/ i < f[k]}
  OBVIOUS
<1>3. L + 1 \in S /\ S \subseteq Nat
  BY <1>1
<1>4. PICK p \in S : \A k \in S : p <= k
  BY <1>3, Least
<1>5. \A k \in 1..L : k < p => f[k] < i
  <2> SUFFICES ASSUME NEW k \in 1..L, k < p PROVE f[k] < i
    OBVIOUS
  <2>1. k \notin S
    BY <1>1, <1>3, <1>4
  <2>2. ~(i < f[k])
    BY <1>1, <2>1
  <2> QED BY <1>2, <2>2
<1>6. \A k \in 1..L : k >= p => i < f[k]
  <2> SUFFICES ASSUME NEW k \in 1..L, k >= p PROVE i < f[k]
    OBVIOUS
  <2>1. p \in 1..L /\ i < f[p]
    BY <1>1, <1>4
  <2>2. f[p] < f[k] \/ p = k
    BY <1>2, <2>1
  <2>3. f[p] \in Nat /\ f[k] \in Nat
    BY <1>2, <2>1
  <2> QED BY <2>1, <2>2, <2>3
<1> QED BY <1>4, <1>5, <1>6

\* A function changed at two places, which may be the same.
LEMMA TwiceExcept ==
  ASSUME NEW D, NEW g, g = [j \in D |-> g[j]], NEW a \in D, NEW b \in D,
         NEW u, NEW v, NEW w, \A j \in D : w[j] = IF j = b THEN v
                                       ELSE IF j = a THEN u ELSE g[j],
         w = [j \in D |-> w[j]]
  PROVE  [[g EXCEPT ![a] = u] EXCEPT ![b] = v] = w
OBVIOUS

\* t is s with cell i linked in at place p, where it belongs.
LinkedAt(s, t, f, i, p) ==
  /\ \A k \in 1..Len(f) : k < p => f[k] < i
  /\ \A k \in 1..Len(f) : k >= p => i < f[k]
  /\ t = [s EXCEPT !.next = LinkNext(s.next, f, p, i),
                   !.prev = LinkPrev(s.prev, f, p, i)]

\* list_freeCell finds the place of the cell in the chain of free cells and
\* links it in there, in each of its four cases.
LEMMA FreeCellIs ==
  ASSUME NEW s, NEW n, NEW c, NEW f, NEW i, Shape(s, n, c, f, {i})
  PROVE  \E p \in 1..(Len(f) + 1) : LinkedAt(s, FreeCell(s, i), f, i, p)
<1>0. /\ n \in Nat /\ n >= 1 /\ s \in Lists(n) /\ f \in Seq(Nat)
      /\ Within(n, f) /\ Ascends(f) /\ Misses(f, i) /\ i \in 1..(n - 1)
      /\ FreeChain(s.next, s.prev, f) /\ s.value[0] = 0
      /\ (Len(f) = 0 => n = 1 \/ s.prev[0] = 0)
  BY DEF Shape, Owned
<1>1. PICK p \in 1..(Len(f) + 1) :
        /\ \A k \in 1..Len(f) : k < p => f[k] < i
        /\ \A k \in 1..Len(f) : k >= p => i < f[k]
  <2>1. i \in Nat
    BY <1>0
  <2> QED BY <1>0, <2>1, Place
<1> PICK L : L = Len(f)
  OBVIOUS
<1>2. /\ L \in Nat
      /\ \A k \in 1..L : At(f, k) = f[k] /\ At(f, k) \in 1..(n - 1)
      /\ At(f, 0) = 0 /\ At(f, L + 1) = 0
  BY <1>0, AtIs
<1>3. /\ \A k \in 0..L : s.next[At(f, k)] = At(f, k + 1)
      /\ \A k \in 2..(L + 1) : s.prev[At(f, k)] = At(f, k - 1)
  BY <1>0 DEF FreeChain
<1> PICK first : first = s.next[0]
  OBVIOUS
<1> PICK last : last = s.prev[0]
  OBVIOUS
<1> PICK N : N = LinkNext(s.next, f, p, i)
  OBVIOUS
<1> PICK P : P = LinkPrev(s.prev, f, p, i)
  OBVIOUS
<1>4. /\ s.size = n /\ s = [s EXCEPT !.value = s.value]
      /\ s.value \in [0..(n - 1) -> Values \union {0}]
      /\ s.next \in [0..(n - 1) -> 0..(n - 1)]
      /\ s.prev \in [0..(n - 1) -> 0..(n - 1) \union {Wrapped}]
  BY <1>0 DEF Lists
<1>14. /\ s.prev = [j \in 0..(n - 1) |-> s.prev[j]]
       /\ s.next = [j \in 0..(n - 1) |-> s.next[j]]
  BY <1>4
<1>5. first = At(f, 1)
  BY <1>2, <1>3
<1>6. L >= 1 => last = At(f, L)
  BY <1>2, <1>3
<1>7. L = 0 => last = 0
  BY <1>0
<1>8. FreeCells(s) = f
  <2>1. Len(f) <= s.size
    BY <1>0, <1>4, AscendsIs
  <2>2. \A k \in 1..Len(f) : f[k] \in 1..(s.size - 1)
    BY <1>0, <1>4 DEF Within
  <2>3. Forward(s.next, s.next[0], f)
    BY <1>2, <1>3, <1>5 DEF Forward
  <2>4. s.size \in Nat /\ s.size >= 1
    BY <1>0, <1>4
  <2>5. s.next \in [0..(s.size - 1) -> 0..(s.size - 1)]
    BY <1>4
  <2> QED BY <1>0, <2>1, <2>2, <2>3, <2>4, <2>5, ChainIs DEF FreeCells
<1>9. /\ N = [j \in 0..(n - 1) |-> IF j = i THEN At(f, p)
                        ELSE IF j = At(f, p - 1) THEN i ELSE s.next[j]]
      /\ P = [j \in 0..(n - 1) |-> IF j = i THEN At(f, p - 1)
                        ELSE IF j = At(f, p) THEN i ELSE s.prev[j]]
  BY <1>4 DEF LinkNext, LinkPrev
<1>10. CASE L = 0
  <2>1. first = 0 /\ last = 0 /\ p = 1
    BY <1>2, <1>5, <1>7, <1>10
  <2>2. FreeCell(s, i) = [[s EXCEPT !.value[0] = 0, !.next[0] = i, !.prev[0] = i]
                             EXCEPT !.next[i] = 0, !.prev[i] = 0]
    BY <2>1 DEF FreeCell, SetFirstLastFree
  <2>7. /\ At(f, p) = 0 /\ At(f, p - 1) = 0
        /\ 0 \in 0..(n - 1) /\ i \in 0..(n - 1) /\ i # 0
    <3>1. p - 1 = 0 /\ p = L + 1
      BY <1>10, <2>1
    <3> QED BY <1>0, <1>2, <3>1
  <2>3. [[s.next EXCEPT ![0] = i] EXCEPT ![i] = 0] = N
    <3>1. N = [j \in 0..(n - 1) |-> N[j]]
      BY <1>9
    <3>2. \A j \in 0..(n - 1) : N[j] = IF j = i THEN 0
                                      ELSE IF j = 0 THEN i ELSE s.next[j]
      BY <1>9, <2>7
    <3> QED BY <1>14, <2>7, <3>1, <3>2, TwiceExcept
  <2>4. [[s.prev EXCEPT ![0] = i] EXCEPT ![i] = 0] = P
    <3>1. P = [j \in 0..(n - 1) |-> P[j]]
      BY <1>9
    <3>2. \A j \in 0..(n - 1) : P[j] = IF j = i THEN 0
                                      ELSE IF j = 0 THEN i ELSE s.prev[j]
      BY <1>9, <2>7
    <3> QED BY <1>14, <2>7, <3>1, <3>2, TwiceExcept
  <2>5. [s.value EXCEPT ![0] = 0] = s.value
    BY <1>0, <1>4
  <2>6. FreeCell(s, i) = [s EXCEPT !.next = N, !.prev = P]
    BY <1>0, <1>4, <2>2, <2>3, <2>4, <2>5 DEF Lists
  <2> QED BY <1>1, <2>6 DEF LinkedAt
<1>11. CASE L >= 1 /\ p = 1
  <2>1. /\ At(f, p) = first /\ At(f, p - 1) = 0 /\ first \in 1..(n - 1)
        /\ i < first /\ first \in 0..(n - 1)
        /\ 0 \in 0..(n - 1) /\ i \in 0..(n - 1) /\ i # 0 /\ i # first /\ first # 0
    <3>1. 1 \in 1..L /\ p - 1 = 0 /\ 1 >= p
      BY <1>2, <1>11
    <3>2. first = f[1] /\ i < f[1] /\ first \in 1..(n - 1)
      BY <1>1, <1>2, <1>5, <3>1
    <3> QED BY <1>0, <1>2, <1>5, <1>11, <3>1, <3>2
  <2>2. FreeCell(s, i) = [s EXCEPT !.prev[first] = i, !.next[i] = first,
                                   !.prev[i] = 0, !.next[0] = i]
    BY <2>1 DEF FreeCell
  <2>3. [[s.next EXCEPT ![i] = first] EXCEPT ![0] = i] = N
    <3>1. N = [j \in 0..(n - 1) |-> N[j]]
      BY <1>9
    <3>2. \A j \in 0..(n - 1) : N[j] = IF j = 0 THEN i
                                      ELSE IF j = i THEN first ELSE s.next[j]
      BY <1>9, <2>1
    <3> QED BY <1>14, <2>1, <3>1, <3>2, TwiceExcept
  <2>4. [[s.prev EXCEPT ![first] = i] EXCEPT ![i] = 0] = P
    <3>1. P = [j \in 0..(n - 1) |-> P[j]]
      BY <1>9
    <3>2. \A j \in 0..(n - 1) : P[j] = IF j = i THEN 0
                                      ELSE IF j = first THEN i ELSE s.prev[j]
      BY <1>9, <2>1
    <3> QED BY <1>14, <2>1, <3>1, <3>2, TwiceExcept
  <2>6. FreeCell(s, i) = [s EXCEPT !.next = N, !.prev = P]
    BY <1>0, <1>4, <2>2, <2>3, <2>4 DEF Lists
  <2> QED BY <1>1, <2>6 DEF LinkedAt
<1>12. CASE L >= 1 /\ p = L + 1
  <2>1. /\ At(f, p) = 0 /\ At(f, p - 1) = last /\ last \in 1..(n - 1)
        /\ last < i /\ ~(first >= i) /\ last # 0 /\ first # 0
        /\ last \in 0..(n - 1)
        /\ 0 \in 0..(n - 1) /\ i \in 0..(n - 1) /\ i # 0 /\ i # last
    <3>1. 1 \in 1..L /\ L \in 1..L /\ p - 1 = L /\ 1 < p /\ L < p
      BY <1>2, <1>12
    <3>2. first = f[1] /\ f[1] < i /\ first \in 1..(n - 1)
      BY <1>1, <1>2, <1>5, <3>1
    <3>3. last = f[L] /\ f[L] < i /\ last \in 1..(n - 1)
      BY <1>1, <1>2, <1>6, <1>12, <3>1
    <3> QED BY <1>0, <1>2, <1>12, <3>1, <3>2, <3>3
  <2>2. FreeCell(s, i) = [s EXCEPT !.next[i] = 0, !.prev[i] = last,
                                   !.next[last] = i, !.prev[0] = i]
    BY <2>1 DEF FreeCell
  <2>3. [[s.next EXCEPT ![i] = 0] EXCEPT ![last] = i] = N
    <3>1. N = [j \in 0..(n - 1) |-> N[j]]
      BY <1>9
    <3>2. \A j \in 0..(n - 1) : N[j] = IF j = last THEN i
                                      ELSE IF j = i THEN 0 ELSE s.next[j]
      BY <1>9, <2>1
    <3> QED BY <1>14, <2>1, <3>1, <3>2, TwiceExcept
  <2>4. [[s.prev EXCEPT ![i] = last] EXCEPT ![0] = i] = P
    <3>1. P = [j \in 0..(n - 1) |-> P[j]]
      BY <1>9
    <3>2. \A j \in 0..(n - 1) : P[j] = IF j = 0 THEN i
                                      ELSE IF j = i THEN last ELSE s.prev[j]
      BY <1>9, <2>1
    <3> QED BY <1>14, <2>1, <3>1, <3>2, TwiceExcept
  <2>6. FreeCell(s, i) = [s EXCEPT !.next = N, !.prev = P]
    BY <1>0, <1>4, <2>2, <2>3, <2>4 DEF Lists
  <2> QED BY <1>1, <2>6 DEF LinkedAt
<1>13. CASE L >= 1 /\ p # 1 /\ p # L + 1
  <2> PICK x : x = f[p]
    OBVIOUS
  <2> PICK y : y = f[p - 1]
    OBVIOUS
  <2>0. p \in 2..L /\ p - 1 \in 1..L /\ 1 \in 1..L /\ L \in 1..L /\ p \in 1..L
        /\ p - 1 < p /\ p >= p /\ 1 < p /\ L >= p
    BY <1>2, <1>13
  <2>1. /\ At(f, p) = x /\ At(f, p - 1) = y
        /\ x \in 1..(n - 1) /\ y \in 1..(n - 1) /\ y < i /\ i < x
    BY <1>1, <1>2, <2>0
  <2>7. /\ ~(first >= i) /\ ~(last <= i) /\ first # 0 /\ last # 0
    <3>2. first = f[1] /\ f[1] < i /\ first \in 1..(n - 1)
      BY <1>1, <1>2, <1>5, <2>0
    <3>3. last = f[L] /\ i < f[L] /\ last \in 1..(n - 1)
      BY <1>1, <1>2, <1>6, <1>13, <2>0
    <3> QED BY <1>0, <3>2, <3>3
  <2>8. /\ x \in 0..(n - 1) /\ y \in 0..(n - 1) /\ x # 0 /\ y # 0 /\ x # y
        /\ 0 \in 0..(n - 1) /\ i \in 0..(n - 1) /\ i # 0 /\ i # x /\ i # y
    BY SMTT(30), <1>0, <2>1
  <2>9. s.prev[x] = y
    <3>1. p \in 2..(L + 1)
      BY <2>0
    <3> QED BY <1>3, <2>1, <3>1
  <2>10. f[SelectInSeq(f, LAMBDA j : j >= i)] = x
    <3> PICK I : I = {k \in 1..Len(f) : f[k] >= i}
      OBVIOUS
    <3>1. \A k \in 1..L : f[k] \in Nat
      BY <1>2
    <3>2. i \in Nat
      BY <1>0
    <3>3. p \in I /\ \A k \in I : k >= p
      <4>1. p \in I
        BY <2>0, <2>1, <3>1, <3>2
      <4>2. ASSUME NEW k \in I, k < p PROVE FALSE
        <5>1. f[k] < i /\ k \in 1..L /\ f[k] >= i
          BY <1>1, <4>2
        <5> QED BY <3>1, <3>2, <5>1
      <4>3. \A k \in I : k \in Int
        OBVIOUS
      <4> QED BY <2>0, <4>1, <4>2, <4>3
    <3>4. SelectInSeq(f, LAMBDA j : j >= i) = IF I # {} THEN Min(I) ELSE 0
      BY DEF SelectInSeq
    <3>5. Min(I) \in I /\ \A k \in I : Min(I) <= k
      <4>1. I \subseteq Nat /\ I # {}
        BY <3>3
      <4> QED BY <4>1, Least, Zenon DEF Min
    <3>6. Min(I) = p
      <4>1. Min(I) \in Int /\ p \in Int /\ Min(I) <= p /\ Min(I) >= p
        BY <3>3, <3>5
      <4> QED BY <4>1
    <3> QED BY <3>3, <3>4, <3>6
  <2>2. FreeCell(s, i) = [s EXCEPT !.next[i] = x, !.prev[i] = y,
                                   !.next[y] = i, !.prev[x] = i]
    BY <1>8, <2>7, <2>9, <2>10 DEF FreeCell
  <2>3. [[s.next EXCEPT ![i] = x] EXCEPT ![y] = i] = N
    <3>1. N = [j \in 0..(n - 1) |-> N[j]]
      BY <1>9
    <3>2. \A j \in 0..(n - 1) : N[j] = IF j = y THEN i
                                      ELSE IF j = i THEN x ELSE s.next[j]
      BY <1>9, <2>1, <2>8
    <3> QED BY <1>14, <2>8, <3>1, <3>2, TwiceExcept
  <2>4. [[s.prev EXCEPT ![i] = y] EXCEPT ![x] = i] = P
    <3>1. P = [j \in 0..(n - 1) |-> P[j]]
      BY <1>9
    <3>2. \A j \in 0..(n - 1) : P[j] = IF j = x THEN i
                                      ELSE IF j = i THEN y ELSE s.prev[j]
      BY <1>9, <2>1, <2>8
    <3> QED BY <1>14, <2>8, <3>1, <3>2, TwiceExcept
  <2>6. FreeCell(s, i) = [s EXCEPT !.next = N, !.prev = P]
    BY ZenonT(30), <1>0, <1>4, <2>2, <2>3, <2>4 DEF Lists
  <2> QED BY <1>1, <2>6 DEF LinkedAt
<1>15. L = 0 \/ L >= 1
  BY <1>2
<1> QED
  BY <1>15, <1>10, <1>11, <1>12, <1>13

\* A loose cell that is linked in makes the chain of free cells longer.
Freed(s, t, n, c, g) == Shape(t, n, c, g, {}) /\ t.value = s.value

\* The cell that list_freeCell gets is free afterwards; the items stay.
LEMMA FreeCellKeeps ==
  ASSUME NEW s, NEW n, NEW c, NEW f, NEW i, Shape(s, n, c, f, {i})
  PROVE  \E g : Freed(s, FreeCell(s, i), n, c, g)
<1>0. /\ n \in Nat /\ n >= 1 /\ s \in Lists(n) /\ f \in Seq(Nat) /\ c \in Seq(Nat)
      /\ Within(n, f) /\ Ascends(f) /\ Misses(f, i) /\ i \in 1..(n - 1)
      /\ Within(n, c) /\ Misses(c, i) /\ Differ(c)
      /\ \A k \in 1..Len(c) : Misses(f, c[k])
      /\ \A j \in 1..(n - 1) : j = i \/ ~Misses(c, j) \/ ~Misses(f, j)
      /\ FreeChain(s.next, s.prev, f) /\ s.value[0] = 0
      /\ Forward(s.next, s.front, c) /\ Backward(s.prev, s.rear, c)
  BY DEF Shape, Owned
<1>1a. PICK p \in 1..(Len(f) + 1) : LinkedAt(s, FreeCell(s, i), f, i, p)
  BY FreeCellIs, Zenon
<1>1. /\ \A k \in 1..Len(f) : k < p => f[k] < i
      /\ \A k \in 1..Len(f) : k >= p => i < f[k]
      /\ FreeCell(s, i) = [s EXCEPT !.next = LinkNext(s.next, f, p, i),
                                    !.prev = LinkPrev(s.prev, f, p, i)]
  BY <1>1a DEF LinkedAt
<1>2. i \in Nat /\ Len(f) \in Nat
  BY <1>0, LenProperties
<1>3a. /\ Ins(f, p, i) \in Seq(Nat) /\ Len(Ins(f, p, i)) = Len(f) + 1
       /\ \A k \in 1..(Len(f) + 1) :
            Ins(f, p, i)[k] = IF k < p THEN f[k]
                              ELSE IF k = p THEN i ELSE f[k - 1]
  <2>1. f \in Seq(Nat) /\ i \in Nat
    BY <1>0, <1>2
  <2> QED BY SMTT(30), <2>1, InsIs
<1> PICK t : t = FreeCell(s, i)
  OBVIOUS
<1> PICK g : g = Ins(f, p, i)
  OBVIOUS
<1>3. /\ g \in Seq(Nat) /\ Len(g) = Len(f) + 1
      /\ \A k \in 1..(Len(f) + 1) : g[k] = IF k < p THEN f[k]
                                           ELSE IF k = p THEN i ELSE f[k - 1]
  BY <1>3a
<1>4. /\ \A k \in 1..Len(f) : At(f, k) = f[k] /\ At(f, k) \in 1..(n - 1)
      /\ At(f, 0) = 0 /\ At(f, Len(f) + 1) = 0
  BY <1>0, AtIs
<1>5. At(f, p) \in 0..(n - 1) /\ At(f, p - 1) \in 0..(n - 1)
  <2>1. p \in 1..Len(f) \/ p = Len(f) + 1
    BY <1>2
  <2>2. p - 1 \in 1..Len(f) \/ p - 1 = 0
    BY <1>2
  <2>3. \A x \in 1..(n - 1) : x \in 0..(n - 1)
    BY <1>0
  <2>4. 0 \in 0..(n - 1)
    BY <1>0
  <2> QED BY <1>4, <2>1, <2>2, <2>3, <2>4
<1>6. /\ s.next \in [0..(n - 1) -> 0..(n - 1)]
      /\ s.prev \in [0..(n - 1) -> 0..(n - 1) \union {Wrapped}]
  BY <1>0 DEF Lists
<1>7. /\ LinkNext(s.next, f, p, i) \in [0..(n - 1) -> 0..(n - 1)]
      /\ LinkPrev(s.prev, f, p, i) \in [0..(n - 1) -> 0..(n - 1) \union {Wrapped}]
  <2>1. i \in 0..(n - 1)
    BY <1>0
  <2> QED BY <1>5, <1>6, <2>1 DEF LinkNext, LinkPrev
<1>8. t \in Lists(n)
  BY <1>0, <1>1, <1>7 DEF Lists
<1>9. /\ t.next = LinkNext(s.next, f, p, i) /\ t.prev = LinkPrev(s.prev, f, p, i)
      /\ t.front = s.front /\ t.rear = s.rear /\ t.value = s.value
  BY <1>0, <1>1 DEF Lists
<1>10. FreeChain(t.next, t.prev, g)
  <2>1. DOMAIN s.next = 0..(n - 1) /\ DOMAIN s.prev = 0..(n - 1)
    BY <1>6
  <2> QED BY <1>0, <1>9, <2>1, LinkKeeps
<1>11. \A k \in 1..Len(c) : /\ c[k] \in 0..(n - 1) /\ c[k] # i
                            /\ c[k] # At(f, p - 1) /\ c[k] # At(f, p)
  <2> SUFFICES ASSUME NEW k \in 1..Len(c)
               PROVE  /\ c[k] \in 0..(n - 1) /\ c[k] # i
                      /\ c[k] # At(f, p - 1) /\ c[k] # At(f, p)
    OBVIOUS
  <2>1. c[k] \in 1..(n - 1) /\ c[k] # i
    BY <1>0 DEF Within, Misses
  <2>2. \A j \in 1..Len(f) : c[k] # f[j]
    BY <1>0 DEF Misses
  <2>3. p \in 1..Len(f) \/ p = Len(f) + 1
    BY <1>2
  <2>4. p - 1 \in 1..Len(f) \/ p - 1 = 0
    BY <1>2
  <2>5. c[k] # 0 /\ c[k] \in 0..(n - 1)
    BY <1>0, <2>1
  <2> QED BY <1>4, <2>1, <2>2, <2>3, <2>4, <2>5
<1>12. /\ \A k \in 1..Len(c) : t.next[c[k]] = s.next[c[k]]
       /\ \A k \in 1..Len(c) : t.prev[c[k]] = s.prev[c[k]]
  BY <1>6, <1>9, <1>11 DEF LinkNext, LinkPrev
<1>13. Forward(t.next, t.front, c) /\ Backward(t.prev, t.rear, c)
  BY <1>0, <1>9, <1>12 DEF Forward, Backward
<1>14. \A j : Misses(g, j) <=> j # i /\ Misses(f, j)
  <2>1. ASSUME NEW j, Misses(g, j) PROVE j # i /\ Misses(f, j)
    <3>1. p \in 1..Len(g) /\ g[p] = i
      BY <1>2, <1>3
    <3>2. ASSUME NEW k \in 1..Len(f) PROVE f[k] # j
      <4>1. CASE k < p
        <5>1. k \in 1..Len(g) /\ g[k] = f[k]
          BY <1>2, <1>3, <4>1
        <5> QED BY <2>1, <5>1 DEF Misses
      <4>2. CASE k >= p
        <5>1. k + 1 \in 1..Len(g) /\ k + 1 \in 1..(Len(f) + 1)
              /\ ~(k + 1 < p) /\ k + 1 # p /\ (k + 1) - 1 = k
          BY <1>2, <1>3, <4>2
        <5>2. g[k + 1] = f[k]
          BY <1>3, <5>1
        <5> QED BY <2>1, <5>1, <5>2 DEF Misses
      <4>3. k < p \/ k >= p
        BY <1>2
      <4> QED BY <4>1, <4>2, <4>3
    <3> QED BY <2>1, <3>1, <3>2 DEF Misses
  <2>2. ASSUME NEW j, j # i, Misses(f, j) PROVE Misses(g, j)
    <3> SUFFICES ASSUME NEW k \in 1..Len(g) PROVE g[k] # j
      BY DEF Misses
    <3>1. k \in 1..(Len(f) + 1) /\ (k < p => k \in 1..Len(f))
          /\ (~(k < p) /\ k # p => k - 1 \in 1..Len(f))
      BY <1>2, <1>3
    <3> QED BY <1>3, <2>2, <3>1 DEF Misses
  <2> QED BY <2>1, <2>2
<1>15. Within(n, g)
  <2> SUFFICES ASSUME NEW k \in 1..Len(g) PROVE g[k] \in 1..(n - 1)
    BY DEF Within
  <2>1. k \in 1..(Len(f) + 1) /\ (k < p => k \in 1..Len(f))
        /\ (~(k < p) /\ k # p => k - 1 \in 1..Len(f))
    BY <1>2, <1>3
  <2> QED BY <1>0, <1>3, <2>1 DEF Within
<1>16. Ascends(g)
  <2> SUFFICES ASSUME NEW j \in 1..Len(g), NEW k \in 1..Len(g), j < k
               PROVE  g[j] < g[k]
    BY DEF Ascends
  <2>1. /\ j \in 1..(Len(f) + 1) /\ (j < p => j \in 1..Len(f))
        /\ (~(j < p) /\ j # p => j - 1 \in 1..Len(f) /\ j - 1 >= p)
        /\ k \in 1..(Len(f) + 1) /\ (k < p => k \in 1..Len(f))
        /\ (~(k < p) /\ k # p => k - 1 \in 1..Len(f) /\ k - 1 >= p)
    BY <1>2, <1>3
  <2>2. \A a, b \in 1..Len(f) : a < b => f[a] < f[b]
    BY <1>0 DEF Ascends
  <2>3. \A a \in 1..Len(f) : f[a] \in Nat
    BY <1>0, <1>4
  <2>4. CASE k < p
    <3>1. j < p /\ g[j] = f[j] /\ g[k] = f[k]
      BY <1>2, <1>3, <2>1, <2>4
    <3> QED BY <2>1, <2>2, <2>4, <3>1
  <2>5. CASE k = p
    <3>1. j < p /\ g[j] = f[j] /\ g[k] = i
      BY <1>2, <1>3, <2>1, <2>5
    <3> QED BY <1>1, <2>1, <3>1
  <2>6. CASE ~(k < p) /\ k # p /\ j < p
    <3> PICK m : m = k - 1
      OBVIOUS
    <3>1. g[j] = f[j] /\ g[k] = f[m] /\ m \in 1..Len(f) /\ m >= p /\ j \in 1..Len(f)
      BY <1>3, <2>1, <2>6
    <3>2. f[j] < i /\ i < f[m]
      BY <1>1, <2>6, <3>1
    <3> QED BY <1>2, <2>3, <3>1, <3>2
  <2>7. CASE ~(k < p) /\ k # p /\ j = p
    <3> PICK m : m = k - 1
      OBVIOUS
    <3>1. g[j] = i /\ g[k] = f[m] /\ m \in 1..Len(f) /\ m >= p
      BY <1>2, <1>3, <2>1, <2>7
    <3> QED BY <1>1, <3>1
  <2>8. CASE ~(k < p) /\ k # p /\ ~(j < p) /\ j # p
    <3> PICK m : m = k - 1
      OBVIOUS
    <3> PICK l : l = j - 1
      OBVIOUS
    <3>1. g[j] = f[l] /\ g[k] = f[m] /\ m \in 1..Len(f) /\ l \in 1..Len(f)
      BY <1>3, <2>1, <2>8
    <3>2. l < m
      OBVIOUS
    <3> QED BY <2>2, <3>1, <3>2
  <2> QED BY <2>4, <2>5, <2>6, <2>7, <2>8
<1>17. Owned(n, c, g, {})
  <2>1. \A j \in 1..(n - 1) : ~Misses(c, j) \/ ~Misses(g, j)
    BY <1>0, <1>14
  <2>2. \A k \in 1..Len(c) : Misses(g, c[k])
    BY <1>0, <1>11, <1>14
  <2> QED BY <1>0, <1>15, <1>16, <2>1, <2>2 DEF Owned
<1>18. Len(g) # 0
  BY <1>2, <1>3
<1>19. Shape(t, n, c, g, {})
  BY <1>0, <1>3, <1>8, <1>9, <1>10, <1>13, <1>17, <1>18 DEF Shape
<1>20. Freed(s, FreeCell(s, i), n, c, g)
  BY <1>9, <1>19 DEF Freed
<1> QED BY <1>20

-----------------------------------------------------------------------------
(* Taking the first free cell *)

\* The length and the elements of a tail.
LEMMA TailIs ==
  ASSUME NEW f \in Seq(Nat), Len(f) >= 1
  PROVE  /\ Tail(f) \in Seq(Nat) /\ Len(Tail(f)) = Len(f) - 1
         /\ Len(f) \in Nat /\ Len(f) - 1 \in Nat
         /\ \A k \in 1..(Len(f) - 1) : Tail(f)[k] = f[k + 1]
<1>1. Len(f) \in Nat /\ f # << >>
  OBVIOUS
<1>2. /\ Tail(f) \in Seq(Nat) /\ Len(Tail(f)) = Len(f) - 1
      /\ \A k \in 1..Len(Tail(f)) : Tail(f)[k] = f[k + 1]
  BY <1>1, HeadTailProperties
<1> QED BY <1>1, <1>2

\* The first free cell leaves the chain of free cells, with any prev in the
\* one that comes first now.
FirstLeft(s, f, w) ==
  [s EXCEPT !.next = [s.next EXCEPT ![0] = At(f, 2)],
            !.prev = IF Len(f) = 1 THEN [s.prev EXCEPT ![0] = 0]
                     ELSE [s.prev EXCEPT ![At(f, 2)] = w]]

\* Then it is loose, and the others are still chained.
LEMMA FirstLeaves ==
  ASSUME NEW s, NEW n, NEW c, NEW f, Shape(s, n, c, f, {}), Len(f) >= 1,
         NEW w \in 0..(n - 1) \union {Wrapped}
  PROVE  Shape(FirstLeft(s, f, w), n, c, Tail(f), {f[1]})
<1>0. /\ n \in Nat /\ n >= 1 /\ s \in Lists(n) /\ f \in Seq(Nat) /\ c \in Seq(Nat)
      /\ Within(n, f) /\ Ascends(f)
      /\ Within(n, c) /\ Differ(c)
      /\ \A k \in 1..Len(c) : Misses(f, c[k])
      /\ \A j \in 1..(n - 1) : ~Misses(c, j) \/ ~Misses(f, j)
      /\ FreeChain(s.next, s.prev, f) /\ s.value[0] = 0
      /\ Forward(s.next, s.front, c) /\ Backward(s.prev, s.rear, c)
  BY DEF Shape, Owned
<1> PICK i : i = f[1]
  OBVIOUS
<1> PICK L : L = Len(f)
  OBVIOUS
<1> PICK g : g = Tail(f)
  OBVIOUS
<1> PICK t : t = FirstLeft(s, f, w)
  OBVIOUS
<1>1. /\ L \in Nat /\ L >= 1 /\ g \in Seq(Nat) /\ Len(g) = L - 1
      /\ \A k \in 1..(L - 1) : g[k] = f[k + 1]
  BY <1>0, TailIs
<1>2. /\ \A k \in 1..L : At(f, k) = f[k] /\ At(f, k) \in 1..(n - 1)
      /\ At(f, 0) = 0 /\ At(f, L + 1) = 0
      /\ \A k \in 1..L : At(f, k) # 0
  BY <1>0, AtIs
<1>3. /\ \A k \in 0..L : s.next[At(f, k)] = At(f, k + 1)
      /\ \A k \in 2..(L + 1) : s.prev[At(f, k)] = At(f, k - 1)
  BY <1>0 DEF FreeChain
<1>4. /\ s.next[0] = i /\ i \in 1..(n - 1) /\ s.next[i] = At(f, 2) /\ i # 0
      /\ s.prev[0] = f[L] /\ 0 \in 0..(n - 1) /\ i \in 0..(n - 1)
  <2>1. 0 \in 0..L /\ 1 \in 0..L /\ 1 \in 1..L /\ L + 1 \in 2..(L + 1)
        /\ L \in 1..L /\ (L + 1) - 1 = L
    BY <1>1
  <2>2. At(f, 1) = i /\ At(f, L) = f[L] /\ i \in 1..(n - 1)
    BY <1>2, <2>1
  <2>3. s.next[At(f, 0)] = At(f, 1) /\ s.next[At(f, 1)] = At(f, 2)
        /\ s.prev[At(f, L + 1)] = At(f, L)
    BY <1>3, <2>1
  <2> QED BY <1>0, <1>2, <2>2, <2>3
<1>5. \A j, k \in 1..L : f[j] = f[k] => j = k
  BY <1>0, AscendsIs DEF Differ
<1>6. /\ s.next \in [0..(n - 1) -> 0..(n - 1)]
      /\ s.prev \in [0..(n - 1) -> 0..(n - 1) \union {Wrapped}]
      /\ s.value \in [0..(n - 1) -> Values \union {0}]
  BY <1>0 DEF Lists
<1> PICK P : P = IF L = 1 THEN [s.prev EXCEPT ![0] = 0]
                 ELSE [s.prev EXCEPT ![At(f, 2)] = w]
  OBVIOUS
<1> PICK N : N = [s.next EXCEPT ![0] = At(f, 2)]
  OBVIOUS
<1>7. t = [s EXCEPT !.next = N, !.prev = P]
  BY DEF FirstLeft
<1>8. At(f, 2) \in 0..(n - 1)
  BY <1>4, <1>6
<1>9. N \in [0..(n - 1) -> 0..(n - 1)]
      /\ P \in [0..(n - 1) -> 0..(n - 1) \union {Wrapped}]
  <2> QED BY <1>4, <1>6, <1>8
<1>10. t \in Lists(n)
  BY <1>0, <1>7, <1>9 DEF Lists
<1>11. /\ t.next = N /\ t.prev = P /\ t.value = s.value /\ t.front = s.front
       /\ t.rear = s.rear
  BY <1>0, <1>7 DEF Lists
<1>12. \A k \in 0..(L - 1) : At(g, k) = IF k = 0 THEN 0 ELSE f[k + 1]
  BY <1>1 DEF At
<1>13. At(g, L) = 0
  BY <1>1 DEF At
<1>14. FreeChain(N, P, g)
  <2>1. ASSUME NEW k \in 0..(L - 1) PROVE N[At(g, k)] = At(g, k + 1)
    <3>1. CASE k = 0
      <4>1. At(g, 0) = 0 /\ N[0] = At(f, 2)
        <5>1. N[0] = At(f, 2)
          BY <1>4, <1>6
        <5>2. 0 \in 0..(L - 1)
          BY <1>1
        <5>3. At(g, 0) = 0
          BY <1>12, <5>2
        <5> QED BY <5>1, <5>3
      <4>2. CASE L = 1
        BY <1>2, <1>13, <3>1, <4>1, <4>2
      <4>3. CASE L > 1
        <5>1. 1 \in 0..(L - 1) /\ 2 \in 1..L
          BY <1>1, <4>3
        <5>2. At(g, 1) = f[2] /\ At(f, 2) = f[2]
          BY <1>2, <1>12, <5>1
        <5> QED BY <3>1, <4>1, <5>2
      <4> QED BY <1>1, <4>2, <4>3
    <3>2. CASE k # 0
      <4> PICK m : m = k + 1
        OBVIOUS
      <4>1. m \in 2..L /\ m \in 1..L /\ m \in 0..L
        BY <1>1, <3>2
      <4>2. At(g, k) = f[m] /\ At(f, m) = f[m] /\ f[m] \in 1..(n - 1)
        BY <1>2, <1>12, <3>2, <4>1
      <4>3. N[f[m]] = s.next[f[m]]
        BY <1>6, <4>2
      <4>4. s.next[f[m]] = At(f, m + 1)
        BY <1>3, <4>1, <4>2
      <4>5. At(f, m + 1) = At(g, m)
        <5>1. CASE m = L
          BY <1>2, <1>13, <5>1
        <5>2. CASE m # L
          <6>1. m \in 0..(L - 1) /\ m + 1 \in 1..L /\ m # 0
            BY <4>1, <5>2
          <6> QED BY <1>2, <1>12, <6>1
        <5> QED BY <5>1, <5>2
      <4> QED BY <4>2, <4>3, <4>4, <4>5
    <3> QED BY <3>1, <3>2
  <2>2. ASSUME NEW k \in 2..L PROVE P[At(g, k)] = At(g, k - 1)
    <3> PICK m : m = k + 1
      OBVIOUS
    <3>0. L \in Nat /\ k \in Nat /\ 2 <= k /\ k <= L
      BY <1>1
    <3>1. /\ L # 1 /\ m \in 3..(L + 1) /\ m \in 2..(L + 1) /\ k - 1 \in 0..(L - 1)
          /\ k - 1 # 0 /\ m - 1 = k /\ (k - 1) + 1 = k /\ k \in 1..L /\ 2 \in 1..L
      <4>1. m \in 3..(L + 1) /\ m \in 2..(L + 1) /\ m - 1 = k
        BY <3>0
      <4>2. k - 1 \in 0..(L - 1) /\ k - 1 # 0 /\ (k - 1) + 1 = k
        BY <3>0
      <4>3. L # 1 /\ k \in 1..L /\ 2 \in 1..L
        BY <3>0
      <4> QED BY <4>1, <4>2, <4>3
    <3>2. At(g, k) = At(f, m)
      <4>1. CASE k = L
        BY <1>2, <1>13, <4>1
      <4>2. CASE k # L
        <5>1. k \in 0..(L - 1) /\ m \in 1..L /\ k # 0
          BY <3>1, <4>2
        <5> QED BY <1>2, <1>12, <5>1
      <4> QED BY <4>1, <4>2
    <3>3. At(g, k - 1) = f[k] /\ At(f, k) = f[k]
      BY <1>2, <1>12, <3>1
    <3>4. At(f, m) # At(f, 2) /\ At(f, m) \in 0..(n - 1)
      <4>1. CASE m = L + 1
        BY <1>2, <1>4, <3>1, <4>1
      <4>2. CASE m # L + 1
        <5>1. m \in 1..L /\ m # 2
          BY <3>1, <4>2
        <5>2. At(f, m) = f[m] /\ At(f, 2) = f[2] /\ f[m] \in 1..(n - 1)
          BY <1>2, <3>1, <5>1
        <5>3. f[m] # f[2]
          BY <1>5, <3>1, <5>1
        <5> QED BY <1>0, <5>2, <5>3
      <4> QED BY <4>1, <4>2
    <3>5. P[At(f, m)] = s.prev[At(f, m)]
      BY <1>6, <3>1, <3>4
    <3>6. s.prev[At(f, m)] = At(f, k)
      BY <1>3, <3>1
    <3> QED BY <3>2, <3>3, <3>5, <3>6
  <2>3. (L - 1) + 1 = L
    BY <1>1
  <2> QED BY <1>1, <2>1, <2>2, <2>3 DEF FreeChain
<1>15. \A k \in 1..Len(c) : c[k] \in 1..(n - 1) /\ c[k] # 0 /\ c[k] # At(f, 2)
                           /\ c[k] \in 0..(n - 1) /\ c[k] # i
  <2> SUFFICES ASSUME NEW k \in 1..Len(c)
               PROVE c[k] \in 1..(n - 1) /\ c[k] # 0 /\ c[k] # At(f, 2)
                     /\ c[k] \in 0..(n - 1) /\ c[k] # i
    OBVIOUS
  <2>1. c[k] \in 1..(n - 1) /\ \A j \in 1..L : c[k] # f[j]
    BY <1>0 DEF Within, Misses
  <2>2. c[k] # 0 /\ c[k] \in 0..(n - 1)
    BY <1>0, <2>1
  <2>3. At(f, 2) = 0 \/ \E j \in 1..L : At(f, 2) = f[j]
    BY DEF At
  <2>4. 1 \in 1..L
    BY <1>1
  <2> QED BY <2>1, <2>2, <2>3, <2>4
<1>16. /\ \A k \in 1..Len(c) : t.next[c[k]] = s.next[c[k]]
       /\ \A k \in 1..Len(c) : t.prev[c[k]] = s.prev[c[k]]
  BY <1>6, <1>11, <1>15
<1>17. Forward(t.next, t.front, c) /\ Backward(t.prev, t.rear, c)
  BY <1>0, <1>11, <1>16 DEF Forward, Backward
<1>18. \A j : Misses(f, j) <=> j # i /\ Misses(g, j)
  <2>1. ASSUME NEW j, Misses(f, j) PROVE j # i /\ Misses(g, j)
    <3>1. 1 \in 1..L /\ \A k \in 1..(L - 1) : k + 1 \in 1..L
      BY <1>1
    <3> QED BY <1>1, <2>1, <3>1 DEF Misses
  <2>2. ASSUME NEW j, j # i, Misses(g, j), NEW k \in 1..L PROVE f[k] # j
    <3>1. k = 1 \/ (k - 1 \in 1..(L - 1) /\ (k - 1) + 1 = k)
      BY <1>1
    <3> QED BY <1>1, <2>2, <3>1 DEF Misses
  <2> QED BY <2>1, <2>2 DEF Misses
<1>19. Within(n, g) /\ Ascends(g)
  <2>1. \A k \in 1..(L - 1) : k + 1 \in 1..L
    BY <1>1
  <2> QED BY <1>0, <1>1, <2>1 DEF Within, Ascends
<1>20. Misses(g, i)
  <2>1. \A k \in 1..(L - 1) : k + 1 \in 1..L /\ k + 1 # 1 /\ 1 \in 1..L
    BY <1>1
  <2> QED BY <1>1, <1>5, <2>1 DEF Misses
<1>21. Owned(n, c, g, {i})
  <2>1. \A j \in 1..(n - 1) : j \in {i} \/ ~Misses(c, j) \/ ~Misses(g, j)
    BY <1>0, <1>18
  <2>2. \A k \in 1..Len(c) : Misses(g, c[k])
    BY <1>0, <1>18
  <2>3. Misses(c, i)
    BY <1>15 DEF Misses
  <2> QED BY <1>0, <1>4, <1>19, <1>20, <2>1, <2>2, <2>3 DEF Owned
<1>22. Len(g) = 0 => t.prev[0] = 0
  <2> SUFFICES ASSUME Len(g) = 0 PROVE t.prev[0] = 0
    OBVIOUS
  <2>1. L = 1
    BY <1>1
  <2>2. P = [s.prev EXCEPT ![0] = 0]
    BY <2>1
  <2>3. P[0] = 0
    BY <1>4, <1>6, <2>2
  <2> QED BY <1>11, <2>3
<1>23. Shape(t, n, c, g, {i})
  BY <1>0, <1>1, <1>10, <1>11, <1>14, <1>17, <1>21, <1>22 DEF Shape
<1> QED BY <1>23

\* t is s with the first free cell loose.
FirstTaken(s, t, n, c, f) ==
  /\ s.next[0] = f[1]
  /\ Shape(t, n, c, Tail(f), {f[1]})
  /\ t.value = s.value

\* list_push takes the first free cell out of its chain.
LEMMA TakeFirstKeeps ==
  ASSUME NEW s, NEW n, NEW c, NEW f, Shape(s, n, c, f, {}), Len(f) >= 1
  PROVE  FirstTaken(s, TakeFirstFree(s), n, c, f)
<1>0. /\ n \in Nat /\ n >= 1 /\ s \in Lists(n) /\ f \in Seq(Nat)
      /\ Within(n, f) /\ Ascends(f) /\ FreeChain(s.next, s.prev, f) /\ s.value[0] = 0
  BY DEF Shape, Owned
<1>l. \A w \in 0..(n - 1) \union {Wrapped} :
        Shape(FirstLeft(s, f, w), n, c, Tail(f), {f[1]})
  BY FirstLeaves
<1> PICK i : i = f[1]
  OBVIOUS
<1> PICK L : L = Len(f)
  OBVIOUS
<1> PICK t : t = TakeFirstFree(s)
  OBVIOUS
<1>1. L \in Nat /\ L >= 1
  BY <1>0, TailIs
<1>2. /\ \A k \in 1..L : At(f, k) = f[k] /\ At(f, k) \in 1..(n - 1)
      /\ At(f, 0) = 0 /\ At(f, L + 1) = 0
      /\ \A k \in 1..L : At(f, k) # 0
  BY <1>0, AtIs
<1>3. /\ \A k \in 0..L : s.next[At(f, k)] = At(f, k + 1)
      /\ \A k \in 2..(L + 1) : s.prev[At(f, k)] = At(f, k - 1)
  BY <1>0 DEF FreeChain
<1>4. /\ s.next[0] = i /\ i \in 1..(n - 1) /\ s.next[i] = At(f, 2) /\ i # 0
      /\ s.prev[0] = f[L] /\ 0 \in 0..(n - 1) /\ i \in 0..(n - 1)
  <2>1. 0 \in 0..L /\ 1 \in 0..L /\ 1 \in 1..L /\ L + 1 \in 2..(L + 1)
        /\ L \in 1..L /\ (L + 1) - 1 = L
    BY <1>1
  <2>2. At(f, 1) = i /\ At(f, L) = f[L] /\ i \in 1..(n - 1)
    BY <1>2, <2>1
  <2>3. s.next[At(f, 0)] = At(f, 1) /\ s.next[At(f, 1)] = At(f, 2)
        /\ s.prev[At(f, L + 1)] = At(f, L)
    BY <1>3, <2>1
  <2> QED BY <1>0, <1>2, <2>2, <2>3
<1>5. \A j, k \in 1..L : f[j] = f[k] => j = k
  BY <1>0, AscendsIs DEF Differ
<1>6. /\ s.next \in [0..(n - 1) -> 0..(n - 1)]
      /\ s.prev \in [0..(n - 1) -> 0..(n - 1) \union {Wrapped}]
      /\ s.value \in [0..(n - 1) -> Values \union {0}]
  BY <1>0 DEF Lists
<1> PICK P : P = IF L = 1 THEN [s.prev EXCEPT ![0] = 0]
                 ELSE [s.prev EXCEPT ![At(f, 2)] = s.prev[i]]
  OBVIOUS
<1> PICK N : N = [s.next EXCEPT ![0] = At(f, 2)]
  OBVIOUS
<1>7. t = [s EXCEPT !.next = N, !.prev = P]
  <2>1. CASE L = 1
    <3>1. At(f, 2) = 0 /\ s.prev[0] = i
      BY <1>2, <1>4, <2>1
    <3>2. [s.value EXCEPT ![0] = 0] = s.value
      BY <1>0, <1>6
    <3>3. t = SetFirstLastFree(s, 0, 0)
      BY <1>4, <3>1 DEF TakeFirstFree
    <3> QED BY <1>0, <2>1, <3>1, <3>2, <3>3 DEF SetFirstLastFree, Lists
  <2>2. CASE L > 1
    <3>1. 1 \in 1..L /\ 2 \in 1..L /\ L \in 1..L /\ L # 1
      BY <1>1, <2>2
    <3>2. At(f, 2) # 0 /\ s.prev[0] # i /\ At(f, 2) # i
      BY <1>2, <1>4, <1>5, <3>1
    <3>3. t = [[s EXCEPT !.next[0] = s.next[i]]
                 EXCEPT !.prev[s.next[i]] = s.prev[i]]
      BY <1>4, <3>2 DEF TakeFirstFree
    <3> QED BY <1>0, <1>4, <3>1, <3>3 DEF Lists
  <2> QED BY <1>1, <2>1, <2>2
<1>8. s.prev[i] \in 0..(n - 1) \union {Wrapped}
  BY <1>4, <1>6
<1>9. Shape(t, n, c, Tail(f), {i})
  <2>1. t = FirstLeft(s, f, s.prev[i])
    BY <1>7 DEF FirstLeft
  <2> QED BY <1>l, <1>8, <2>1
<1>10. t.value = s.value
  BY <1>0, <1>7 DEF Lists
<1> QED BY <1>4, <1>9, <1>10 DEF FirstTaken

-----------------------------------------------------------------------------
(* Linking a cell behind the last item *)

\* The chain of free cells depends on cell 0 and the free cells only.
Alike(f, next, prev, next2, prev2) ==
  /\ next2[0] = next[0] /\ prev2[0] = prev[0]
  /\ \A k \in 1..Len(f) : next2[f[k]] = next[f[k]] /\ prev2[f[k]] = prev[f[k]]

\* Where these agree, so do the chains.
LEMMA FreeUntouched ==
  ASSUME NEW f \in Seq(Nat), NEW next, NEW prev, NEW next2, NEW prev2,
         FreeChain(next, prev, f), Alike(f, next, prev, next2, prev2)
  PROVE  FreeChain(next2, prev2, f)
<1>1. \A k \in 0..(Len(f) + 1) : At(f, k) = 0 \/ \E j \in 1..Len(f) : At(f, k) = f[j]
  BY DEF At
<1>2. Len(f) \in Nat
  BY LenProperties
<1>3. \A k \in 0..(Len(f) + 1) : /\ next2[At(f, k)] = next[At(f, k)]
                                 /\ prev2[At(f, k)] = prev[At(f, k)]
  BY <1>1 DEF Alike
<1>4. /\ \A k \in 0..Len(f) : k \in 0..(Len(f) + 1)
      /\ \A k \in 2..(Len(f) + 1) : k \in 0..(Len(f) + 1)
  BY <1>2
<1> QED BY <1>3, <1>4 DEF FreeChain

\* A loose cell becomes the last item.
Behind(t, r, i, v) ==
  [(IF r = 0 THEN t ELSE [t EXCEPT !.next[r] = i])
     EXCEPT !.prev[i] = r, !.front = IF @ = 0 THEN i ELSE @,
            !.rear = i, !.value[i] = v, !.next[i] = 0]

\* u is s with the loose cell i, and v in it, as the last item.
Appended(s, u, n, c, f, i, v) ==
  /\ Shape(u, n, Append(c, i), f, {})
  /\ u.value = [s.value EXCEPT ![i] = v]

\* list_push links the cell it took behind rear.
LEMMA BehindKeeps ==
  ASSUME NEW s, NEW n, NEW c, NEW f, NEW i, Shape(s, n, c, f, {i}),
         NEW v \in Values
  PROVE  Appended(s, Behind(s, s.rear, i, v), n, c, f, i, v)
<1>0. /\ n \in Nat /\ n >= 1 /\ s \in Lists(n) /\ f \in Seq(Nat) /\ c \in Seq(Nat)
      /\ Within(n, f) /\ Ascends(f) /\ Misses(f, i) /\ i \in 1..(n - 1)
      /\ Within(n, c) /\ Misses(c, i) /\ Differ(c)
      /\ \A k \in 1..Len(c) : Misses(f, c[k])
      /\ \A j \in 1..(n - 1) : j = i \/ ~Misses(c, j) \/ ~Misses(f, j)
      /\ FreeChain(s.next, s.prev, f) /\ s.value[0] = 0
      /\ Forward(s.next, s.front, c) /\ Backward(s.prev, s.rear, c)
      /\ (Len(f) = 0 => n = 1 \/ s.prev[0] = 0)
  BY DEF Shape, Owned
<1> PICK L : L = Len(c)
  OBVIOUS
<1> PICK r : r = s.rear
  OBVIOUS
<1> PICK d : d = Append(c, i)
  OBVIOUS
<1> PICK u : u = Behind(s, r, i, v)
  OBVIOUS
<1>1. /\ L \in Nat /\ i \in Nat /\ i # 0 /\ i \in 0..(n - 1) /\ 0 \in 0..(n - 1)
  BY <1>0, LenProperties
<1>2. /\ d \in Seq(Nat) /\ Len(d) = L + 1
      /\ \A k \in 1..L : d[k] = c[k]
      /\ d[L + 1] = i
  BY <1>0, <1>1, AppendProperties
<1>3. /\ \A k \in 1..L : At(c, k) = c[k] /\ At(c, k) \in 1..(n - 1)
      /\ At(c, 0) = 0 /\ At(c, L + 1) = 0
      /\ \A k \in 1..L : At(c, k) # 0
  BY <1>0, AtIs
<1>4. /\ r = At(c, L) /\ s.front = At(c, 1)
      /\ \A k \in 1..L : s.prev[c[k]] = At(c, k - 1)
      /\ \A k \in 1..L : s.next[c[k]] = At(c, k + 1)
  BY <1>0 DEF Forward, Backward
<1>5. r \in 0..(n - 1) /\ r # i /\ (r = 0 <=> L = 0) /\ (s.front = 0 <=> L = 0)
  <2>1. r \in 0..(n - 1)
    BY <1>0 DEF Lists
  <2>2. CASE L = 0
    <3>1. r = 0 /\ s.front = 0
      BY <1>3, <1>4, <2>2
    <3> QED BY <1>1, <2>1, <2>2, <3>1
  <2>3. CASE L # 0
    <3>1. L \in 1..L /\ 1 \in 1..L
      BY <1>1, <2>3
    <3>2. r = c[L] /\ c[L] # 0 /\ s.front # 0 /\ c[L] # i
      BY <1>0, <1>3, <1>4, <3>1 DEF Misses
    <3> QED BY <2>1, <2>3, <3>2
  <2> QED BY <2>2, <2>3
<1>6. /\ s.next \in [0..(n - 1) -> 0..(n - 1)]
      /\ s.prev \in [0..(n - 1) -> 0..(n - 1) \union {Wrapped}]
      /\ s.value \in [0..(n - 1) -> Values \union {0}]
  BY <1>0 DEF Lists
<1> PICK N : N = [(IF r = 0 THEN s.next ELSE [s.next EXCEPT ![r] = i])
                    EXCEPT ![i] = 0]
  OBVIOUS
<1> PICK P : P = [s.prev EXCEPT ![i] = r]
  OBVIOUS
<1> PICK V : V = [s.value EXCEPT ![i] = v]
  OBVIOUS
<1> PICK front : front = IF s.front = 0 THEN i ELSE s.front
  OBVIOUS
<1>7. u = [s EXCEPT !.next = N, !.prev = P, !.value = V, !.front = front,
                    !.rear = i]
  <2>1. CASE r = 0
    BY <1>0, <2>1 DEF Behind, Lists
  <2>2. CASE r # 0
    BY <1>0, <2>2 DEF Behind, Lists
  <2> QED BY <2>1, <2>2
<1>8. /\ N \in [0..(n - 1) -> 0..(n - 1)]
      /\ P \in [0..(n - 1) -> 0..(n - 1) \union {Wrapped}]
      /\ V \in [0..(n - 1) -> Values \union {0}]
  <2>1. N \in [0..(n - 1) -> 0..(n - 1)]
    BY <1>1, <1>5, <1>6
  <2>2. P \in [0..(n - 1) -> 0..(n - 1) \union {Wrapped}]
    BY <1>1, <1>5, <1>6
  <2>3. V \in [0..(n - 1) -> Values \union {0}]
    BY <1>1, <1>6
  <2> QED BY <2>1, <2>2, <2>3
<1>9. front \in 0..(n - 1)
  BY <1>0, <1>1 DEF Lists
<1>10. u \in Lists(n)
  BY ZenonT(30), <1>0, <1>1, <1>7, <1>8, <1>9 DEF Lists
<1>11. /\ u.next = N /\ u.prev = P /\ u.value = V /\ u.front = front
       /\ u.rear = i
  BY <1>0, <1>7 DEF Lists
<1>12. /\ \A j \in 0..(n - 1) : N[j] = IF j = i THEN 0
                                ELSE IF j = r /\ r # 0 THEN i ELSE s.next[j]
       /\ \A j \in 0..(n - 1) : P[j] = IF j = i THEN r ELSE s.prev[j]
  <2>1. \A j \in 0..(n - 1) : N[j] = IF j = i THEN 0
                                ELSE IF j = r /\ r # 0 THEN i ELSE s.next[j]
    BY <1>1, <1>5, <1>6
  <2>2. \A j \in 0..(n - 1) : P[j] = IF j = i THEN r ELSE s.prev[j]
    BY <1>1, <1>5, <1>6
  <2> QED BY <2>1, <2>2
<1>13. /\ \A k \in 1..L : At(d, k) = c[k]
       /\ At(d, L + 1) = i /\ At(d, L + 2) = 0 /\ At(d, 0) = 0
  BY <1>1, <1>2 DEF At
<1>14. \A k \in 1..L : c[k] \in 0..(n - 1) /\ c[k] # i
  BY <1>0 DEF Within, Misses
<1>15. Forward(N, front, d)
  <2>1. front = At(d, 1)
    <3>1. CASE L = 0
      BY <1>5, <1>13, <3>1
    <3>2. CASE L # 0
      <4>1. 1 \in 1..L
        BY <1>1, <3>2
      <4> QED BY <1>3, <1>4, <1>5, <1>13, <3>2, <4>1
    <3> QED BY <3>1, <3>2
  <2>2. ASSUME NEW k \in 1..(L + 1) PROVE N[d[k]] = At(d, k + 1)
    <3>1. CASE k = L + 1
      <4>1. N[i] = 0 /\ d[k] = i
        BY <1>1, <1>2, <1>12, <3>1
      <4>2. k + 1 = L + 2
        BY <1>1, <3>1
      <4> QED BY <1>13, <4>1, <4>2
    <3>2. CASE k = L
      <4>1. L \in 1..L /\ L # 0
        BY <1>1, <3>2
      <4>2. c[L] = r /\ r # 0 /\ d[L] = c[L]
        BY <1>2, <1>3, <1>4, <1>5, <4>1
      <4> QED BY <1>5, <1>12, <1>13, <3>2, <4>2
    <3>3. CASE k < L
      <4>1. k \in 1..L /\ k + 1 \in 1..L /\ L \in 1..L /\ k # L
        BY <1>1, <3>3
      <4>2. c[k] # c[L] /\ r = c[L] /\ d[k] = c[k]
        BY <1>0, <1>2, <1>3, <1>4, <4>1 DEF Differ
      <4>3. N[c[k]] = s.next[c[k]]
        BY <1>12, <1>14, <4>1, <4>2
      <4> QED BY <1>3, <1>4, <1>13, <4>1, <4>2, <4>3
    <3> QED BY <1>1, <3>1, <3>2, <3>3
  <2> QED BY <1>2, <2>1, <2>2 DEF Forward
<1>16. Backward(P, i, d)
  <2>1. ASSUME NEW k \in 1..(L + 1) PROVE P[d[k]] = At(d, k - 1)
    <3>1. CASE k = L + 1
      <4>1. P[i] = r /\ d[k] = i
        BY <1>1, <1>2, <1>12, <3>1
      <4>2. k - 1 = L /\ (L = 0 \/ L \in 1..L)
        BY <1>1, <3>1
      <4>3. At(d, L) = At(c, L)
        BY <1>3, <1>13, <4>2
      <4> QED BY <1>4, <4>1, <4>2, <4>3
    <3>2. CASE k # L + 1
      <4>1. k \in 1..L /\ (k - 1 = 0 \/ k - 1 \in 1..L)
        BY <1>1, <3>2
      <4>2. P[c[k]] = s.prev[c[k]] /\ d[k] = c[k]
        BY <1>2, <1>12, <1>14, <4>1
      <4>3. At(d, k - 1) = At(c, k - 1)
        BY <1>3, <1>13, <4>1
      <4> QED BY <1>4, <4>1, <4>2, <4>3
    <3> QED BY <3>1, <3>2
  <2> QED BY <1>2, <1>13, <2>1 DEF Backward
<1>17. \A k \in 1..Len(f) : f[k] \in 0..(n - 1) /\ f[k] # i /\ (f[k] # r \/ r = 0)
  <2>1. \A k \in 1..Len(f) : f[k] \in 0..(n - 1) /\ f[k] # i
    BY <1>0 DEF Within, Misses
  <2>2. ASSUME r # 0 PROVE Misses(f, r)
    <3>1. L \in 1..L
      BY <1>1, <1>5, <2>2
    <3>2. r = c[L]
      BY <1>3, <1>4, <3>1
    <3> QED BY <1>0, <3>1, <3>2
  <2> QED BY <2>1, <2>2 DEF Misses
<1>18. FreeChain(N, P, f)
  <2>1. \A k \in 1..Len(f) : N[f[k]] = s.next[f[k]] /\ P[f[k]] = s.prev[f[k]]
    BY <1>12, <1>17
  <2>2. N[0] = s.next[0] /\ P[0] = s.prev[0]
    BY <1>1, <1>12
  <2>3. Alike(f, s.next, s.prev, N, P)
    BY <2>1, <2>2 DEF Alike
  <2>4. f \in Seq(Nat) /\ FreeChain(s.next, s.prev, f)
    BY <1>0
  <2> QED BY <2>3, <2>4, FreeUntouched
<1>19. Within(n, d) /\ Differ(d)
  <2>1. \A k \in 1..Len(d) : k \in 1..L \/ k = L + 1
    BY <1>1, <1>2
  <2>2. Within(n, d)
    BY <1>0, <1>2, <2>1 DEF Within
  <2>3. Differ(d)
    BY <1>0, <1>2, <1>14, <2>1 DEF Differ
  <2> QED BY <2>2, <2>3
<1>20. \A j : Misses(d, j) <=> j # i /\ Misses(c, j)
  <2>1. /\ \A k \in 1..Len(d) : k \in 1..L \/ k = L + 1
        /\ \A k \in 1..L : k \in 1..Len(d)
        /\ L + 1 \in 1..Len(d)
    BY <1>1, <1>2
  <2> QED BY <1>2, <2>1 DEF Misses
<1>21. Owned(n, d, f, {})
  <2>1. \A j \in 1..(n - 1) : ~Misses(d, j) \/ ~Misses(f, j)
    BY <1>0, <1>20
  <2>2. \A k \in 1..Len(d) : Misses(f, d[k])
    <3>1. \A k \in 1..Len(d) : k \in 1..L \/ k = L + 1
      BY <1>1, <1>2
    <3> QED BY <1>0, <1>2, <3>1
  <2> QED BY <1>0, <1>19, <2>1, <2>2 DEF Owned
<1>22. V[0] = 0 /\ P[0] = s.prev[0]
  BY <1>0, <1>1, <1>6, <1>12
<1>23. Shape(u, n, d, f, {})
  <2>1. Forward(u.next, u.front, d) /\ Backward(u.prev, u.rear, d)
        /\ FreeChain(u.next, u.prev, f)
    BY <1>11, <1>15, <1>16, <1>18
  <2>2. u.value[0] = 0 /\ u.prev[0] = s.prev[0]
    BY <1>11, <1>22
  <2> QED BY <1>0, <1>2, <1>10, <1>21, <2>1, <2>2 DEF Shape
<1> QED BY <1>11, <1>23 DEF Appended

-----------------------------------------------------------------------------
(* Growing the pool *)

\* With no cell free or loose every cell is an item.
LEMMA AllUsed ==
  ASSUME NEW n \in Nat, n >= 1, NEW c \in Seq(Nat), Within(n, c),
         \A j \in 1..(n - 1) : ~Misses(c, j)
  PROVE  n - 1 <= Len(c)
<1> PICK L : L = Len(c)
  OBVIOUS
<1>1. L \in Nat
  BY LenProperties
<1> PICK S : S = 1..L
  OBVIOUS
<1> PICK T : T = 1..(n - 1)
  OBVIOUS
<1> PICK g : g = [k \in S |-> c[k]]
  OBVIOUS
<1>2. g \in [S -> T] /\ \A t \in T : \E k \in S : g[k] = t
  BY DEF Within, Misses
<1>3. g \in Surjection(S, T)
  BY <1>2 DEF Surjection
<1>4. /\ IsFiniteSet(S) /\ Cardinality(S) = L
      /\ IsFiniteSet(T) /\ Cardinality(T) = n - 1
  <2>1. \A m \in Nat : IsFiniteSet(1..m) /\ Cardinality(1..m) = m
    <3> SUFFICES ASSUME NEW m \in Nat
                 PROVE  IsFiniteSet(1..m) /\ Cardinality(1..m) = m
      OBVIOUS
    <3>1. 1 \in Int /\ m \in Int /\ (IF 1 > m THEN 0 ELSE m - 1 + 1) = m
      OBVIOUS
    <3>2. IsFiniteSet(1..m) /\ Cardinality(1..m) = IF 1 > m THEN 0 ELSE m - 1 + 1
      BY <3>1, FS_Interval
    <3> QED BY <3>1, <3>2
  <2>2. n - 1 \in Nat
    OBVIOUS
  <2> QED BY <1>1, <2>1, <2>2
<1>5. Cardinality(T) <= Cardinality(S)
  BY <1>3, <1>4, FS_Surjection
<1> QED BY <1>4, <1>5

\* A pool that grows gets at least two cells, so that there are some left
\* when one more is taken.
LEMMA Grows ==
  ASSUME ListAssumption, NEW n \in Nat, n >= 1, n - 1 <= MaxItems
  PROVE  CalculateAllocation(n) \in Nat /\ CalculateAllocation(n) >= n + 2
<1>1. MaxItems \in Nat /\ IntMax \in Nat /\ MaxItems + 2 < IntMax
  BY DEF ListAssumption
<1>2. (n + 1) \div 2 \in Nat /\ (n + 1) \div 2 >= 1
  OBVIOUS
<1> PICK h : h = (n + 1) \div 2
  OBVIOUS
<1>3. CalculateAllocation(n) = IF n + h + 1 > IntMax THEN IntMax ELSE n + h + 1
  BY DEF CalculateAllocation
<1> QED BY <1>1, <1>2, <1>3

\* list_poolReallocate, when no cell is free: the items stay in their cells,
\* and at least two new cells are chained.
LEMMA ReallocateKeeps ==
  ASSUME ListAssumption, NEW s, NEW n, NEW c, NEW f, Shape(s, n, c, f, {}),
         Len(f) = 0, Len(c) <= MaxItems
  PROVE  /\ n - 1 = Len(c)
         /\ PoolReallocate(s).size >= n + 2
         /\ \E g : /\ Shape(PoolReallocate(s), PoolReallocate(s).size, c, g, {})
                   /\ Len(g) >= 2
         /\ \A j \in 0..(n - 1) : PoolReallocate(s).value[j] = s.value[j]
<1>0. /\ n \in Nat /\ n >= 1 /\ s \in Lists(n) /\ f \in Seq(Nat) /\ c \in Seq(Nat)
      /\ Within(n, c) /\ Differ(c)
      /\ \A j \in 1..(n - 1) : ~Misses(c, j) \/ ~Misses(f, j)
      /\ FreeChain(s.next, s.prev, f) /\ s.value[0] = 0
      /\ Forward(s.next, s.front, c) /\ Backward(s.prev, s.rear, c)
  BY DEF Shape, Owned
<1>0n. n \in Nat /\ n >= 1
  BY <1>0
<1>1. \A j \in 1..(n - 1) : ~Misses(c, j)
  <2>1. \A j : Misses(f, j)
    BY DEF Misses
  <2> QED BY <1>0, <2>1
<1>2. n - 1 = Len(c)
  <2>1. n - 1 <= Len(c) /\ Len(c) <= n - 1
    BY <1>0, <1>1, AllUsed, Pigeons
  <2>2. Len(c) \in Nat
    BY <1>0, LenProperties
  <2> QED BY <1>0, <2>1, <2>2
<1> PICK m : m = CalculateAllocation(n)
  OBVIOUS
<1>3. m \in Nat /\ m >= n + 2
  BY <1>0n, <1>2, Grows
<1> PICK K : K = m - n
  OBVIOUS
<1>14. K \in Nat /\ K >= 2 /\ n + K = m
  BY <1>0n, <1>3
<1>25. \A i \in 0..(m - 1) : /\ i # m - 1 => i + 1 \in 0..(m - 1)
                             /\ i # 0 => i - 1 \in 0..(m - 1)
  BY <1>3
<1>26. /\ K \in 1..K /\ ~(K + 1 \in 1..K) /\ n + (K - 1) = m - 1
       /\ m - 1 \in 0..(m - 1) /\ m - 1 # 0 /\ ~(m - 1 < n)
       /\ n + (((K + 1) - 1) - 1) = m - 1 /\ 0 \in 0..(m - 1) /\ (K + 1) - 1 = K
  BY <1>0n, <1>3, <1>14
<1>27. \A k \in 2..K : /\ k \in 1..K
                        /\ n + ((k - 1) - 1) = (n + (k - 1)) - 1
                        /\ n + (k - 1) \in 0..(m - 1) /\ n + (k - 1) # n
                        /\ ~(n + (k - 1) < n) /\ n + (k - 1) # 0
  BY <1>0n, <1>3, <1>14
<1>28. \A k \in 0..K : k # 0 /\ k # K =>
         /\ k \in 1..K /\ k + 1 \in 1..K /\ n + ((k + 1) - 1) = (n + (k - 1)) + 1
         /\ n + (k - 1) \in 0..(m - 1) /\ n + (k - 1) # m - 1
         /\ ~(n + (k - 1) < n) /\ n + (k - 1) # 0
  BY <1>0n, <1>3, <1>14
<1>4. /\ s.size = n
      /\ s.next \in [0..(n - 1) -> 0..(n - 1)]
      /\ s.prev \in [0..(n - 1) -> 0..(n - 1) \union {Wrapped}]
      /\ s.value \in [0..(n - 1) -> Values \union {0}]
      /\ s.front \in 0..(n - 1) /\ s.rear \in 0..(n - 1)
  BY <1>0 DEF Lists
<1>5. s.next[0] = 0
  <2>1. At(f, 0) = 0 /\ At(f, 1) = 0 /\ 0 \in 0..Len(f)
    BY DEF At
  <2> QED BY <1>0, <2>1 DEF FreeChain
<1> PICK b : b = s.prev[0]
  OBVIOUS
<1>n. PICK N : N = [i \in 0..(m - 1) |->
                    IF i = 0 THEN n ELSE IF i < n THEN s.next[i]
                    ELSE IF i = m - 1 THEN 0 ELSE i + 1]
  OBVIOUS
<1>p. PICK P : P = [i \in 0..(m - 1) |->
                    IF i = 0 THEN m - 1 ELSE IF i < n THEN s.prev[i]
                    ELSE IF i = n THEN b ELSE i - 1]
  OBVIOUS
<1>v. PICK V : V = [i \in 0..(m - 1) |-> IF i < n THEN s.value[i] ELSE 0]
  OBVIOUS
<1> PICK t : t = PoolReallocate(s)
  OBVIOUS
<1>6. t = [s EXCEPT !.size = m, !.value = V, !.next = N, !.prev = P]
  BY <1>4, <1>5, <1>n, <1>p, <1>v DEF PoolReallocate
<1>7. /\ t.size = m /\ t.next = N /\ t.prev = P /\ t.value = V
      /\ t.front = s.front /\ t.rear = s.rear
  BY <1>0, <1>6 DEF Lists
<1>8. \A i \in 0..(n - 1) : i \in 0..(m - 1) /\ i < n
  BY <1>0n, <1>3
<1>9. \A i \in 0..(m - 1) : i < n => i \in 0..(n - 1)
  BY <1>0n, <1>3
<1>10. N \in [0..(m - 1) -> 0..(m - 1)]
  <2> SUFFICES ASSUME NEW i \in 0..(m - 1)
               PROVE  (IF i = 0 THEN n ELSE IF i < n THEN s.next[i]
                    ELSE IF i = m - 1 THEN 0 ELSE i + 1) \in 0..(m - 1)
    BY <1>n, Zenon
  <2>1. n \in 0..(m - 1) /\ 0 \in 0..(m - 1)
    BY <1>0n, <1>3
  <2>2. i < n => s.next[i] \in 0..(m - 1)
    BY <1>4, <1>8, <1>9
  <2>3. CASE i = 0
    BY <2>1, <2>3
  <2>4. CASE i # 0 /\ i < n
    BY <2>2, <2>4
  <2>5. CASE i # 0 /\ ~(i < n) /\ i = m - 1
    BY <2>1, <2>5
  <2>6. CASE i # 0 /\ ~(i < n) /\ i # m - 1
    <3>1. i + 1 \in 0..(m - 1)
      BY <1>25, <2>6
    <3> QED BY <2>6, <3>1
  <2> QED BY <2>3, <2>4, <2>5, <2>6
<1>11. P \in [0..(m - 1) -> 0..(m - 1) \union {Wrapped}]
  <2> SUFFICES ASSUME NEW i \in 0..(m - 1)
               PROVE  (IF i = 0 THEN m - 1 ELSE IF i < n THEN s.prev[i]
                    ELSE IF i = n THEN b ELSE i - 1) \in 0..(m - 1) \union {Wrapped}
    BY <1>p, Zenon
  <2>1. m - 1 \in 0..(m - 1)
    BY <1>0n, <1>3
  <2>2. i < n => s.prev[i] \in 0..(m - 1) \union {Wrapped}
    BY <1>4, <1>8, <1>9
  <2>4. b \in 0..(m - 1) \union {Wrapped}
    <3>1. 0 \in 0..(n - 1)
      BY <1>0
    <3>2. b \in 0..(n - 1) \union {Wrapped}
      BY <1>4, <3>1
    <3> QED BY <1>8, <3>2
  <2> QED BY <1>25, <2>1, <2>2, <2>4
<1>12. V \in [0..(m - 1) -> Values \union {0}]
  BY <1>4, <1>9, <1>v
<1>13. t \in Lists(m)
  <2>1. s.front \in 0..(m - 1) /\ s.rear \in 0..(m - 1)
    BY <1>4, <1>8
  <2> QED BY ZenonT(30), <1>0, <1>6, <1>10, <1>11, <1>12, <2>1 DEF Lists
<1>g. PICK g : g = [k \in 1..K |-> n + (k - 1)]
  OBVIOUS
<1>15. g \in Seq(Nat) /\ Len(g) = K
  <2>1. \A k \in 1..K : n + (k - 1) \in Nat
    BY <1>0n, <1>14
  <2>2. g \in [1..K -> Nat]
    BY <1>g, <2>1
  <2>3. K \in Nat
    BY <1>14
  <2> QED BY <2>2, <2>3, IsSequence, Zenon
<1>16. \A k \in 0..(K + 1) : At(g, k) = IF k \in 1..K THEN n + (k - 1) ELSE 0
  BY <1>15, <1>g DEF At
<1>17. FreeChain(N, P, g)
  <2>1. ASSUME NEW k \in 0..K PROVE N[At(g, k)] = At(g, k + 1)
    <3>0. k \in 0..(K + 1) /\ k + 1 \in 0..(K + 1)
      BY <1>14
    <3>1. CASE k = 0
      <4>1. At(g, 0) = 0 /\ At(g, 1) = n /\ 0 \in 0..(m - 1)
        <5>1. ~(0 \in 1..K) /\ 1 \in 1..K /\ n + (1 - 1) = n /\ 0 \in 0..(m - 1)
              /\ 1 \in 0..(K + 1)
          BY <1>0n, <1>3, <1>14
        <5> QED BY <1>16, <3>0, <3>1, <5>1
      <4>2. N[0] = n
        BY <1>n, <4>1
      <4> QED BY <3>1, <4>1, <4>2
    <3>2. CASE k = K
      <4>1. At(g, k) = m - 1 /\ At(g, k + 1) = 0 /\ m - 1 \in 0..(m - 1)
            /\ m - 1 # 0 /\ ~(m - 1 < n)
        <5>1. k \in 1..K /\ ~(k + 1 \in 1..K) /\ n + (k - 1) = m - 1
              /\ m - 1 \in 0..(m - 1) /\ m - 1 # 0 /\ ~(m - 1 < n)
          BY <1>26, <3>2
        <5> QED BY <1>16, <3>0, <5>1
      <4>2. N[m - 1] = 0
        BY <1>n, <4>1
      <4> QED BY <4>1, <4>2
    <3>3. CASE k # 0 /\ k # K
      <4> PICK i : i = n + (k - 1)
        OBVIOUS
      <4>1. k \in 1..K /\ k + 1 \in 1..K /\ n + ((k + 1) - 1) = i + 1
            /\ i \in 0..(m - 1) /\ i # m - 1 /\ ~(i < n) /\ i # 0
        BY <1>28, <3>3
      <4>2. At(g, k) = i /\ At(g, k + 1) = i + 1
        BY <1>16, <3>0, <4>1
      <4>3. N[i] = i + 1
        BY <1>n, <4>1
      <4> QED BY <4>2, <4>3
    <3> QED BY <3>1, <3>2, <3>3
  <2>2. ASSUME NEW k \in 2..(K + 1) PROVE P[At(g, k)] = At(g, k - 1)
    <3>0. k \in 0..(K + 1) /\ k - 1 \in 0..(K + 1) /\ k - 1 \in 1..K
      BY <1>14
    <3>1. CASE k = K + 1
      <4>1. At(g, k) = 0 /\ At(g, k - 1) = m - 1 /\ 0 \in 0..(m - 1)
        <5>1. ~(k \in 1..K) /\ n + ((k - 1) - 1) = m - 1 /\ 0 \in 0..(m - 1)
          BY <1>26, <3>1
        <5> QED BY <1>16, <3>0, <5>1
      <4>2. P[0] = m - 1
        BY <1>p, <4>1
      <4> QED BY <4>1, <4>2
    <3>2. CASE k # K + 1
      <4> PICK i : i = n + (k - 1)
        OBVIOUS
      <4>1. k \in 1..K /\ n + ((k - 1) - 1) = i - 1
            /\ i \in 0..(m - 1) /\ i # n /\ ~(i < n) /\ i # 0
        <5>1. k \in 2..K
          BY <1>14, <3>2
        <5> QED BY <1>27, <5>1
      <4>2. At(g, k) = i /\ At(g, k - 1) = i - 1
        BY <1>16, <3>0, <4>1
      <4>3. P[i] = i - 1
        BY <1>p, <4>1
      <4> QED BY <4>2, <4>3
    <3> QED BY <3>1, <3>2
  <2> QED BY <1>15, <2>1, <2>2 DEF FreeChain
<1>18. \A k \in 1..Len(c) : /\ c[k] \in 1..(n - 1) /\ c[k] # 0
                            /\ c[k] \in 0..(m - 1) /\ c[k] < n
  <2>1. \A i \in 1..(n - 1) : i # 0 /\ i \in 0..(m - 1) /\ i < n
    BY <1>0n, <1>3
  <2> QED BY <1>0, <2>1 DEF Within
<1>19. /\ \A k \in 1..Len(c) : N[c[k]] = s.next[c[k]]
       /\ \A k \in 1..Len(c) : P[c[k]] = s.prev[c[k]]
  BY <1>n, <1>p, <1>18
<1>20. Forward(N, s.front, c) /\ Backward(P, s.rear, c)
  BY <1>0, <1>19 DEF Forward, Backward
<1>21. Owned(m, c, g, {})
  <2>1. Within(m, c)
    <3>1. \A i \in 1..(n - 1) : i \in 1..(m - 1)
      BY <1>0n, <1>3
    <3> QED BY <1>18, <3>1 DEF Within
  <2>2. \A k \in 1..K : n + (k - 1) \in 1..(m - 1) /\ n + (k - 1) >= n
    BY <1>0n, <1>3, <1>14
  <2>3. Within(m, g)
    BY <1>15, <1>g, <2>2 DEF Within
  <2>4. Ascends(g)
    <3>1. \A j, k \in 1..K : j < k => n + (j - 1) < n + (k - 1)
      BY <1>0n, <1>14
    <3> QED BY <1>15, <1>g, <3>1 DEF Ascends
  <2>5. ASSUME NEW j \in 1..(m - 1) PROVE ~Misses(c, j) \/ ~Misses(g, j)
    <3>1. CASE j < n
      <4>1. j \in 1..(n - 1)
        BY <1>0n, <3>1
      <4> QED BY <1>1, <4>1
    <3>2. CASE ~(j < n)
      <4> PICK k : k = (j - n) + 1
        OBVIOUS
      <4>1. k \in 1..K /\ n + (k - 1) = j
        BY <1>0n, <1>3, <1>14, <3>2
      <4> QED BY <1>15, <1>g, <4>1 DEF Misses
    <3> QED BY <3>1, <3>2
  <2>6. ASSUME NEW k \in 1..Len(c) PROVE Misses(g, c[k])
    <3>1. \A j \in 1..K : n + (j - 1) # c[k]
      <4> PICK e : e = c[k]
        OBVIOUS
      <4>1. e \in 1..(n - 1)
        BY <1>18
      <4>2. \A j \in 1..K : n + (j - 1) # e
        BY <1>0n, <1>14, <4>1
      <4> QED BY <4>2
    <3> QED BY <1>15, <1>g, <3>1 DEF Misses
  <2> QED BY <1>0, <2>1, <2>3, <2>4, <2>5, <2>6 DEF Owned
<1>22. V[0] = 0 /\ \A j \in 0..(n - 1) : V[j] = s.value[j]
  <2>1. \A j \in 0..(n - 1) : V[j] = s.value[j]
    BY <1>8, <1>v
  <2>2. 0 \in 0..(n - 1)
    BY <1>0
  <2> QED BY <1>0, <2>1, <2>2
<1>23. Shape(t, m, c, g, {})
  <2>1. Forward(t.next, t.front, c) /\ Backward(t.prev, t.rear, c)
        /\ FreeChain(t.next, t.prev, g)
    BY <1>7, <1>17, <1>20
  <2>2. t.value[0] = 0 /\ m >= 1 /\ Len(g) # 0
    BY <1>0, <1>3, <1>7, <1>14, <1>15, <1>22
  <2> QED BY <1>0, <1>3, <1>13, <1>15, <1>21, <2>1, <2>2 DEF Shape
<1>24. t.size >= n + 2 /\ \A j \in 0..(n - 1) : t.value[j] = s.value[j]
  BY <1>3, <1>7, <1>22
<1>29. Len(g) >= 2
  BY <1>14, <1>15
<1>30. Shape(PoolReallocate(s), PoolReallocate(s).size, c, g, {})
  BY <1>7, <1>23
<1> QED BY <1>2, <1>24, <1>29, <1>30

-----------------------------------------------------------------------------
(* Items and list_push *)

\* The list s of n cells holds the items x in the cells c, and f is free.
Holds(s, n, c, f, x) ==
  /\ Shape(s, n, c, f, {})
  /\ x \in Seq(Values) /\ Len(x) = Len(c)
  /\ \A k \in 1..Len(c) : s.value[c[k]] = x[k]

\* As a sorted array the items are in the first cells.
IsArray(c) == \A k \in 1..Len(c) : c[k] = k

\* What Chain and Contents compute is what the list holds.
LEMMA HoldsIs ==
  ASSUME NEW s, NEW n, NEW c, NEW f, NEW x, Holds(s, n, c, f, x)
  PROVE  s.size = n /\ Cells(s) = c /\ FreeCells(s) = f /\ Contents(s) = x
<1>0. /\ n \in Nat /\ n >= 1 /\ s \in Lists(n) /\ f \in Seq(Nat) /\ c \in Seq(Nat)
      /\ Within(n, c) /\ Differ(c) /\ Within(n, f) /\ Ascends(f)
      /\ FreeChain(s.next, s.prev, f)
      /\ Forward(s.next, s.front, c)
      /\ x \in Seq(Values) /\ Len(x) = Len(c)
      /\ \A k \in 1..Len(c) : s.value[c[k]] = x[k]
  BY DEF Holds, Shape, Owned
<1>1. s.size = n /\ s.next \in [0..(n - 1) -> 0..(n - 1)]
  BY <1>0 DEF Lists
<1>2. Len(c) <= n /\ Len(f) <= n /\ Len(c) \in Nat /\ Len(f) \in Nat
  <2>1. Len(c) <= n - 1 /\ Len(f) <= n - 1
    BY <1>0, Pigeons, AscendsIs
  <2>2. Len(c) \in Nat /\ Len(f) \in Nat
    BY <1>0, LenProperties
  <2> QED BY <1>0, <2>1, <2>2
<1>3. \A q : q \in Seq(Nat) /\ Within(n, q) /\ Len(q) <= n
             => \A start : Forward(s.next, start, q) => Chain(s, start) = q
  <2> SUFFICES ASSUME NEW q \in Seq(Nat), Within(n, q), Len(q) <= n,
                      NEW start, Forward(s.next, start, q)
               PROVE  Chain(s, start) = q
    OBVIOUS
  <2>1. \A k \in 1..Len(q) : q[k] \in 1..(s.size - 1)
    BY <1>1 DEF Within
  <2> QED BY <1>0, <1>1, <2>1, ChainIs
<1>4. Cells(s) = c
  BY <1>0, <1>2, <1>3 DEF Cells
<1>5. FreeCells(s) = f
  <2>1. \A k \in 1..Len(f) : At(f, k) = f[k] /\ k \in 0..Len(f)
    BY <1>2 DEF At
  <2>2. At(f, 0) = 0 /\ 0 \in 0..Len(f) /\ 0 + 1 = 1
    BY <1>2 DEF At
  <2>3. Forward(s.next, s.next[0], f)
    BY <1>0, <2>1, <2>2 DEF Forward, FreeChain
  <2> QED BY <1>0, <1>2, <1>3, <2>3 DEF FreeCells
<1>6. Contents(s) = x
  <2>1. DOMAIN c = 1..Len(c) /\ DOMAIN x = 1..Len(c)
    BY <1>0
  <2>2. Contents(s) = [k \in 1..Len(c) |-> s.value[c[k]]]
    BY <1>4, <2>1 DEF Contents
  <2>3. x = [k \in 1..Len(c) |-> x[k]]
    BY <1>0, <2>1
  <2> QED BY <1>0, <2>2, <2>3
<1> QED BY <1>1, <1>4, <1>5, <1>6

\* The free cells of an array follow its items.
LEMMA FirstFree ==
  ASSUME NEW s, NEW n, NEW c, NEW f, Shape(s, n, c, f, {}), IsArray(c)
  PROVE  /\ Len(f) >= 1 => f[1] = Len(c) + 1
         /\ Len(f) >= 2 => f[2] = Len(c) + 2
<1>0. /\ n \in Nat /\ n >= 1 /\ f \in Seq(Nat) /\ c \in Seq(Nat)
      /\ Within(n, f) /\ Ascends(f)
      /\ \A k \in 1..Len(c) : Misses(f, c[k])
      /\ \A j \in 1..(n - 1) : ~Misses(c, j) \/ ~Misses(f, j)
  BY DEF Shape, Owned
<1> PICK r : r = Len(c)
  OBVIOUS
<1> PICK L : L = Len(f)
  OBVIOUS
<1>1. r \in Nat /\ L \in Nat
  BY <1>0, LenProperties
<1>2. /\ \A k \in 1..L : f[k] \in 1..(n - 1)
      /\ \A k \in 1..L : \A j \in 1..r : f[k] # j
      /\ \A j, k \in 1..L : j < k => f[j] < f[k]
  BY <1>0 DEF Within, Misses, IsArray, Ascends
<1>3. \A j \in 1..(n - 1) : j > r => \E k \in 1..L : f[k] = j
  <2> SUFFICES ASSUME NEW j \in 1..(n - 1), j > r
               PROVE  \E k \in 1..L : f[k] = j
    OBVIOUS
  <2>1. \A k \in 1..r : k # j
    BY <1>1
  <2>2. Misses(c, j)
    BY <2>1 DEF Misses, IsArray
  <2> QED BY <1>0, <2>2 DEF Misses
<1>4. \A k \in 1..L : f[k] >= r + 1
  BY <1>1, <1>2
<1>5. ASSUME L >= 1 PROVE f[1] = r + 1
  <2>1. 1 \in 1..L /\ f[1] >= r + 1 /\ f[1] \in 1..(n - 1)
    BY <1>1, <1>2, <1>4, <1>5
  <2>2. r + 1 \in 1..(n - 1) /\ r + 1 > r
    BY <1>0, <1>1, <2>1
  <2>3. PICK k \in 1..L : f[k] = r + 1
    BY <1>3, <2>2
  <2>4. k = 1 \/ f[1] < f[k]
    BY <1>2, <2>1
  <2> QED BY <1>1, <2>1, <2>3, <2>4
<1>6. ASSUME L >= 2 PROVE f[2] = r + 2
  <2>1. 1 \in 1..L /\ 2 \in 1..L /\ f[2] \in 1..(n - 1) /\ f[1] = r + 1 /\ f[1] < f[2]
    BY <1>1, <1>2, <1>5, <1>6
  <2>2. r + 2 \in 1..(n - 1) /\ r + 2 > r
    BY <1>0, <1>1, <2>1
  <2>3. PICK k \in 1..L : f[k] = r + 2
    BY <1>3, <2>2
  <2>4. k # 1
    BY <1>1, <2>1, <2>3
  <2>5. k = 2 \/ f[2] < f[k]
    BY <1>2, <2>1, <2>4
  <2> QED BY <1>1, <1>2, <2>1, <2>3, <2>5
<1> QED BY <1>5, <1>6

\* Room for one item: the list, grown when no cell is free.
LEMMA RoomForOne ==
  ASSUME ListAssumption, NEW s, NEW n, NEW c, NEW f, Shape(s, n, c, f, {}),
         Len(c) <= MaxItems,
         NEW room, room = IF s.next[0] = 0 THEN PoolReallocate(s) ELSE s
  PROVE  \E m, g : /\ Shape(room, m, c, g, {}) /\ Len(g) >= 1
                   /\ \A j \in 0..(n - 1) : room.value[j] = s.value[j]
<1>1. n \in Nat /\ f \in Seq(Nat) /\ Within(n, f) /\ FreeChain(s.next, s.prev, f)
  BY DEF Shape, Owned
<1>2. Len(f) \in Nat
  BY <1>1, LenProperties
<1>3. s.next[0] = At(f, 1)
  <2>1. At(f, 0) = 0 /\ 0 \in 0..Len(f) /\ 0 + 1 = 1
    BY <1>2 DEF At
  <2> QED BY <1>1, <2>1 DEF FreeChain
<1>4. CASE Len(f) = 0
  <2>1. room = PoolReallocate(s)
    BY <1>3, <1>4 DEF At
  <2>2. /\ \E g : /\ Shape(PoolReallocate(s), PoolReallocate(s).size, c, g, {})
                  /\ Len(g) >= 2
        /\ \A j \in 0..(n - 1) : PoolReallocate(s).value[j] = s.value[j]
    BY <1>4, ReallocateKeeps
  <2>3. PICK g : Shape(room, room.size, c, g, {}) /\ Len(g) >= 2
    BY <2>1, <2>2
  <2>4. Len(g) \in Nat
    <3>1. g \in Seq(Nat)
      BY <2>3 DEF Shape
    <3> QED BY <3>1, LenProperties
  <2>5. Len(g) >= 1
    BY <2>3, <2>4
  <2>6. \A j \in 0..(n - 1) : room.value[j] = s.value[j]
    BY <2>1, <2>2
  <2> QED BY <2>3, <2>5, <2>6
<1>5. CASE Len(f) # 0
  <2>1. 1 \in 1..Len(f) /\ Len(f) >= 1
    BY <1>2, <1>5
  <2>2. s.next[0] # 0
    BY <1>1, <1>3, <2>1, AtIs
  <2>3. room = s
    BY <2>2
  <2> QED BY <2>1, <2>3
<1> QED BY <1>4, <1>5

\* list_push in these terms.
LEMMA PushedIs ==
  ASSUME NEW s, NEW v,
         NEW room, room = IF s.next[0] = 0 THEN PoolReallocate(s) ELSE s
  PROVE  Pushed(s, v) = Behind(TakeFirstFree(room), s.rear, room.next[0], v)
BY DEF Pushed, Behind

\* list_push appends the value, in the cell after the last if the list is
\* used as an array.
LEMMA PushKeeps ==
  ASSUME ListAssumption, NEW s, NEW n, NEW c, NEW f, NEW x,
         Holds(s, n, c, f, x), 
         Len(c) <= MaxItems, NEW v \in Values
  PROVE  \E m, i, g : /\ Holds(Pushed(s, v), m, Append(c, i), g, Append(x, v))
                      /\ IsArray(c) => i = Len(c) + 1
<1>0. /\ Shape(s, n, c, f, {})
      /\ x \in Seq(Values) /\ Len(x) = Len(c)
      /\ \A k \in 1..Len(c) : s.value[c[k]] = x[k]
  BY DEF Holds
<1> PICK room : room = IF s.next[0] = 0 THEN PoolReallocate(s) ELSE s
  OBVIOUS
<1>1. PICK m, g : /\ Shape(room, m, c, g, {}) /\ Len(g) >= 1
                  /\ \A j \in 0..(n - 1) : room.value[j] = s.value[j]
  BY <1>0, RoomForOne
<1>2a. FirstTaken(room, TakeFirstFree(room), m, c, g)
  BY <1>1, TakeFirstKeeps
<1>4a. Pushed(s, v) = Behind(TakeFirstFree(room), s.rear, room.next[0], v)
  BY PushedIs
<1>2b. /\ room.next[0] = g[1]
       /\ Shape(TakeFirstFree(room), m, c, Tail(g), {g[1]})
       /\ TakeFirstFree(room).value = room.value
  BY <1>2a DEF FirstTaken
<1>5b. Appended(TakeFirstFree(room),
                Behind(TakeFirstFree(room), TakeFirstFree(room).rear, g[1], v),
                m, c, Tail(g), g[1], v)
  BY <1>2b, BehindKeeps
<1> PICK i : i = g[1]
  OBVIOUS
<1> PICK t : t = TakeFirstFree(room)
  OBVIOUS
<1>2. Shape(t, m, c, Tail(g), {i}) /\ t.value = room.value
  BY <1>2b
<1>3. t.rear = s.rear
  BY <1>0, <1>2 DEF Shape, Backward
<1>5. /\ Shape(Pushed(s, v), m, Append(c, i), Tail(g), {})
      /\ Pushed(s, v).value = [room.value EXCEPT ![i] = v]
  BY <1>2b, <1>3, <1>4a, <1>5b DEF Appended
<1> PICK V : V = [room.value EXCEPT ![i] = v]
  OBVIOUS
<1> PICK d : d = Append(c, i)
  OBVIOUS
<1> PICK y : y = Append(x, v)
  OBVIOUS
<1> PICK L : L = Len(c)
  OBVIOUS
<1>6. /\ c \in Seq(Nat) /\ Within(n, c) /\ Within(m, c) /\ m \in Nat /\ n \in Nat
      /\ i \in 1..(m - 1) /\ Misses(c, i)
      /\ room.value \in [0..(m - 1) -> Values \union {0}]
  <2>1. c \in Seq(Nat) /\ Within(n, c) /\ n \in Nat
    BY <1>0 DEF Shape, Owned
  <2>2. Within(m, c) /\ m \in Nat /\ i \in 1..(m - 1) /\ Misses(c, i)
    BY <1>2 DEF Shape, Owned
  <2>3. room.value \in [0..(m - 1) -> Values \union {0}]
    BY <1>1 DEF Shape, Lists
  <2> QED BY <2>1, <2>2, <2>3
<1>7. L \in Nat /\ i \in Nat /\ i \in 0..(m - 1)
  BY <1>6, LenProperties
<1>8. /\ d \in Seq(Nat) /\ Len(d) = L + 1 /\ d[L + 1] = i
      /\ \A k \in 1..L : d[k] = c[k]
  BY <1>6, <1>7, AppendProperties
<1>9. /\ y \in Seq(Values) /\ Len(y) = L + 1 /\ y[L + 1] = v
      /\ \A k \in 1..L : y[k] = x[k]
  BY <1>0, AppendProperties
<1>10. V[i] = v /\ \A k \in 1..L : V[c[k]] = x[k]
  <2>1. V[i] = v
    BY <1>6, <1>7
  <2>2. ASSUME NEW k \in 1..L PROVE V[c[k]] = x[k]
    <3>1. c[k] # i /\ c[k] \in 0..(m - 1) /\ c[k] \in 0..(n - 1)
      <4>1. \A p \in Nat : \A q \in 1..(p - 1) : q \in 0..(p - 1)
        OBVIOUS
      <4> QED BY <1>6, <4>1 DEF Misses, Within
    <3>2. V[c[k]] = room.value[c[k]]
      BY <1>6, <3>1
    <3>3. room.value[c[k]] = s.value[c[k]]
      BY <1>1, <3>1
    <3> QED BY <1>0, <3>2, <3>3
  <2> QED BY <2>1, <2>2
<1>11. Holds(Pushed(s, v), m, d, Tail(g), y)
  <2>1. ASSUME NEW k \in 1..(L + 1) PROVE V[d[k]] = y[k]
    <3>1. k = L + 1 \/ k \in 1..L
      BY <1>7
    <3> QED BY <1>8, <1>9, <1>10, <3>1
  <2>2. Len(d) = L + 1 /\ Len(y) = Len(d)
    BY <1>8, <1>9
  <2> QED BY <1>5, <1>9, <2>1, <2>2 DEF Holds
<1>12. IsArray(c) => i = L + 1
  BY <1>1, FirstFree
<1> QED BY <1>11, <1>12

-----------------------------------------------------------------------------
(* Taking an item out *)

\* A sequence without its k-th element.
Drop(q, k) == [j \in 1..(Len(q) - 1) |-> IF j < k THEN q[j] ELSE q[j + 1]]

\* Its length and elements.
LEMMA DropIs ==
  ASSUME NEW S, NEW q \in Seq(S), NEW k \in 1..Len(q)
  PROVE  /\ Drop(q, k) \in Seq(S) /\ Len(Drop(q, k)) = Len(q) - 1
         /\ Len(q) \in Nat /\ Len(q) - 1 \in Nat
         /\ \A j \in 1..(Len(q) - 1) :
              Drop(q, k)[j] = IF j < k THEN q[j] ELSE q[j + 1]
<1> PICK L : L = Len(q)
  OBVIOUS
<1>1. L \in Nat /\ k \in 1..L /\ L - 1 \in Nat
  BY LenProperties
<1>2. \A j \in 1..(L - 1) : j \in 1..L /\ j + 1 \in 1..L
  BY <1>1
<1>3. \A j \in 1..(L - 1) : (IF j < k THEN q[j] ELSE q[j + 1]) \in S
  BY <1>2, ElementOfSeq
<1>4. Drop(q, k) \in [1..(L - 1) -> S]
  BY <1>3 DEF Drop
<1>5. Drop(q, k) \in Seq(S) /\ Len(Drop(q, k)) = L - 1
  BY <1>1, <1>4, IsSequence
<1> QED BY <1>1, <1>5 DEF Drop

\* Item k is taken out of the chain of items; its cell is loose.
Unlink(s, c, k) ==
  [s EXCEPT !.value[c[k]] = 0,
            !.front = At(Drop(c, k), 1), !.rear = At(Drop(c, k), Len(c) - 1),
            !.next = IF k = 1 THEN @ ELSE [@ EXCEPT ![c[k - 1]] = At(c, k + 1)],
            !.prev = IF k = Len(c) THEN @
                     ELSE [@ EXCEPT ![c[k + 1]] = At(c, k - 1)]]

\* u is s with item k taken out and its cell loose.
Unlinked(s, u, n, c, f, k) ==
  /\ Shape(u, n, Drop(c, k), f, {c[k]})
  /\ u.value = [s.value EXCEPT ![c[k]] = 0]

\* The other items are still linked both ways.
LEMMA UnlinkKeeps ==
  ASSUME NEW s, NEW n, NEW c, NEW f, Shape(s, n, c, f, {}), NEW k \in 1..Len(c)
  PROVE  Unlinked(s, Unlink(s, c, k), n, c, f, k)
<1>0. /\ n \in Nat /\ n >= 1 /\ s \in Lists(n) /\ f \in Seq(Nat) /\ c \in Seq(Nat)
      /\ Within(n, f) /\ Ascends(f)
      /\ Within(n, c) /\ Differ(c)
      /\ \A j \in 1..Len(c) : Misses(f, c[j])
      /\ \A j \in 1..(n - 1) : ~Misses(c, j) \/ ~Misses(f, j)
      /\ FreeChain(s.next, s.prev, f) /\ s.value[0] = 0
      /\ Forward(s.next, s.front, c) /\ Backward(s.prev, s.rear, c)
      /\ (Len(f) = 0 => n = 1 \/ s.prev[0] = 0)
  BY DEF Shape, Owned
<1> PICK L : L = Len(c)
  OBVIOUS
<1>1. L \in Nat /\ k \in 1..L
  BY <1>0, LenProperties
<1> PICK d : d = Drop(c, k)
  OBVIOUS
<1>2. /\ d \in Seq(Nat) /\ Len(d) = L - 1
      /\ \A j \in 1..(L - 1) : d[j] = IF j < k THEN c[j] ELSE c[j + 1]
  BY <1>0, DropIs
<1>3. /\ \A j \in 1..L : At(c, j) = c[j] /\ At(c, j) \in 1..(n - 1)
      /\ At(c, 0) = 0 /\ At(c, L + 1) = 0
  BY <1>0, AtIs
<1>4. /\ \A j \in 1..L : s.prev[c[j]] = At(c, j - 1)
      /\ \A j \in 1..L : s.next[c[j]] = At(c, j + 1)
  BY <1>0 DEF Forward, Backward
<1>5. \A j \in 0..L : At(d, j) = IF j < k THEN At(c, j) ELSE At(c, j + 1)
  <2> SUFFICES ASSUME NEW j \in 0..L
               PROVE  At(d, j) = IF j < k THEN At(c, j) ELSE At(c, j + 1)
    OBVIOUS
  <2>1. CASE j = 0
    BY <1>1, <1>2, <1>3, <2>1 DEF At
  <2>2. CASE j = L
    <3>1. ~(j \in 1..(L - 1)) /\ ~(j < k)
      BY <1>1, <2>2
    <3> QED BY <1>2, <1>3, <2>2, <3>1 DEF At
  <2>3. CASE j \in 1..(L - 1)
    <3>1. j \in 1..L /\ j + 1 \in 1..L
      BY <1>1, <2>3
    <3>2. At(d, j) = d[j]
      BY <1>2, <2>3 DEF At
    <3> QED BY <1>2, <1>3, <2>3, <3>1, <3>2
  <2>4. j = 0 \/ j = L \/ j \in 1..(L - 1)
    BY <1>1
  <2> QED BY <2>1, <2>2, <2>3, <2>4
<1>6. \A j \in 1..L : c[j] \in 1..(n - 1) /\ c[j] \in 0..(n - 1) /\ c[j] # 0
  <2>1. \A j \in 1..(n - 1) : j \in 0..(n - 1) /\ j # 0
    BY <1>0
  <2> QED BY <1>0, <2>1 DEF Within
<1>7. \A i, j \in 1..L : c[i] = c[j] => i = j
  BY <1>0 DEF Differ
<1>8. \A j \in 0..(L + 1) : At(c, j) \in 0..(n - 1)
  <2>1. 0 \in 0..(n - 1) /\ \A j \in 0..(L + 1) : j = 0 \/ j = L + 1 \/ j \in 1..L
    BY <1>0, <1>1
  <2> QED BY <1>3, <1>6, <2>1
<1>9. /\ s.next \in [0..(n - 1) -> 0..(n - 1)]
      /\ s.prev \in [0..(n - 1) -> 0..(n - 1) \union {Wrapped}]
      /\ s.value \in [0..(n - 1) -> Values \union {0}]
  BY <1>0 DEF Lists
<1>10. /\ k - 1 \in 0..(L + 1) /\ k + 1 \in 0..(L + 1) /\ 1 \in 0..L /\ L - 1 \in 0..L
       /\ (k # 1 => k - 1 \in 1..L) /\ (k # L => k + 1 \in 1..L)
       /\ 0 \in 0..(n - 1)
  BY <1>0, <1>1
<1> PICK u : u = Unlink(s, c, k)
  OBVIOUS
<1>n. PICK N : N = IF k = 1 THEN s.next ELSE [s.next EXCEPT ![c[k - 1]] = At(c, k + 1)]
  OBVIOUS
<1>p. PICK P : P = IF k = L THEN s.prev ELSE [s.prev EXCEPT ![c[k + 1]] = At(c, k - 1)]
  OBVIOUS
<1>v. PICK V : V = [s.value EXCEPT ![c[k]] = 0]
  OBVIOUS
<1>11. u = [s EXCEPT !.value = V, !.front = At(d, 1), !.rear = At(d, L - 1),
                     !.next = N, !.prev = P]
  BY <1>0, <1>n, <1>p, <1>v DEF Unlink, Lists
<1>12. /\ N \in [0..(n - 1) -> 0..(n - 1)]
       /\ \A j \in 0..(n - 1) : j = 0 \/ k = 1 \/ j # c[k - 1] => N[j] = s.next[j]
       /\ k # 1 => N[c[k - 1]] = At(c, k + 1)
  <2>1. CASE k = 1
    BY <1>n, <1>9, <2>1
  <2>2. CASE k # 1
    <3>1. c[k - 1] \in 0..(n - 1) /\ c[k - 1] # 0 /\ At(c, k + 1) \in 0..(n - 1)
      BY <1>6, <1>8, <1>10, <2>2
    <3>2. N = [s.next EXCEPT ![c[k - 1]] = At(c, k + 1)]
      BY <1>n, <2>2
    <3> QED BY <1>9, <2>2, <3>1, <3>2
  <2> QED BY <2>1, <2>2
<1>13. /\ P \in [0..(n - 1) -> 0..(n - 1) \union {Wrapped}]
       /\ \A j \in 0..(n - 1) : j = 0 \/ k = L \/ j # c[k + 1] => P[j] = s.prev[j]
       /\ k # L => P[c[k + 1]] = At(c, k - 1)
  <2>1. CASE k = L
    BY <1>p, <1>9, <2>1
  <2>2. CASE k # L
    <3>1. c[k + 1] \in 0..(n - 1) /\ c[k + 1] # 0 /\ At(c, k - 1) \in 0..(n - 1)
      BY <1>6, <1>8, <1>10, <2>2
    <3>2. P = [s.prev EXCEPT ![c[k + 1]] = At(c, k - 1)]
      BY <1>p, <2>2
    <3> QED BY <1>9, <2>2, <3>1, <3>2
  <2> QED BY <2>1, <2>2
<1>14. V \in [0..(n - 1) -> Values \union {0}] /\ V[0] = 0
  <2>1. c[k] \in 0..(n - 1) /\ c[k] # 0
    BY <1>1, <1>6
  <2> QED BY <1>0, <1>v, <1>9, <1>10, <2>1
<1>15. At(d, 1) \in 0..(n - 1) /\ At(d, L - 1) \in 0..(n - 1)
  <2>1. \A j \in 0..L : At(d, j) \in 0..(n - 1)
    <3>1. \A j \in 0..L : j \in 0..(L + 1) /\ j + 1 \in 0..(L + 1)
      BY <1>1
    <3> QED BY <1>5, <1>8, <3>1
  <2> QED BY <1>10, <2>1
<1>16. /\ u \in Lists(n) /\ u.next = N /\ u.prev = P /\ u.value = V
       /\ u.front = At(d, 1) /\ u.rear = At(d, L - 1)
  BY ZenonT(30), <1>0, <1>11, <1>12, <1>13, <1>14, <1>15 DEF Lists
<1>17. Forward(N, At(d, 1), d)
  <2>1. ASSUME NEW j \in 1..(L - 1) PROVE N[d[j]] = At(d, j + 1)
    <3>0. /\ j \in 1..L /\ j + 1 \in 1..L /\ j \in 0..L /\ j + 1 \in 0..L
      BY <1>1
    <3>1. CASE j + 1 < k
      <4>1. j < k /\ k # 1 /\ k - 1 \in 1..L /\ j # k - 1
        BY <1>1, <3>1
      <4>2. d[j] = c[j] /\ c[j] # c[k - 1]
        BY <1>2, <1>7, <3>0, <4>1
      <4> QED BY <1>4, <1>5, <1>6, <1>12, <3>0, <3>1, <4>2
    <3>2. CASE j + 1 = k
      <4>1. j < k /\ k # 1 /\ k - 1 = j /\ ~(j + 1 < k)
        BY <1>1, <3>2
      <4>2. d[j] = c[j] /\ At(d, j + 1) = At(c, (j + 1) + 1)
        BY <1>2, <1>5, <3>0, <4>1
      <4> QED BY <1>12, <3>2, <4>1, <4>2
    <3>3. CASE j + 1 > k
      <4>1. ~(j < k) /\ ~(j + 1 < k) /\ (k # 1 => k - 1 \in 1..L) /\ j + 1 # k - 1
        BY <1>1, <3>3
      <4>2. d[j] = c[j + 1] /\ (k # 1 => c[j + 1] # c[k - 1])
            /\ At(d, j + 1) = At(c, (j + 1) + 1)
        BY <1>2, <1>5, <1>7, <3>0, <4>1
      <4>3. N[c[j + 1]] = s.next[c[j + 1]]
        BY <1>6, <1>12, <3>0, <4>2
      <4> QED BY <1>4, <3>0, <4>2, <4>3
    <3>4. j + 1 < k \/ j + 1 = k \/ j + 1 > k
      BY <1>1
    <3> QED BY <3>1, <3>2, <3>3, <3>4
  <2> QED BY <1>2, <2>1 DEF Forward
<1>18. Backward(P, At(d, L - 1), d)
  <2>1. ASSUME NEW j \in 1..(L - 1) PROVE P[d[j]] = At(d, j - 1)
    <3>0. /\ j \in 1..L /\ j + 1 \in 1..L /\ j - 1 \in 0..L /\ (j + 1) - 1 = j
          /\ (j - 1) + 1 = j
      BY <1>1
    <3>1. CASE j < k
      <4>1. j - 1 < k /\ j # k + 1 /\ (k # L => k + 1 \in 1..L)
        BY <1>1, <3>1
      <4>2. d[j] = c[j] /\ (k # L => c[j] # c[k + 1]) /\ At(d, j - 1) = At(c, j - 1)
        BY <1>2, <1>5, <1>7, <3>0, <3>1, <4>1
      <4>3. P[c[j]] = s.prev[c[j]]
        BY <1>6, <1>13, <3>0, <4>2
      <4> QED BY <1>4, <3>0, <4>2, <4>3
    <3>2. CASE j = k
      <4>1. ~(j < k) /\ k # L /\ j - 1 < k
        BY <1>1, <3>2
      <4>2. d[j] = c[k + 1] /\ At(d, j - 1) = At(c, k - 1)
        BY <1>2, <1>5, <3>0, <3>2, <4>1
      <4> QED BY <1>13, <4>1, <4>2
    <3>3. CASE j > k
      <4>1. ~(j < k) /\ ~(j - 1 < k) /\ j + 1 # k + 1 /\ (k # L => k + 1 \in 1..L)
        BY <1>1, <3>3
      <4>2. d[j] = c[j + 1] /\ (k # L => c[j + 1] # c[k + 1])
            /\ At(d, j - 1) = At(c, j)
        BY <1>2, <1>5, <1>7, <3>0, <4>1
      <4>3. P[c[j + 1]] = s.prev[c[j + 1]]
        BY <1>6, <1>13, <3>0, <4>2
      <4> QED BY <1>4, <3>0, <4>2, <4>3
    <3>4. j < k \/ j = k \/ j > k
      BY <1>1
    <3> QED BY <3>1, <3>2, <3>3, <3>4
  <2> QED BY <1>2, <2>1 DEF Backward
<1>19. FreeChain(N, P, f)
  <2>1. ASSUME NEW j \in 1..Len(f)
        PROVE N[f[j]] = s.next[f[j]] /\ P[f[j]] = s.prev[f[j]]
    <3>1. f[j] \in 0..(n - 1)
      <4>1. f[j] \in 1..(n - 1)
        BY <1>0 DEF Within
      <4> QED BY <1>0, <4>1
    <3>2. (k # 1 => f[j] # c[k - 1]) /\ (k # L => f[j] # c[k + 1])
      BY <1>0, <1>10 DEF Misses
    <3> QED BY <1>12, <1>13, <3>1, <3>2
  <2>2. N[0] = s.next[0] /\ P[0] = s.prev[0]
    BY <1>10, <1>12, <1>13
  <2>3. Alike(f, s.next, s.prev, N, P)
    BY <2>1, <2>2 DEF Alike
  <2> QED BY <1>0, <2>3, FreeUntouched
<1>20. \A j : Misses(c, j) <=> j # c[k] /\ Misses(d, j)
  <2>1. ASSUME NEW j, Misses(c, j) PROVE j # c[k] /\ Misses(d, j)
    <3>1. \A i \in 1..(L - 1) : i \in 1..L /\ i + 1 \in 1..L
      BY <1>1
    <3> QED BY <1>1, <1>2, <2>1, <3>1 DEF Misses
  <2>2. ASSUME NEW j, j # c[k], Misses(d, j), NEW i \in 1..L PROVE c[i] # j
    <3>1. CASE i < k
      <4>1. i \in 1..(L - 1)
        BY <1>1, <3>1
      <4> QED BY <1>2, <2>2, <3>1, <4>1 DEF Misses
    <3>2. CASE i > k
      <4>1. i - 1 \in 1..(L - 1) /\ ~(i - 1 < k) /\ (i - 1) + 1 = i
        BY <1>1, <3>2
      <4> QED BY <1>2, <2>2, <4>1 DEF Misses
    <3>3. i < k \/ i = k \/ i > k
      BY <1>1
    <3> QED BY <2>2, <3>1, <3>2, <3>3
  <2> QED BY <2>1, <2>2 DEF Misses
<1>21. Misses(d, c[k])
  <2>1. \A i \in 1..(L - 1) : i \in 1..L /\ i + 1 \in 1..L /\ (i < k => i # k)
                              /\ (~(i < k) => i + 1 # k)
    BY <1>1
  <2> QED BY <1>1, <1>2, <1>7, <2>1 DEF Misses
<1>22. Within(n, d) /\ Differ(d)
  <2>1. \A i \in 1..(L - 1) : i \in 1..L /\ i + 1 \in 1..L
    BY <1>1
  <2>2. Within(n, d)
    BY <1>2, <1>6, <2>1 DEF Within
  <2>3. ASSUME NEW i \in 1..(L - 1), NEW j \in 1..(L - 1), d[i] = d[j]
        PROVE  i = j
    <3>1. /\ i < k /\ j < k => i = j
          /\ i < k /\ ~(j < k) => i = j + 1
          /\ ~(i < k) /\ j < k => i + 1 = j
          /\ ~(i < k) /\ ~(j < k) => i + 1 = j + 1
      BY <1>2, <1>7, <2>1, <2>3
    <3> QED BY <1>1, <3>1
  <2> QED BY <1>2, <2>2, <2>3 DEF Differ
<1>23. Owned(n, d, f, {c[k]})
  <2>1. \A j \in 1..(n - 1) : j \in {c[k]} \/ ~Misses(d, j) \/ ~Misses(f, j)
    BY <1>0, <1>20
  <2>2. \A j \in 1..Len(d) : Misses(f, d[j])
    <3>1. \A i \in 1..(L - 1) : i \in 1..L /\ i + 1 \in 1..L
      BY <1>1
    <3> QED BY <1>0, <1>2, <3>1
  <2>3. \A i \in {c[k]} : i \in 1..(n - 1) /\ Misses(d, i) /\ Misses(f, i)
    BY <1>0, <1>1, <1>6, <1>21
  <2> QED BY <1>0, <1>22, <2>1, <2>2, <2>3 DEF Owned
<1>24. P[0] = s.prev[0]
  BY <1>10, <1>13
<1>25. Shape(u, n, d, f, {c[k]})
  <2>1. Forward(u.next, u.front, d) /\ Backward(u.prev, u.rear, d)
        /\ FreeChain(u.next, u.prev, f)
    BY <1>16, <1>17, <1>18, <1>19
  <2>2. u.value[0] = 0 /\ u.prev[0] = s.prev[0]
    BY <1>14, <1>16, <1>24
  <2> QED BY <1>0, <1>2, <1>16, <1>23, <2>1, <2>2 DEF Shape
<1> QED BY <1>v, <1>16, <1>25 DEF Unlinked

\* An item that leaves the list: its cell becomes free.
LEMMA DropKeeps ==
  ASSUME NEW s, NEW n, NEW c, NEW f, NEW x, Holds(s, n, c, f, x),
         NEW k \in 1..Len(c)
  PROVE  \E g : Holds(FreeCell(Unlink(s, c, k), c[k]), n, Drop(c, k), g, Drop(x, k))
<1>0. /\ Shape(s, n, c, f, {})
      /\ x \in Seq(Values) /\ Len(x) = Len(c)
      /\ \A j \in 1..Len(c) : s.value[c[j]] = x[j]
  BY DEF Holds
<1>1. Unlinked(s, Unlink(s, c, k), n, c, f, k)
  BY <1>0, UnlinkKeeps
<1>2. Shape(Unlink(s, c, k), n, Drop(c, k), f, {c[k]})
  BY <1>1 DEF Unlinked
<1>3. PICK g : Freed(Unlink(s, c, k), FreeCell(Unlink(s, c, k), c[k]), n, Drop(c, k), g)
  BY <1>2, FreeCellKeeps
<1> PICK t : t = FreeCell(Unlink(s, c, k), c[k])
  OBVIOUS
<1> PICK L : L = Len(c)
  OBVIOUS
<1> PICK V : V = t.value
  OBVIOUS
<1>4. Shape(t, n, Drop(c, k), g, {}) /\ V = [s.value EXCEPT ![c[k]] = 0]
  BY <1>1, <1>3 DEF Freed, Unlinked
<1>5. /\ c \in Seq(Nat) /\ Within(n, c) /\ Differ(c) /\ n \in Nat
      /\ s.value \in [0..(n - 1) -> Values \union {0}]
  BY <1>0 DEF Shape, Owned, Lists
<1>6a. k \in 1..Len(x)
  BY <1>0
<1>6b. /\ Drop(c, k) \in Seq(Nat) /\ Len(Drop(c, k)) = Len(c) - 1 /\ Len(c) \in Nat
       /\ \A j \in 1..(Len(c) - 1) :
            Drop(c, k)[j] = IF j < k THEN c[j] ELSE c[j + 1]
  BY <1>5, DropIs
<1>6c. /\ Drop(x, k) \in Seq(Values) /\ Len(Drop(x, k)) = Len(x) - 1
       /\ \A j \in 1..(Len(x) - 1) :
            Drop(x, k)[j] = IF j < k THEN x[j] ELSE x[j + 1]
  BY <1>0, <1>6a, DropIs
<1> PICK d : d = Drop(c, k)
  OBVIOUS
<1> PICK y : y = Drop(x, k)
  OBVIOUS
<1>6. /\ d \in Seq(Nat) /\ Len(d) = L - 1 /\ L \in Nat
      /\ \A j \in 1..(L - 1) : d[j] = IF j < k THEN c[j] ELSE c[j + 1]
  BY <1>6b
<1>7. /\ y \in Seq(Values) /\ Len(y) = L - 1
      /\ \A j \in 1..(L - 1) : y[j] = IF j < k THEN x[j] ELSE x[j + 1]
  BY <1>0, <1>6c
<1>8. \A j \in 1..L : j # k => V[c[j]] = x[j]
  <2>1. \A j \in 1..(n - 1) : j \in 0..(n - 1)
    BY <1>5
  <2>2. \A j \in 1..L : j # k => c[j] # c[k] /\ c[j] \in 0..(n - 1)
    BY <1>5, <2>1 DEF Within, Differ
  <2> QED BY <1>0, <1>4, <1>5, <2>2
<1>9. \A j \in 1..(L - 1) : V[d[j]] = y[j]
  <2>1. \A i \in 1..(L - 1) : i \in 1..L /\ i + 1 \in 1..L /\ (i < k => i # k)
                              /\ (~(i < k) => i + 1 # k)
    BY <1>6
  <2> SUFFICES ASSUME NEW j \in 1..(L - 1) PROVE V[d[j]] = y[j]
    OBVIOUS
  <2>2. CASE j < k
    <3>1. d[j] = c[j] /\ y[j] = x[j]
      BY <1>6, <1>7, <2>2
    <3> QED BY <1>8, <2>1, <2>2, <3>1
  <2>3. CASE ~(j < k)
    <3>1. d[j] = c[j + 1] /\ y[j] = x[j + 1]
      BY <1>6, <1>7, <2>3
    <3> QED BY <1>8, <2>1, <2>3, <3>1
  <2> QED BY <2>2, <2>3
<1>10. Holds(t, n, d, g, y)
  BY <1>4, <1>6, <1>7, <1>9 DEF Holds
<1> QED BY <1>10

\* What the three calls that take an item do to the links.
Linked(s, n, c, k) ==
  /\ Len(c) \in Nat /\ n \in Nat /\ k \in 1..Len(c)
  /\ s.front = c[1] /\ s.rear = c[Len(c)]
  /\ s.next[c[k]] = At(c, k + 1) /\ s.prev[c[k]] = At(c, k - 1)
  /\ \A j \in 1..Len(c) : At(c, j) = c[j] /\ c[j] # 0 /\ c[j] \in 0..(n - 1)
  /\ At(c, 0) = 0 /\ At(c, Len(c) + 1) = 0
  /\ \A i, j \in 1..Len(c) : c[i] = c[j] => i = j

\* They find an item linked to its neighbours.
LEMMA ItemsLinked ==
  ASSUME NEW s, NEW n, NEW c, NEW f, Shape(s, n, c, f, {}), NEW k \in 1..Len(c)
  PROVE  Linked(s, n, c, k)
<1>0. /\ n \in Nat /\ n >= 1 /\ c \in Seq(Nat) /\ Within(n, c) /\ Differ(c)
      /\ Forward(s.next, s.front, c) /\ Backward(s.prev, s.rear, c)
  BY DEF Shape, Owned
<1>1. /\ Len(c) \in Nat
      /\ \A j \in 1..Len(c) : At(c, j) = c[j] /\ At(c, j) \in 1..(n - 1)
      /\ At(c, 0) = 0 /\ At(c, Len(c) + 1) = 0
      /\ \A j \in 1..Len(c) : At(c, j) # 0
  BY <1>0, AtIs
<1>2. \A j \in 1..(n - 1) : j \in 0..(n - 1)
  BY <1>0
<1>3. 1 \in 1..Len(c) /\ Len(c) \in 1..Len(c)
  BY <1>1
<1> QED BY SMTT(30), <1>0, <1>1, <1>2, <1>3 DEF Forward, Backward, Differ, Linked

\* The first and the last cell of what is left.
LEMMA AtDropped ==
  ASSUME NEW c \in Seq(Nat), NEW k \in 1..Len(c)
  PROVE  /\ At(Drop(c, k), 1) = At(c, IF k = 1 THEN 2 ELSE 1)
         /\ At(Drop(c, k), Len(c) - 1)
              = At(c, IF k = Len(c) THEN Len(c) - 1 ELSE Len(c))
<1> PICK L : L = Len(c)
  OBVIOUS
<1> PICK d : d = Drop(c, k)
  OBVIOUS
<1>1. /\ d \in Seq(Nat) /\ Len(d) = L - 1 /\ L \in Nat /\ k \in 1..L
      /\ \A j \in 1..(L - 1) : d[j] = IF j < k THEN c[j] ELSE c[j + 1]
  BY DropIs
<1>2. CASE L = 1
  <2>1. ~(1 \in 1..(L - 1)) /\ ~(L - 1 \in 1..(L - 1)) /\ k = 1 /\ k = L
        /\ ~(2 \in 1..L) /\ ~(L - 1 \in 1..L)
    BY <1>1, <1>2
  <2> QED BY <1>1, <2>1 DEF At
<1>3. CASE L > 1
  <2>1. 1 \in 1..(L - 1) /\ L - 1 \in 1..(L - 1) /\ 1 \in 1..L /\ 2 \in 1..L
        /\ L - 1 \in 1..L /\ L \in 1..L /\ (L - 1) + 1 = L /\ 1 + 1 = 2
        /\ (1 < k <=> k # 1) /\ (L - 1 < k <=> k = L)
    BY <1>1, <1>3
  <2>2. At(d, 1) = d[1] /\ At(d, L - 1) = d[L - 1]
    BY <1>1, <2>1 DEF At
  <2>3. At(c, 1) = c[1] /\ At(c, 2) = c[2] /\ At(c, L) = c[L] /\ At(c, L - 1) = c[L - 1]
    BY <2>1 DEF At
  <2> QED BY <1>1, <2>1, <2>2, <2>3
<1> QED BY <1>1, <1>2, <1>3

\* The four places an item can have.
Without(s, t, c, k) ==
  LET V == [s.value EXCEPT ![c[k]] = 0]
      L == Len(c)
  IN  /\ k = 1 /\ k = L => t = [s EXCEPT !.value = V, !.front = 0, !.rear = 0]
      /\ k = 1 /\ k # L => t = [s EXCEPT !.value = V, !.front = c[2],
                                         !.prev = [s.prev EXCEPT ![c[2]] = 0]]
      /\ k # 1 /\ k = L => t = [s EXCEPT !.value = V, !.rear = c[k - 1],
                                         !.next = [s.next EXCEPT ![c[k - 1]] = 0]]
      /\ k # 1 /\ k # L => t = [s EXCEPT !.value = V,
                                  !.next = [s.next EXCEPT ![c[k - 1]] = c[k + 1]],
                                  !.prev = [s.prev EXCEPT ![c[k + 1]] = c[k - 1]]]

\* In each, the item is unlinked.
LEMMA UnlinkIs ==
  ASSUME NEW s, NEW n, NEW c, NEW f, Shape(s, n, c, f, {}), NEW k \in 1..Len(c)
  PROVE  Without(s, Unlink(s, c, k), c, k)
<1>0. c \in Seq(Nat) /\ s \in Lists(n)
  BY DEF Shape
<1>0a. Linked(s, n, c, k)
  BY ItemsLinked
<1>0b. /\ At(Drop(c, k), 1) = At(c, IF k = 1 THEN 2 ELSE 1)
       /\ At(Drop(c, k), Len(c) - 1)
            = At(c, IF k = Len(c) THEN Len(c) - 1 ELSE Len(c))
  BY <1>0, AtDropped
<1> PICK L : L = Len(c)
  OBVIOUS
<1> PICK V : V = [s.value EXCEPT ![c[k]] = 0]
  OBVIOUS
<1> PICK a : a = At(Drop(c, k), 1)
  OBVIOUS
<1> PICK b : b = At(Drop(c, k), L - 1)
  OBVIOUS
<1> PICK t : t = Unlink(s, c, k)
  OBVIOUS
<1>1. /\ L \in Nat /\ k \in 1..L /\ s.front = c[1] /\ s.rear = c[L]
      /\ \A j \in 1..L : At(c, j) = c[j]
      /\ At(c, 0) = 0 /\ At(c, L + 1) = 0
  BY <1>0a DEF Linked
<1>2. a = At(c, IF k = 1 THEN 2 ELSE 1) /\ b = At(c, IF k = L THEN L - 1 ELSE L)
  BY <1>0b
<1>3. t =
        [s EXCEPT !.value = V, !.front = a, !.rear = b,
                  !.next = IF k = 1 THEN s.next
                           ELSE [s.next EXCEPT ![c[k - 1]] = At(c, k + 1)],
                  !.prev = IF k = L THEN s.prev
                           ELSE [s.prev EXCEPT ![c[k + 1]] = At(c, k - 1)]]
  BY <1>0 DEF Unlink, Lists
<1> SUFFICES
      /\ k = 1 /\ k = L => t = [s EXCEPT !.value = V, !.front = 0, !.rear = 0]
      /\ k = 1 /\ k # L => t = [s EXCEPT !.value = V, !.front = c[2],
                                         !.prev = [s.prev EXCEPT ![c[2]] = 0]]
      /\ k # 1 /\ k = L => t = [s EXCEPT !.value = V, !.rear = c[k - 1],
                                         !.next = [s.next EXCEPT ![c[k - 1]] = 0]]
      /\ k # 1 /\ k # L => t = [s EXCEPT !.value = V,
                                  !.next = [s.next EXCEPT ![c[k - 1]] = c[k + 1]],
                                  !.prev = [s.prev EXCEPT ![c[k + 1]] = c[k - 1]]]
  BY DEF Without
<1>4. CASE k = 1 /\ k = L
  <2>1. At(c, 2) = 0 /\ At(c, L - 1) = 0
    <3>1. ~(2 \in 1..L) /\ ~(L - 1 \in 1..L)
      <4>1. L = 1
        BY <1>4
      <4>2. ~(2 \in 1..1) /\ ~(1 - 1 \in 1..1)
        OBVIOUS
      <4> QED BY <4>1, <4>2, Zenon
    <3> QED BY <3>1 DEF At
  <2>2. a = 0 /\ b = 0
    BY <1>2, <1>4, <2>1
  <2>3. t = [s EXCEPT !.value = V, !.front = 0, !.rear = 0]
    BY <1>0, <1>3, <1>4, <2>2 DEF Lists
  <2> QED BY <1>4, <2>3, Zenon
<1>5. CASE k = 1 /\ k # L
  <2>1. At(c, 2) = c[2] /\ At(c, L) = s.rear /\ k - 1 = 0 /\ k + 1 = 2
    <3>1. 2 \in 1..L /\ L \in 1..L /\ k - 1 = 0 /\ k + 1 = 2
      BY <1>1, <1>5
    <3> QED BY <1>1, <3>1
  <2>2. a = c[2] /\ b = s.rear
    BY <1>2, <1>5, <2>1
  <2>3. t = [s EXCEPT !.value = V, !.front = c[2],
                                    !.prev = [s.prev EXCEPT ![c[2]] = 0]]
    BY ZenonT(30), <1>0, <1>1, <1>3, <1>5, <2>1, <2>2 DEF Lists
  <2> QED BY <1>5, <2>3, Zenon
<1>6. CASE k # 1 /\ k = L
  <2>1. At(c, k - 1) = c[k - 1] /\ At(c, 1) = s.front
    <3>1. k - 1 \in 1..L /\ 1 \in 1..L
      BY <1>1, <1>6
    <3> QED BY <1>1, <3>1
  <2>2. a = s.front /\ b = c[k - 1]
    BY <1>2, <1>6, <2>1
  <2>3. At(c, k + 1) = 0
    BY <1>1, <1>6
  <2>4. t = [s EXCEPT !.value = V, !.rear = c[k - 1],
                                    !.next = [s.next EXCEPT ![c[k - 1]] = 0]]
    BY ZenonT(30), <1>0, <1>3, <1>6, <2>2, <2>3 DEF Lists
  <2> QED BY <1>6, <2>4, Zenon
<1>7. CASE k # 1 /\ k # L
  <2>1. /\ At(c, k - 1) = c[k - 1] /\ At(c, 1) = s.front
        /\ At(c, L) = s.rear /\ At(c, k + 1) = c[k + 1]
    <3>1. k - 1 \in 1..L /\ 1 \in 1..L /\ L \in 1..L /\ k + 1 \in 1..L
      BY <1>1, <1>7
    <3> QED BY <1>1, <3>1
  <2>2. a = s.front /\ b = s.rear
    BY <1>2, <1>7, <2>1
  <2>4. t =
                [s EXCEPT !.value = V,
                          !.next = [s.next EXCEPT ![c[k - 1]] = c[k + 1]],
                          !.prev = [s.prev EXCEPT ![c[k + 1]] = c[k - 1]]]
    BY <1>0, <1>3, <1>7, <2>1, <2>2 DEF Lists
  <2> QED BY <1>7, <2>4, Zenon
<1>9. (k = 1 /\ k = L) \/ (k = 1 /\ k # L) \/ (k # 1 /\ k = L) \/ (k # 1 /\ k # L)
  OBVIOUS
<1> QED BY <1>4, <1>5, <1>6, <1>7, <1>9

\* list_shift unlinks the first item,
LEMMA ShiftedIs ==
  ASSUME NEW s, NEW n, NEW c, NEW f, Shape(s, n, c, f, {}), Len(c) # 0
  PROVE  Shifted(s) = FreeCell(Unlink(s, c, 1), c[1])
<1>0. c \in Seq(Nat) /\ s \in Lists(n)
  BY DEF Shape
<1>k. 1 \in 1..Len(c)
  BY <1>0, LenProperties
<1>l. Linked(s, n, c, 1)
  BY <1>k, ItemsLinked
<1>w. Without(s, Unlink(s, c, 1), c, 1)
  BY <1>k, UnlinkIs
<1> PICK L : L = Len(c)
  OBVIOUS
<1>1. 1 \in 1..Len(c) /\ L \in Nat /\ L \in 1..L
  BY <1>0, LenProperties
<1>2. /\ s.front = c[1] /\ s.rear = c[L] /\ s.next[c[1]] = At(c, 1 + 1)
      /\ \A j \in 1..L : At(c, j) = c[j] /\ c[j] # 0
      /\ At(c, L + 1) = 0
      /\ \A i, j \in 1..L : c[i] = c[j] => i = j
  BY <1>l DEF Linked
<1> PICK V : V = [s.value EXCEPT ![c[1]] = 0]
  OBVIOUS
<1>3. /\ 1 = L => Unlink(s, c, 1) = [s EXCEPT !.value = V, !.front = 0, !.rear = 0]
      /\ 1 # L =>
           Unlink(s, c, 1) = [s EXCEPT !.value = V, !.front = c[2],
                                       !.prev = [s.prev EXCEPT ![c[2]] = 0]]
  BY <1>w DEF Without
<1> PICK t : t = [s EXCEPT !.value[c[1]] = 0, !.front = s.next[c[1]],
                           !.rear = IF @ = c[1] THEN 0 ELSE @]
  OBVIOUS
<1>4. Shifted(s) = FreeCell(IF t.front = 0 THEN t ELSE [t EXCEPT !.prev[t.front] = 0],
                            c[1])
  BY <1>2 DEF Shifted
<1>5. t = [s EXCEPT !.value = V, !.front = s.next[c[1]],
                    !.rear = IF s.rear = c[1] THEN 0 ELSE s.rear]
  BY <1>0 DEF Lists
<1>6. CASE L = 1
  <2>1. s.next[c[1]] = 0 /\ s.rear = c[1]
    BY <1>2, <1>6
  <2>2. t = Unlink(s, c, 1) /\ t.front = 0
    BY <1>0, <1>3, <1>5, <1>6, <2>1 DEF Lists
  <2> QED BY <1>4, <2>2
<1>7. CASE L # 1
  <2>1. 2 \in 1..L /\ 1 + 1 = 2
    BY <1>1, <1>7
  <2>2. s.next[c[1]] = c[2] /\ c[2] # 0 /\ s.rear # c[1]
    BY <1>1, <1>2, <1>7, <2>1
  <2>3. t = [s EXCEPT !.value = V, !.front = c[2]] /\ t.front = c[2]
    BY <1>0, <1>5, <2>2 DEF Lists
  <2>4. [t EXCEPT !.prev[c[2]] = 0] = Unlink(s, c, 1)
    BY <1>0, <1>3, <1>7, <2>3 DEF Lists
  <2> QED BY <1>4, <2>2, <2>3, <2>4
<1> QED BY <1>6, <1>7

\* list_pop the last one,
LEMMA PoppedIs ==
  ASSUME NEW s, NEW n, NEW c, NEW f, Shape(s, n, c, f, {}), Len(c) # 0
  PROVE  Popped(s) = FreeCell(Unlink(s, c, Len(c)), c[Len(c)])
<1>0. c \in Seq(Nat) /\ s \in Lists(n)
  BY DEF Shape
<1>k. Len(c) \in 1..Len(c)
  BY <1>0, LenProperties
<1>l. Linked(s, n, c, Len(c))
  BY <1>k, ItemsLinked
<1>w. Without(s, Unlink(s, c, Len(c)), c, Len(c))
  BY <1>k, UnlinkIs
<1> PICK L : L = Len(c)
  OBVIOUS
<1>1. L \in 1..Len(c) /\ L \in Nat /\ 1 \in 1..L
  BY <1>0, LenProperties
<1>2. /\ s.front = c[1] /\ s.rear = c[L] /\ s.prev[c[L]] = At(c, L - 1)
      /\ \A j \in 1..L : At(c, j) = c[j] /\ c[j] # 0
      /\ At(c, 0) = 0
      /\ \A i, j \in 1..L : c[i] = c[j] => i = j
  BY <1>l DEF Linked
<1> PICK V : V = [s.value EXCEPT ![c[L]] = 0]
  OBVIOUS
<1>3. /\ L = 1 => Unlink(s, c, L) = [s EXCEPT !.value = V, !.front = 0, !.rear = 0]
      /\ L # 1 =>
           Unlink(s, c, L) = [s EXCEPT !.value = V, !.rear = c[L - 1],
                                       !.next = [s.next EXCEPT ![c[L - 1]] = 0]]
  BY <1>w DEF Without
<1> PICK t : t = [s EXCEPT !.value[c[L]] = 0, !.rear = s.prev[c[L]],
                           !.front = IF @ = c[L] THEN 0 ELSE @]
  OBVIOUS
<1>4. Popped(s) = FreeCell(IF t.rear = 0 THEN t ELSE [t EXCEPT !.next[t.rear] = 0],
                           c[L])
  BY <1>2 DEF Popped
<1>5. t = [s EXCEPT !.value = V, !.rear = s.prev[c[L]],
                    !.front = IF s.front = c[L] THEN 0 ELSE s.front]
  BY <1>0 DEF Lists
<1>6. CASE L = 1
  <2>1. s.prev[c[L]] = 0 /\ s.front = c[L]
    BY <1>2, <1>6
  <2>2. t = Unlink(s, c, L) /\ t.rear = 0
    BY ZenonT(30), <1>0, <1>3, <1>5, <1>6, <2>1 DEF Lists
  <2> QED BY <1>4, <2>2
<1>7. CASE L # 1
  <2>1. L - 1 \in 1..L
    BY <1>1, <1>7
  <2>2. s.prev[c[L]] = c[L - 1] /\ c[L - 1] # 0 /\ s.front # c[L]
    BY <1>1, <1>2, <1>7, <2>1
  <2>3. t = [s EXCEPT !.value = V, !.rear = c[L - 1]] /\ t.rear = c[L - 1]
    BY <1>0, <1>5, <2>2 DEF Lists
  <2>4. [t EXCEPT !.next[c[L - 1]] = 0] = Unlink(s, c, L)
    BY <1>0, <1>3, <1>7, <2>3 DEF Lists
  <2> QED BY <1>4, <2>2, <2>3, <2>4
<1> QED BY <1>6, <1>7

\* and list_remove any; then list_freeCell gets the cell.
LEMMA RemovedIs ==
  ASSUME NEW s, NEW n, NEW c, NEW f, Shape(s, n, c, f, {}), NEW k \in 1..Len(c)
  PROVE  Removed(s, c[k]) = FreeCell(Unlink(s, c, k), c[k])
<1>0. c \in Seq(Nat) /\ s \in Lists(n)
  BY DEF Shape
<1>l. Linked(s, n, c, k)
  BY ItemsLinked
<1>w. Without(s, Unlink(s, c, k), c, k)
  BY UnlinkIs
<1> PICK L : L = Len(c)
  OBVIOUS
<1> PICK i : i = c[k]
  OBVIOUS
<1>1. /\ L \in Nat /\ n \in Nat /\ k \in 1..L
      /\ s.front = c[1] /\ s.rear = c[L]
      /\ s.next[i] = At(c, k + 1) /\ s.prev[i] = At(c, k - 1)
      /\ \A j \in 1..L : At(c, j) = c[j] /\ c[j] # 0 /\ c[j] \in 0..(n - 1)
      /\ At(c, 0) = 0 /\ At(c, L + 1) = 0
      /\ \A h, j \in 1..L : c[h] = c[j] => h = j
  BY <1>l DEF Linked
<1> PICK V : V = [s.value EXCEPT ![i] = 0]
  OBVIOUS
<1>2. /\ k = 1 /\ k = L =>
           Unlink(s, c, k) = [s EXCEPT !.value = V, !.front = 0, !.rear = 0]
      /\ k = 1 /\ k # L =>
           Unlink(s, c, k) = [s EXCEPT !.value = V, !.front = c[2],
                                       !.prev = [s.prev EXCEPT ![c[2]] = 0]]
      /\ k # 1 /\ k = L =>
           Unlink(s, c, k) = [s EXCEPT !.value = V, !.rear = c[k - 1],
                                       !.next = [s.next EXCEPT ![c[k - 1]] = 0]]
      /\ k # 1 /\ k # L =>
           Unlink(s, c, k) =
                [s EXCEPT !.value = V,
                          !.next = [s.next EXCEPT ![c[k - 1]] = c[k + 1]],
                          !.prev = [s.prev EXCEPT ![c[k + 1]] = c[k - 1]]]
  BY <1>w DEF Without
<1>t. PICK t : t = IF s.front = i
           THEN IF s.next[i] = 0 THEN [s EXCEPT !.front = 0]
                ELSE [s EXCEPT !.front = s.next[i], !.prev[s.next[i]] = 0]
           ELSE IF s.prev[i] = 0 THEN s
                ELSE [s EXCEPT !.next[s.prev[i]] = s.next[i]]
  OBVIOUS
<1>u. PICK u : u = IF t.rear = i
           THEN IF t.prev[i] = 0 THEN [t EXCEPT !.rear = 0]
                ELSE [t EXCEPT !.rear = t.prev[i], !.next[t.prev[i]] = 0]
           ELSE IF t.next[i] = 0 THEN t
                ELSE [t EXCEPT !.prev[t.next[i]] = t.prev[i]]
  OBVIOUS
<1>3. Removed(s, i) = FreeCell([u EXCEPT !.value[i] = 0], i)
  BY SMTT(30), <1>t, <1>u DEF Removed
<1>4. /\ s.next \in [0..(n - 1) -> 0..(n - 1)]
      /\ s.prev \in [0..(n - 1) -> 0..(n - 1) \union {Wrapped}]
  BY <1>0 DEF Lists
<1>5. CASE k = 1 /\ k = L
  <2>1. s.front = i /\ s.rear = i /\ s.next[i] = 0 /\ s.prev[i] = 0
    <3>0. 1 - 1 = 0
      OBVIOUS
    <3>1. k + 1 = L + 1 /\ k - 1 = 0
      BY <1>5, <3>0, Zenon
    <3> QED BY <1>1, <1>5, <3>1
  <2>2. t = [s EXCEPT !.front = 0]
    BY <1>t, <2>1
  <2>3. t.rear = i /\ t.prev[i] = 0
    BY <1>0, <2>1, <2>2 DEF Lists
  <2>4. u = [t EXCEPT !.rear = 0]
    BY <1>u, <2>3
  <2>5. [u EXCEPT !.value[i] = 0] = [s EXCEPT !.value = V, !.front = 0, !.rear = 0]
    BY <1>0, <2>2, <2>4 DEF Lists
  <2> QED BY <1>2, <1>3, <1>5, <2>5
<1>6. CASE k = 1 /\ k # L
  <2>0. 2 \in 1..L /\ 1 \in 1..L /\ L \in 1..L /\ k + 1 = 2 /\ k - 1 = 0
    BY <1>1, <1>6
  <2>1. /\ s.front = i /\ s.rear # i /\ s.next[i] = c[2] /\ s.prev[i] = 0
        /\ c[2] # 0 /\ c[2] # i /\ c[2] \in 0..(n - 1) /\ i \in 0..(n - 1)
    BY <1>1, <1>6, <2>0
  <2>2. t = [s EXCEPT !.front = c[2], !.prev[c[2]] = 0]
    BY <1>t, <2>1
  <2>3. t.rear # i /\ t.next[i] = c[2] /\ t.prev[i] = 0
    BY <1>0, <1>4, <2>1, <2>2 DEF Lists
  <2>4. u = [t EXCEPT !.prev[c[2]] = 0]
    BY <1>u, <2>1, <2>3
  <2>5. [u EXCEPT !.value[i] = 0] = [s EXCEPT !.value = V, !.front = c[2],
                                              !.prev = [s.prev EXCEPT ![c[2]] = 0]]
    BY <1>0, <1>4, <2>1, <2>2, <2>4 DEF Lists
  <2> QED BY <1>2, <1>3, <1>6, <2>5
<1>7. CASE k # 1 /\ k = L
  <2> PICK b : b = c[k - 1]
    OBVIOUS
  <2>0. k - 1 \in 1..L /\ 1 \in 1..L /\ L \in 1..L /\ k - 1 # k
    BY <1>1, <1>7
  <2>1. /\ s.front # i /\ s.rear = i /\ s.next[i] = 0 /\ s.prev[i] = b
        /\ b # 0 /\ b # i /\ b \in 0..(n - 1) /\ i \in 0..(n - 1)
    BY <1>1, <1>7, <2>0
  <2>2. t = [s EXCEPT !.next[b] = 0]
    BY <1>t, <2>1
  <2>3. t.rear = i /\ t.prev[i] = b
    BY <1>0, <1>4, <2>1, <2>2 DEF Lists
  <2>4. u = [t EXCEPT !.rear = b, !.next[b] = 0]
    BY <1>u, <2>1, <2>3
  <2>5. [u EXCEPT !.value[i] = 0] = [s EXCEPT !.value = V, !.rear = b,
                                              !.next = [s.next EXCEPT ![b] = 0]]
    BY <1>0, <1>4, <2>1, <2>2, <2>4 DEF Lists
  <2> QED BY <1>2, <1>3, <1>7, <2>5
<1>8. CASE k # 1 /\ k # L
  <2> PICK a : a = c[k + 1]
    OBVIOUS
  <2> PICK b : b = c[k - 1]
    OBVIOUS
  <2>0. /\ k - 1 \in 1..L /\ k + 1 \in 1..L /\ 1 \in 1..L /\ L \in 1..L
        /\ k - 1 # k /\ k + 1 # k
    BY <1>1, <1>8
  <2>1. /\ s.front # i /\ s.rear # i /\ s.next[i] = a /\ s.prev[i] = b
        /\ a # 0 /\ b # 0 /\ b # i /\ a # i
        /\ a \in 0..(n - 1) /\ b \in 0..(n - 1) /\ i \in 0..(n - 1)
    BY <1>1, <1>8, <2>0
  <2>2. t = [s EXCEPT !.next[b] = a]
    BY <1>t, <2>1
  <2>3. t.rear # i /\ t.next[i] = a /\ t.prev[i] = b
    BY <1>0, <1>4, <2>1, <2>2 DEF Lists
  <2>4. u = [t EXCEPT !.prev[a] = b]
    BY <1>u, <2>1, <2>3
  <2>5. [u EXCEPT !.value[i] = 0] = [s EXCEPT !.value = V,
                                              !.next = [s.next EXCEPT ![b] = a],
                                              !.prev = [s.prev EXCEPT ![a] = b]]
    BY <1>0, <1>4, <2>1, <2>2, <2>4 DEF Lists
  <2> QED BY <1>2, <1>3, <1>8, <2>5
<1> QED BY <1>5, <1>6, <1>7, <1>8

\* list_shift, list_pop and list_remove take out the first item, the last
\* one, or any.
LEMMA TakingKeeps ==
  ASSUME NEW s, NEW n, NEW c, NEW f, NEW x, Holds(s, n, c, f, x)
  PROVE  /\ Len(c) # 0 =>
              \E g : Holds(Shifted(s), n, Drop(c, 1), g, Drop(x, 1))
         /\ Len(c) # 0 =>
              \E g : Holds(Popped(s), n, Drop(c, Len(c)), g, Drop(x, Len(c)))
         /\ \A k \in 1..Len(c) :
              \E g : Holds(Removed(s, c[k]), n, Drop(c, k), g, Drop(x, k))
<1>1. Shape(s, n, c, f, {})
  BY DEF Holds
<1>2. Len(c) \in Nat
  <2>1. c \in Seq(Nat)
    BY <1>1 DEF Shape
  <2> QED BY <2>1, LenProperties
<1>3. \A k \in 1..Len(c) :
        \E g : Holds(FreeCell(Unlink(s, c, k), c[k]), n, Drop(c, k), g, Drop(x, k))
  BY DropKeeps
<1>4. Len(c) # 0 => Shifted(s) = FreeCell(Unlink(s, c, 1), c[1])
  BY <1>1, ShiftedIs
<1>5. Len(c) # 0 => Popped(s) = FreeCell(Unlink(s, c, Len(c)), c[Len(c)])
  BY <1>1, PoppedIs
<1>6. \A k \in 1..Len(c) : Removed(s, c[k]) = FreeCell(Unlink(s, c, k), c[k])
  BY <1>1, RemovedIs
<1>7. Len(c) # 0 => 1 \in 1..Len(c) /\ Len(c) \in 1..Len(c)
  BY <1>2
<1> QED BY <1>3, <1>4, <1>5, <1>6, <1>7, Zenon

-----------------------------------------------------------------------------
(* Empty lists *)

\* A list without items: all its cells are free.
LEMMA EmptyHolds ==
  ASSUME NEW n \in Nat, n >= 1, NEW t, t \in Lists(n),
         t.front = 0, t.rear = 0, t.value[0] = 0,
         \A j \in 0..(n - 1) : t.next[j] = IF j = n - 1 THEN 0 ELSE j + 1,
         \A j \in 2..(n - 1) : t.prev[j] = j - 1,
         n # 1 => t.prev[0] = n - 1
  PROVE  \E g : Holds(t, n, << >>, g, << >>)
<1> PICK L : L = n - 1
  OBVIOUS
<1> PICK g : g = [k \in 1..L |-> k]
  OBVIOUS
<1>1. L \in Nat /\ n = L + 1
  OBVIOUS
<1>2. g \in Seq(Nat) /\ Len(g) = L
  <2>1. g \in [1..L -> Nat]
    OBVIOUS
  <2> QED BY <1>1, <2>1, IsSequence
<1>3. \A k \in 0..(L + 1) : At(g, k) = IF k = L + 1 THEN 0 ELSE k
  <2> SUFFICES ASSUME NEW k \in 0..(L + 1)
               PROVE  At(g, k) = IF k = L + 1 THEN 0 ELSE k
    OBVIOUS
  <2>1. CASE k \in 1..L
    <3>1. k # L + 1
      BY <1>1, <2>1
    <3> QED BY <1>2, <2>1, <3>1 DEF At
  <2>2. CASE k \notin 1..L
    <3>1. k = 0 \/ k = L + 1
      BY <1>1, <2>2
    <3> QED BY <1>1, <1>2, <2>2, <3>1 DEF At
  <2> QED BY <2>1, <2>2
<1>4. FreeChain(t.next, t.prev, g)
  <2>1. ASSUME NEW k \in 0..L PROVE t.next[At(g, k)] = At(g, k + 1)
    <3>1. k # L + 1 /\ k + 1 \in 0..(L + 1) /\ k \in 0..(L + 1) /\ k \in 0..(n - 1)
          /\ (k = n - 1 <=> k + 1 = L + 1)
      BY <1>1
    <3>2. At(g, k) = k /\ At(g, k + 1) = IF k + 1 = L + 1 THEN 0 ELSE k + 1
      BY <1>3, <3>1
    <3> QED BY <3>1, <3>2
  <2>2. ASSUME NEW k \in 2..(L + 1) PROVE t.prev[At(g, k)] = At(g, k - 1)
    <3>1. k - 1 # L + 1 /\ k - 1 \in 0..(L + 1) /\ k \in 0..(L + 1)
      BY <1>1
    <3>2. At(g, k - 1) = k - 1
      BY <1>3, <3>1
    <3>3. CASE k = L + 1
      <4>1. At(g, k) = 0 /\ n # 1 /\ n - 1 = k - 1
        BY <1>1, <1>3, <3>1, <3>3
      <4> QED BY <3>2, <4>1
    <3>4. CASE k # L + 1
      <4>1. At(g, k) = k /\ k \in 2..(n - 1)
        BY <1>1, <1>3, <3>1, <3>4
      <4> QED BY <3>2, <4>1
    <3> QED BY <3>3, <3>4
  <2> QED BY <1>2, <2>1, <2>2 DEF FreeChain
<1>5. Owned(n, << >>, g, {})
  <2>1. Within(n, g) /\ Ascends(g) /\ \A j \in 1..(n - 1) : ~Misses(g, j)
    BY <1>1, <1>2 DEF Within, Ascends, Misses
  <2>2. Len(<< >>) = 0 /\ \A k \in 1..Len(<< >>) : FALSE
    OBVIOUS
  <2> QED BY <2>1, <2>2 DEF Owned, Within, Differ
<1>6. Forward(t.next, t.front, << >>) /\ Backward(t.prev, t.rear, << >>)
  <2>1. \A k : At(<< >>, k) = 0
    BY DEF At
  <2>2. \A k \in 1..Len(<< >>) : FALSE
    OBVIOUS
  <2> QED BY <2>1, <2>2 DEF Forward, Backward
<1>7. Len(g) = 0 => n = 1
  BY <1>1, <1>2
<1>8. Shape(t, n, << >>, g, {})
  <2>1. << >> \in Seq(Nat)
    OBVIOUS
  <2> QED BY <1>2, <1>4, <1>5, <1>6, <1>7, <2>1 DEF Shape
<1>9. << >> \in Seq(Values) /\ \A k \in 1..Len(<< >>) : FALSE
  OBVIOUS
<1> QED BY <1>8, <1>9 DEF Holds

\* createList makes such a list,
LEMMA CreateHolds ==
  ASSUME NEW n \in Nat, n >= 1
  PROVE  \E g : Holds(CreateList(n), n, << >>, g, << >>)
<1> PICK t : t = CreateList(n)
  OBVIOUS
<1>1. /\ t.size = n /\ t.front = 0 /\ t.rear = 0
      /\ t.value = [i \in 0..(n - 1) |-> 0]
      /\ t.next = [i \in 0..(n - 1) |-> IF i = n - 1 THEN 0 ELSE i + 1]
      /\ t.prev = [i \in 0..(n - 1) |->
               IF i = n - 1 THEN IF n = 1 THEN Wrapped ELSE n - 2
               ELSE IF i = 0 THEN n - 1 ELSE i - 1]
      /\ t = [size |-> t.size, front |-> t.front, rear |-> t.rear,
              value |-> t.value, next |-> t.next, prev |-> t.prev]
  BY DEF CreateList
<1>2. 0 \in 0..(n - 1) /\ (n # 1 => n - 2 \in 0..(n - 1)) /\ n - 1 \in 0..(n - 1)
  OBVIOUS
<1>3. \A i \in 0..(n - 1) : (i # n - 1 => i + 1 \in 0..(n - 1))
                            /\ (i # 0 => i - 1 \in 0..(n - 1))
  OBVIOUS
<1>4. t.value \in [0..(n - 1) -> Values \union {0}]
  BY <1>1
<1>5. t.next \in [0..(n - 1) -> 0..(n - 1)]
  BY <1>1, <1>2, <1>3
<1>6. t.prev \in [0..(n - 1) -> 0..(n - 1) \union {Wrapped}]
  BY <1>1, <1>2, <1>3
<1>7. t \in Lists(n)
  BY <1>1, <1>2, <1>4, <1>5, <1>6 DEF Lists
<1>8. \A j \in 2..(n - 1) : t.prev[j] = j - 1
  <2>1. \A j \in 2..(n - 1) : j \in 0..(n - 1) /\ j # 0 /\ n # 1
                              /\ (j = n - 1 => n - 2 = j - 1)
    OBVIOUS
  <2> QED BY <1>1, <2>1
<1>9. n # 1 => t.prev[0] = n - 1
  BY <1>1, <1>2
<1>10. t.value[0] = 0 /\ \A j \in 0..(n - 1) : t.next[j] = IF j = n - 1 THEN 0 ELSE j + 1
  BY <1>1, <1>2
<1> QED BY <1>1, <1>7, <1>8, <1>9, <1>10, EmptyHolds

\* and list_reset makes any list one.
LEMMA ResetKeeps ==
  ASSUME NEW s, NEW n, NEW c, NEW f, NEW x, Holds(s, n, c, f, x)
  PROVE  \E g : Holds(Emptied(s), n, << >>, g, << >>)
<1>1. n \in Nat /\ n >= 1 /\ s.size = n
  BY DEF Holds, Shape, Lists
<1>2. PICK g : Holds(CreateList(n), n, << >>, g, << >>)
  BY <1>1, CreateHolds
<1> PICK u : u = CreateList(n)
  OBVIOUS
<1> PICK t : t = Emptied(s)
  OBVIOUS
<1>3. t = [u EXCEPT !.prev[0] = n - 1]
  BY <1>1 DEF Emptied
<1>4. /\ u \in Lists(n) /\ u.value[0] = 0 /\ FreeChain(u.next, u.prev, g)
      /\ Forward(u.next, u.front, << >>) /\ Backward(u.prev, u.rear, << >>)
      /\ Owned(n, << >>, g, {}) /\ g \in Seq(Nat)
      /\ (Len(g) = 0 => n = 1 \/ u.prev[0] = 0)
  BY <1>2 DEF Holds, Shape
<1>5. u.prev = [i \in 0..(n - 1) |->
               IF i = n - 1 THEN IF n = 1 THEN Wrapped ELSE n - 2
               ELSE IF i = 0 THEN n - 1 ELSE i - 1]
  BY DEF CreateList
<1>6. n - 1 \in 0..(n - 1) /\ 0 \in 0..(n - 1)
  BY <1>1
<1>7. /\ t \in Lists(n) /\ t.next = u.next /\ t.value = u.value
      /\ t.front = u.front /\ t.rear = u.rear
      /\ t.prev = [u.prev EXCEPT ![0] = n - 1]
  <2>1. u.prev \in [0..(n - 1) -> 0..(n - 1) \union {Wrapped}]
    BY <1>4 DEF Lists
  <2>2. [u.prev EXCEPT ![0] = n - 1] \in [0..(n - 1) -> 0..(n - 1) \union {Wrapped}]
    BY <1>6, <2>1
  <2> PICK P : P = [u.prev EXCEPT ![0] = n - 1]
    OBVIOUS
  <2>3. t = [u EXCEPT !.prev = P]
    BY <1>3, <1>4 DEF Lists
  <2> QED BY <1>4, <2>2, <2>3 DEF Lists
<1>8. u.next = [i \in 0..(n - 1) |-> IF i = n - 1 THEN 0 ELSE i + 1]
      /\ u.front = 0 /\ u.rear = 0
  BY DEF CreateList
<1>9. \A j \in 2..(n - 1) : t.prev[j] = j - 1
  <2>1. \A j \in 2..(n - 1) : j \in 0..(n - 1) /\ j # 0 /\ n # 1
                              /\ (j = n - 1 => n - 2 = j - 1)
    BY <1>1
  <2> QED BY <1>5, <1>7, <2>1
<1>10. t.prev[0] = n - 1
  BY <1>5, <1>6, <1>7
<1>11. t.value[0] = 0 /\ \A j \in 0..(n - 1) : t.next[j] = IF j = n - 1 THEN 0 ELSE j + 1
  BY <1>4, <1>7, <1>8
<1>12. t.front = 0 /\ t.rear = 0
  BY <1>7, <1>8
<1> QED BY <1>1, <1>7, <1>9, <1>10, <1>11, <1>12, EmptyHolds

-----------------------------------------------------------------------------
(* The binary search *)

\* The rounds of the binary search.
Rounds(s, v, N, g) ==
  g = [n \in 0..N |-> IF n = 0 THEN [from |-> 0, to |-> s.rear]
                      ELSE Narrowed(s, v, g[n - 1])]

\* The function that Search is defined by exists.
LEMMA RoundsExist ==
  ASSUME NEW s, NEW v, NEW N \in Nat
  PROVE  \E g : Rounds(s, v, N, g)
<1> DEFINE G == {m \in Nat : \E g : Rounds(s, v, m, g)}
<1>1. 0 \in G
  <2> PICK g : g = [n \in 0..0 |-> [from |-> 0, to |-> s.rear]]
    OBVIOUS
  <2>1. \A n \in 0..0 : n = 0
    OBVIOUS
  <2>2. g = [n \in 0..0 |-> IF n = 0 THEN [from |-> 0, to |-> s.rear]
                      ELSE Narrowed(s, v, g[n - 1])]
    BY <2>1
  <2> QED BY <2>2 DEF Rounds
<1>2. \A m \in Nat : m \in G => m + 1 \in G
  <2> SUFFICES ASSUME NEW m \in Nat, NEW g, Rounds(s, v, m, g)
               PROVE  \E h : Rounds(s, v, m + 1, h)
    OBVIOUS
  <2> PICK h : h = [n \in 0..(m + 1) |-> IF n = m + 1 THEN Narrowed(s, v, g[m])
                                         ELSE g[n]]
    OBVIOUS
  <2>1. \A n \in 0..(m + 1) : n # m + 1 => n \in 0..m
    OBVIOUS
  <2>2. \A n \in 0..m : g[n] = IF n = 0 THEN [from |-> 0, to |-> s.rear]
                               ELSE Narrowed(s, v, g[n - 1])
    BY DEF Rounds
  <2>3. \A n \in 0..m : n \in 0..(m + 1) /\ n # m + 1
    OBVIOUS
  <2>4. \A n \in 0..m : h[n] = g[n]
    BY <2>3
  <2>5. \A n \in 0..(m + 1) : h[n] = IF n = 0 THEN [from |-> 0, to |-> s.rear]
                                     ELSE Narrowed(s, v, h[n - 1])
    <3> SUFFICES ASSUME NEW n \in 0..(m + 1)
                 PROVE  h[n] = IF n = 0 THEN [from |-> 0, to |-> s.rear]
                               ELSE Narrowed(s, v, h[n - 1])
      OBVIOUS
    <3>1. CASE n = m + 1
      <4>1. n - 1 = m /\ n # 0 /\ m \in 0..m
        BY <3>1
      <4>2. h[m] = g[m] /\ h[n] = Narrowed(s, v, g[m])
        BY <2>4, <3>1, <4>1
      <4> QED BY <4>1, <4>2
    <3>2. CASE n # m + 1
      <4>1. n \in 0..m /\ (n # 0 => n - 1 \in 0..m)
        BY <2>1, <3>2
      <4> QED BY <2>2, <2>4, <4>1
    <3> QED BY <3>1, <3>2
  <2>6. h = [n \in 0..(m + 1) |-> h[n]]
    OBVIOUS
  <2>7. Rounds(s, v, m + 1, h)
    BY <2>5, <2>6 DEF Rounds
  <2> QED BY <2>7
<1>3. Nat \subseteq G
  <2> HIDE DEF G
  <2> QED BY <1>1, <1>2, Induction
<1> QED BY <1>3

\* So a search is as many rounds as the list has cells.
LEMMA SearchUnfolds ==
  ASSUME NEW s, NEW v, s.size \in Nat
  PROVE  \E g : /\ g[0] = [from |-> 0, to |-> s.rear]
                /\ \A n \in 1..s.size : g[n] = Narrowed(s, v, g[n - 1])
                /\ Search(s, v) =
                     [found |-> IF g[s.size].from > g[s.size].to THEN 0
                                ELSE Middle(g[s.size]),
                      from |-> g[s.size].from]
<1> DEFINE g == CHOOSE g : Rounds(s, v, s.size, g)
<1>1. Rounds(s, v, s.size, g)
  BY RoundsExist
<1>2. Search(s, v) =
                     [found |-> IF g[s.size].from > g[s.size].to THEN 0
                                ELSE Middle(g[s.size]),
                      from |-> g[s.size].from]
  BY DEF Search, Rounds
<1> HIDE DEF g
<1>3. \A n \in 0..s.size : g[n] = IF n = 0 THEN [from |-> 0, to |-> s.rear]
                                  ELSE Narrowed(s, v, g[n - 1])
  BY <1>1 DEF Rounds
<1>4. g[0] = [from |-> 0, to |-> s.rear]
  <2>1. 0 \in 0..s.size
    OBVIOUS
  <2> QED BY <1>3, <2>1
<1>5. \A n \in 1..s.size : g[n] = Narrowed(s, v, g[n - 1])
  <2>1. \A n \in 1..s.size : n \in 0..s.size /\ n # 0
    OBVIOUS
  <2> QED BY <1>3, <2>1
<1> QED BY <1>2, <1>4, <1>5

\* The cells 0 to L hold ascending values, the first of them below v.
Rising(value, L, v) ==
  /\ L \in Nat /\ v \in Nat /\ value[0] < v
  /\ \A j \in 0..L : value[j] \in Nat
  /\ \A i, j \in 0..L : i < j => value[i] < value[j]

\* After m rounds v is in the range, if anywhere, and the range is shorter
\* by m or the search over.
Ranged(value, L, v, q, m) ==
  /\ q \in [from : Nat, to : Nat] /\ q.from <= q.to + 1 /\ q.to <= L
  /\ \A j \in 0..L : (j < q.from => value[j] < v) /\ (j > q.to => v < value[j])
  /\ q.from > q.to \/ value[Middle(q)] = v \/ (q.to - q.from) + m <= L

\* The middle of a range lies in it.
LEMMA MiddleIs ==
  ASSUME NEW q \in [from : Nat, to : Nat], q.from <= q.to
  PROVE  Middle(q) \in Nat /\ q.from <= Middle(q) /\ Middle(q) <= q.to
<1> PICK a : a = q.from
  OBVIOUS
<1> PICK b : b = q.to
  OBVIOUS
<1>1. a \in Nat /\ b \in Nat /\ a <= b
  OBVIOUS
<1>2. (b - a) \div 2 \in Nat /\ (b - a) \div 2 <= b - a
  BY <1>1
<1>3. Middle(q) = a + (b - a) \div 2
  BY DEF Middle
<1> PICK h : h = (b - a) \div 2
  OBVIOUS
<1> QED BY <1>1, <1>2, <1>3

\* Each round keeps this.
LEMMA RoundKeeps ==
  ASSUME NEW s, NEW L, NEW v, Rising(s.value, L, v), NEW m \in Nat,
         NEW q, Ranged(s.value, L, v, q, m)
  PROVE  Ranged(s.value, L, v, Narrowed(s, v, q), m + 1)
<1>1. /\ q \in [from : Nat, to : Nat] /\ q.from <= q.to + 1 /\ q.to <= L
      /\ \A j \in 0..L : (j < q.from => s.value[j] < v) /\ (j > q.to => v < s.value[j])
      /\ q.from > q.to \/ s.value[Middle(q)] = v \/ (q.to - q.from) + m <= L
  BY DEF Ranged
<1>2. /\ L \in Nat /\ v \in Nat /\ s.value[0] < v
      /\ \A j \in 0..L : s.value[j] \in Nat
      /\ \A i, j \in 0..L : i < j => s.value[i] < s.value[j]
  BY DEF Rising
<1> PICK p : p = Middle(q)
  OBVIOUS
<1> PICK a : a = q.from
  OBVIOUS
<1> PICK b : b = q.to
  OBVIOUS
<1>3. a \in Nat /\ b \in Nat /\ q = [from |-> a, to |-> b]
  BY <1>1
<1>4. CASE a > b \/ s.value[p] = v
  <2>1. Narrowed(s, v, q) = q
    BY <1>4 DEF Narrowed
  <2> QED BY <1>1, <1>4, <2>1 DEF Ranged
<1>5. CASE ~(a > b) /\ s.value[p] # v
  <2>1. p \in Nat /\ a <= p /\ p <= b /\ p \in 0..L
    <3>1. q.from <= q.to
      BY <1>3, <1>5
    <3>2. p \in Nat /\ a <= p /\ p <= b
      BY <1>1, <3>1, MiddleIs
    <3> QED BY <1>1, <1>2, <1>3, <3>2
  <2>2. (b - a) + m <= L
    BY <1>1, <1>5
  <2>3. CASE s.value[p] < v
    <3> PICK r : r = [from |-> p + 1, to |-> b]
      OBVIOUS
    <3>1. Narrowed(s, v, q) = r
      BY <1>2, <1>3, <1>5, <2>1, <2>3 DEF Narrowed
    <3>2. r \in [from : Nat, to : Nat] /\ r.from = p + 1 /\ r.to = b
      BY <1>3, <2>1
    <3>3. ASSUME NEW j \in 0..L, j < p + 1 PROVE s.value[j] < v
      <4>1. j = p \/ j < p
        BY <2>1, <3>3
      <4>2. s.value[j] \in Nat /\ s.value[p] \in Nat
        BY <1>2, <2>1
      <4>3. j < p => s.value[j] < s.value[p]
        BY <1>2, <2>1
      <4> QED BY <1>2, <2>3, <4>1, <4>2, <4>3
    <3>4. p + 1 <= b + 1 /\ (b - (p + 1)) + (m + 1) <= L
      BY <1>2, <1>3, <2>1, <2>2
    <3>5. \A j \in 0..L : j > b => v < s.value[j]
      BY <1>1
    <3>6. b <= L
      BY <1>1
    <3>7. Ranged(s.value, L, v, r, m + 1)
      BY <3>2, <3>3, <3>4, <3>5, <3>6 DEF Ranged
    <3> QED BY <3>1, <3>7
  <2>4. CASE v < s.value[p]
    <3> PICK r : r = [from |-> a, to |-> p - 1]
      OBVIOUS
    <3>0. p # 0
      BY <1>2, <2>4
    <3>1. Narrowed(s, v, q) = r
      <4>1. ~(v > s.value[p])
        BY <1>2, <2>1, <2>4
      <4> QED BY <1>3, <1>5, <4>1 DEF Narrowed
    <3>2. r \in [from : Nat, to : Nat] /\ r.from = a /\ r.to = p - 1
      BY <1>3, <2>1, <3>0
    <3>3. ASSUME NEW j \in 0..L, j > p - 1 PROVE v < s.value[j]
      <4>1. j = p \/ p < j
        BY <2>1, <3>3
      <4>2. s.value[j] \in Nat /\ s.value[p] \in Nat
        BY <1>2, <2>1
      <4>3. p < j => s.value[p] < s.value[j]
        BY <1>2, <2>1
      <4> QED BY <1>2, <2>4, <4>1, <4>2, <4>3
    <3>4. a <= (p - 1) + 1 /\ ((p - 1) - a) + (m + 1) <= L /\ p - 1 <= L
      BY <1>2, <1>3, <2>1, <2>2
    <3>5. \A j \in 0..L : j < a => s.value[j] < v
      BY <1>1
    <3>7. Ranged(s.value, L, v, r, m + 1)
      BY <3>2, <3>3, <3>4, <3>5 DEF Ranged
    <3> QED BY <3>1, <3>7
  <2>5. s.value[p] < v \/ v < s.value[p]
    <3>1. s.value[p] \in Nat
      BY <1>2, <2>1
    <3> QED BY <1>2, <1>5, <3>1
  <2> QED BY <2>3, <2>4, <2>5
<1> QED BY <1>4, <1>5

\* What the search finds, or where the value belongs.
Sought(value, L, v, r) ==
  /\ r.found # 0 => \E j \in 1..L : value[j] = v
  /\ r.found = 0 => /\ r.from \in 1..(L + 1)
                    /\ \A j \in 1..L : /\ j < r.from => value[j] < v
                                       /\ j >= r.from => v < value[j]

\* After as many rounds as there are cells the search is over.
LEMMA SearchIs ==
  ASSUME NEW s, NEW v, NEW L, Rising(s.value, L, v), s.size \in Nat,
         s.rear = L, L < s.size
  PROVE  Sought(s.value, L, v, Search(s, v))
<1>1. PICK g :
                /\ g[0] = [from |-> 0, to |-> s.rear]
                /\ \A i \in 1..s.size : g[i] = Narrowed(s, v, g[i - 1])
                /\ Search(s, v) =
                     [found |-> IF g[s.size].from > g[s.size].to THEN 0
                                ELSE Middle(g[s.size]),
                      from |-> g[s.size].from]
  BY SearchUnfolds
<1>1a. Search(s, v) = [found |-> IF g[s.size].from > g[s.size].to THEN 0
                                ELSE Middle(g[s.size]),
                      from |-> g[s.size].from]
  BY <1>1
<1> PICK n : n = s.size
  OBVIOUS
<1>1b. Search(s, v) = [found |-> IF g[n].from > g[n].to THEN 0 ELSE Middle(g[n]),
                       from |-> g[n].from]
  BY <1>1a
<1>2. /\ L \in Nat /\ v \in Nat /\ s.value[0] < v
      /\ \A j \in 0..L : s.value[j] \in Nat
  BY DEF Rising
<1> DEFINE J(m) == Ranged(s.value, L, v, g[m], m)
           G == {m \in Nat : m <= n => J(m)}
<1>3. J(0)
  <2>1. g[0] \in [from : Nat, to : Nat] /\ g[0].from = 0 /\ g[0].to = L
    BY <1>1, <1>2
  <2>2. \A j \in 0..L : ~(j < 0) /\ ~(j > L)
    BY <1>2
  <2>3. 0 <= L + 1 /\ L <= L /\ (L - 0) + 0 <= L
    BY <1>2
  <2> QED BY <2>1, <2>2, <2>3 DEF Ranged
<1>4. ASSUME NEW m \in Nat, J(m), m + 1 <= n PROVE J(m + 1)
  <2>1. m + 1 \in 1..s.size /\ (m + 1) - 1 = m
    BY <1>4
  <2>2. g[m + 1] = Narrowed(s, v, g[m])
    BY <1>1, <2>1
  <2>3. Ranged(s.value, L, v, Narrowed(s, v, g[m]), m + 1)
    BY <1>4, RoundKeeps
  <2> QED BY <2>2, <2>3
<1> HIDE DEF J
<1>5. n \in G
  <2>1. 0 \in G
    BY <1>3
  <2>2. \A m \in Nat : m \in G => m + 1 \in G
    <3> SUFFICES ASSUME NEW m \in Nat, m \in G, m + 1 <= n PROVE J(m + 1)
      OBVIOUS
    <3>1. m <= n
      BY <1>2
    <3> QED BY <1>4, <3>1
  <2>3. Nat \subseteq G
    <3> HIDE DEF G
    <3> QED BY <2>1, <2>2, Induction
  <2> QED BY <2>3
<1>6. J(n)
  BY <1>5
<1> PICK q : q = g[n]
  OBVIOUS
<1>7. /\ q \in [from : Nat, to : Nat] /\ q.from <= q.to + 1 /\ q.to <= L
      /\ \A j \in 0..L : (j < q.from => s.value[j] < v) /\ (j > q.to => v < s.value[j])
      /\ q.from > q.to \/ s.value[Middle(q)] = v \/ (q.to - q.from) + n <= L
  BY <1>6 DEF J, Ranged
<1>8. q.from \in Nat /\ q.to \in Nat
  BY <1>7
<1> PICK r : r = Search(s, v)
  OBVIOUS
<1>9. r.found = (IF q.from > q.to THEN 0 ELSE Middle(q)) /\ r.from = q.from
  <2>1. r = [found |-> IF q.from > q.to THEN 0 ELSE Middle(q), from |-> q.from]
    BY <1>1b
  <2> QED BY <2>1
<1>10. CASE q.from > q.to
  <2>1. r.found = 0 /\ r.from \in 1..(L + 1)
    BY <1>2, <1>7, <1>8, <1>9, <1>10
  <2>2. ASSUME NEW j \in 1..L
        PROVE  (j < r.from => s.value[j] < v) /\ (j >= r.from => v < s.value[j])
    <3>1. j \in 0..L /\ (j >= q.from => j > q.to)
      BY <1>2, <1>8, <1>10
    <3> QED BY <1>7, <1>9, <3>1
  <2> QED BY <2>1, <2>2 DEF Sought
<1>11. CASE ~(q.from > q.to)
  <2>1. q.from <= q.to
    BY <1>8, <1>11
  <2> PICK p : p = Middle(q)
    OBVIOUS
  <2>2. p \in Nat /\ p <= q.to
    BY <1>7, <2>1, MiddleIs
  <2>3. s.value[p] = v
    BY <1>2, <1>7, <1>8, <2>1
  <2>4. p # 0
    BY <1>2, <2>3
  <2>5. p \in 1..L /\ r.found = p
    BY <1>2, <1>7, <1>8, <1>9, <1>11, <2>2, <2>4
  <2> QED BY <2>3, <2>4, <2>5 DEF Sought
<1> QED BY <1>10, <1>11

-----------------------------------------------------------------------------
(* Room for one more item *)

\* list_insert unchains the first free cell like this.
SecondFirst(s, r) ==
  LET t == [s EXCEPT !.prev[r + 2] = 0]
  IN  [t EXCEPT !.next[0] = t.next[t.next[0]]]

\* What list_insert names rear + 2 is the second free cell: the first one
\* leaves the chain as in list_push.
LEMMA SecondIs ==
  ASSUME NEW s, NEW n, NEW c, NEW f, Shape(s, n, c, f, {}), IsArray(c),
         Len(f) >= 2
  PROVE  /\ SecondFirst(s, Len(c)) = FirstLeft(s, f, 0)
         /\ f[1] = Len(c) + 1 /\ Len(c) + 2 < n
         /\ FirstLeft(s, f, 0).value = s.value
<1>0. /\ n \in Nat /\ n >= 1 /\ s \in Lists(n) /\ f \in Seq(Nat)
      /\ Within(n, f) /\ FreeChain(s.next, s.prev, f)
  BY DEF Shape, Owned
<1>1. Len(f) \in Nat
  BY <1>0, LenProperties
<1>5. /\ 1 \in 1..Len(f) /\ 2 \in 1..Len(f) /\ Len(f) # 1 /\ Len(f) >= 1
      /\ 0 \in 0..Len(f) /\ 1 \in 0..Len(f) /\ 0 + 1 = 1 /\ 1 + 1 = 2
  <2> PICK L : L = Len(f)
    OBVIOUS
  <2>1. L \in Nat /\ L >= 2
    BY <1>1
  <2> QED BY <2>1
<1>2. f[1] = Len(c) + 1 /\ f[2] = Len(c) + 2
  <2>1. Len(f) >= 1
    BY <1>1
  <2> QED BY <2>1, FirstFree
<1> PICK r : r = Len(c)
  OBVIOUS
<1>3. /\ \A k \in 1..Len(f) : At(f, k) = f[k] /\ At(f, k) \in 1..(n - 1)
      /\ At(f, 0) = 0
  BY <1>0, AtIs
<1>4. s.next[At(f, 0)] = At(f, 1) /\ s.next[At(f, 1)] = At(f, 2)
  BY <1>0, <1>5 DEF FreeChain
<1>6. s.next[0] = r + 1 /\ s.next[r + 1] = r + 2 /\ At(f, 2) = r + 2
      /\ r + 2 \in 1..(n - 1)
  BY <1>2, <1>3, <1>4, <1>5
<1> PICK N : N = [s.next EXCEPT ![0] = r + 2]
  OBVIOUS
<1> PICK P : P = [s.prev EXCEPT ![r + 2] = 0]
  OBVIOUS
<1>7. FirstLeft(s, f, 0) = [s EXCEPT !.next = N, !.prev = P]
  BY <1>5, <1>6 DEF FirstLeft
<1>8. SecondFirst(s, r) = [s EXCEPT !.next = N, !.prev = P]
  <2> PICK t : t = [s EXCEPT !.prev[r + 2] = 0]
    OBVIOUS
  <2>1. t.next = s.next
    BY <1>0 DEF Lists
  <2>2. SecondFirst(s, r) = [t EXCEPT !.next[0] = t.next[t.next[0]]]
    BY DEF SecondFirst
  <2>3. SecondFirst(s, r) = [t EXCEPT !.next[0] = r + 2]
    BY <1>6, <2>1, <2>2
  <2> QED BY <1>0, <2>3 DEF Lists
<1>9. [s EXCEPT !.next = N, !.prev = P].value = s.value
  BY <1>0 DEF Lists
<1>10. r + 2 < n
  <2>1. \A j \in 1..(n - 1) : j < n
    BY <1>0
  <2> QED BY <1>6, <2>1
<1> QED BY <1>2, <1>7, <1>8, <1>9, <1>10

\* A loose cell after the items of an array, to move them into.
Loosened(s, t, n, c) ==
  \E m, g : /\ Shape(t, m, c, g, {Len(c) + 1})
            /\ \A j \in 0..(n - 1) : t.value[j] = s.value[j]

\* So the first free cell, which follows the items, is loose.
LEMMA SecondLeaves ==
  ASSUME NEW s, NEW n, NEW c, NEW f, Shape(s, n, c, f, {}), IsArray(c),
         Len(f) >= 2
  PROVE  Loosened(s, SecondFirst(s, Len(c)), n, c)
<1>1. /\ SecondFirst(s, Len(c)) = FirstLeft(s, f, 0)
      /\ f[1] = Len(c) + 1 /\ Len(c) + 2 < n
      /\ FirstLeft(s, f, 0).value = s.value
  BY SecondIs
<1>2. n \in Nat /\ n >= 1 /\ Len(f) >= 1
  <2>1. n \in Nat /\ n >= 1 /\ f \in Seq(Nat)
    BY DEF Shape
  <2>2. Len(f) \in Nat
    BY <2>1, LenProperties
  <2> QED BY <2>1, <2>2
<1>3. 0 \in 0..(n - 1) \union {Wrapped}
  BY <1>2
<1>4. Shape(FirstLeft(s, f, 0), n, c, Tail(f), {f[1]})
  BY <1>2, <1>3, FirstLeaves
<1> QED BY <1>1, <1>4 DEF Loosened

\* The sizes of an array.
LEMMA ArraySizes ==
  ASSUME NEW s, NEW n, NEW c, NEW f, Shape(s, n, c, f, {}), IsArray(c)
  PROVE  /\ s.size = n /\ s.rear = Len(c) /\ Len(c) \in Nat /\ Len(f) \in Nat
         /\ n \in Nat /\ n >= 1
         /\ Len(f) = 0 => Len(c) = n - 1
         /\ Len(f) = 1 => Len(c) + 1 = n - 1
<1>0. /\ n \in Nat /\ n >= 1 /\ s \in Lists(n) /\ f \in Seq(Nat) /\ c \in Seq(Nat)
      /\ Within(n, f) /\ Within(n, c) /\ Differ(c)
      /\ \A j \in 1..(n - 1) : ~Misses(c, j) \/ ~Misses(f, j)
      /\ Backward(s.prev, s.rear, c)
  BY DEF Shape, Owned
<1>1. Len(f) \in Nat /\ Len(c) \in Nat
  BY <1>0, LenProperties
<1>2. s.size = n
  BY <1>0 DEF Lists
<1>3. s.rear = Len(c)
  <2>1. s.rear = At(c, Len(c))
    BY <1>0 DEF Backward
  <2>2. Len(c) \in 1..Len(c) \/ Len(c) = 0
    BY <1>1
  <2> QED BY <2>1, <2>2 DEF At, IsArray
<1>4. Len(c) <= n - 1
  BY <1>0, Pigeons
<1>5. \A j \in 1..(n - 1) : j > Len(c) => ~Misses(f, j)
  <2> SUFFICES ASSUME NEW j \in 1..(n - 1), j > Len(c) PROVE ~Misses(f, j)
    OBVIOUS
  <2>1. \A k \in 1..Len(c) : k # j
    BY <1>1
  <2>2. Misses(c, j)
    BY <2>1 DEF Misses, IsArray
  <2> QED BY <1>0, <2>2
<1>6. Len(f) = 0 => Len(c) = n - 1
  <2> SUFFICES ASSUME Len(f) = 0, Len(c) # n - 1 PROVE FALSE
    OBVIOUS
  <2>1. n - 1 \in 1..(n - 1) /\ n - 1 > Len(c)
    BY <1>0, <1>1, <1>4
  <2>2. \A k \in 1..Len(f) : FALSE
    OBVIOUS
  <2> QED BY <1>5, <2>1, <2>2 DEF Misses
<1>7. Len(f) = 1 => Len(c) + 1 = n - 1
  <2> SUFFICES ASSUME Len(f) = 1 PROVE Len(c) + 1 = n - 1
    OBVIOUS
  <2>1. f[1] = Len(c) + 1 /\ f[1] \in 1..(n - 1)
    <3>1. 1 \in 1..Len(f) /\ Len(f) >= 1
      OBVIOUS
    <3> QED BY <1>0, <3>1, FirstFree DEF Within
  <2>2. n - 1 > Len(c) /\ n - 1 \in 1..(n - 1)
    BY <1>0, <1>1, <2>1
  <2>3. PICK k \in 1..Len(f) : f[k] = n - 1
    BY <1>5, <2>2 DEF Misses
  <2>4. k = 1
    OBVIOUS
  <2> QED BY <2>1, <2>3, <2>4
<1> QED BY <1>0, <1>1, <1>2, <1>3, <1>6, <1>7

\* list_insert makes room in three ways: it takes the only free cell, takes
\* the first of several, or grows the list first.
LEMMA RoomIs ==
  ASSUME NEW s, NEW r \in Nat, NEW n \in Nat, s.rear = r, s.size = n
  PROVE  /\ r + 1 = n - 1 => Room(s) = SetFirstLastFree(s, 0, 0)
         /\ r + 1 < n - 1 => Room(s) = SecondFirst(s, r)
         /\ r = n - 1 /\ r + 2 < PoolReallocate(s).size
              => Room(s) = SecondFirst(PoolReallocate(s), r)
<1>1. ASSUME r + 1 = n - 1 PROVE Room(s) = SetFirstLastFree(s, 0, 0)
  BY <1>1 DEF Room
<1>2. ASSUME r + 1 < n - 1 PROVE Room(s) = SecondFirst(s, r)
  <2>1. ~(r + 1 > n - 1) /\ r + 2 < n /\ r + 1 # n - 1
    BY <1>2
  <2> QED BY <2>1 DEF Room, SecondFirst
<1>3. ASSUME r = n - 1, r + 2 < PoolReallocate(s).size
      PROVE  Room(s) = SecondFirst(PoolReallocate(s), r)
  <2>1. r + 1 > n - 1 /\ r + 1 # n - 1
    BY <1>3
  <2> PICK P : P = PoolReallocate(s)
    OBVIOUS
  <2>2. Room(s) = LET t == IF r + 2 < P.size THEN [P EXCEPT !.prev[r + 2] = 0]
                           ELSE P
                  IN  [t EXCEPT !.next[0] = t.next[t.next[0]]]
    BY <2>1 DEF Room
  <2> QED BY <1>3, <2>2 DEF SecondFirst
<1> QED BY <1>1, <1>2, <1>3

\* The room for one more item is a loose cell after the others.
LEMMA RoomKeeps ==
  ASSUME ListAssumption, NEW s, NEW n, NEW c, NEW f, Shape(s, n, c, f, {}),
         IsArray(c), Len(c) <= MaxItems
  PROVE  Loosened(s, Room(s), n, c)
<1>1. /\ s.size = n /\ s.rear = Len(c) /\ Len(c) \in Nat /\ Len(f) \in Nat
      /\ n \in Nat /\ n >= 1
      /\ Len(f) = 0 => Len(c) = n - 1
      /\ Len(f) = 1 => Len(c) + 1 = n - 1
  BY ArraySizes
<1>2. /\ Len(c) + 1 = n - 1 => Room(s) = SetFirstLastFree(s, 0, 0)
      /\ Len(c) + 1 < n - 1 => Room(s) = SecondFirst(s, Len(c))
      /\ Len(c) = n - 1 /\ Len(c) + 2 < PoolReallocate(s).size
           => Room(s) = SecondFirst(PoolReallocate(s), Len(c))
  BY <1>1, RoomIs
<1>3. CASE Len(f) = 0
  <2>1. /\ n - 1 = Len(c)
        /\ PoolReallocate(s).size >= n + 2
        /\ \E g : /\ Shape(PoolReallocate(s), PoolReallocate(s).size, c, g, {})
                  /\ Len(g) >= 2
        /\ \A j \in 0..(n - 1) : PoolReallocate(s).value[j] = s.value[j]
    BY <1>3, ReallocateKeeps
  <2> PICK P : P = PoolReallocate(s)
    OBVIOUS
  <2>2. PICK g : Shape(P, P.size, c, g, {}) /\ Len(g) >= 2
    BY <2>1
  <2>3. Loosened(P, SecondFirst(P, Len(c)), P.size, c)
    BY <2>2, SecondLeaves
  <2>4. P.size \in Nat
    BY <2>2 DEF Shape
  <2>5. Room(s) = SecondFirst(P, Len(c))
    <3> PICK r : r = Len(c)
      OBVIOUS
    <3> PICK m : m = P.size
      OBVIOUS
    <3>1. r = n - 1 /\ m >= n + 2 /\ m \in Nat
      BY <2>1, <2>4
    <3>2. r + 2 < m
      BY <1>1, <3>1
    <3> QED BY <1>2, <3>1, <3>2
  <2>6. \A j \in 0..(n - 1) : j \in 0..(P.size - 1) /\ P.value[j] = s.value[j]
    <3> PICK m : m = P.size
      OBVIOUS
    <3>1. m >= n + 2 /\ m \in Nat
      BY <2>1, <2>4
    <3>2. \A j \in 0..(n - 1) : j \in 0..(m - 1)
      BY <1>1, <3>1
    <3> QED BY <2>1, <3>2
  <2> QED BY <2>3, <2>5, <2>6 DEF Loosened
<1>4. CASE Len(f) = 1
  <2>0. s \in Lists(n) /\ s.value[0] = 0 /\ 1 \in 1..Len(f) /\ Len(f) >= 1
        /\ ~(2 \in 1..Len(f))
    BY <1>4 DEF Shape
  <2>1. Room(s) = SetFirstLastFree(s, 0, 0)
    BY <1>1, <1>2, <1>4
  <2>2. [s.value EXCEPT ![0] = 0] = s.value
    <3>1. s.value \in [0..(n - 1) -> Values \union {0}]
      BY <2>0 DEF Lists
    <3> QED BY <2>0, <3>1
  <2>3. SetFirstLastFree(s, 0, 0) = FirstLeft(s, f, 0)
    <3>1. At(f, 2) = 0
      BY <2>0 DEF At
    <3>2. FirstLeft(s, f, 0) = [s EXCEPT !.next[0] = 0, !.prev[0] = 0]
      BY <1>4, <2>0, <3>1 DEF FirstLeft, Lists
    <3>3. SetFirstLastFree(s, 0, 0) = [s EXCEPT !.value = s.value, !.next[0] = 0, !.prev[0] = 0]
      BY <2>0, <2>2 DEF SetFirstLastFree, Lists
    <3> QED BY ZenonT(30), <2>0, <3>2, <3>3 DEF Lists
  <2>4. Shape(FirstLeft(s, f, 0), n, c, Tail(f), {f[1]})
    <3>1. 0 \in 0..(n - 1) \union {Wrapped}
      BY <1>1
    <3> QED BY <2>0, <3>1, FirstLeaves
  <2>5. f[1] = Len(c) + 1
    BY <2>0, FirstFree
  <2>6. FirstLeft(s, f, 0).value = s.value
    BY <2>0 DEF FirstLeft, Lists
  <2> QED BY <2>1, <2>3, <2>4, <2>5, <2>6 DEF Loosened
<1>5. CASE Len(f) >= 2
  <2>1. Len(c) + 2 < n
    BY <1>5, SecondIs
  <2>2. Room(s) = SecondFirst(s, Len(c))
    <3> PICK r : r = Len(c)
      OBVIOUS
    <3>1. r + 1 < n - 1
      BY <1>1, <2>1
    <3> QED BY <1>2, <3>1
  <2> QED BY <1>5, <2>2, SecondLeaves
<1>6. Len(f) = 0 \/ Len(f) = 1 \/ Len(f) >= 2
  <2> PICK L : L = Len(f)
    OBVIOUS
  <2>1. L \in Nat
    BY <1>1
  <2> QED BY <2>1
<1> QED BY <1>3, <1>4, <1>5, <1>6

-----------------------------------------------------------------------------
(* Moving the items up *)

\* The cells of s are those of t, except that from cell p on up to L + 1
\* there is an item more.
Shoved(s, t, n, L, p, v) ==
  /\ t \in Lists(n) /\ t.front = s.front /\ t.rear = L + 1
  /\ \A j \in 0..(n - 1) : t.value[j] =
       IF j = p THEN v ELSE IF j \in (p + 1)..(L + 1) THEN s.value[j - 1]
       ELSE s.value[j]
  /\ \A j \in 0..(n - 1) : t.next[j] =
       IF j = L + 1 THEN 0 ELSE IF j \in p..L THEN j + 1 ELSE s.next[j]
  /\ \A j \in 0..(n - 1) : t.prev[j] =
       IF j \in p..(L + 1) THEN j - 1 ELSE s.prev[j]

\* The loop of list_insert moves the items from p on.
LEMMA ShoveIs ==
  ASSUME NEW n \in Nat, NEW s \in Lists(n), NEW L \in Nat, s.rear = L,
         s.front = 1, 
         L + 1 < n, NEW p \in 1..L, NEW v \in Values
  PROVE  Shoved(s, Shove(s, p, v), n, L, p, v)
<1>1. /\ s.value \in [0..(n - 1) -> Values \union {0}]
      /\ s.next \in [0..(n - 1) -> 0..(n - 1)]
      /\ s.prev \in [0..(n - 1) -> 0..(n - 1) \union {Wrapped}]
      /\ s.size = n
  BY DEF Lists
<1> PICK V : V = [i \in 0..(n - 1) |->
                    IF i = p THEN v ELSE IF i \in (p + 1)..(L + 1) THEN s.value[i - 1]
                    ELSE s.value[i]]
  OBVIOUS
<1> PICK N : N = [i \in 0..(n - 1) |->
                    IF i = L + 1 THEN 0
                    ELSE IF i = p \/ i \in (p + 1)..(L + 1) THEN i + 1 ELSE s.next[i]]
  OBVIOUS
<1> PICK P : P = [i \in 0..(n - 1) |->
                    IF i = p THEN IF p = s.front THEN 0 ELSE p - 1
                    ELSE IF i \in (p + 1)..(L + 1) THEN i - 1 ELSE s.prev[i]]
  OBVIOUS
<1>2. Shove(s, p, v) = [s EXCEPT !.value = V, !.next = N, !.prev = P, !.rear = L + 1]
  <2>1. DOMAIN s.value = 0..(n - 1) /\ DOMAIN s.next = 0..(n - 1)
        /\ DOMAIN s.prev = 0..(n - 1)
    BY <1>1
  <2> QED BY <2>1 DEF Shove
<1>3. V \in [0..(n - 1) -> Values \union {0}]
  <2>1. \A i \in (p + 1)..(L + 1) : i - 1 \in 0..(n - 1)
    OBVIOUS
  <2> QED BY <1>1, <2>1
<1>4. N \in [0..(n - 1) -> 0..(n - 1)]
  <2>1. \A i \in 0..(n - 1) : i # L + 1 /\ (i = p \/ i \in (p + 1)..(L + 1))
                              => i + 1 \in 0..(n - 1)
    OBVIOUS
  <2>2. 0 \in 0..(n - 1)
    OBVIOUS
  <2> QED BY <1>1, <2>1, <2>2
<1>5. P \in [0..(n - 1) -> 0..(n - 1) \union {Wrapped}]
  <2>1. \A i \in (p + 1)..(L + 1) : i - 1 \in 0..(n - 1)
    OBVIOUS
  <2>2. 0 \in 0..(n - 1) /\ p - 1 \in 0..(n - 1)
    OBVIOUS
  <2> QED BY <1>1, <2>1, <2>2
<1>6. /\ Shove(s, p, v).front = s.front /\ Shove(s, p, v).rear = L + 1
      /\ Shove(s, p, v).value = V /\ Shove(s, p, v).next = N
      /\ Shove(s, p, v).prev = P /\ Shove(s, p, v) \in Lists(n)
  <2>1. L + 1 \in 0..(n - 1)
    OBVIOUS
  <2> QED BY <1>2, <1>3, <1>4, <1>5, <2>1 DEF Lists
<1>7. ASSUME NEW j \in 0..(n - 1)
      PROVE  N[j] = IF j = L + 1 THEN 0 ELSE IF j \in p..L THEN j + 1 ELSE s.next[j]
  <2>1. j # L + 1 => (j = p \/ j \in (p + 1)..(L + 1) <=> j \in p..L)
    OBVIOUS
  <2> QED BY <2>1
<1>8. ASSUME NEW j \in 0..(n - 1)
      PROVE  P[j] = IF j \in p..(L + 1) THEN j - 1 ELSE s.prev[j]
  <2>1. j \in p..(L + 1) <=> j = p \/ j \in (p + 1)..(L + 1)
    OBVIOUS
  <2>2. p = s.front => p - 1 = 0
    OBVIOUS
  <2> QED BY <2>1, <2>2
<1> QED BY <1>6, <1>7, <1>8 DEF Shoved

\* The loose cell becomes the last of the array, whose items from p on have
\* moved into the next cell.
LEMMA ShoveKeeps ==
  ASSUME NEW s, NEW n, NEW c, NEW f, Shape(s, n, c, f, {Len(c) + 1}),
         IsArray(c), 
         NEW p \in 1..Len(c), NEW v \in Values
  PROVE  /\ Shape(Shove(s, p, v), n, Append(c, Len(c) + 1), f, {})
         /\ IsArray(Append(c, Len(c) + 1)) /\ Len(Append(c, Len(c) + 1)) = Len(c) + 1
         /\ Shoved(s, Shove(s, p, v), n, Len(c), p, v)
<1>0. /\ n \in Nat /\ n >= 1 /\ s \in Lists(n) /\ f \in Seq(Nat) /\ c \in Seq(Nat)
      /\ Within(n, f) /\ Within(n, c) /\ Differ(c) /\ Ascends(f)
      /\ \A j \in 1..(n - 1) : j = Len(c) + 1 \/ ~Misses(c, j) \/ ~Misses(f, j)
      /\ \A k \in 1..Len(c) : Misses(f, c[k])
      /\ Len(c) + 1 \in 1..(n - 1) /\ Misses(f, Len(c) + 1)
      /\ Forward(s.next, s.front, c) /\ Backward(s.prev, s.rear, c)
      /\ FreeChain(s.next, s.prev, f)
      /\ Len(f) = 0 => n = 1 \/ s.prev[0] = 0
      /\ s.value[0] = 0
  BY DEF Shape, Owned
<1> PICK L : L = Len(c)
  OBVIOUS
<1> PICK d : d = Append(c, L + 1)
  OBVIOUS
<1>1. n \in Nat /\ L \in Nat /\ L >= 1 /\ L + 1 < n /\ L + 1 \in 1..(n - 1) /\ p \in 1..L
  <2>1. L \in Nat
    BY <1>0, LenProperties
  <2> QED BY <1>0, <2>1
<1>2. d \in Seq(Nat) /\ Len(d) = L + 1 /\ \A k \in 1..(L + 1) : d[k] = k
  <2>1. L + 1 \in Nat
    BY <1>1
  <2>2. /\ d \in Seq(Nat) /\ Len(d) = L + 1 /\ d[L + 1] = L + 1
        /\ \A k \in 1..L : d[k] = c[k]
    BY <1>0, <2>1, AppendProperties
  <2>3. \A k \in 1..(L + 1) : k \in 1..L \/ k = L + 1
    BY <1>1
  <2> QED BY <2>2, <2>3 DEF IsArray
<1>3. IsArray(d)
  BY <1>2 DEF IsArray
<1>4. s.rear = L /\ s.front = 1
  <2>1. 1 \in 1..L /\ L \in 1..L
    BY <1>1
  <2> QED BY <1>0, <2>1 DEF Forward, Backward, At, IsArray
<1> PICK t : t = Shove(s, p, v)
  OBVIOUS
<1>5. Shoved(s, t, n, L, p, v)
  BY <1>0, <1>1, <1>4, ShoveIs
<1>6. \A k \in 0..(L + 1) : At(d, k) = k
  <2>1. \A k \in 0..(L + 1) : k = 0 \/ k \in 1..(L + 1)
    BY <1>1
  <2>2. ~(0 \in 1..(L + 1))
    BY <1>1
  <2> QED BY <1>2, <2>1, <2>2 DEF At
<1>7. /\ t \in Lists(n) /\ t.front = 1 /\ t.rear = L + 1
      /\ \A j \in 0..(n - 1) : t.next[j] =
           IF j = L + 1 THEN 0 ELSE IF j \in p..L THEN j + 1 ELSE s.next[j]
      /\ \A j \in 0..(n - 1) : t.prev[j] =
           IF j \in p..(L + 1) THEN j - 1 ELSE s.prev[j]
      /\ t.value[0] = s.value[0] /\ t.prev[0] = s.prev[0]
  <2>1. 0 \in 0..(n - 1) /\ 0 # p /\ ~(0 \in (p + 1)..(L + 1)) /\ ~(0 \in p..(L + 1))
    BY <1>0, <1>1
  <2> QED BY <1>4, <1>5, <2>1 DEF Shoved
<1>8. Forward(t.next, t.front, d)
  <2>1. ASSUME NEW k \in 1..(L + 1) PROVE t.next[k] = At(d, k + 1)
    <3>0. k \in 0..(n - 1)
      BY <1>1
    <3>1. CASE k = L + 1
      <4>1. ~(k + 1 \in 1..(L + 1))
        BY <1>1, <3>1
      <4> QED BY <1>2, <1>7, <3>0, <3>1, <4>1 DEF At
    <3>2. CASE k \in p..L
      <4>1. k # L + 1 /\ k + 1 \in 0..(L + 1)
        BY <1>1, <3>2
      <4> QED BY <1>6, <1>7, <3>0, <3>2, <4>1
    <3>3. CASE k # L + 1 /\ ~(k \in p..L)
      <4>1. k \in 1..L /\ k + 1 \in 1..L /\ k + 1 \in 0..(L + 1)
        BY <1>1, <3>3
      <4>2. s.next[k] = k + 1
        BY <1>0, <4>1 DEF Forward, At, IsArray
      <4> QED BY <1>6, <1>7, <3>0, <3>3, <4>1, <4>2
    <3> QED BY <3>1, <3>2, <3>3
  <2>2. t.front = At(d, 1)
    <3>1. 1 \in 0..(L + 1)
      BY <1>1
    <3> QED BY <1>6, <1>7, <3>1
  <2> QED BY <1>2, <2>1, <2>2 DEF Forward
<1>9. Backward(t.prev, t.rear, d)
  <2>1. ASSUME NEW k \in 1..(L + 1) PROVE t.prev[k] = At(d, k - 1)
    <3>0. k \in 0..(n - 1) /\ k - 1 \in 0..(L + 1)
      BY <1>1
    <3>2. CASE k \in p..(L + 1)
      BY <1>6, <1>7, <3>0, <3>2
    <3>3. CASE ~(k \in p..(L + 1))
      <4>1. k \in 1..L /\ (k - 1 \in 1..L \/ k - 1 = 0) /\ ~(0 \in 1..L)
        BY <1>1, <3>3
      <4>2. s.prev[k] = k - 1
        BY <1>0, <4>1 DEF Backward, At, IsArray
      <4> QED BY <1>6, <1>7, <3>0, <3>3, <4>2
    <3> QED BY <3>2, <3>3
  <2>2. t.rear = At(d, L + 1)
    <3>1. L + 1 \in 0..(L + 1)
      BY <1>1
    <3> QED BY <1>6, <1>7, <3>1
  <2> QED BY <1>2, <2>1, <2>2 DEF Backward
<1>10. \A i : i \in 1..(L + 1) => Misses(f, i)
  <2>1. \A i : i \in 1..(L + 1) => i \in 1..L \/ i = L + 1
    BY <1>1
  <2> QED BY <1>0, <2>1 DEF IsArray
<1>11. FreeChain(t.next, t.prev, f)
  <2>1. /\ Len(f) \in Nat
        /\ \A k \in 1..Len(f) : At(f, k) = f[k] /\ At(f, k) \in 1..(n - 1)
        /\ At(f, 0) = 0 /\ At(f, Len(f) + 1) = 0
    BY <1>0, AtIs
  <2>2. ASSUME NEW k \in 0..(Len(f) + 1)
        PROVE  t.next[At(f, k)] = s.next[At(f, k)] /\ t.prev[At(f, k)] = s.prev[At(f, k)]
    <3> PICK i : i = At(f, k)
      OBVIOUS
    <3>1. i = 0 \/ (i \in 1..(n - 1) /\ ~(i \in 1..(L + 1)))
      <4>1. k = 0 \/ k = Len(f) + 1 \/ k \in 1..Len(f)
        <5> PICK M : M = Len(f)
          OBVIOUS
        <5> QED BY <2>1
      <4> QED BY <1>10, <2>1, <4>1 DEF Misses
    <3>2. i \in 0..(n - 1) /\ i # L + 1 /\ ~(i \in p..L) /\ ~(i \in p..(L + 1))
      BY <1>0, <1>1, <3>1
    <3> QED BY <1>7, <3>2
  <2>3. /\ \A k \in 0..Len(f) : k \in 0..(Len(f) + 1)
        /\ \A k \in 2..(Len(f) + 1) : k \in 0..(Len(f) + 1)
    <3> PICK M : M = Len(f)
      OBVIOUS
    <3> QED BY <2>1
  <2> QED BY <1>0, <2>2, <2>3 DEF FreeChain
<1>12. Owned(n, d, f, {})
  <2>1. Within(n, d)
    <3>1. \A k \in 1..(L + 1) : k \in 1..(n - 1)
      BY <1>1
    <3> QED BY <1>2, <3>1 DEF Within
  <2>2. Differ(d)
    BY <1>2 DEF Differ
  <2>3. \A k \in 1..Len(d) : Misses(f, d[k])
    BY <1>2, <1>10
  <2>4. ASSUME NEW j \in 1..(n - 1), Misses(d, j) PROVE ~Misses(f, j)
    <3>1. j # L + 1 /\ \A k \in 1..L : k # j
      <4>1. L + 1 \in 1..(L + 1) /\ \A k \in 1..L : k \in 1..(L + 1)
        BY <1>1
      <4> QED BY <1>2, <2>4, <4>1 DEF Misses
    <3>2. Misses(c, j)
      BY <3>1 DEF Misses, IsArray
    <3> QED BY <1>0, <3>1, <3>2
  <2> QED BY <1>0, <2>1, <2>2, <2>3, <2>4 DEF Owned
<1>13. Shape(t, n, d, f, {})
  BY <1>0, <1>2, <1>7, <1>8, <1>9, <1>11, <1>12 DEF Shape
<1> QED BY <1>2, <1>3, <1>5, <1>13

-----------------------------------------------------------------------------
(* list_insert *)

\* The values are positive; so cell 0, whose value is 0, comes first.
LEMMA ValuesPositive ==
  ASSUME ListAssumption
  PROVE  \A w \in Values : w \in Nat /\ w > 0
<1>1. \A w \in Values : w \in Nat \ {0}
  BY DEF ListAssumption
<1>2. \A w : w \in Nat \ {0} => w \in Nat /\ w > 0
  OBVIOUS
<1> QED BY <1>1, <1>2, Zenon

\* y has the elements of x and v.
Gains(x, y, v) ==
  \A w : (\E k \in 1..Len(y) : y[k] = w) <=> w = v \/ (\E k \in 1..Len(x) : x[k] = w)

\* A value put in is gained,
LEMMA InsGains ==
  ASSUME NEW S, NEW x \in Seq(S), NEW p \in 1..(Len(x) + 1), NEW v \in S
  PROVE  Gains(x, Ins(x, p, v), v)
<1> PICK L : L = Len(x)
  OBVIOUS
<1>1. L \in Nat /\ p \in 1..(L + 1)
  BY LenProperties
<1> PICK y : y = Ins(x, p, v)
  OBVIOUS
<1>2. /\ Len(y) = L + 1
      /\ \A k \in 1..(L + 1) : y[k] = IF k < p THEN x[k] ELSE IF k = p THEN v ELSE x[k - 1]
  BY InsOf
<1>3. ASSUME NEW k \in 1..(L + 1) PROVE y[k] = v \/ \E j \in 1..L : x[j] = y[k]
  <2>1. CASE k < p
    <3>1. k \in 1..L
      BY <1>1, <2>1
    <3> QED BY <1>2, <2>1, <3>1
  <2>2. CASE k = p
    BY <1>1, <1>2, <2>2
  <2>3. CASE k > p
    <3>1. k - 1 \in 1..L /\ ~(k < p) /\ k # p
      BY <1>1, <2>3
    <3> QED BY <1>2, <3>1
  <2> QED BY <1>1, <2>1, <2>2, <2>3
<1>4. y[p] = v
  BY <1>1, <1>2
<1>5. ASSUME NEW j \in 1..L PROVE \E k \in 1..(L + 1) : y[k] = x[j]
  <2>1. CASE j < p
    <3>1. j \in 1..(L + 1)
      BY <1>1
    <3> QED BY <1>2, <2>1, <3>1
  <2>2. CASE j >= p
    <3>1. j + 1 \in 1..(L + 1) /\ ~(j + 1 < p) /\ j + 1 # p /\ (j + 1) - 1 = j
      BY <1>1, <2>2
    <3> QED BY <1>2, <3>1
  <2> QED BY <1>1, <2>1, <2>2
<1>6. Gains(x, y, v)
  <2> SUFFICES ASSUME NEW w
               PROVE  (\E k \in 1..(L + 1) : y[k] = w)
                        <=> w = v \/ (\E k \in 1..L : x[k] = w)
    BY <1>2 DEF Gains
  <2> QED BY <1>1, <1>3, <1>4, <1>5
<1> QED BY <1>6

\* and in its place it keeps the order.
LEMMA InsAscends ==
  ASSUME NEW S, NEW x \in Seq(S), NEW p \in 1..(Len(x) + 1), NEW v \in S,
         \A w \in S : w \in Nat, Ascends(x),
         \A j \in 1..Len(x) : (j < p => x[j] < v) /\ (j >= p => v < x[j])
  PROVE  Ascends(Ins(x, p, v))
<1>0. /\ Len(Ins(x, p, v)) = Len(x) + 1
      /\ \A k \in 1..(Len(x) + 1) :
           Ins(x, p, v)[k] = IF k < p THEN x[k] ELSE IF k = p THEN v ELSE x[k - 1]
  <2>1. Len(Ins(x, p, v)) = Len(x) + 1
    BY InsOf
  <2>2. ASSUME NEW k \in 1..(Len(x) + 1)
        PROVE  Ins(x, p, v)[k] = IF k < p THEN x[k]
                                 ELSE IF k = p THEN v ELSE x[k - 1]
    BY DEF Ins
  <2> QED BY <2>1, <2>2
<1> PICK L : L = Len(x)
  OBVIOUS
<1>1. L \in Nat /\ p \in 1..(L + 1)
  BY LenProperties
<1> PICK y : y = Ins(x, p, v)
  OBVIOUS
<1>2. /\ Len(y) = L + 1
      /\ \A k \in 1..(L + 1) : y[k] = IF k < p THEN x[k] ELSE IF k = p THEN v ELSE x[k - 1]
  BY <1>0
<1>3. /\ \A j, k \in 1..L : j < k => x[j] < x[k]
      /\ \A j \in 1..L : (j < p => x[j] < v) /\ (j >= p => v < x[j])
      /\ \A j \in 1..L : x[j] \in Nat
  BY ElementOfSeq DEF Ascends
<1>4. ASSUME NEW j \in 1..(L + 1), NEW k \in 1..(L + 1), j < k
      PROVE  y[j] < y[k]
  <2>1. CASE k < p
    <3>1. j \in 1..L /\ k \in 1..L /\ j < p
      BY <1>1, <1>4, <2>1
    <3> QED BY <1>2, <1>3, <1>4, <2>1, <3>1
  <2>2. CASE k = p
    <3>1. j \in 1..L /\ j < p /\ ~(k < p)
      BY <1>1, <1>4, <2>2
    <3> QED BY <1>2, <1>3, <2>2, <3>1
  <2>3. CASE k > p
    <3>1. k - 1 \in 1..L /\ ~(k < p) /\ k # p /\ k - 1 >= p
      BY <1>1, <2>3
    <3>2. y[k] = x[k - 1]
      BY <1>2, <3>1
    <3>3. CASE j < p
      <4>1. j \in 1..L /\ j < k - 1
        BY <1>1, <1>4, <2>3, <3>3
      <4> QED BY <1>2, <1>3, <3>1, <3>2, <3>3, <4>1
    <3>4. CASE j = p
      <4>1. y[j] = v
        BY <1>1, <1>2, <3>4
      <4> QED BY <1>3, <3>1, <3>2, <4>1
    <3>5. CASE j > p
      <4>1. j - 1 \in 1..L /\ ~(j < p) /\ j # p /\ j - 1 < k - 1
        BY <1>1, <1>4, <3>5
      <4> QED BY <1>2, <1>3, <3>1, <3>2, <4>1
    <3> QED BY <1>1, <3>3, <3>4, <3>5
  <2> QED BY <1>1, <2>1, <2>2, <2>3
<1>5. Ascends(y)
  BY <1>2, <1>4 DEF Ascends
<1> QED BY <1>5

\* The list is an array of the ascending values x.
Arrays(s, n, c, f, x) == Holds(s, n, c, f, x) /\ IsArray(c) /\ Ascends(x)

\* t is an array of the values x and v.
Entered(t, x, v) ==
  \E m, d, g, y : Arrays(t, m, d, g, y) /\ Gains(x, y, v) /\ Len(y) <= Len(x) + 1

\* The value goes behind the last one.
LEMMA EnteredLast ==
  ASSUME ListAssumption, NEW s, NEW n, NEW c, NEW f, NEW x,
         Arrays(s, n, c, f, x), 
         Len(c) <= MaxItems, NEW v \in Values,
         \A j \in 1..Len(x) : x[j] < v
  PROVE  \E m, g : Arrays(Pushed(s, v), m, Append(c, Len(c) + 1), g, Append(x, v))
<1>0. /\ Holds(s, n, c, f, x) /\ IsArray(c) /\ Ascends(x)
      /\ c \in Seq(Nat) /\ x \in Seq(Values) /\ Len(x) = Len(c)
  BY DEF Arrays, Holds, Shape
<1>1. \E m, i, g : /\ Holds(Pushed(s, v), m, Append(c, i), g, Append(x, v))
                   /\ IsArray(c) => i = Len(c) + 1
  BY <1>0, PushKeeps
<1>2. PICK m, i, g : /\ Holds(Pushed(s, v), m, Append(c, i), g, Append(x, v))
                     /\ i = Len(c) + 1
  BY <1>0, <1>1
<1>3. Len(c) \in Nat /\ i \in Nat
  BY <1>0, <1>2, LenProperties
<1> PICK L : L = Len(c)
  OBVIOUS
<1>4. IsArray(Append(c, i))
  <2>1. /\ Len(Append(c, i)) = L + 1 /\ Append(c, i)[L + 1] = i
        /\ \A k \in 1..L : Append(c, i)[k] = c[k]
    BY <1>0, <1>3, AppendProperties
  <2>2. \A k \in 1..(L + 1) : k \in 1..L \/ k = L + 1
    BY <1>3
  <2> QED BY <1>0, <1>2, <2>1, <2>2 DEF IsArray
<1>5. Ascends(Append(x, v))
  <2>1. /\ Len(Append(x, v)) = L + 1 /\ Append(x, v)[L + 1] = v
        /\ \A k \in 1..L : Append(x, v)[k] = x[k]
    BY <1>0, AppendProperties
  <2>2. \A j, k \in 1..(L + 1) : j < k => j \in 1..L /\ (k \in 1..L \/ k = L + 1)
    BY <1>3
  <2> QED BY <1>0, <2>1, <2>2 DEF Ascends
<1> QED BY <1>2, <1>4, <1>5 DEF Arrays

\* A value appended is gained, too.
LEMMA AppendGains ==
  ASSUME NEW S, NEW x \in Seq(S), NEW v \in S
  PROVE  Gains(x, Append(x, v), v) /\ Len(Append(x, v)) <= Len(x) + 1
<1> PICK L : L = Len(x)
  OBVIOUS
<1>1. L \in Nat
  BY LenProperties
<1>2. /\ Len(Append(x, v)) = L + 1 /\ Append(x, v)[L + 1] = v
      /\ \A k \in 1..L : Append(x, v)[k] = x[k]
  BY AppendProperties
<1> PICK y : y = Append(x, v)
  OBVIOUS
<1>3. /\ \A k \in 1..(L + 1) : k \in 1..L \/ k = L + 1
      /\ \A k \in 1..L : k \in 1..(L + 1)
      /\ L + 1 \in 1..(L + 1)
  BY <1>1
<1>4. Gains(x, y, v)
  <2> SUFFICES ASSUME NEW w
               PROVE  (\E k \in 1..(L + 1) : y[k] = w)
                        <=> w = v \/ (\E k \in 1..L : x[k] = w)
    BY <1>2 DEF Gains
  <2> QED BY <1>2, <1>3
<1> QED BY <1>1, <1>2, <1>4

\* The value goes in at place p of the others.
LEMMA EnteredAt ==
  ASSUME ListAssumption, NEW s, NEW n, NEW c, NEW f, NEW x,
         Arrays(s, n, c, f, x), 
         Len(c) <= MaxItems, NEW v \in Values, NEW p \in 1..Len(c),
         \A j \in 1..Len(x) : (j < p => x[j] < v) /\ (j >= p => v < x[j])
  PROVE  \E m, g : Arrays(Shove(Room(s), p, v), m, Append(c, Len(c) + 1), g, Ins(x, p, v))
<1>0. /\ Shape(s, n, c, f, {}) /\ IsArray(c) /\ Ascends(x)
      /\ c \in Seq(Nat) /\ x \in Seq(Values) /\ Len(x) = Len(c)
      /\ \A k \in 1..Len(c) : s.value[c[k]] = x[k]
      /\ Within(n, c) /\ n \in Nat
  BY DEF Arrays, Holds, Shape, Owned
<1>1. Loosened(s, Room(s), n, c)
  BY <1>0, RoomKeeps
<1> PICK r : r = Room(s)
  OBVIOUS
<1>2. PICK m, g : /\ Shape(r, m, c, g, {Len(c) + 1})
                  /\ \A j \in 0..(n - 1) : r.value[j] = s.value[j]
  BY <1>1 DEF Loosened
<1> PICK t : t = Shove(r, p, v)
  OBVIOUS
<1>3. /\ Shape(t, m, Append(c, Len(c) + 1), g, {})
      /\ IsArray(Append(c, Len(c) + 1)) /\ Len(Append(c, Len(c) + 1)) = Len(c) + 1
      /\ Shoved(r, t, m, Len(c), p, v)
  BY <1>0, <1>2, ShoveKeeps
<1> PICK L : L = Len(c)
  OBVIOUS
<1>4. L \in Nat /\ p \in 1..L /\ p \in 1..(L + 1)
  <2>1. L \in Nat
    BY <1>0, LenProperties
  <2> QED BY <2>1
<1> PICK y : y = Ins(x, p, v)
  OBVIOUS
<1>5. y \in Seq(Values) /\ Len(y) = L + 1
  <2>1. p \in 1..(Len(x) + 1)
    BY <1>0, <1>4
  <2>2. y \in Seq(Values)
    BY <1>0, <2>1, InsOf
  <2>3. Len(y) = Len(x) + 1
    <3>1. x \in Seq(Values)
      BY <1>0
    <3> HIDE <1>0
    <3> QED BY <2>1, <3>1, InsOf
  <2> QED BY <1>0, <2>2, <2>3
<1>6. \A k \in 1..(L + 1) :
        y[k] = IF k < p THEN x[k] ELSE IF k = p THEN v ELSE x[k - 1]
  BY <1>0 DEF Ins
<1>7. Ascends(y)
  <2>1. \A w \in Values : w \in Nat
    BY ValuesPositive
  <2>2. p \in 1..(Len(x) + 1)
    BY <1>0, <1>4
  <2> QED BY <1>0, <2>1, <2>2, InsAscends
<1>8. \A k \in 1..L : r.value[k] = x[k]
  <2>1. \A k \in 1..L : k \in 1..(n - 1) /\ s.value[k] = x[k]
    BY <1>0 DEF IsArray, Within
  <2>2. \A k \in 1..(n - 1) : k \in 0..(n - 1)
    BY <1>0
  <2> QED BY <1>2, <2>1, <2>2
<1>9. ASSUME NEW k \in 1..(L + 1) PROVE t.value[Append(c, L + 1)[k]] = y[k]
  <2>1. Append(c, L + 1)[k] = k
    BY <1>3 DEF IsArray
  <2>2. k \in 0..(m - 1)
    <3>1. L + 1 \in 1..(m - 1) /\ m \in Nat
      BY <1>2 DEF Shape, Owned
    <3> QED BY <1>4, <3>1
  <2>3. t.value[k] = IF k = p THEN v ELSE IF k \in (p + 1)..(L + 1) THEN r.value[k - 1]
                     ELSE r.value[k]
    BY <1>3, <2>2 DEF Shoved
  <2>4. CASE k < p
    <3>1. k \in 1..L /\ k # p /\ ~(k \in (p + 1)..(L + 1))
      BY <1>4, <2>4
    <3> QED BY <1>6, <1>8, <2>1, <2>3, <2>4, <3>1
  <2>5. CASE k = p
    <3>1. ~(k < p)
      BY <1>4, <2>5
    <3> QED BY <1>6, <2>1, <2>3, <2>5, <3>1
  <2>6. CASE k > p
    <3>1. k - 1 \in 1..L /\ k # p /\ ~(k < p) /\ k \in (p + 1)..(L + 1)
      BY <1>4, <2>6
    <3> QED BY <1>6, <1>8, <2>1, <2>3, <3>1
  <2> QED BY <1>4, <2>4, <2>5, <2>6
<1>10. Arrays(t, m, Append(c, L + 1), g, y)
  BY <1>3, <1>5, <1>7, <1>9 DEF Arrays, Holds
<1> QED BY <1>10

\* What list_insert and list_binarySearch rely on.
LEMMA ArrayRises ==
  ASSUME ListAssumption, NEW s, NEW n, NEW c, NEW f, NEW x,
         Arrays(s, n, c, f, x), 
         NEW v \in Values
  PROVE  /\ Rising(s.value, Len(c), v)
         /\ s.size = n /\ s.rear = Len(c) /\ Len(c) < s.size /\ s.size \in Nat
         /\ \A k \in 1..Len(c) : s.value[k] = x[k]
<1>0. /\ Shape(s, n, c, f, {}) /\ IsArray(c) /\ Ascends(x)
      /\ c \in Seq(Nat) /\ x \in Seq(Values) /\ Len(x) = Len(c)
      /\ \A k \in 1..Len(c) : s.value[c[k]] = x[k]
      /\ Within(n, c) /\ n \in Nat /\ n >= 1 /\ s.value[0] = 0
  BY DEF Arrays, Holds, Shape, Owned
<1>1. s.size = n /\ s.rear = Len(c) /\ Len(c) \in Nat
  BY <1>0, ArraySizes
<1>2. \A k \in 1..Len(c) : s.value[k] = x[k]
  BY <1>0 DEF IsArray
<1>3. \A w \in Values : w \in Nat /\ w > 0
  BY ValuesPositive
<1>4. \A k \in 1..Len(c) : x[k] \in Nat /\ x[k] > 0
  BY <1>0, <1>3, ElementOfSeq
<1>5. \A j, k \in 1..Len(c) : j < k => x[j] < x[k]
  BY <1>0 DEF Ascends
<1>6. Len(c) < n
  BY <1>0, <1>1 DEF IsArray, Within
<1> PICK L : L = Len(c)
  OBVIOUS
<1> PICK V : V = s.value
  OBVIOUS
<1>7. \A k \in 1..L : V[k] \in Nat /\ V[k] > 0
  BY <1>2, <1>4
<1>8. \A j, k \in 1..L : j < k => V[j] < V[k]
  BY <1>2, <1>5
<1>9. V[0] = 0 /\ v \in Nat /\ v > 0 /\ L \in Nat
  BY <1>0, <1>1, <1>3
<1>10. Rising(V, L, v)
  <2>1. \A j \in 0..L : V[j] \in Nat
    <3>1. \A j \in 0..L : j = 0 \/ j \in 1..L
      BY <1>9
    <3> QED BY <1>7, <1>9, <3>1
  <2>2. ASSUME NEW i \in 0..L, NEW j \in 0..L, i < j PROVE V[i] < V[j]
    <3>1. j \in 1..L /\ (i = 0 \/ i \in 1..L)
      BY <1>9, <2>2
    <3> QED BY <1>7, <1>8, <1>9, <2>2, <3>1
  <2> QED BY <1>9, <2>1, <2>2 DEF Rising
<1> QED BY <1>0, <1>1, <1>2, <1>6, <1>10

\* list_insert puts a value in unless it is there, and keeps the order.
LEMMA InsertKeeps ==
  ASSUME ListAssumption, NEW s, NEW n, NEW c, NEW f, NEW x,
         Arrays(s, n, c, f, x), 
         Len(c) <= MaxItems, NEW v \in Values
  PROVE  Entered(Inserted(s, v), x, v)
<1>0. /\ c \in Seq(Nat) /\ x \in Seq(Values) /\ Len(x) = Len(c) /\ Ascends(x)
  BY DEF Arrays, Holds, Shape
<1>1. /\ Rising(s.value, Len(c), v)
      /\ s.size = n /\ s.rear = Len(c) /\ Len(c) < s.size /\ s.size \in Nat
      /\ \A k \in 1..Len(c) : s.value[k] = x[k]
  BY ArrayRises
<1>2. Sought(s.value, Len(c), v, Search(s, v))
  BY <1>1, SearchIs
<1>3. (\A j \in 1..Len(x) : x[j] < v)
        => \E m, g : Arrays(Pushed(s, v), m, Append(c, Len(c) + 1), g, Append(x, v))
  BY EnteredLast
<1>4. \A p \in 1..Len(c) :
        (\A j \in 1..Len(x) : (j < p => x[j] < v) /\ (j >= p => v < x[j]))
          => \E m, g : Arrays(Shove(Room(s), p, v), m, Append(c, Len(c) + 1), g, Ins(x, p, v))
  BY EnteredAt
<1>5. Gains(x, Append(x, v), v) /\ Len(Append(x, v)) <= Len(x) + 1
  BY <1>0, AppendGains
<1>6. \A p \in 1..(Len(x) + 1) :
        Gains(x, Ins(x, p, v), v) /\ Len(Ins(x, p, v)) <= Len(x) + 1
  <2>1. \A p \in 1..(Len(x) + 1) : Gains(x, Ins(x, p, v), v)
    BY <1>0, InsGains
  <2>2. \A p \in 1..(Len(x) + 1) : Len(Ins(x, p, v)) = Len(x) + 1
    BY <1>0, InsOf
  <2>3. Len(x) + 1 <= Len(x) + 1
    BY <1>0, LenProperties
  <2> QED BY <2>1, <2>2, <2>3
<1> PICK L : L = Len(c)
  OBVIOUS
<1> PICK V : V = s.value
  OBVIOUS
<1> PICK q : q = Search(s, v)
  OBVIOUS
<1>7. /\ L \in Nat /\ v \in Nat /\ V[0] < v
      /\ \A j \in 0..L : V[j] \in Nat
      /\ \A i, j \in 0..L : i < j => V[i] < V[j]
  BY <1>1 DEF Rising
<1>8. /\ q.found # 0 => \E j \in 1..L : V[j] = v
      /\ q.found = 0 => /\ q.from \in 1..(L + 1)
                        /\ \A j \in 1..L : /\ j < q.from => V[j] < v
                                           /\ j >= q.from => v < V[j]
  BY <1>2 DEF Sought
<1>9. CASE L = 0 \/ V[L] < v
  <2>1. Inserted(s, v) = Pushed(s, v)
    BY <1>1, <1>9 DEF Inserted
  <2>2. ASSUME NEW j \in 1..L PROVE V[j] < v
    <3>1. L \in 0..L /\ j \in 0..L /\ (j = L \/ j < L) /\ L # 0
      BY <1>7
    <3> QED BY <1>7, <1>9, <3>1
  <2>3. \A j \in 1..Len(x) : x[j] < v
    BY <1>0, <1>1, <2>2
  <2>4. \E m, g : Arrays(Inserted(s, v), m, Append(c, Len(c) + 1), g, Append(x, v))
    BY <1>3, <2>1, <2>3
  <2> QED BY <1>5, <2>4 DEF Entered
<1>10. CASE ~(L = 0 \/ V[L] < v) /\ q.found # 0
  <2>1. Inserted(s, v) = s
    BY <1>1, <1>10 DEF Inserted
  <2>2. \E k \in 1..Len(x) : x[k] = v
    BY <1>0, <1>1, <1>8, <1>10
  <2>3. Gains(x, x, v)
    BY <2>2 DEF Gains
  <2>4. Len(x) <= Len(x) + 1
    BY <1>0, <1>7
  <2> QED BY <2>1, <2>3, <2>4 DEF Entered
<1>11. CASE ~(L = 0 \/ V[L] < v) /\ q.found = 0
  <2> PICK p : p = q.from
    OBVIOUS
  <2>1. Inserted(s, v) = Shove(Room(s), p, v)
    BY <1>1, <1>11 DEF Inserted
  <2>2. p \in 1..L
    <3>1. L \in 1..L /\ p \in 1..(L + 1) /\ (L < p => V[L] < v)
      BY <1>7, <1>8, <1>11
    <3> QED BY <1>7, <1>11, <3>1
  <2>3. \A j \in 1..Len(x) : (j < p => x[j] < v) /\ (j >= p => v < x[j])
    BY <1>0, <1>1, <1>8, <1>11
  <2>4. \E m, g : Arrays(Inserted(s, v), m, Append(c, Len(c) + 1), g, Ins(x, p, v))
    BY <1>4, <2>1, <2>2, <2>3
  <2>5. p \in 1..(Len(x) + 1)
    BY <1>0, <1>7, <2>2
  <2>6. Gains(x, Ins(x, p, v), v) /\ Len(Ins(x, p, v)) <= Len(x) + 1
    BY <1>6, <2>5
  <2> QED BY <2>4, <2>6 DEF Entered
<1> QED BY <1>9, <1>10, <1>11

-----------------------------------------------------------------------------
(* list_delete *)

\* The cells of t are those of s, except that the items after cell i have
\* moved down and cell r is free, the first one before r + 1.
Shrunk(s, t, n, r, i) ==
  /\ t \in Lists(n) /\ t.front = s.front /\ t.rear = r - 1
  /\ \A j \in 0..(n - 1) : t.value[j] =
       IF j = r THEN 0 ELSE IF j \in i..(r - 1) THEN s.value[j + 1] ELSE s.value[j]
  /\ \A j \in 0..(n - 1) : t.next[j] =
       IF j = r - 1 THEN 0 ELSE IF j = r THEN r + 1 ELSE IF j = 0 THEN r
       ELSE s.next[j]
  /\ \A j \in 0..(n - 1) : t.prev[j] =
       IF j = r THEN 0 ELSE IF j = r + 1 THEN r ELSE s.prev[j]

\* The loop of list_delete moves the items after i, and the rest of the call
\* frees the cell of the last one.
LEMMA ShrunkIs ==
  ASSUME NEW n \in Nat, NEW s \in Lists(n), NEW r \in Nat, s.rear = r,
         r + 1 < n, NEW i \in 1..(r - 1)
  PROVE  Shrunk(s, Deleted(s, i), n, r, i)
<1>1. /\ s.value \in [0..(n - 1) -> Values \union {0}]
      /\ s.next \in [0..(n - 1) -> 0..(n - 1)]
      /\ s.prev \in [0..(n - 1) -> 0..(n - 1) \union {Wrapped}]
      /\ s.size = n
  BY DEF Lists
<1> PICK V : V = [j \in 0..(n - 1) |->
                    IF j = r THEN 0 ELSE IF j \in i..(r - 1) THEN s.value[j + 1]
                    ELSE s.value[j]]
  OBVIOUS
<1> PICK N : N = [j \in 0..(n - 1) |->
                    IF j = r - 1 THEN 0 ELSE IF j = r THEN r + 1
                    ELSE IF j = 0 THEN r ELSE s.next[j]]
  OBVIOUS
<1> PICK P : P = [[s.prev EXCEPT ![r] = 0] EXCEPT ![r + 1] = r]
  OBVIOUS
<1>2. r + 1 <= n - 1 /\ r # i /\ r - 1 \in 0..(n - 1) /\ r \in 0..(n - 1)
      /\ r + 1 \in 0..(n - 1) /\ r + 1 # r /\ 0 \in 0..(n - 1)
  OBVIOUS
<1>3. Deleted(s, i) = [s EXCEPT !.value = V, !.next = N, !.prev = P, !.rear = r - 1]
  <2>1. DOMAIN s.value = 0..(n - 1) /\ DOMAIN s.next = 0..(n - 1)
    BY <1>1
  <2> PICK t : t = [s EXCEPT !.value = V, !.next = N, !.prev[r] = 0, !.rear = r - 1]
    OBVIOUS
  <2>2. Deleted(s, i) = [t EXCEPT !.prev[r + 1] = r]
    BY <1>1, <1>2, <2>1 DEF Deleted
  <2>3. [t EXCEPT !.prev[r + 1] = r]
          = [s EXCEPT !.value = V, !.next = N, !.prev = P, !.rear = r - 1]
    BY DEF Lists
  <2> QED BY <2>2, <2>3
<1>4. V \in [0..(n - 1) -> Values \union {0}]
  <2>1. \A j \in i..(r - 1) : j + 1 \in 0..(n - 1)
    OBVIOUS
  <2> QED BY <1>1, <2>1
<1>5. N \in [0..(n - 1) -> 0..(n - 1)]
  BY <1>1, <1>2
<1>6. P \in [0..(n - 1) -> 0..(n - 1) \union {Wrapped}]
      /\ \A j \in 0..(n - 1) : P[j] =
           IF j = r THEN 0 ELSE IF j = r + 1 THEN r ELSE s.prev[j]
  BY <1>1, <1>2
<1> PICK t : t = Deleted(s, i)
  OBVIOUS
<1>7. /\ t.front = s.front /\ t.rear = r - 1
      /\ t.value = V /\ t.next = N /\ t.prev = P /\ t \in Lists(n)
  BY <1>2, <1>3, <1>4, <1>5, <1>6 DEF Lists
<1> QED BY <1>6, <1>7 DEF Shrunk

\* The cell of the last item is the first free one again.
LEMMA ShrunkKeeps ==
  ASSUME NEW s, NEW n, NEW c, NEW f, Shape(s, n, c, f, {}), IsArray(c),
         NEW r, r = Len(c), r + 1 < n, NEW i \in 1..(r - 1),
         NEW t, Shrunk(s, t, n, r, i)
  PROVE  Shape(t, n, Drop(c, r), Ins(f, 1, r), {}) /\ IsArray(Drop(c, r))
<1>0. /\ n \in Nat /\ n >= 1 /\ s \in Lists(n) /\ f \in Seq(Nat) /\ c \in Seq(Nat)
      /\ Within(n, f) /\ Within(n, c) /\ Differ(c) /\ Ascends(f)
      /\ \A j \in 1..(n - 1) : ~Misses(c, j) \/ ~Misses(f, j)
      /\ \A k \in 1..Len(c) : Misses(f, c[k])
      /\ Forward(s.next, s.front, c) /\ Backward(s.prev, s.rear, c)
      /\ FreeChain(s.next, s.prev, f)
      /\ s.value[0] = 0
  BY DEF Shape, Owned
<1>1. /\ r \in Nat /\ Len(f) \in Nat
      /\ Len(f) = 0 => r = n - 1
  BY ArraySizes
<1>l. /\ Ins(f, 1, r) \in Seq(Nat) /\ Len(Ins(f, 1, r)) = Len(f) + 1
      /\ \A k \in 1..(Len(f) + 1) :
           Ins(f, 1, r)[k] = IF k < 1 THEN f[k] ELSE IF k = 1 THEN r ELSE f[k - 1]
  <2>1. 1 \in 1..(Len(f) + 1)
    BY <1>1
  <2>2. f \in Seq(Nat)
    BY <1>0
  <2>3. Ins(f, 1, r) \in Seq(Nat) /\ Len(Ins(f, 1, r)) = Len(f) + 1
    BY <1>1, <2>1, <2>2, InsIs
  <2> QED BY <2>3 DEF Ins
<1> PICK M : M = Len(f)
  OBVIOUS
<1>2a. n \in Nat /\ n >= 1
  BY <1>0
<1>2. /\ r >= 2 /\ M \in Nat /\ M >= 1 /\ r \in 1..(n - 1) /\ r - 1 \in 1..(n - 1)
      /\ r \in Nat /\ r \in 1..r
  BY <1>1, <1>2a
<1>3. f[1] = r + 1 /\ At(f, 0) = 0 /\ At(f, 1) = r + 1
  <2>1. 1 \in 1..M /\ ~(0 \in 1..M)
    BY <1>2
  <2> QED BY <1>2, <2>1, FirstFree DEF At
<1> PICK d : d = Drop(c, r)
  OBVIOUS
<1>4. d \in Seq(Nat) /\ Len(d) = r - 1 /\ \A k \in 1..(r - 1) : d[k] = k
  <2>1. /\ d \in Seq(Nat) /\ Len(d) = r - 1
        /\ \A k \in 1..(r - 1) : d[k] = IF k < r THEN c[k] ELSE c[k + 1]
    BY ZenonT(30), <1>0, <1>2, DropIs
  <2>2. \A k \in 1..(r - 1) : k < r /\ k \in 1..r
    BY <1>2
  <2> QED BY <2>1, <2>2 DEF IsArray
<1>5. IsArray(d)
  BY <1>4 DEF IsArray
<1> PICK g : g = Ins(f, 1, r)
  OBVIOUS
<1>6. /\ g \in Seq(Nat) /\ Len(g) = M + 1
      /\ \A k \in 1..(M + 1) : g[k] = IF k = 1 THEN r ELSE f[k - 1]
  <2>2. /\ g \in Seq(Nat) /\ Len(g) = M + 1
        /\ \A k \in 1..(M + 1) : g[k] = IF k < 1 THEN f[k] ELSE IF k = 1 THEN r ELSE f[k - 1]
    BY <1>l
  <2>3. \A k \in 1..(M + 1) : ~(k < 1)
    BY <1>2
  <2> QED BY <2>2, <2>3
<1>7. Misses(f, r) /\ Misses(f, r - 1)
  <2>1. r \in 1..r /\ r - 1 \in 1..r
    BY <1>2
  <2> QED BY <1>0, <2>1 DEF IsArray
<1> PICK N : N = LinkNext(s.next, f, 1, r)
  OBVIOUS
<1> PICK P : P = LinkPrev(s.prev, f, 1, r)
  OBVIOUS
<1>8. DOMAIN s.next = 0..(n - 1) /\ DOMAIN s.prev = 0..(n - 1)
  BY <1>0 DEF Lists
<1>9. FreeChain(N, P, g)
  <2>1. 1 \in 1..(Len(f) + 1)
    BY <1>2
  <2> QED BY <1>0, <1>2, <1>7, <1>8, <2>1, LinkKeeps
<1>10. \A j \in 0..(n - 1) :
         /\ j # r - 1 => t.next[j] = N[j]
         /\ t.prev[j] = P[j]
  <2> SUFFICES ASSUME NEW j \in 0..(n - 1)
               PROVE  (j # r - 1 => t.next[j] = N[j]) /\ t.prev[j] = P[j]
    OBVIOUS
  <2>1. /\ N[j] = IF j = r THEN At(f, 1) ELSE IF j = At(f, 0) THEN r ELSE s.next[j]
        /\ P[j] = IF j = r THEN At(f, 0) ELSE IF j = At(f, 1) THEN r ELSE s.prev[j]
    BY <1>8 DEF LinkNext, LinkPrev
  <2>2. /\ t.next[j] = IF j = r - 1 THEN 0 ELSE IF j = r THEN r + 1
                       ELSE IF j = 0 THEN r ELSE s.next[j]
        /\ t.prev[j] = IF j = r THEN 0 ELSE IF j = r + 1 THEN r ELSE s.prev[j]
    BY DEF Shrunk
  <2> QED BY <1>3, <2>1, <2>2
<1>11. /\ Within(n, g) /\ Misses(g, r - 1)
       /\ \A j : Misses(g, j) <=> j # r /\ Misses(f, j)
  <2>1. \A k \in 1..(M + 1) : k = 1 \/ (k # 1 /\ k - 1 \in 1..M)
    BY <1>2
  <2>2. Within(n, g)
    BY <1>0, <1>2, <1>6, <2>1 DEF Within
  <2>3. \A k \in 1..M : k + 1 \in 1..(M + 1) /\ k + 1 # 1 /\ (k + 1) - 1 = k
    BY <1>2
  <2>4. ASSUME NEW j PROVE Misses(g, j) <=> j # r /\ Misses(f, j)
    <3>1. Misses(g, j) => j # r
      <4>1. 1 \in 1..(M + 1)
        BY <1>2
      <4> QED BY <1>6, <4>1 DEF Misses
    <3>2. ASSUME Misses(g, j), NEW k \in 1..M PROVE f[k] # j
      <4>1. g[k + 1] = f[k]
        BY <1>6, <2>3
      <4> QED BY <1>6, <2>3, <3>2, <4>1 DEF Misses
    <3>3. ASSUME j # r, Misses(f, j) PROVE Misses(g, j)
      <4>1. \A k \in 1..M : f[k] # j
        BY <3>3 DEF Misses
      <4>2. \A k \in 1..(M + 1) : g[k] # j
        BY <1>6, <2>1, <3>3, <4>1
      <4> QED BY <1>6, <4>2 DEF Misses
    <3> QED BY <3>1, <3>2, <3>3 DEF Misses
  <2>5. r - 1 # r
    BY <1>2
  <2> QED BY <1>7, <2>2, <2>4, <2>5
<1>12. FreeChain(t.next, t.prev, g)
  <2>0. /\ \A k \in 1..Len(g) : At(g, k) = g[k] /\ At(g, k) \in 1..(n - 1)
        /\ At(g, 0) = 0 /\ At(g, Len(g) + 1) = 0
    <3>1. n \in Nat /\ g \in Seq(Nat) /\ Within(n, g)
      BY <1>0, <1>6, <1>11
    <3> QED BY <3>1, AtIs
  <2>1. /\ \A k \in 1..(M + 1) : At(g, k) = g[k] /\ At(g, k) \in 1..(n - 1)
        /\ At(g, 0) = 0 /\ At(g, (M + 1) + 1) = 0
    BY <1>6, <2>0
  <2>2. ASSUME NEW k \in 0..(M + 2)
        PROVE  At(g, k) \in 0..(n - 1) /\ At(g, k) # r - 1
    <3>1. k = 0 \/ k \in 1..(M + 1) \/ k = (M + 1) + 1
      BY <1>2
    <3>2. 0 \in 0..(n - 1) /\ 0 # r - 1
      BY <1>2, <1>2a
    <3>4. \A j \in 1..(n - 1) : j \in 0..(n - 1)
      BY <1>2a
    <3>3. \A j \in 1..(M + 1) : g[j] # r - 1
      BY <1>6, <1>11 DEF Misses
    <3> QED BY <2>1, <3>1, <3>2, <3>3, <3>4
  <2>3. /\ \A k \in 0..(M + 1) : k \in 0..(M + 2)
        /\ \A k \in 2..((M + 1) + 1) : k \in 0..(M + 2)
    BY <1>2
  <2>4. /\ \A k \in 0..(M + 1) : N[At(g, k)] = At(g, k + 1)
        /\ \A k \in 2..((M + 1) + 1) : P[At(g, k)] = At(g, k - 1)
    BY <1>6, <1>9 DEF FreeChain
  <2>5. /\ \A k \in 0..(M + 1) : t.next[At(g, k)] = At(g, k + 1)
        /\ \A k \in 2..((M + 1) + 1) : t.prev[At(g, k)] = At(g, k - 1)
    BY <1>10, <2>2, <2>3, <2>4
  <2> QED BY <1>6, <2>5 DEF FreeChain
<1>13. Owned(n, d, g, {})
  <2>1. Within(n, d)
    <3>1. \A k \in 1..(r - 1) : k \in 1..(n - 1)
      BY <1>2, <1>2a
    <3> QED BY <1>4, <3>1 DEF Within
  <2>2. Differ(d)
    BY <1>4 DEF Differ
  <2>3. Ascends(g)
    <3>1. ASSUME NEW j \in 1..(M + 1), NEW k \in 1..(M + 1), j < k
          PROVE  g[j] < g[k]
      <4>1. k # 1 /\ k - 1 \in 1..M /\ (j = 1 \/ (j # 1 /\ j - 1 \in 1..M /\ j - 1 < k - 1))
        BY <1>2, <3>1
      <4>2. g[k] = f[k - 1] /\ f[k - 1] \in 1..(n - 1)
        BY <1>0, <1>6, <4>1 DEF Within
      <4>3. CASE j = 1
        <5>1. f[1] <= f[k - 1]
          <6>1. k - 1 = 1 \/ 1 < k - 1
            BY <1>2, <4>1
          <6>2. 1 \in 1..M
            BY <1>2
          <6>3. 1 < k - 1 => f[1] < f[k - 1]
            BY <1>0, <4>1, <6>2 DEF Ascends
          <6> QED BY <1>2, <1>3, <4>2, <6>1, <6>3
        <5>2. g[j] = r
          BY <1>6, <4>3
        <5> QED BY <1>2, <1>3, <4>2, <5>1, <5>2
      <4>4. CASE j # 1
        <5>1. g[j] = f[j - 1]
          BY <1>6, <4>4
        <5>2. f[j - 1] < f[k - 1]
          BY <1>0, <4>1, <4>4 DEF Ascends
        <5> QED BY <4>2, <5>1, <5>2
      <4> QED BY <4>3, <4>4
    <3> QED BY <1>6, <3>1 DEF Ascends
  <2>4. ASSUME NEW j \in 1..(n - 1), Misses(d, j) PROVE ~Misses(g, j)
    <3>1. \A k \in 1..(r - 1) : k # j
      BY <1>4, <2>4 DEF Misses
    <3>2. CASE j = r
      BY <1>11, <3>2
    <3>3. CASE j # r
      <4>1. \A k \in 1..r : k # j
        <5>1. \A k \in 1..r : k = r \/ k \in 1..(r - 1)
          BY <1>2
        <5> QED BY <3>1, <3>3, <5>1
      <4>2. Misses(c, j)
        BY <4>1 DEF Misses, IsArray
      <4> QED BY <1>0, <1>11, <4>2
    <3> QED BY <3>2, <3>3
  <2>5. ASSUME NEW k \in 1..Len(d) PROVE Misses(g, d[k])
    <3>1. k \in 1..(r - 1) /\ k \in 1..r /\ k # r
      BY <1>2, <1>4
    <3>2. Misses(f, k)
      BY <1>0, <3>1 DEF IsArray
    <3> QED BY <1>4, <1>11, <3>1, <3>2
  <2> QED BY <1>11, <2>1, <2>2, <2>3, <2>4, <2>5 DEF Owned
<1>14. \A k \in 0..r : At(c, k) = k
  <2>1. \A k \in 0..r : k = 0 \/ k \in 1..r
    BY <1>2
  <2> QED BY <2>1 DEF At, IsArray
<1>15. \A k \in 0..(r - 1) : At(d, k) = k
  <2>1. \A k \in 0..(r - 1) : k = 0 \/ k \in 1..(r - 1)
    BY <1>2
  <2> QED BY <1>4, <2>1 DEF At
<1>16. t.front = s.front /\ t.rear = r - 1 /\ t \in Lists(n)
  BY DEF Shrunk
<1>17. Forward(t.next, t.front, d)
  <2>1. t.front = At(d, 1)
    <3>1. 1 \in 0..r /\ 1 \in 0..(r - 1)
      BY <1>2
    <3> QED BY <1>0, <1>14, <1>15, <1>16, <3>1 DEF Forward
  <2>2. ASSUME NEW k \in 1..(r - 1) PROVE t.next[k] = At(d, k + 1)
    <3>0. k \in 0..(n - 1) /\ k # r /\ k # 0
      BY <1>2, <1>2a
    <3>1. t.next[k] = IF k = r - 1 THEN 0 ELSE s.next[k]
      BY <3>0 DEF Shrunk
    <3>2. CASE k = r - 1
      <4>1. ~(k + 1 \in 1..(r - 1))
        BY <1>2, <3>2
      <4> QED BY <1>4, <3>1, <3>2, <4>1 DEF At
    <3>3. CASE k # r - 1
      <4>1. k + 1 \in 0..r /\ k + 1 \in 0..(r - 1) /\ k \in 1..r
        BY <1>2, <3>3
      <4>2. s.next[k] = At(c, k + 1)
        BY <1>0, <4>1 DEF Forward, IsArray
      <4> QED BY <1>14, <1>15, <3>1, <3>3, <4>1, <4>2
    <3> QED BY <3>2, <3>3
  <2> QED BY <1>4, <2>1, <2>2 DEF Forward
<1>18. Backward(t.prev, t.rear, d)
  <2>1. t.rear = At(d, r - 1)
    <3>1. r - 1 \in 0..(r - 1)
      BY <1>2
    <3> QED BY <1>15, <1>16, <3>1
  <2>2. ASSUME NEW k \in 1..(r - 1) PROVE t.prev[k] = At(d, k - 1)
    <3>0. k \in 0..(n - 1) /\ k # r /\ k # r + 1 /\ k \in 1..r /\ k - 1 \in 0..r
          /\ k - 1 \in 0..(r - 1)
      BY <1>2, <1>2a
    <3>1. t.prev[k] = s.prev[k]
      BY <3>0 DEF Shrunk
    <3>2. s.prev[k] = At(c, k - 1)
      BY <1>0, <3>0 DEF Backward, IsArray
    <3> QED BY <1>14, <1>15, <3>0, <3>1, <3>2
  <2> QED BY <1>4, <2>1, <2>2 DEF Backward
<1>19. t.value[0] = 0
  <2>1. 0 \in 0..(n - 1) /\ 0 # r /\ ~(0 \in i..(r - 1))
    BY <1>2, <1>2a
  <2> QED BY <1>0, <2>1 DEF Shrunk
<1>20. Len(g) # 0
  BY <1>2, <1>6
<1>21. Shape(t, n, d, g, {})
  BY <1>0, <1>4, <1>6, <1>12, <1>13, <1>16, <1>17, <1>18, <1>19, <1>20
     DEF Shape
<1> QED BY <1>5, <1>21

\* What is left of an ascending sequence ascends.
LEMMA DropAscends ==
  ASSUME NEW S, NEW q \in Seq(S), Ascends(q), NEW k \in 1..Len(q)
  PROVE  Ascends(Drop(q, k))
<1>1. /\ Len(Drop(q, k)) = Len(q) - 1 /\ Len(q) \in Nat
      /\ \A j \in 1..(Len(q) - 1) :
           Drop(q, k)[j] = IF j < k THEN q[j] ELSE q[j + 1]
  BY DropIs
<1> PICK L : L = Len(q)
  OBVIOUS
<1> PICK d : d = Drop(q, k)
  OBVIOUS
<1>2. \A i, j \in 1..L : i < j => q[i] < q[j]
  BY DEF Ascends
<1>3. ASSUME NEW i \in 1..(L - 1), NEW j \in 1..(L - 1), i < j PROVE d[i] < d[j]
  <2>1. /\ i \in 1..L /\ i + 1 \in 1..L /\ j \in 1..L /\ j + 1 \in 1..L
        /\ i < j + 1 /\ i + 1 < j + 1 /\ (j < k => i < k)
    BY <1>1, <1>3
  <2>2. /\ d[i] = IF i < k THEN q[i] ELSE q[i + 1]
        /\ d[j] = IF j < k THEN q[j] ELSE q[j + 1]
    BY <1>1
  <2> QED BY <1>2, <1>3, <2>1, <2>2
<1>4. Ascends(d)
  BY <1>1, <1>3 DEF Ascends
<1> QED BY <1>4

\* Dropping the last element moves none.
LEMMA DropLast ==
  ASSUME NEW S, NEW q \in Seq(S), Len(q) # 0
  PROVE  /\ Drop(q, Len(q)) \in Seq(S) /\ Len(Drop(q, Len(q))) = Len(q) - 1
         /\ Len(q) \in Nat
         /\ \A j \in 1..(Len(q) - 1) : Drop(q, Len(q))[j] = q[j]
<1>1. Len(q) \in Nat /\ Len(q) \in 1..Len(q)
  BY LenProperties
<1>2. /\ Drop(q, Len(q)) \in Seq(S) /\ Len(Drop(q, Len(q))) = Len(q) - 1
      /\ \A j \in 1..(Len(q) - 1) :
           Drop(q, Len(q))[j] = IF j < Len(q) THEN q[j] ELSE q[j + 1]
  BY <1>1, DropIs
<1>3. \A j \in 1..(Len(q) - 1) : j < Len(q)
  <2> PICK L : L = Len(q)
    OBVIOUS
  <2> QED BY <1>1
<1> QED BY <1>1, <1>2, <1>3

\* An array without its last cell is one.
LEMMA DropArray ==
  ASSUME NEW c \in Seq(Nat), IsArray(c), Len(c) # 0
  PROVE  IsArray(Drop(c, Len(c)))
<1>1. /\ Len(Drop(c, Len(c))) = Len(c) - 1 /\ Len(c) \in Nat
      /\ \A j \in 1..(Len(c) - 1) : Drop(c, Len(c))[j] = c[j]
  BY DropLast
<1>2. \A j \in 1..(Len(c) - 1) : j \in 1..Len(c)
  <2> PICK L : L = Len(c)
    OBVIOUS
  <2> QED BY <1>1
<1> QED BY <1>1, <1>2 DEF IsArray

\* What was appended is dropped again.
LEMMA DropAppended ==
  ASSUME NEW S, NEW q \in Seq(S), NEW e \in S
  PROVE  Drop(Append(q, e), Len(Append(q, e))) = q /\ Len(Append(q, e)) # 0
<1>1. /\ Append(q, e) \in Seq(S) /\ Len(Append(q, e)) = Len(q) + 1
      /\ \A k \in 1..Len(q) : Append(q, e)[k] = q[k]
  BY AppendProperties
<1>2. Len(q) \in Nat /\ Len(Append(q, e)) # 0 /\ (Len(q) + 1) - 1 = Len(q)
  BY <1>1, LenProperties
<1>3. /\ Drop(Append(q, e), Len(Append(q, e))) \in Seq(S)
      /\ Len(Drop(Append(q, e), Len(Append(q, e)))) = Len(Append(q, e)) - 1
      /\ \A j \in 1..(Len(Append(q, e)) - 1) :
           Drop(Append(q, e), Len(Append(q, e)))[j] = Append(q, e)[j]
  BY <1>1, <1>2, DropLast
<1> PICK d : d = Drop(Append(q, e), Len(Append(q, e)))
  OBVIOUS
<1>4. /\ d \in Seq(S) /\ Len(d) = Len(q)
      /\ \A j \in 1..Len(q) : d[j] = q[j]
  BY <1>1, <1>2, <1>3
<1>5. d = q
  BY <1>4, SeqEqual
<1> QED BY <1>2, <1>5

\* list_delete takes item i out of an array that has a free cell, or the
\* last item out of any.
LEMMA DeleteKeeps ==
  ASSUME NEW s, NEW n, NEW c, NEW f, NEW x, Arrays(s, n, c, f, x),
         NEW i \in 1..Len(c), Len(c) + 1 < n \/ i = Len(c)
  PROVE  \E g : Arrays(Deleted(s, i), n, Drop(c, Len(c)), g, Drop(x, i))
<1>0. /\ Shape(s, n, c, f, {}) /\ IsArray(c) /\ Ascends(x) /\ Holds(s, n, c, f, x)
      /\ c \in Seq(Nat) /\ x \in Seq(Values) /\ Len(x) = Len(c)
      /\ \A k \in 1..Len(c) : s.value[c[k]] = x[k]
      /\ n \in Nat /\ s \in Lists(n) /\ Within(n, c)
  BY DEF Arrays, Holds, Shape, Owned
<1>1. s.rear = Len(c) /\ Len(c) \in Nat /\ Len(c) # 0
  <2>1. s.rear = Len(c) /\ Len(c) \in Nat
    BY <1>0, ArraySizes
  <2> QED BY <2>1
<1>2. IsArray(Drop(c, Len(c)))
  BY <1>0, <1>1, DropArray
<1>3. Ascends(Drop(x, i))
  BY <1>0, DropAscends
<1>4. CASE i = Len(c)
  <2>1. \E g : Holds(Removed(s, c[i]), n, Drop(c, i), g, Drop(x, i))
    BY <1>0, TakingKeeps
  <2>2. c[i] = i /\ Deleted(s, i) = Removed(s, i)
    BY <1>0, <1>1, <1>4 DEF IsArray, Deleted
  <2> QED BY <1>2, <1>3, <1>4, <2>1, <2>2 DEF Arrays
<1>5. CASE i # Len(c)
  <2> PICK r : r = Len(c)
    OBVIOUS
  <2> PICK t : t = Deleted(s, i)
    OBVIOUS
  <2>1. i \in 1..(r - 1) /\ r + 1 < n /\ r \in Nat /\ r \in 1..r
    BY <1>1, <1>5
  <2>2. Shrunk(s, t, n, r, i)
    BY <1>0, <1>1, <2>1, ShrunkIs
  <2>3. Shape(t, n, Drop(c, r), Ins(f, 1, r), {})
    BY <1>0, <2>1, <2>2, ShrunkKeeps
  <2>4. /\ Drop(x, i) \in Seq(Values) /\ Len(Drop(x, i)) = r - 1
        /\ \A j \in 1..(r - 1) : Drop(x, i)[j] = IF j < i THEN x[j] ELSE x[j + 1]
    BY <1>0, DropIs
  <2>5. /\ Len(Drop(c, r)) = r - 1
        /\ \A k \in 1..(r - 1) : Drop(c, r)[k] = k
    <3>1. Len(Drop(c, r)) = r - 1
      BY <1>0, <1>1, DropLast
    <3> QED BY <1>2, <3>1 DEF IsArray
  <2>6. \A k \in 1..r : s.value[k] = x[k] /\ k \in 1..(n - 1)
    BY <1>0 DEF IsArray, Within
  <2>7. ASSUME NEW k \in 1..(r - 1) PROVE t.value[k] = Drop(x, i)[k]
    <3>1. k \in 1..r /\ k + 1 \in 1..r /\ k # r
      BY <2>1
    <3>2. k \in 0..(n - 1)
      <4>1. n \in Nat
        BY <1>0 DEF Shape
      <4>2. k \in 1..(n - 1)
        BY <2>6, <3>1
      <4> QED BY <4>1, <4>2
    <3>3. t.value[k] = IF k \in i..(r - 1) THEN s.value[k + 1] ELSE s.value[k]
      BY <2>2, <3>1, <3>2 DEF Shrunk
    <3>4. k \in i..(r - 1) <=> ~(k < i)
      BY <2>1
    <3> QED BY <2>4, <2>6, <3>1, <3>3, <3>4
  <2>8. Holds(t, n, Drop(c, r), Ins(f, 1, r), Drop(x, i))
    BY <2>3, <2>4, <2>5, <2>7 DEF Holds
  <2> QED BY <1>2, <1>3, <2>8 DEF Arrays
<1> QED BY <1>4, <1>5

-----------------------------------------------------------------------------
(* The collection *)

\* What the community module's operators do, in terms of Drop.
LEMMA TailDrops ==
  ASSUME NEW S, NEW q \in Seq(S), Len(q) # 0
  PROVE  Tail(q) = Drop(q, 1) /\ Head(q) = q[1]
<1>1. Len(q) \in Nat /\ q # << >> /\ 1 \in 1..Len(q)
  BY LenProperties
<1>2. /\ Tail(q) \in Seq(S) /\ Len(Tail(q)) = Len(q) - 1 /\ Head(q) = q[1]
      /\ \A k \in 1..Len(Tail(q)) : Tail(q)[k] = q[k + 1]
  BY <1>1, HeadTailProperties
<1>3. /\ Drop(q, 1) \in Seq(S) /\ Len(Drop(q, 1)) = Len(q) - 1
      /\ \A j \in 1..(Len(q) - 1) : Drop(q, 1)[j] = IF j < 1 THEN q[j] ELSE q[j + 1]
  BY <1>1, DropIs
<1>4. \A j \in 1..(Len(q) - 1) : ~(j < 1)
  OBVIOUS
<1>5. Tail(q) = Drop(q, 1)
  BY <1>2, <1>3, <1>4, SeqEqual
<1> QED BY <1>2, <1>5

\* Front and Last take the last element,
LEMMA FrontDrops ==
  ASSUME NEW S, NEW q \in Seq(S), Len(q) # 0
  PROVE  Front(q) = Drop(q, Len(q)) /\ Last(q) = q[Len(q)]
<1>1. Len(q) \in Nat
  BY LenProperties
<1>2. /\ Drop(q, Len(q)) \in Seq(S) /\ Len(Drop(q, Len(q))) = Len(q) - 1
      /\ \A j \in 1..(Len(q) - 1) : Drop(q, Len(q))[j] = q[j]
  BY DropLast
<1>3. /\ Front(q) \in Seq(S) /\ Len(Front(q)) = Len(q) - 1
      /\ \A j \in 1..(Len(q) - 1) : Front(q)[j] = q[j]
  <2> PICK L : L = Len(q)
    OBVIOUS
  <2>1. L \in Nat /\ L - 1 \in Nat /\ 1..(L - 1) \subseteq 1..L
    BY <1>1
  <2>2. Front(q) = SubSeq(q, 1, L - 1)
    BY DEF Front
  <2>3. \A i \in 1..(L - 1) : q[i] \in S
    BY <2>1, ElementOfSeq
  <2>4. Front(q) = [i \in 1..(L - 1) |-> q[i]]
    BY <2>1, <2>2
  <2>5. Front(q) \in [1..(L - 1) -> S]
    BY <2>3, <2>4
  <2>6. Front(q) \in Seq(S) /\ Len(Front(q)) = L - 1
    BY <2>1, <2>5, IsSequence
  <2> QED BY <2>4, <2>6
<1>4. Front(q) = Drop(q, Len(q))
  BY <1>2, <1>3, SeqEqual
<1> QED BY <1>4 DEF Last

\* and RemoveAt any.
LEMMA RemoveDrops ==
  ASSUME NEW S, NEW q \in Seq(S), NEW k \in 1..Len(q)
  PROVE  RemoveAt(q, k) = Drop(q, k)
<1> PICK L : L = Len(q)
  OBVIOUS
<1> PICK a : a = SubSeq(q, 1, k - 1)
  OBVIOUS
<1> PICK b : b = SubSeq(q, k + 1, L)
  OBVIOUS
<1>1. L \in Nat /\ k \in 1..L /\ k - 1 \in Nat /\ L - k \in Nat
  BY LenProperties
<1>2. /\ Drop(q, k) \in Seq(S) /\ Len(Drop(q, k)) = L - 1
      /\ \A j \in 1..(L - 1) : Drop(q, k)[j] = IF j < k THEN q[j] ELSE q[j + 1]
  BY DropIs
<1>3. a \in Seq(S) /\ Len(a) = k - 1 /\ \A i \in 1..(k - 1) : a[i] = q[i]
  <2>1. a = [i \in 1..(k - 1) |-> q[i]]
    BY <1>1
  <2>2. \A i \in 1..(k - 1) : q[i] \in S
    BY <1>1, ElementOfSeq
  <2> QED BY <1>1, <2>1, <2>2, IsSequence
<1>4. b \in Seq(S) /\ Len(b) = L - k /\ \A i \in 1..(L - k) : b[i] = q[k + i]
  <2>1. b = [i \in 1..(L - k) |-> q[k + i]]
    BY <1>1
  <2>2. \A i \in 1..(L - k) : q[k + i] \in S
    BY <1>1, ElementOfSeq
  <2> QED BY <1>1, <2>1, <2>2, IsSequence
<1>5. a \o b \in Seq(S) /\ Len(a \o b) = L - 1
      /\ \A i \in 1..(L - 1) : (a \o b)[i] = IF i <= k - 1 THEN a[i] ELSE b[i - (k - 1)]
  <2>1. /\ a \o b \in Seq(S) /\ Len(a \o b) = Len(a) + Len(b)
        /\ \A i \in 1..(Len(a) + Len(b)) :
             (a \o b)[i] = IF i <= Len(a) THEN a[i] ELSE b[i - Len(a)]
    <3>1. a \in Seq(S) /\ b \in Seq(S)
      BY <1>3, <1>4
    <3>2. a \o b \in Seq(S)
      BY <3>1, ConcatProperties
    <3>3. Len(a \o b) = Len(a) + Len(b)
      BY <3>1, ConcatProperties
    <3>4. \A i \in 1..(Len(a) + Len(b)) :
             (a \o b)[i] = IF i <= Len(a) THEN a[i] ELSE b[i - Len(a)]
      BY <3>1, ConcatProperties, ZenonT(30)
    <3> QED BY <3>2, <3>3, <3>4
  <2>2. (k - 1) + (L - k) = L - 1
    BY <1>1
  <2> QED BY <1>3, <1>4, <2>1, <2>2
<1>6. ASSUME NEW j \in 1..(L - 1) PROVE (a \o b)[j] = Drop(q, k)[j]
  <2>1. CASE j < k
    <3>1. j <= k - 1 /\ j \in 1..(k - 1)
      BY <1>1, <2>1
    <3> QED BY <1>2, <1>3, <1>5, <2>1, <3>1
  <2>2. CASE ~(j < k)
    <3>1. ~(j <= k - 1) /\ j - (k - 1) \in 1..(L - k) /\ k + (j - (k - 1)) = j + 1
      BY <1>1, <2>2
    <3> QED BY <1>2, <1>4, <1>5, <2>2, <3>1
  <2> QED BY <2>1, <2>2
<1>7. a \o b = Drop(q, k)
  BY <1>2, <1>5, <1>6, SeqEqual
<1> QED BY <1>7 DEF RemoveAt

-----------------------------------------------------------------------------
(* Calls *)

\* What every call keeps.
Intact(s, array, r) ==
  /\ Holds(s, s.size, Cells(s), FreeCells(s), Contents(s))
  /\ array => IsArray(Cells(s)) /\ Ascends(Contents(s))
  /\ Len(Contents(s)) <= MaxItems
  /\ r \in Values \union {0}

\* A call keeps the list intact, returns r and turns the items into y.
Makes(t, array, r, y) == Intact(t, array, r) /\ Contents(t) = y

\* A call that leaves the list holding y makes y.
LEMMA MakesIs ==
  ASSUME NEW t, NEW n, NEW c, NEW f, NEW y, Holds(t, n, c, f, y),
         NEW array, array => IsArray(c) /\ Ascends(y), Len(y) <= MaxItems,
         NEW r \in Values \union {0}
  PROVE  Makes(t, array, r, y)
<1>1. t.size = n /\ Cells(t) = c /\ FreeCells(t) = f /\ Contents(t) = y
  BY HoldsIs
<1> QED BY <1>1 DEF Makes, Intact

\* What is left stays within the bound.
LEMMA Shorter ==
  ASSUME ListAssumption, NEW S, NEW q \in Seq(S), NEW k \in 1..Len(q),
         Len(q) <= MaxItems
  PROVE  Len(Drop(q, k)) <= MaxItems
<1>1. Len(Drop(q, k)) = Len(q) - 1 /\ Len(q) \in Nat
  BY DropIs
<1>2. MaxItems \in Nat
  BY DEF ListAssumption
<1> PICK L : L = Len(q)
  OBVIOUS
<1> QED BY <1>1, <1>2

\* list_push: the value is the last item.
LEMMA PushMakes ==
  ASSUME ListAssumption, NEW s, NEW q, NEW array, ~array, Intact(s, array, q),
         NEW v \in Values, 
         Len(Contents(s)) < MaxItems
  PROVE  Makes(Pushed(s, v), array, 0, Append(Contents(s), v))
<1> PICK c : c = Cells(s)
  OBVIOUS
<1> PICK x : x = Contents(s)
  OBVIOUS
<1>1. Holds(s, s.size, c, FreeCells(s), x)
  BY DEF Intact
<1>2. x \in Seq(Values) /\ Len(x) = Len(c) /\ Len(x) \in Nat /\ MaxItems \in Nat
  BY <1>1, LenProperties DEF Holds, ListAssumption
<1>3. Len(c) <= MaxItems
  BY <1>2
<1>4. PICK m, i, g : Holds(Pushed(s, v), m, Append(c, i), g, Append(x, v))
  BY <1>1, <1>3, PushKeeps
<1>5. Len(Append(x, v)) <= MaxItems
  <2>1. Len(Append(x, v)) = Len(x) + 1
    BY <1>2, AppendProperties
  <2> QED BY <1>2, <2>1
<1> QED BY <1>4, <1>5, MakesIs

\* list_shift: the first item leaves and is the result.
LEMMA ShiftMakes ==
  ASSUME ListAssumption, NEW s, NEW q, NEW array, ~array, Intact(s, array, q),
         ~(s.front = 0 /\ s.rear = 0)
  PROVE  /\ Makes(Shifted(s), array, s.value[s.front], Tail(Contents(s)))
         /\ Contents(s) # << >> /\ s.value[s.front] = Head(Contents(s))
<1> PICK c : c = Cells(s)
  OBVIOUS
<1> PICK x : x = Contents(s)
  OBVIOUS
<1>1. Holds(s, s.size, c, FreeCells(s), x) /\ Len(x) <= MaxItems
  BY DEF Intact
<1>2. /\ x \in Seq(Values) /\ Len(x) = Len(c)
      /\ Forward(s.next, s.front, c) /\ Backward(s.prev, s.rear, c)
      /\ \A k \in 1..Len(c) : s.value[c[k]] = x[k]
  BY <1>1 DEF Holds, Shape
<1>3. Len(c) # 0
  <2>1. Len(c) = 0 => ~(1 \in 1..Len(c)) /\ ~(Len(c) \in 1..Len(c))
    OBVIOUS
  <2> QED BY <1>2, <2>1 DEF Forward, Backward, At
<1>4. 1 \in 1..Len(c) /\ Len(c) \in Nat
  BY <1>2, <1>3, LenProperties
<1>5. s.value[s.front] = x[1] /\ x[1] \in Values
  <2>1. s.front = c[1]
    BY <1>2, <1>4 DEF Forward, At
  <2> QED BY <1>2, <1>4, <2>1, ElementOfSeq
<1>6. PICK g : Holds(Shifted(s), s.size, Drop(c, 1), g, Drop(x, 1))
  BY <1>1, <1>3, TakingKeeps
<1>7. Len(Drop(x, 1)) <= MaxItems
  BY <1>1, <1>2, <1>4, Shorter
<1>8. Makes(Shifted(s), array, x[1], Drop(x, 1))
  BY <1>5, <1>6, <1>7, MakesIs
<1>9. Tail(x) = Drop(x, 1) /\ Head(x) = x[1] /\ x # << >>
  BY <1>2, <1>3, TailDrops
<1> QED BY <1>5, <1>8, <1>9

\* list_pop: the last item leaves and is the result.
LEMMA PopMakes ==
  ASSUME ListAssumption, NEW s, NEW array, NEW q, Intact(s, array, q),
         ~(s.front = 0 /\ s.rear = 0)
  PROVE  /\ Makes(Popped(s), array, s.value[s.rear], Front(Contents(s)))
         /\ Contents(s) # << >> /\ s.value[s.rear] = Last(Contents(s))
<1> PICK c : c = Cells(s)
  OBVIOUS
<1> PICK x : x = Contents(s)
  OBVIOUS
<1>1. /\ Holds(s, s.size, c, FreeCells(s), x) /\ Len(x) <= MaxItems
      /\ array => IsArray(c) /\ Ascends(x)
  BY DEF Intact
<1>2. /\ x \in Seq(Values) /\ Len(x) = Len(c) /\ c \in Seq(Nat)
      /\ Forward(s.next, s.front, c) /\ Backward(s.prev, s.rear, c)
      /\ \A k \in 1..Len(c) : s.value[c[k]] = x[k]
  BY <1>1 DEF Holds, Shape
<1>3. Len(c) # 0
  <2>1. Len(c) = 0 => ~(1 \in 1..Len(c)) /\ ~(Len(c) \in 1..Len(c))
    OBVIOUS
  <2> QED BY <1>2, <2>1 DEF Forward, Backward, At
<1>4. Len(c) \in 1..Len(c) /\ Len(c) \in Nat
  BY <1>2, <1>3, LenProperties
<1>5. s.value[s.rear] = x[Len(c)] /\ x[Len(c)] \in Values
  <2>1. s.rear = c[Len(c)]
    BY <1>2, <1>4 DEF Backward, At
  <2> QED BY <1>2, <1>4, <2>1, ElementOfSeq
<1>6. PICK g : Holds(Popped(s), s.size, Drop(c, Len(c)), g, Drop(x, Len(c)))
  BY <1>1, <1>3, TakingKeeps
<1>7. Len(Drop(x, Len(c))) <= MaxItems
  BY <1>1, <1>2, <1>4, Shorter
<1>8. array => IsArray(Drop(c, Len(c))) /\ Ascends(Drop(x, Len(c)))
  <2>1. IsArray(c) => IsArray(Drop(c, Len(c)))
    BY <1>2, <1>3, DropArray
  <2>2. Ascends(x) => Ascends(Drop(x, Len(c)))
    BY <1>2, <1>4, DropAscends
  <2> QED BY <1>1, <2>1, <2>2
<1>9. Makes(Popped(s), array, x[Len(c)], Drop(x, Len(c)))
  BY <1>5, <1>6, <1>7, <1>8, MakesIs
<1>10. Front(x) = Drop(x, Len(c)) /\ Last(x) = x[Len(c)] /\ x # << >>
  BY <1>2, <1>3, FrontDrops
<1> QED BY <1>5, <1>9, <1>10

\* list_reset: no item is left.
LEMMA ResetMakes ==
  ASSUME ListAssumption, NEW s, NEW array, NEW q, Intact(s, array, q)
  PROVE  Makes(Emptied(s), array, 0, << >>)
<1>1. PICK g : Holds(Emptied(s), s.size, << >>, g, << >>)
  BY ResetKeeps DEF Intact
<1>2. /\ IsArray(<< >>) /\ Ascends(<< >>) /\ Len(<< >>) <= MaxItems
  <2>1. Len(<< >>) = 0 /\ \A k \in 1..Len(<< >>) : FALSE
    OBVIOUS
  <2>2. MaxItems \in Nat
    BY DEF ListAssumption
  <2> QED BY <2>1, <2>2 DEF IsArray, Ascends
<1> QED BY <1>1, <1>2, MakesIs

\* createList: a list without items.
LEMMA CreateMakes ==
  ASSUME ListAssumption, NEW n \in InitialSizes, NEW array
  PROVE  Makes(CreateList(n), array, 0, << >>)
<1>1. n \in Nat /\ n >= 1
  <2>1. n \in Nat \ {0}
    BY DEF ListAssumption
  <2> QED BY <2>1
<1>2. PICK g : Holds(CreateList(n), n, << >>, g, << >>)
  BY <1>1, CreateHolds
<1>3. /\ IsArray(<< >>) /\ Ascends(<< >>) /\ Len(<< >>) <= MaxItems
  <2>1. Len(<< >>) = 0 /\ \A k \in 1..Len(<< >>) : FALSE
    OBVIOUS
  <2>2. MaxItems \in Nat
    BY DEF ListAssumption
  <2> QED BY <2>1, <2>2 DEF IsArray, Ascends
<1> QED BY <1>2, <1>3, MakesIs

\* list_remove: one item leaves, the others keep their order.
LEMMA RemoveMakes ==
  ASSUME ListAssumption, NEW s, NEW q, NEW array, ~array, Intact(s, array, q),
         NEW i \in ToSet(Cells(s))
  PROVE  \E k \in DOMAIN Contents(s) :
           Makes(Removed(s, i), array, 0, RemoveAt(Contents(s), k))
<1> PICK c : c = Cells(s)
  OBVIOUS
<1> PICK x : x = Contents(s)
  OBVIOUS
<1>1. Holds(s, s.size, c, FreeCells(s), x) /\ Len(x) <= MaxItems
  BY DEF Intact
<1>2. x \in Seq(Values) /\ Len(x) = Len(c) /\ c \in Seq(Nat)
  BY <1>1 DEF Holds, Shape
<1>3. PICK k \in 1..Len(c) : i = c[k]
  BY <1>2 DEF ToSet
<1>4. PICK g : Holds(Removed(s, i), s.size, Drop(c, k), g, Drop(x, k))
  BY <1>1, <1>3, TakingKeeps
<1>5. Len(Drop(x, k)) <= MaxItems
  BY <1>1, <1>2, <1>3, Shorter
<1>6. Makes(Removed(s, i), array, 0, Drop(x, k))
  BY <1>4, <1>5, MakesIs
<1>7. RemoveAt(x, k) = Drop(x, k)
  BY <1>2, <1>3, RemoveDrops
<1>8. k \in DOMAIN x
  BY <1>2, <1>3
<1> QED BY <1>6, <1>7, <1>8

\* list_insert: the value is among the items, once, and they ascend.
LEMMA InsertMakes ==
  ASSUME ListAssumption, NEW s, NEW q, NEW array, array, Intact(s, array, q),
         NEW v \in Values, 
         Len(Contents(s)) < MaxItems
  PROVE  \E y : /\ Makes(Inserted(s, v), array, 0, y)
                /\ ToSet(y) = ToSet(Contents(s)) \union {v}
                /\ \A k \in 2..Len(y) : y[k - 1] < y[k]
<1> PICK c : c = Cells(s)
  OBVIOUS
<1> PICK x : x = Contents(s)
  OBVIOUS
<1>1. Holds(s, s.size, c, FreeCells(s), x) /\ IsArray(c) /\ Ascends(x)
  BY DEF Intact
<1>2. /\ x \in Seq(Values) /\ Len(x) = Len(c) /\ Len(x) \in Nat
      /\ MaxItems \in Nat /\ Len(x) < MaxItems
  BY <1>1, LenProperties DEF Holds, ListAssumption
<1>3. Entered(Inserted(s, v), x, v)
  <2>1. Len(c) <= MaxItems
    BY <1>2
  <2> QED BY <1>1, <2>1, InsertKeeps DEF Arrays
<1>4. PICK m, d, g, y : Arrays(Inserted(s, v), m, d, g, y) /\ Gains(x, y, v)
                        /\ Len(y) <= Len(x) + 1
  BY <1>3 DEF Entered
<1>5. Holds(Inserted(s, v), m, d, g, y) /\ IsArray(d) /\ Ascends(y) /\ y \in Seq(Values)
  BY <1>4 DEF Arrays, Holds
<1>6. Len(y) \in Nat
  BY <1>5, LenProperties
<1>7. Len(y) <= MaxItems
  <2> PICK L : L = Len(y)
    OBVIOUS
  <2> PICK M : M = Len(x)
    OBVIOUS
  <2> QED BY <1>2, <1>4, <1>6
<1>8. Makes(Inserted(s, v), array, 0, y)
  BY <1>5, <1>7, MakesIs
<1>9. ToSet(y) = ToSet(x) \union {v}
  <2>1. DOMAIN y = 1..Len(y) /\ DOMAIN x = 1..Len(x)
    BY <1>2, <1>5
  <2>2. \A w : w \in ToSet(y) <=> \E k \in 1..Len(y) : y[k] = w
    BY <2>1 DEF ToSet
  <2>3. \A w : w \in ToSet(x) <=> \E k \in 1..Len(x) : x[k] = w
    BY <2>1 DEF ToSet
  <2>4. \A w : w \in ToSet(y) <=> w = v \/ w \in ToSet(x)
    BY <1>4, <2>2, <2>3, Zenon DEF Gains
  <2> QED BY <2>4
<1>10. \A k \in 2..Len(y) : y[k - 1] < y[k]
  <2> PICK L : L = Len(y)
    OBVIOUS
  <2>1. \A k \in 2..L : k - 1 \in 1..L /\ k \in 1..L /\ k - 1 < k
    BY <1>6
  <2> QED BY <1>5, <2>1 DEF Ascends
<1> QED BY <1>8, <1>9, <1>10

\* list_delete, with a free cell or of the last item: item i leaves.
LEMMA DeleteMakes ==
  ASSUME ListAssumption, NEW s, NEW q, NEW array, array, Intact(s, array, q),
         NEW i \in ToSet(Cells(s)), 
         s.rear < s.size - 1 \/ s.rear = i
  PROVE  /\ i \in DOMAIN Contents(s)
         /\ Makes(Deleted(s, i), array, 0, RemoveAt(Contents(s), i))
<1> PICK c : c = Cells(s)
  OBVIOUS
<1> PICK x : x = Contents(s)
  OBVIOUS
<1>1. /\ Holds(s, s.size, c, FreeCells(s), x) /\ IsArray(c) /\ Ascends(x)
      /\ Len(x) <= MaxItems
  BY DEF Intact
<1>2. /\ x \in Seq(Values) /\ Len(x) = Len(c) /\ c \in Seq(Nat)
      /\ Shape(s, s.size, c, FreeCells(s), {})
  BY <1>1 DEF Holds, Shape
<1>3. i \in 1..Len(c)
  BY <1>1, <1>2 DEF ToSet, IsArray
<1>4. s.rear = Len(c) /\ Len(c) \in Nat /\ s.size \in Nat
  BY <1>1, <1>2, ArraySizes
<1>5. Len(c) + 1 < s.size \/ i = Len(c)
  <2> PICK L : L = Len(c)
    OBVIOUS
  <2> PICK n : n = s.size
    OBVIOUS
  <2> QED BY <1>4
<1>6. PICK g : Arrays(Deleted(s, i), s.size, Drop(c, Len(c)), g, Drop(x, i))
  BY <1>1, <1>3, <1>5, DeleteKeeps DEF Arrays
<1>7. Len(Drop(x, i)) <= MaxItems
  BY <1>1, <1>2, <1>3, Shorter
<1>8. Makes(Deleted(s, i), array, 0, Drop(x, i))
  BY <1>6, <1>7, MakesIs DEF Arrays
<1>9. RemoveAt(x, i) = Drop(x, i) /\ i \in DOMAIN x
  BY <1>2, <1>3, RemoveDrops
<1> QED BY <1>8, <1>9

\* What is pushed is popped again, and the array is as it was.
LEMMA PushPopMakes ==
  ASSUME ListAssumption, NEW s, NEW q, NEW array, array, Intact(s, array, q),
         NEW v \in Values
  PROVE  Makes(Popped(Pushed(s, v)), array, 0, Contents(s))
<1> PICK c : c = Cells(s)
  OBVIOUS
<1> PICK x : x = Contents(s)
  OBVIOUS
<1>1. /\ Holds(s, s.size, c, FreeCells(s), x) /\ IsArray(c) /\ Ascends(x)
      /\ Len(x) <= MaxItems
  BY DEF Intact
<1>2. /\ x \in Seq(Values) /\ Len(x) = Len(c) /\ c \in Seq(Nat) /\ Len(c) \in Nat
      /\ Len(c) <= MaxItems
  BY <1>1, LenProperties DEF Holds, Shape
<1>3. PICK m, i, g : /\ Holds(Pushed(s, v), m, Append(c, i), g, Append(x, v))
                     /\ IsArray(c) => i = Len(c) + 1
  BY <1>1, <1>2, PushKeeps
<1>4. i \in Nat
  BY <1>1, <1>2, <1>3
<1>5. /\ Drop(Append(c, i), Len(Append(c, i))) = c /\ Len(Append(c, i)) # 0
  BY <1>2, <1>4, DropAppended
<1>6. Drop(Append(x, v), Len(Append(x, v))) = x
  BY <1>2, DropAppended
<1>7. Len(Append(x, v)) = Len(Append(c, i))
  <2>1. Len(Append(x, v)) = Len(x) + 1
    BY <1>2, AppendProperties
  <2>2. Len(Append(c, i)) = Len(c) + 1
    BY <1>2, <1>4, AppendProperties
  <2> QED BY <1>2, <2>1, <2>2
<1>8. PICK h : Holds(Popped(Pushed(s, v)), m, Drop(Append(c, i), Len(Append(c, i))), h,
                     Drop(Append(x, v), Len(Append(c, i))))
  BY <1>3, <1>5, TakingKeeps
<1>9. Holds(Popped(Pushed(s, v)), m, c, h, x)
  BY <1>5, <1>6, <1>7, <1>8
<1> QED BY <1>1, <1>9, MakesIs

-----------------------------------------------------------------------------
(* Steps *)

\* The inductive invariant: the list is intact between two calls.
IInv == Intact(list, asArray, result)

\* It holds of a new list, which is empty as promised.
LEMMA InitInv == Init => IInv /\ Promise!Init
<1> SUFFICES ASSUME Init PROVE IInv /\ Promise!Init
  OBVIOUS
<1>1. PICK n \in InitialSizes : list = CreateList(n)
  BY DEF Init
<1>2. Makes(CreateList(n), asArray, 0, << >>)
  BY CreateMakes, ListAssumption
<1>3. result = 0
  BY DEF Init
<1> QED BY <1>1, <1>2, <1>3 DEF Makes, IInv, Promise!Init

\* A call that makes y keeps the invariant and leaves y as the contents.
LEMMA CallMakes ==
  ASSUME NEW t, NEW r, NEW y, Call(t, r), Makes(t, asArray, r, y)
  PROVE  IInv' /\ Contents(list)' = y /\ result' = r
BY DEF Call, Makes, IInv

\* Each action keeps it and does what the collection promises.
LEMMA PushStep ==
  ASSUME IInv, NEW v \in QueueValues, Push(v)
  PROVE  IInv' /\ Promise!Next
<1>1. v \in Values
  BY ListAssumption DEF ListAssumption
<1>2. ~asArray /\ Len(Contents(list)) < MaxItems /\ Call(Pushed(list, v), 0)
  BY DEF Push, Below
<1>3. Makes(Pushed(list, v), asArray, 0, Append(Contents(list), v))
  BY <1>1, <1>2, ListAssumption, PushMakes DEF IInv
<1>4. IInv' /\ Contents(list)' = Append(Contents(list), v) /\ result' = 0
  BY <1>2, <1>3, CallMakes
<1> QED BY <1>1, <1>4 DEF Promise!Next, Promise!Push

\* list_shift takes off the first item.
LEMMA ShiftStep ==
  ASSUME IInv, Shift
  PROVE  IInv' /\ Promise!Next
<1>1. /\ ~asArray /\ ~(list.front = 0 /\ list.rear = 0)
      /\ Call(Shifted(list), list.value[list.front])
  BY DEF Shift, IsEmpty
<1>2. /\ Makes(Shifted(list), asArray, list.value[list.front], Tail(Contents(list)))
      /\ Contents(list) # << >> /\ list.value[list.front] = Head(Contents(list))
  BY <1>1, ListAssumption, ShiftMakes DEF IInv
<1>3. IInv' /\ Contents(list)' = Tail(Contents(list))
      /\ result' = list.value[list.front]
  BY <1>1, <1>2, CallMakes
<1> QED BY <1>2, <1>3 DEF Promise!Next, Promise!Shift

\* list_pop takes off the last item.
LEMMA PopStep ==
  ASSUME IInv, Pop
  PROVE  IInv' /\ Promise!Next
<1>1. /\ ~(list.front = 0 /\ list.rear = 0)
      /\ Call(Popped(list), list.value[list.rear])
  BY DEF Pop, IsEmpty
<1>2. /\ Makes(Popped(list), asArray, list.value[list.rear], Front(Contents(list)))
      /\ Contents(list) # << >> /\ list.value[list.rear] = Last(Contents(list))
  BY <1>1, ListAssumption, PopMakes DEF IInv
<1>3. IInv' /\ Contents(list)' = Front(Contents(list))
      /\ result' = list.value[list.rear]
  BY <1>1, <1>2, CallMakes
<1> QED BY <1>2, <1>3 DEF Promise!Next, Promise!Pop, Promise!Front, Front,
       Promise!Last, Last

\* list_remove takes off the item of a cell.
LEMMA RemoveStep ==
  ASSUME IInv, NEW i \in ToSet(Cells(list)), RemoveCell(i)
  PROVE  IInv' /\ Promise!Next
<1>1. ~asArray /\ Call(Removed(list, i), 0)
  BY DEF RemoveCell
<1>2. PICK k \in DOMAIN Contents(list) :
        Makes(Removed(list, i), asArray, 0, RemoveAt(Contents(list), k))
  BY <1>1, ListAssumption, RemoveMakes DEF IInv
<1>3. IInv' /\ Contents(list)' = RemoveAt(Contents(list), k) /\ result' = 0
  BY <1>1, <1>2, CallMakes
<1> QED BY <1>3 DEF Promise!Next, Promise!RemoveItem, Promise!RemoveAt, RemoveAt

\* list_reset takes off all items.
LEMMA ResetStep ==
  ASSUME IInv, Reset
  PROVE  IInv' /\ Promise!Next
<1>1. Call(Emptied(list), 0)
  BY DEF Reset
<1>2. Makes(Emptied(list), asArray, 0, << >>)
  BY ListAssumption, ResetMakes DEF IInv
<1>3. IInv' /\ Contents(list)' = << >> /\ result' = 0
  BY <1>1, <1>2, CallMakes
<1> QED BY <1>3 DEF Promise!Next, Promise!Reset

\* list_insert puts an item in its place of the sorted array.
LEMMA InsertStep ==
  ASSUME IInv, NEW v \in Values, Insert(v)
  PROVE  IInv' /\ Promise!Next
<1>1. asArray /\ Len(Contents(list)) < MaxItems /\ Call(Inserted(list, v), 0)
  BY DEF Insert, Below
<1>2. PICK y : /\ Makes(Inserted(list, v), asArray, 0, y)
               /\ ToSet(y) = ToSet(Contents(list)) \union {v}
               /\ \A k \in 2..Len(y) : y[k - 1] < y[k]
  BY <1>1, ListAssumption, InsertMakes DEF IInv
<1>3. IInv' /\ Contents(list)' = y /\ result' = 0
  BY <1>1, <1>2, CallMakes
<1>4. Promise!Insert(v)
  BY <1>2, <1>3 DEF Promise!Insert, Promise!ToSet, ToSet
<1> QED BY <1>3, <1>4 DEF Promise!Next

\* list_delete takes an item out of the sorted array.
LEMMA DeleteStep ==
  ASSUME ~DeleteWhenFull, IInv, NEW i \in ToSet(Cells(list)), Delete(i)
  PROVE  IInv' /\ Promise!Next
<1>1. /\ asArray /\ Call(Deleted(list, i), 0)
      /\ list.rear < list.size - 1 \/ list.rear = i
  BY DEF Delete
<1>2. /\ i \in DOMAIN Contents(list)
      /\ Makes(Deleted(list, i), asArray, 0, RemoveAt(Contents(list), i))
  BY <1>1, ListAssumption, DeleteMakes DEF IInv
<1>3. IInv' /\ Contents(list)' = RemoveAt(Contents(list), i) /\ result' = 0
  BY <1>1, <1>2, CallMakes
<1> QED BY <1>2, <1>3 DEF Promise!Next, Promise!RemoveItem, Promise!RemoveAt, RemoveAt

\* Each call of a stack or queue keeps the invariant and is one of Collection.
LEMMA PushPopStep ==
  ASSUME IInv, NEW v \in Values, PushPop(v)
  PROVE  IInv' /\ Promise!Next
<1>1. asArray /\ Call(Popped(Pushed(list, v)), 0)
  BY DEF PushPop
<1>2. Makes(Popped(Pushed(list, v)), asArray, 0, Contents(list))
  BY <1>1, ListAssumption, PushPopMakes DEF IInv
<1>3. IInv' /\ Contents(list)' = Contents(list) /\ result' = 0
  BY <1>1, <1>2, CallMakes
<1> QED BY <1>3 DEF Promise!Next, Promise!Look

\* Every step keeps the invariant and is a step of the collection or a stutter.
LEMMA NextInv ==
  ASSUME ~DeleteWhenFull, IInv, [Next]_vars
  PROVE  IInv' /\ [Promise!Next]_<<Contents(list), result>>
<1>1. CASE UNCHANGED vars
  BY <1>1 DEF vars, IInv
<1>2. CASE Next
  <2>1. IInv' /\ Promise!Next
    BY <1>2, PushStep, ShiftStep, PopStep, RemoveStep, ResetStep, InsertStep,
       DeleteStep, PushPopStep DEF Next
  <2> QED BY <2>1
<1> QED BY <1>1, <1>2

\* The invariant holds forever: between two calls the cells of the list are
\* split into the chain of its items and the chain of free cells, unless
\* list_delete is called on a list without a free cell.
THEOREM Invariance == ~DeleteWhenFull => (Spec => []IInv)
<1> SUFFICES ASSUME ~DeleteWhenFull PROVE Spec => []IInv
  OBVIOUS
<1>1. Init => IInv
  BY InitInv
<1>2. IInv /\ [Next]_vars => IInv'
  BY NextInv
<1> QED BY <1>1, <1>2, PTL DEF Spec

\* list.c promises what Collection says: whatever cells it links, a call has
\* the result and leaves the items that it would on a sequence, a queue, a
\* stack or a sorted array. list_delete on a list without a free cell is left
\* out: it does lose a cell.
THEOREM Refinement == ~DeleteWhenFull => (Spec => ImplementsCollection)
<1> SUFFICES ASSUME ~DeleteWhenFull PROVE Spec => ImplementsCollection
  OBVIOUS
<1>1. Init => IInv /\ Promise!Init
  BY InitInv
<1>2. IInv /\ [Next]_vars => IInv' /\ [Promise!Next]_<<Contents(list), result>>
  BY NextInv
<1> QED BY <1>1, <1>2, PTL DEF Spec, ImplementsCollection, Promise!Spec

-----------------------------------------------------------------------------
(* Properties *)

\* What the invariant says in terms of the lemmas.
LEMMA Opened ==
  ASSUME IInv
  PROVE  /\ Holds(list, list.size, Cells(list), FreeCells(list), Contents(list))
         /\ Shape(list, list.size, Cells(list), FreeCells(list), {})
         /\ asArray => IsArray(Cells(list)) /\ Ascends(Contents(list))
         /\ result \in Values \union {0}
BY DEF IInv, Intact, Holds

\* It implies each property that List.cfg checks.
LEMMA InvTypeOK == IInv => TypeOK
<1> SUFFICES ASSUME IInv PROVE TypeOK
  OBVIOUS
<1>0. result \in Values \union {0}
  BY Opened
<1>1. Shape(list, list.size, Cells(list), FreeCells(list), {})
  BY Opened
<1> PICK c : c = Cells(list)
  OBVIOUS
<1> PICK n : n = list.size
  OBVIOUS
<1>2. /\ n \in Nat /\ n >= 1 /\ list \in Lists(n) /\ c \in Seq(Nat) /\ Within(n, c)
      /\ Forward(list.next, list.front, c) /\ Backward(list.prev, list.rear, c)
  BY <1>1 DEF Shape, Owned
<1>3. /\ Len(c) \in Nat
      /\ \A k \in 1..Len(c) : At(c, k) = c[k] /\ At(c, k) \in 1..(n - 1)
      /\ At(c, 0) = 0 /\ At(c, Len(c) + 1) = 0
      /\ \A k \in 1..Len(c) : At(c, k) # 0
  BY <1>2, AtIs
<1>4. /\ n \in Nat \ {0}
      /\ list.front \in 0..(n - 1) /\ list.rear \in 0..(n - 1)
      /\ list.value \in [0..(n - 1) -> Values \union {0}]
      /\ list.next \in [0..(n - 1) -> 0..(n - 1)]
      /\ list.prev \in [0..(n - 1) -> 0..(n - 1) \union {Wrapped}]
  BY <1>2 DEF Lists
<1>5. list.front = At(c, 1) /\ list.rear = At(c, Len(c))
  BY <1>2 DEF Forward, Backward
<1>6. (list.front = 0) <=> (list.rear = 0)
  <2>1. CASE Len(c) = 0
    <3>1. At(c, 1) = 0
      BY <1>3, <2>1
    <3> QED BY <1>3, <1>5, <2>1, <3>1
  <2>2. CASE Len(c) # 0
    <3>1. 1 \in 1..Len(c) /\ Len(c) \in 1..Len(c)
      BY <1>3, <2>2
    <3> QED BY <1>3, <1>5, <3>1
  <2> QED BY <2>1, <2>2
<1>7. ASSUME c # << >>
      PROVE  /\ c[Len(c)] = list.rear
             /\ list.next[list.rear] = 0 /\ list.prev[list.front] = 0
  <2>1. Len(c) # 0
    BY <1>2, <1>7, EmptySeq
  <2>2. 1 \in 1..Len(c) /\ Len(c) \in 1..Len(c) /\ 1 - 1 = 0
    BY <1>3, <2>1
  <2>3. list.front = c[1] /\ list.rear = c[Len(c)]
    BY <1>3, <1>5, <2>2
  <2>4. list.next[c[Len(c)]] = At(c, Len(c) + 1) /\ list.prev[c[1]] = At(c, 0)
    BY <1>2, <2>2 DEF Forward, Backward
  <2> QED BY <1>3, <2>3, <2>4
<1>8. ASSUME NEW k \in 2..Len(c) PROVE list.prev[c[k]] = c[k - 1]
  <2>1. k \in 1..Len(c) /\ k - 1 \in 1..Len(c)
    BY <1>3
  <2> QED BY <1>2, <1>3, <2>1 DEF Backward
<1> QED BY <1>0, <1>4, <1>6, <1>7, <1>8 DEF TypeOK, Last

\* Items, free cells and the links between them leave no cell out.
LEMMA InvNoCellLost == IInv => NoCellLost
<1> SUFFICES ASSUME IInv PROVE NoCellLost
  OBVIOUS
<1>1. Shape(list, list.size, Cells(list), FreeCells(list), {})
  BY Opened
<1> PICK c : c = Cells(list)
  OBVIOUS
<1> PICK f : f = FreeCells(list)
  OBVIOUS
<1> PICK n : n = list.size
  OBVIOUS
<1>2. /\ n \in Nat /\ n >= 1 /\ c \in Seq(Nat) /\ f \in Seq(Nat)
      /\ Within(n, f) /\ Ascends(f)
      /\ \A i \in 1..(n - 1) : ~Misses(c, i) \/ ~Misses(f, i)
      /\ \A k \in 1..Len(c) : Misses(f, c[k])
      /\ FreeChain(list.next, list.prev, f)
  BY <1>1 DEF Shape, Owned
<1>3. /\ Len(f) \in Nat
      /\ \A k \in 1..Len(f) : At(f, k) = f[k]
      /\ At(f, Len(f) + 1) = 0
  BY <1>2, AtIs
<1>4. ToSet(f) = (1..(n - 1)) \ ToSet(c)
  <2>1. \A i : i \in ToSet(f) <=> ~Misses(f, i)
    <3>1. DOMAIN f = 1..Len(f)
      BY <1>2
    <3> QED BY <3>1 DEF ToSet, Misses
  <2>2. \A i : i \in ToSet(c) <=> ~Misses(c, i)
    <3>1. DOMAIN c = 1..Len(c)
      BY <1>2
    <3> QED BY <3>1 DEF ToSet, Misses
  <2>3. \A i : ~Misses(f, i) => i \in 1..(n - 1)
    BY <1>2 DEF Within, Misses
  <2>4. \A i : ~Misses(c, i) => Misses(f, i)
    <3> SUFFICES ASSUME NEW i, ~Misses(c, i) PROVE Misses(f, i)
      OBVIOUS
    <3>1. PICK k \in 1..Len(c) : c[k] = i
      BY DEF Misses
    <3> QED BY <1>2, <3>1
  <2> QED BY <1>2, <2>1, <2>2, <2>3, <2>4
<1>5. ASSUME NEW k \in 2..Len(f)
      PROVE  f[k - 1] < f[k] /\ list.prev[f[k]] = f[k - 1]
  <2>1. k \in 1..Len(f) /\ k - 1 \in 1..Len(f) /\ k - 1 < k /\ k \in 2..(Len(f) + 1)
    <3> PICK L : L = Len(f)
      OBVIOUS
    <3> QED BY <1>3
  <2> QED BY <1>2, <1>3, <2>1 DEF Ascends, FreeChain
<1>6. ASSUME f # << >> PROVE list.prev[0] = f[Len(f)]
  <2>1. Len(f) # 0
    BY <1>2, <1>6, EmptySeq
  <2>2. Len(f) \in 1..Len(f) /\ Len(f) + 1 \in 2..(Len(f) + 1) /\ (Len(f) + 1) - 1 = Len(f)
    <3> PICK L : L = Len(f)
      OBVIOUS
    <3> QED BY <1>3, <2>1
  <2> QED BY <1>2, <1>3, <2>2 DEF FreeChain
<1> QED BY <1>4, <1>5, <1>6 DEF NoCellLost, Last

\* The items of an array fill its first cells in ascending order.
LEMMA InvSortedArray == IInv => SortedArray
<1> SUFFICES ASSUME IInv, asArray PROVE SortedArray
  BY DEF SortedArray
<1>1. /\ Holds(list, list.size, Cells(list), FreeCells(list), Contents(list))
      /\ IsArray(Cells(list)) /\ Ascends(Contents(list))
  BY Opened
<1> PICK c : c = Cells(list)
  OBVIOUS
<1> PICK x : x = Contents(list)
  OBVIOUS
<1>2. /\ c \in Seq(Nat) /\ Len(x) = Len(c)
      /\ \A k \in 1..Len(c) : list.value[c[k]] = x[k]
      /\ Shape(list, list.size, c, FreeCells(list), {})
  BY <1>1 DEF Holds, Shape
<1>3. list.rear = Len(c) /\ Len(c) \in Nat
  BY <1>1, <1>2, ArraySizes
<1> PICK r : r = Len(c)
  OBVIOUS
<1>4. c = [i \in 1..r |-> i]
  <2>1. c = [i \in 1..r |-> c[i]]
    BY <1>2
  <2> QED BY <1>1, <2>1 DEF IsArray
<1>5. ASSUME NEW i \in 2..r PROVE list.value[i - 1] < list.value[i]
  <2>1. i \in 1..r /\ i - 1 \in 1..r /\ i - 1 < i
    BY <1>3
  <2>2. list.value[i] = x[i] /\ list.value[i - 1] = x[i - 1]
    BY <1>1, <1>2, <2>1 DEF IsArray
  <2> QED BY <1>1, <1>2, <2>1, <2>2 DEF Ascends
<1> QED BY <1>3, <1>4, <1>5 DEF SortedArray

\* The links of the list always stay within its pool: front, rear, next and
\* prev name cells of it, both ends are 0 or neither is, and prev leads back
\* along the chain that next makes from front to rear.
THEOREM TypeCorrect == ~DeleteWhenFull => (Spec => []TypeOK)
BY Invariance, InvTypeOK, PTL

\* No cell of the pool is lost or in use twice, however calls follow one
\* another: each is in the chain of items or in the ascending chain of free
\* cells, as list_freeCell, list_push and list_poolReallocate need it.
THEOREM CellsKept == ~DeleteWhenFull => (Spec => []NoCellLost)
BY Invariance, InvNoCellLost, PTL

\* list_insert and list_delete keep a list used as an array without gaps: the
\* items lie in the cells from 1 to rear, in ascending order without
\* duplicates, so that list_binarySearch may look at them by number and
\* getListSize may take rear for their count.
THEOREM ArraysSorted == ~DeleteWhenFull => (Spec => []SortedArray)
BY Invariance, InvSortedArray, PTL

===============================================================================
