-------------------------- MODULE TailBuilderProofs --------------------------
(***************************************************************************)
(* Proofs about the tail builder of src/tail.c, for every initial size,    *)
(* every set of suffixes and any number of steps.  As in TriePoolProofs,   *)
(* three lemmas about a chain over a set (Chain in TailBuilder) are carried *)
(* over to the nextFree fields.                                            *)
(***************************************************************************)
EXTENDS TailBuilder, TLAPS

\* calculateAllocation leaves room for two cells more than there were.
LEMMA Allocation ==
  ASSUME NEW n \in Nat, n <= MaxSize
  PROVE  CalculateAllocation(n) \in Nat /\ CalculateAllocation(n) >= n + 1
BY TailAssumption DEF CalculateAllocation

\* insertChars: the chain without its head.
LEMMA ChainTail ==
  ASSUME NEW f, NEW s, \A i \in f : i \in Nat /\ i > 0,
         \A i \in f \union {0} : s[i] \in Nat,
         Chain(s, f), s[0] # 0,
         NEW t, t[0] = s[s[0]],
         \A i \in f \ {s[0]} : t[i] = s[i]
  PROVE  Chain(t, f \ {s[0]}) /\ s[0] \in f /\ \A k \in f : k >= s[0]
<1> DEFINE h == s[0]
           g == f \ {h}
<1>1. h \in f /\ \A k \in f : k >= h
  BY DEF Chain
<1>2. \A i \in f : s[i] # h
  BY <1>1 DEF Chain
<1>3. \A i \in g \union {0} : t[i] \in g \union {0}
  BY <1>1, <1>2 DEF Chain
<1>4. \A i \in g : t[i] = 0 \/ t[i] > i
  BY <1>1 DEF Chain
<1>5. \A i \in g \union {0}, k \in g : k > i => t[i] # 0 /\ k >= t[i]
  BY <1>1 DEF Chain
<1> QED
  BY <1>1, <1>3, <1>4, <1>5 DEF Chain

\* freeCell: c is linked in behind n, when n is 0 or below c and the member
\* that followed n is above c.
LEMMA ChainInsert ==
  ASSUME NEW f, NEW s, \A i \in f : i \in Nat /\ i > 0,
         \A i \in f \union {0} : s[i] \in Nat,
         Chain(s, f),
         NEW n \in f \union {0}, NEW c \in Nat, c > 0, n < c, c \notin f,
         s[n] = 0 \/ s[n] > c,
         NEW t, t[c] = s[n], t[n] = c,
         \A i \in f \union {0} : i # n => t[i] = s[i]
  PROVE  Chain(t, f \union {c})
<1> DEFINE g == f \union {c}
<1>1. \A i \in g \union {0} : t[i] \in g \union {0}
  BY DEF Chain
<1>2. \A i \in g : t[i] = 0 \/ t[i] > i
  BY DEF Chain
<1>3. \A k \in f : k > n => s[n] # 0 /\ k >= s[n]
  BY DEF Chain
<1>4. \A i \in g \union {0}, k \in g : k > i => t[i] # 0 /\ k >= t[i]
  <2> SUFFICES ASSUME NEW i \in g \union {0}, NEW k \in g, k > i
               PROVE  t[i] # 0 /\ k >= t[i]
    OBVIOUS
  <2>1. CASE i = c
    BY <1>3, <2>1
  <2>2. CASE i = n
    BY <1>3, <2>2
  <2>3. CASE i # c /\ i # n
    <3>1. CASE k = c
      \* i < c, so i < n, for nothing lies between n and c
      <4>1. i < n
        BY <1>3, <2>3, <3>1 DEF Chain
      <4>2. n \in f /\ s[i] # 0 /\ n >= s[i]
        BY <2>3, <4>1 DEF Chain
      <4> QED
        BY <2>3, <3>1, <4>2
    <3>2. CASE k # c
      BY <2>3, <3>2 DEF Chain
    <3> QED
      BY <3>1, <3>2
  <2> QED
    BY <2>1, <2>2, <2>3
<1> QED
  BY <1>1, <1>2, <1>4 DEF Chain

\* createTailBuilder: the chain of an empty builder visits all cells.
LEMMA InitInv == Init => IInv
<1> SUFFICES ASSUME Init PROVE IInv
  OBVIOUS
<1>1. TypeOK
  BY TailAssumption DEF Init, TypeOK
<1>2. Available = 1..(size - 1)
  BY <1>1 DEF Init, Available, TypeOK
<1>3. FreeChain
  <2>1. size \in Nat /\ size >= 2
    BY <1>1 DEF TypeOK
  <2>2. \A i \in 0..(size - 1) :
          nextFree[i] = IF i = size - 1 THEN 0 ELSE i + 1
    BY DEF Init
  <2> QED
    BY <1>2, <2>1, <2>2 DEF FreeChain, Chain
<1>4. WalkInv
  BY <1>1 DEF Init, WalkInv, TypeOK
<1> QED
  BY <1>1, <1>3, <1>4 DEF IInv

\* What the invariant says of the links, in one place.
LEMMA ChainTypes ==
  ASSUME IInv
  PROVE  /\ \A i \in Available : i \in Nat /\ i > 0
         /\ \A i \in Available : i \in 1..(size - 1) /\ chars[i] = NULL
         /\ \A i \in Available \union {0} : i \in 0..(size - 1)
         /\ \A i \in Available \union {0} : nextFree[i] \in Nat
         /\ Chain(nextFree, Available)
         /\ 0 \in 0..(size - 1)
BY DEF IInv, TypeOK, FreeChain, Available

\* insertChars keeps the invariant and every suffix, and takes the lowest
\* available cell.
LEMMA InsertKeeps ==
  ASSUME IInv, NEW string \in Strings, InsertChars(string)
  PROVE  /\ IInv'
         /\ \E n : /\ n \in Available \/ n = size
                   /\ \A k \in Available : k >= n
                   /\ n \in DOMAIN chars'
                   /\ \A i \in DOMAIN chars :
                        i # n => i \in DOMAIN chars' /\ chars'[i] = chars[i]
                   /\ \A i \in DOMAIN chars' :
                        i # n /\ i \notin DOMAIN chars => chars'[i] = NULL
                   /\ n \in DOMAIN chars => chars[n] = NULL
<1>0. /\ TypeOK /\ WalkInv /\ pc = "idle" /\ pc' = "idle"
      /\ UNCHANGED <<freeing, lastFree, lost>>
  BY DEF IInv, InsertChars
<1>1. CASE nextFree[0] # 0
  <2> DEFINE h == nextFree[0]
  <2>1. /\ nextFree' = [nextFree EXCEPT ![0] = nextFree[h], ![h] = 0]
        /\ chars' = [chars EXCEPT ![h] = string]
        /\ size' = size
    BY <1>1 DEF InsertChars, Fill
  <2>2. h \in Available /\ \A k \in Available : k >= h
    BY <1>1, ChainTypes DEF Chain
  <2>3. /\ h \in 1..(size - 1) /\ chars[h] = NULL /\ size \in Nat
        /\ string # NULL /\ string \in Strings
    BY <1>0, <2>2, ChainTypes, TailAssumption DEF TypeOK
  <2>4. /\ \A i \in 0..(size - 1) :
             chars'[i] = IF i = h THEN string ELSE chars[i]
        /\ chars' \in [0..(size - 1) -> Strings \union {NULL}]
    BY <1>0, <2>1, <2>3 DEF TypeOK
  <2>5. /\ \A i \in 0..(size - 1) :
             nextFree'[i] = IF i = h THEN 0
                            ELSE IF i = 0 THEN nextFree[h] ELSE nextFree[i]
        /\ nextFree' \in [0..(size - 1) -> Nat]
    BY <1>0, <2>1, <2>3 DEF TypeOK
  <2>6. Available' = Available \ {h}
    <3>1. \A i \in 1..(size - 1) :
            chars'[i] = NULL <=> chars[i] = NULL /\ i # h
      BY <2>3, <2>4
    <3> HIDE DEF h
    <3> QED
      BY <1>0, <2>1, <3>1 DEF Available
  <2>7. Chain(nextFree', Available \ {h})
    <3>1. nextFree'[0] = nextFree[h] /\ h # 0
      BY <2>3, <2>5
    <3>2. \A i \in Available \ {h} : nextFree'[i] = nextFree[i]
      BY <2>5, ChainTypes
    <3> QED
      BY <1>1, <3>1, <3>2, ChainTypes, ChainTail
  <2>8. IInv'
    <3>1. TypeOK'
      BY <1>0, <2>1, <2>4, <2>5 DEF TypeOK
    <3>2. WalkInv'
      <4>1. h \notin lost /\ h # 0 /\ lost \subseteq 0..(size - 1)
        BY <1>0, <2>2, <2>3 DEF Available, TypeOK
      <4>2. \A i \in lost : chars'[i] = NULL
        BY <1>0, <2>4, <4>1 DEF WalkInv
      <4>3. chars'[0] = NULL
        BY <1>0, <2>3, <2>4, <4>1 DEF WalkInv
      <4> QED
        BY <1>0, <4>2, <4>3 DEF WalkInv
    <3> QED
      BY <2>6, <2>7, <3>1, <3>2 DEF IInv, FreeChain
  <2>9. DOMAIN chars = 0..(size - 1) /\ DOMAIN chars' = 0..(size - 1)
    BY <1>0, <2>4 DEF TypeOK
  <2> HIDE DEF h
  <2>10. /\ h \in Available \/ h = size
         /\ \A k \in Available : k >= h
         /\ h \in DOMAIN chars'
         /\ \A i \in DOMAIN chars :
              i # h => i \in DOMAIN chars' /\ chars'[i] = chars[i]
         /\ \A i \in DOMAIN chars' :
              i # h /\ i \notin DOMAIN chars => chars'[i] = NULL
         /\ h \in DOMAIN chars => chars[h] = NULL
    BY <2>2, <2>3, <2>4, <2>9
  <2> QED
    BY <2>8, <2>10
<1>2. CASE nextFree[0] = 0
  <2> DEFINE n == CalculateAllocation(size)
             f == (size + 1)..(n - 1)
  <2>1. size \in Nat /\ size >= 2 /\ n \in Nat /\ n >= size + 1 /\ size' = n
    BY <1>0, <1>2, Allocation DEF InsertChars, TypeOK
  <2>2. /\ nextFree' = [GrownNextFree(n) EXCEPT
                          ![0] = GrownNextFree(n)[size], ![size] = 0]
        /\ chars' = [GrownChars(n) EXCEPT ![size] = string]
    BY <1>2 DEF InsertChars, Fill
  <2> HIDE DEF n
  <2>3. /\ chars' \in [0..(n - 1) -> Strings \union {NULL}]
        /\ \A i \in 0..(n - 1) :
             chars'[i] = IF i = size THEN string
                         ELSE IF i < size THEN chars[i] ELSE NULL
    BY <1>0, <2>1, <2>2 DEF GrownChars, TypeOK
  <2>4. /\ nextFree' \in [0..(n - 1) -> Nat]
        /\ \A i \in f : nextFree'[i] = IF i = n - 1 THEN 0 ELSE i + 1
        /\ nextFree'[0] = IF size = n - 1 THEN 0 ELSE size + 1
    <3> DEFINE g == GrownNextFree(n)
    <3>1. /\ g \in [0..(n - 1) -> Nat]
          /\ \A i \in f \union {size} :
               g[i] = IF i = n - 1 THEN 0 ELSE i + 1
      BY <1>0, <2>1 DEF GrownNextFree, TypeOK
    <3>2. nextFree' = [g EXCEPT ![0] = g[size], ![size] = 0]
      BY <2>2
    <3> HIDE DEF g
    <3>3. g[size] \in Nat
      BY <2>1, <3>1
    <3>4. nextFree' \in [0..(n - 1) -> Nat] /\ nextFree'[0] = g[size]
      BY <2>1, <3>1, <3>2, <3>3
    <3>5. \A i \in f : nextFree'[i] = g[i]
      BY <2>1, <3>1, <3>2
    <3> QED
      BY <2>1, <3>1, <3>4, <3>5
  <2>5. Available = {}
    BY <1>2, ChainTypes DEF Chain
  <2>6. Available' = f
    <3>1. string # NULL
      BY TailAssumption
    <3>2. \A i \in 1..(size - 1) : chars[i] = NULL => i \in lost
      BY <1>0, <2>5 DEF Available
    <3>3. \A i \in lost : i < size /\ i \in Nat
      BY <1>0 DEF TypeOK
    <3>4. \A i : i \in Available' <=>
                   i \in 1..(n - 1) /\ chars'[i] = NULL /\ i \notin lost
      BY <1>0, <2>1 DEF Available
    <3>5. \A i \in 1..(n - 1) : chars'[i] = NULL /\ i \notin lost <=> i > size
      BY <2>1, <2>3, <3>1, <3>2, <3>3
    <3>6. \A i : i \in Available' <=> i \in f
      BY <2>1, <3>4, <3>5
    <3> QED
      BY <3>6
  <2>7. Chain(nextFree', f)
    BY <2>1, <2>4 DEF Chain
  <2>8. IInv'
    <3>1. TypeOK'
      BY <1>0, <2>1, <2>3, <2>4 DEF TypeOK
    <3>2. WalkInv'
      <4>1. \A i \in lost : i \in 0..(n - 1) /\ i < size /\ chars[i] = NULL
        BY <1>0, <2>1 DEF TypeOK, WalkInv
      <4> QED
        BY <1>0, <2>1, <2>3, <4>1 DEF WalkInv
    <3> QED
      BY <2>6, <2>7, <3>1, <3>2 DEF IInv, FreeChain
  <2>9. DOMAIN chars = 0..(size - 1) /\ DOMAIN chars' = 0..(n - 1)
    BY <1>0, <2>3 DEF TypeOK
  <2>10. /\ size \in DOMAIN chars'
         /\ \A k \in Available : k >= size
         /\ \A i \in DOMAIN chars :
              i # size => i \in DOMAIN chars' /\ chars'[i] = chars[i]
         /\ \A i \in DOMAIN chars' :
              i # size /\ i \notin DOMAIN chars => chars'[i] = NULL
         /\ size \notin DOMAIN chars
    BY <2>1, <2>3, <2>5, <2>9
  <2> QED
    BY <2>8, <2>10
<1> QED
  BY <1>1, <1>2

\* What freeing and linking do to the fields keeps the invariant: freeCell
\* empties a cell and links it in at once when it belongs at the head,
LEMMA FreeKeeps ==
  ASSUME IInv, NEW index \in DOMAIN chars, FreeCell(index)
  PROVE  /\ IInv'
         /\ \A i \in DOMAIN chars :
              i # index => i \in DOMAIN chars' /\ chars'[i] = chars[i]
         /\ DOMAIN chars' = DOMAIN chars /\ chars'[index] = NULL
<1>1. /\ TypeOK /\ WalkInv /\ pc = "idle" /\ size' = size /\ lost' = lost
      /\ size \in Nat /\ size >= 2
      /\ index \in 1..(size - 1) /\ chars[index] # NULL
      /\ chars' = [chars EXCEPT ![index] = NULL]
  BY DEF IInv, FreeCell, TypeOK, WalkInv
<1>2. /\ chars' \in [0..(size - 1) -> Strings \union {NULL}]
      /\ \A i \in 0..(size - 1) :
           chars'[i] = IF i = index THEN NULL ELSE chars[i]
  BY <1>1 DEF TypeOK
<1>3. index \notin Available /\ index \notin lost
  BY <1>1 DEF Available, WalkInv
<1>4. CASE nextFree[0] > index \/ nextFree[0] = 0
  <2>1. /\ nextFree' = [nextFree EXCEPT ![index] = nextFree[0], ![0] = index]
        /\ UNCHANGED <<pc, freeing, lastFree>>
    BY <1>1, <1>4 DEF FreeCell, TypeOK
  <2>2. /\ nextFree' \in [0..(size - 1) -> Nat]
        /\ \A i \in 0..(size - 1) :
             nextFree'[i] = IF i = 0 THEN index
                            ELSE IF i = index THEN nextFree[0]
                            ELSE nextFree[i]
    BY <1>1, <2>1, SMTT(60) DEF TypeOK
  <2>3. Available' = Available \union {index}
    <3>1. \A i \in 1..(size - 1) :
            chars'[i] = NULL <=> chars[i] = NULL \/ i = index
      BY <1>2
    <3> QED
      BY <1>1, <1>3, <2>1, <3>1 DEF Available
  <2>4. Chain(nextFree', Available \union {index})
    <3>1. nextFree'[index] = nextFree[0] /\ nextFree'[0] = index /\ index > 0
      BY <1>1, <2>2
    <3>2. \A i \in Available \union {0} : i # 0 => nextFree'[i] = nextFree[i]
      BY <1>3, <2>2, ChainTypes
    <3>3. index \in Nat /\ 0 \in Available \union {0} /\ 0 < index
      BY <1>1
    <3> QED
      BY <1>3, <1>4, <3>1, <3>2, <3>3, ChainTypes, ChainInsert
  <2>5. TypeOK'
    BY <1>1, <1>2, <2>1, <2>2 DEF TypeOK
  <2>6. WalkInv'
    BY <1>1, <1>2, <2>1 DEF WalkInv, TypeOK
  <2> QED
    BY <1>1, <1>2, <2>3, <2>4, <2>5, <2>6 DEF IInv, FreeChain
<1>5. CASE ~(nextFree[0] > index \/ nextFree[0] = 0)
  <2>1. /\ pc' = "walk" /\ freeing' = index /\ lastFree' = nextFree[0]
        /\ nextFree' = nextFree /\ nextFree[0] # 0 /\ nextFree[0] <= index
    BY <1>5 DEF FreeCell
  <2>2. Available' = Available
    <3>1. \A i \in 1..(size - 1) :
            chars'[i] = NULL <=> chars[i] = NULL \/ i = index
      BY <1>2
    <3>2. \A i : i \in Available' <=>
                   /\ i \in 1..(size - 1) /\ chars'[i] = NULL
                   /\ i \notin lost /\ i # index
      BY <1>1, <2>1 DEF Available
    <3>3. \A i : i \in Available <=>
                   i \in 1..(size - 1) /\ chars[i] = NULL /\ i \notin lost
      BY <1>1 DEF Available
    <3>4. \A i : i \in Available' <=> i \in Available
      BY <1>3, <3>1, <3>2, <3>3
    <3> QED
      BY <3>4
  <2>3. nextFree[0] \in Available /\ nextFree[0] \in Nat /\ nextFree[0] < index
    <3>1. nextFree[0] \in Available /\ nextFree[0] \in Nat
      BY <2>1, ChainTypes DEF Chain
    <3>2. nextFree[0] # index
      BY <1>3, <3>1
    <3> QED
      BY <1>1, <2>1, <3>1, <3>2
  <2>4. TypeOK'
    BY <1>1, <1>2, <2>1, <2>3 DEF TypeOK
  <2>5. WalkInv'
    BY <1>1, <1>2, <1>3, <2>1, <2>2, <2>3 DEF WalkInv, TypeOK
  <2>6. FreeChain'
    BY <2>1, <2>2, ChainTypes DEF FreeChain
  <2> QED
    BY <1>1, <1>2, <2>4, <2>5, <2>6 DEF IInv
<1> QED
  BY <1>4, <1>5

\* or, for a cell inside the chain, links it in behind lastFree at the end of
\* the walk.
LEMMA LinkKeeps ==
  ASSUME IInv, LinkCell
  PROVE  IInv' /\ chars' = chars
<1>1. /\ TypeOK /\ WalkInv /\ pc = "walk" /\ pc' = "idle"
      /\ size' = size /\ lost' = lost /\ chars' = chars
      /\ freeing' = freeing /\ lastFree' = lastFree
      /\ size \in Nat /\ size >= 2
      /\ freeing \in 1..(size - 1) /\ chars[freeing] = NULL
      /\ freeing \notin lost
      /\ lastFree \in Available /\ lastFree < freeing
      /\ nextFree' = [nextFree EXCEPT ![freeing] = nextFree[lastFree],
                                      ![lastFree] = freeing]
  BY DEF IInv, LinkCell, TypeOK, WalkInv
<1>2. /\ lastFree \in 1..(size - 1) /\ nextFree[lastFree] \in Nat
      /\ freeing \notin Available
  BY <1>1, ChainTypes DEF Available
<1>3. /\ nextFree' \in [0..(size - 1) -> Nat]
      /\ \A i \in 0..(size - 1) :
           nextFree'[i] = IF i = lastFree THEN freeing
                          ELSE IF i = freeing THEN nextFree[lastFree]
                          ELSE nextFree[i]
  BY <1>1, <1>2 DEF TypeOK
<1>4. Available' = Available \union {freeing}
  BY <1>1 DEF Available
<1>5. Chain(nextFree', Available \union {freeing})
  <2>1. nextFree[lastFree] = 0 \/ nextFree[lastFree] > freeing
    <3>1. nextFree[lastFree] # freeing
      BY <1>1, <1>2, ChainTypes DEF Chain
    <3>2. nextFree[lastFree] = 0 \/ ~(nextFree[lastFree] < freeing)
      BY DEF LinkCell, Walking
    <3> QED
      BY <1>1, <1>2, <3>1, <3>2
  <2>2. /\ nextFree'[freeing] = nextFree[lastFree]
        /\ nextFree'[lastFree] = freeing
    BY <1>1, <1>2, <1>3
  <2>3. \A i \in Available \union {0} :
           i # lastFree => nextFree'[i] = nextFree[i]
    BY <1>2, <1>1, <1>3, ChainTypes
  <2>4. freeing \in Nat /\ freeing > 0 /\ lastFree \in Available \union {0}
    BY <1>1
  <2>5. /\ \A i \in Available : i \in Nat /\ i > 0
        /\ \A i \in Available \union {0} : nextFree[i] \in Nat
        /\ Chain(nextFree, Available)
    BY ChainTypes
  <2>6. lastFree < freeing /\ freeing \notin Available
    BY <1>1, <1>2
  <2> QED
    BY <2>1, <2>2, <2>3, <2>4, <2>5, <2>6, ChainInsert, ZenonT(60)
<1>6. TypeOK'
  BY <1>1, <1>3 DEF TypeOK
<1>7. WalkInv'
  BY <1>1 DEF WalkInv
<1> QED
  BY <1>1, <1>4, <1>5, <1>6, <1>7 DEF IInv, FreeChain

\* A step of the walk stays among the available cells below the freed one.
LEMMA WalkKeeps ==
  ASSUME IInv, WalkStep
  PROVE  IInv' /\ chars' = chars
<1>1. /\ TypeOK /\ WalkInv /\ FreeChain /\ pc = "walk" /\ pc' = "walk"
      /\ UNCHANGED <<chars, nextFree, size, freeing, lost>>
      /\ lastFree' = nextFree[lastFree]
      /\ nextFree[lastFree] # 0 /\ nextFree[lastFree] < freeing
      /\ lastFree \in Available
  BY DEF IInv, WalkStep, Walking, cells, WalkInv
<1>2. lastFree' \in Available /\ lastFree' \in Nat
  BY <1>1, ChainTypes DEF Chain
<1>3. Available' = Available
  BY <1>1 DEF Available
<1>4. TypeOK'
  BY <1>1, <1>2 DEF TypeOK
<1>5. WalkInv'
  BY <1>1, <1>2, <1>3 DEF WalkInv
<1> QED
  BY <1>1, <1>3, <1>4, <1>5 DEF IInv, FreeChain

\* minimize gives the chain up and keeps every suffix.
LEMMA MinimizeKeeps ==
  ASSUME IInv, Minimize
  PROVE  /\ IInv'
         /\ \A i \in DOMAIN chars' : i \in DOMAIN chars /\ chars'[i] = chars[i]
         /\ \A i \in DOMAIN chars :
              chars[i] # NULL => i \in DOMAIN chars' /\ chars'[i] = chars[i]
<1>1. PICK last \in 1..(size - 1) : LastFilled(last) /\ CutTo(last + 1)
  BY DEF Minimize
<1> DEFINE n == last + 1
<1>2. /\ TypeOK /\ WalkInv /\ size \in Nat /\ size >= 2
      /\ pc = "idle" /\ pc' = "idle" /\ size' = n
      /\ freeing' = freeing /\ lastFree' = lastFree
      /\ n \in Nat /\ n >= 2 /\ n <= size
  BY <1>1 DEF IInv, Minimize, CutTo, TypeOK
<1>3. /\ chars' = [i \in 0..(n - 1) |-> chars[i]]
      /\ nextFree' = [i \in 0..(n - 1) |-> IF i = 0 THEN 0 ELSE nextFree[i]]
      /\ lost' = {i \in 1..(n - 1) : chars[i] = NULL}
  BY <1>1 DEF CutTo
<1>4. \A k \in 0..(size - 1) : k >= n => chars[k] = NULL
  BY <1>1, <1>2 DEF LastFilled
<1> HIDE DEF n
<1>5. /\ chars' \in [0..(n - 1) -> Strings \union {NULL}]
      /\ \A i \in 0..(n - 1) : chars'[i] = chars[i]
      /\ nextFree' \in [0..(n - 1) -> Nat] /\ nextFree'[0] = 0
  BY <1>2, <1>3 DEF TypeOK
<1>6. Available' = {}
  <2>1. \A i : i \in Available' <=>
                 i \in 1..(n - 1) /\ chars'[i] = NULL /\ i \notin lost'
    BY <1>2 DEF Available
  <2>2. \A i \in 1..(n - 1) : chars'[i] = NULL => i \in lost'
    BY <1>3, <1>5
  <2> QED
    BY <2>1, <2>2
<1>7. Chain(nextFree', {})
  BY <1>5 DEF Chain
<1>8. TypeOK'
  BY <1>2, <1>3, <1>5 DEF TypeOK
<1>9. WalkInv'
  BY <1>2, <1>3, <1>5 DEF WalkInv
<1>10. DOMAIN chars = 0..(size - 1) /\ DOMAIN chars' = 0..(n - 1)
  BY <1>2, <1>5 DEF TypeOK
<1>11. /\ \A i \in DOMAIN chars' : i \in DOMAIN chars /\ chars'[i] = chars[i]
       /\ \A i \in DOMAIN chars :
            chars[i] # NULL => i \in DOMAIN chars' /\ chars'[i] = chars[i]
  BY <1>2, <1>4, <1>5, <1>10
<1> QED
  BY <1>6, <1>7, <1>8, <1>9, <1>11 DEF IInv, FreeChain

\* Every step keeps the invariant.
LEMMA NextInv == IInv /\ [Next]_vars => IInv'
<1> SUFFICES ASSUME IInv, [Next]_vars PROVE IInv'
  OBVIOUS
<1>1. ASSUME NEW string \in Strings, InsertChars(string) PROVE IInv'
  BY <1>1, InsertKeeps
<1>2. ASSUME NEW index \in DOMAIN chars, FreeCell(index) PROVE IInv'
  BY <1>2, FreeKeeps
<1>3. CASE WalkStep
  BY <1>3, WalkKeeps
<1>4. CASE LinkCell
  BY <1>4, LinkKeeps
<1>5. CASE Minimize
  BY <1>5, MinimizeKeeps
<1>6. CASE UNCHANGED vars
  BY <1>6 DEF vars, cells, IInv, TypeOK, FreeChain, Available, WalkInv
<1> QED
  BY <1>1, <1>2, <1>3, <1>4, <1>5, <1>6 DEF Next

\* The invariant holds in every reachable state of the builder.
THEOREM Invariance == Spec => []IInv
<1> QED
  BY InitInv, NextInv, PTL DEF Spec

\* The fields have their types at every index below size.
THEOREM TypeCorrect == Spec => []TypeOK
<1>1. IInv => TypeOK
  BY DEF IInv
<1> QED
  BY <1>1, Invariance, PTL

\* The chain visits every available cell and nothing else, in ascending order.
THEOREM ChainCorrect == Spec => []FreeChain
<1>1. IInv => FreeChain
  BY DEF IInv
<1> QED
  BY <1>1, Invariance, PTL

\* A suffix stays where it is until its cell is freed.
THEOREM SuffixesStay == Spec => StringsKept
<1> DEFINE Kept == \A i \in DOMAIN chars : chars[i] # NULL =>
             /\ i \in DOMAIN chars'
             /\ chars'[i] # chars[i] =>
                  /\ chars'[i] = NULL
                  /\ \A k \in DOMAIN chars \ {i} :
                       k \in DOMAIN chars' /\ chars'[k] = chars[k]
<1>1. IInv /\ [Next]_vars => [Kept]_vars
  <2> SUFFICES ASSUME IInv, Next PROVE Kept
    OBVIOUS
  <2>1. ASSUME NEW string \in Strings, InsertChars(string) PROVE Kept
    <3>1. \A i \in DOMAIN chars : chars[i] # NULL =>
            i \in DOMAIN chars' /\ chars'[i] = chars[i]
      BY <2>1, InsertKeeps
    <3> QED
      BY <3>1
  <2>2. ASSUME NEW index \in DOMAIN chars, FreeCell(index) PROVE Kept
    <3>1. /\ \A i \in DOMAIN chars :
               i # index => i \in DOMAIN chars' /\ chars'[i] = chars[i]
          /\ DOMAIN chars' = DOMAIN chars /\ chars'[index] = NULL
      BY <2>2, FreeKeeps
    <3> QED
      BY <3>1
  <2>3. CASE WalkStep
    BY <2>3, WalkKeeps
  <2>4. CASE LinkCell
    BY <2>4, LinkKeeps
  <2>5. CASE Minimize
    BY <2>5, MinimizeKeeps
  <2> QED
    BY <2>1, <2>2, <2>3, <2>4, <2>5 DEF Next
<1> QED
  BY <1>1, Invariance, PTL DEF Spec, StringsKept

\* A suffix goes into the lowest available cell, or into the first new one
\* when there is none.
THEOREM LowestFirst == Spec => FirstFit
<1> DEFINE Fit == \A i \in DOMAIN chars' :
             chars'[i] # NULL /\ (i \in DOMAIN chars => chars[i] = NULL) =>
               /\ \A k \in Available : k >= i
               /\ i \in Available \/ i = size
<1>1. IInv /\ [Next]_vars => [Fit]_vars
  <2> SUFFICES ASSUME IInv, Next PROVE Fit
    OBVIOUS
  <2>1. ASSUME NEW string \in Strings, InsertChars(string) PROVE Fit
    <3>1. PICK n : /\ n \in Available \/ n = size
                   /\ \A k \in Available : k >= n
                   /\ \A i \in DOMAIN chars :
                        i # n => i \in DOMAIN chars' /\ chars'[i] = chars[i]
                   /\ \A i \in DOMAIN chars' :
                        i # n /\ i \notin DOMAIN chars => chars'[i] = NULL
      BY <2>1, InsertKeeps
    <3> QED
      BY <3>1
  <2>2. ASSUME NEW index \in DOMAIN chars, FreeCell(index) PROVE Fit
    BY <2>2, FreeKeeps
  <2>3. CASE WalkStep
    BY <2>3, WalkKeeps
  <2>4. CASE LinkCell
    BY <2>4, LinkKeeps
  <2>5. CASE Minimize
    BY <2>5, MinimizeKeeps
  <2> QED
    BY <2>1, <2>2, <2>3, <2>4, <2>5 DEF Next
<1> QED
  BY <1>1, Invariance, PTL DEF Spec, FirstFit

=============================================================================
