--------------------------- MODULE AutomatonProofs ----------------------------
(***************************************************************************)
(* The Aho-Corasick automaton is built and searched as promised, for every *)
(* set of needles, every trie that TrieShape allows them, every text and   *)
(* all options: the properties of module Automaton that Automaton.cfg      *)
(* checks, as theorems.                                                    *)
(*                                                                         *)
(* automaton_step follows fails until a state has the child.  A fail is    *)
(* shorter than its state, whatever the order of the visits; so the        *)
(* function of Step exists (SettledExists) and leads to a state            *)
(* (StepLands).  Without a tail it leads to a suffix of what was read      *)
(* (StepEnds), and to the longest one if the fails on the way are the      *)
(* longest (StepLongest).                                                  *)
(*                                                                         *)
(* Safe holds with all options and gives TypeOK, FailsShorten and          *)
(* OnlyOccurrencesInArray.  NearestOK adds what a queue guarantees: the    *)
(* states wait in the order of their lengths and none is left out, so that *)
(* the fails that a round of buildAutomaton follows are there.  With these *)
(* a search is always in the longest state possible, ReadingOK.  OnItsWay  *)
(* says how a needle is found in itself: it is a path of states that no    *)
(* leaf cuts short, so that no fail is ever followed.                      *)
(***************************************************************************)
EXTENDS Automaton, TLAPS, WellFoundedInduction, FiniteSetTheorems,
        SequenceTheorems

-----------------------------------------------------------------------------
(* Words *)

\* Words, and what it means that one ends in another.
Word == Seq(Nat)

\* The naturals are well founded.
LEMMA Least ==
  ASSUME NEW S, S \subseteq Nat, S # {}
  PROVE  \E m \in S : \A x \in S : m <= x
<1> DEFINE R == OpToRel(<, Nat)
<1>1. IsWellFoundedOn(R, Nat)
  BY NatLessThanWellFounded
<1>2. \A x, y \in Nat : x < y => <<x, y>> \in R
  BY Zenon DEF OpToRel
<1> HIDE DEF R
<1>3. PICK m \in S : \A y \in S : ~(<<y, m>> \in R)
  BY <1>1, WFMin
<1>4. \A x \in S : m <= x
  <2> SUFFICES ASSUME NEW x \in S PROVE m <= x
    OBVIOUS
  <2>1. m \in Nat /\ x \in Nat
    OBVIOUS
  <2>2. ~(x < m)
    BY <1>2, <1>3, <2>1
  <2> QED BY SMT, <2>1, <2>2
<1> QED BY <1>4

\* Min is the least of a set of naturals,
LEMMA MinIsLeast ==
  ASSUME NEW S, S \subseteq Nat, S # {}
  PROVE  Min(S) \in S /\ \A x \in S : Min(S) <= x
BY Zenon, Least DEF Min

\* A bounded set of naturals has a greatest member,
LEMMA Greatest ==
  ASSUME NEW S, S \subseteq Nat, S # {}, NEW n \in Nat, \A x \in S : x <= n
  PROVE  \E m \in S : \A x \in S : x <= m
<1> DEFINE U == {u \in Nat : \A x \in S : x <= u}
<1>1. U \subseteq Nat /\ U # {}
  OBVIOUS
<1>2. PICK m \in U : \A u \in U : m <= u
  BY <1>1, Least
<1>3. m \in S
  <2> SUFFICES ASSUME m \notin S PROVE FALSE
    OBVIOUS
  <2>1. m # 0
    <3> SUFFICES ASSUME m = 0 PROVE FALSE
      OBVIOUS
    <3>1. PICK x \in S : TRUE
      OBVIOUS
    <3>2. x \in Nat /\ x <= 0
      OBVIOUS
    <3>3. x = 0
      BY SMT, <3>2
    <3> QED BY <3>3
  <2>2. m - 1 \in Nat
    BY SMT, <2>1
  <2>3. \A x \in S : x <= m - 1
    <3> SUFFICES ASSUME NEW x \in S PROVE x <= m - 1
      OBVIOUS
    <3>1. x \in Nat /\ x <= m /\ x # m /\ m \in Nat
      OBVIOUS
    <3> QED BY SMT, <3>1
  <2>4. m - 1 \in U
    BY <2>2, <2>3
  <2>5. m <= m - 1 /\ m \in Nat
    BY <1>2, <2>4
  <2> QED BY SMT, <2>5
<1> QED BY <1>2, <1>3

\* and Max is that one.
LEMMA MaxIsGreatest ==
  ASSUME NEW S, S \subseteq Nat, S # {}, NEW n \in Nat, \A x \in S : x <= n
  PROVE  Max(S) \in S /\ \A x \in S : x <= Max(S)
<1>1. PICK m \in S : \A x \in S : x <= m
  BY Greatest
<1>2. \A x \in S : m >= x
  BY <1>1
<1>3. Max(S) \in S /\ \A x \in S : Max(S) >= x
  BY Zenon, <1>2 DEF Max
<1> QED BY <1>3


EndsIn(word, t) ==
  /\ Len(t) <= Len(word)
  /\ \A i \in 1..Len(t) : t[i] = word[Len(word) - Len(t) + i]

\* A word ends in itself and in nothing;
LEMMA EndsInReflexive ==
  ASSUME NEW s \in Word
  PROVE  EndsIn(s, s) /\ EndsIn(s, << >>)
<1>1. Len(s) \in Nat
  BY LenProperties DEF Word
<1> QED BY <1>1 DEF EndsIn

\* in what its ends end in;
LEMMA EndsInTransitive ==
  ASSUME NEW s \in Word, NEW t \in Word, NEW u \in Word,
         EndsIn(s, t), EndsIn(t, u)
  PROVE  EndsIn(s, u)
<1>1. Len(s) \in Nat /\ Len(t) \in Nat /\ Len(u) \in Nat
  BY LenProperties DEF Word
<1>2. Len(u) <= Len(t) /\ Len(t) <= Len(s)
  BY DEF EndsIn
<1>3. ASSUME NEW i \in 1..Len(u)
      PROVE  u[i] = s[Len(s) - Len(u) + i]
  <2>1. u[i] = t[Len(t) - Len(u) + i]
    BY DEF EndsIn
  <2> DEFINE j == Len(t) - Len(u) + i
  <2>2. j \in 1..Len(t) /\ Len(s) - Len(t) + j = Len(s) - Len(u) + i
    BY <1>1, <1>2
  <2>3. t[j] = s[Len(s) - Len(t) + j]
    BY <2>2 DEF EndsIn
  <2> QED BY <2>1, <2>2, <2>3
<1> QED BY <1>1, <1>2, <1>3 DEF EndsIn

\* of two ends of a word the longer one ends in the shorter one;
LEMMA EndsInNested ==
  ASSUME NEW s \in Word, NEW t \in Word, NEW u \in Word,
         EndsIn(s, t), EndsIn(s, u), Len(u) <= Len(t)
  PROVE  EndsIn(t, u)
<1>1. Len(s) \in Nat /\ Len(t) \in Nat /\ Len(u) \in Nat
  BY LenProperties DEF Word
<1>2. ASSUME NEW i \in 1..Len(u)
      PROVE  u[i] = t[Len(t) - Len(u) + i]
  <2>1. u[i] = s[Len(s) - Len(u) + i]
    BY DEF EndsIn
  <2> DEFINE j == Len(t) - Len(u) + i
  <2>2. j \in 1..Len(t) /\ Len(s) - Len(t) + j = Len(s) - Len(u) + i
    BY <1>1
  <2>3. t[j] = s[Len(s) - Len(t) + j]
    BY <2>2 DEF EndsIn
  <2> QED BY <2>1, <2>2, <2>3
<1> QED BY <1>2 DEF EndsIn

\* no other end is as long as the word;
LEMMA EndsInLongest ==
  ASSUME NEW s \in Word, NEW t \in Word, EndsIn(s, t), Len(s) <= Len(t)
  PROVE  t = s
<1>1. Len(s) \in Nat /\ Len(t) \in Nat
  BY LenProperties DEF Word
<1>2. Len(s) = Len(t)
  BY <1>1 DEF EndsIn
<1>3. \A i \in 1..Len(t) : t[i] = s[i]
  BY <1>1, <1>2 DEF EndsIn
<1> QED BY <1>2, <1>3, SeqEqual DEF Word

\* and the same character can be put behind both.
LEMMA EndsInAppend ==
  ASSUME NEW s \in Word, NEW u \in Word, NEW c \in Nat, EndsIn(s, u)
  PROVE  EndsIn(Append(s, c), Append(u, c))
<1>1. Len(s) \in Nat /\ Len(u) \in Nat /\ Len(u) <= Len(s)
  BY LenProperties DEF Word, EndsIn
<1>2. /\ Append(s, c) \in Word /\ Append(u, c) \in Word
      /\ Len(Append(s, c)) = Len(s) + 1 /\ Len(Append(u, c)) = Len(u) + 1
      /\ \A i \in 1..Len(s) : Append(s, c)[i] = s[i]
      /\ \A i \in 1..Len(u) : Append(u, c)[i] = u[i]
      /\ Append(s, c)[Len(s) + 1] = c /\ Append(u, c)[Len(u) + 1] = c
  BY AppendProperties DEF Word
<1>3. ASSUME NEW i \in 1..(Len(u) + 1)
      PROVE  Append(u, c)[i] = Append(s, c)[Len(s) + 1 - (Len(u) + 1) + i]
  <2>1. CASE i = Len(u) + 1
    <3>1. Len(s) + 1 - (Len(u) + 1) + i = Len(s) + 1
      BY <1>1, <2>1
    <3> QED BY <1>2, <2>1, <3>1
  <2>2. CASE i # Len(u) + 1
    <3> DEFINE j == Len(s) + 1 - (Len(u) + 1) + i
    <3>1. i \in 1..Len(u) /\ j \in 1..Len(s) /\ j = Len(s) - Len(u) + i
      BY <1>1, <2>2
    <3>2. u[i] = s[j]
      BY <3>1 DEF EndsIn
    <3> QED BY <1>2, <3>1, <3>2
  <2> QED BY <2>1, <2>2
<1> QED BY <1>1, <1>2, <1>3 DEF EndsIn

\* What the library says of prefixes,
LEMMA PrefixOf ==
  ASSUME NEW s \in Word, NEW k \in 0..Len(s)
  PROVE  /\ SubSeq(s, 1, k) \in Word /\ Len(SubSeq(s, 1, k)) = k
         /\ \A i \in 1..k : SubSeq(s, 1, k)[i] = s[i]
<1>1. Len(s) \in Nat /\ \A i \in 1..Len(s) : s[i] \in Nat
  BY LenProperties, ElementOfSeq DEF Word
<1>2. k \in Nat /\ 1 \in Int /\ k \in Int
  BY <1>1
<1>3. \A i \in 1..k : s[i] \in Nat
  BY <1>1, <1>2
<1>4. /\ SubSeq(s, 1, k) \in Seq(Nat)
      /\ Len(SubSeq(s, 1, k)) = IF 1 <= k THEN k - 1 + 1 ELSE 0
      /\ \A i \in 1..(k - 1 + 1) : SubSeq(s, 1, k)[i] = s[1 + i - 1]
  <2> PICK one \in Int : one = 1
    OBVIOUS
  <2>1. \A i \in one..k : s[i] \in Nat
    BY <1>3
  <2>2. /\ SubSeq(s, one, k) \in Seq(Nat)
        /\ Len(SubSeq(s, one, k)) = IF one <= k THEN k - one + 1 ELSE 0
        /\ \A i \in 1..(k - one + 1) : SubSeq(s, one, k)[i] = s[one + i - 1]
    BY <1>2, <2>1, SubSeqProperties
  <2> QED BY <2>2
<1>5. Len(SubSeq(s, 1, k)) = k
  BY <1>2, <1>4
<1>6. \A i \in 1..k : SubSeq(s, 1, k)[i] = s[i]
  <2> SUFFICES ASSUME NEW i \in 1..k PROVE SubSeq(s, 1, k)[i] = s[i]
    OBVIOUS
  <2>1. i \in 1..(k - 1 + 1) /\ 1 + i - 1 = i
    BY <1>2
  <2> QED BY <1>4, <2>1
<1> QED BY <1>4, <1>5, <1>6 DEF Word

\* of a character put behind a word,
LEMMA FrontAndLast ==
  ASSUME NEW s \in Word, NEW c \in Nat
  PROVE  /\ Append(s, c) \in Word /\ Append(s, c) # << >>
         /\ Len(s) \in Nat /\ Len(Append(s, c)) = Len(s) + 1
         /\ Front(Append(s, c)) = s /\ Last(Append(s, c)) = c
         /\ Append(s, c)[Len(s) + 1] = c
         /\ \A i \in 1..Len(s) : Append(s, c)[i] = s[i]
<1> PICK a : a = Append(s, c)
  OBVIOUS
<1>1. /\ a \in Word /\ a # << >> /\ Len(a) = Len(s) + 1 /\ Len(s) \in Nat
      /\ a[Len(s) + 1] = c /\ \A i \in 1..Len(s) : a[i] = s[i]
  BY AppendProperties, LenProperties DEF Word
<1>2. Last(a) = c
  BY <1>1 DEF Last
<1>3. Front(a) = s
  <2>1. Len(a) - 1 = Len(s) /\ Len(s) \in 0..Len(a)
    BY <1>1
  <2>2. /\ SubSeq(a, 1, Len(s)) \in Word /\ Len(SubSeq(a, 1, Len(s))) = Len(s)
        /\ \A i \in 1..Len(s) : SubSeq(a, 1, Len(s))[i] = a[i]
    BY <1>1, <2>1, PrefixOf
  <2>3. SubSeq(a, 1, Len(s)) = s
    BY <1>1, <2>2, SeqEqual DEF Word
  <2> QED BY <2>1, <2>3 DEF Front
<1> QED BY <1>1, <1>2, <1>3

\* and of a word taken apart again.
LEMMA FrontOfWord ==
  ASSUME NEW s \in Word, s # << >>
  PROVE  /\ Len(s) \in Nat /\ Len(s) > 0
         /\ Front(s) \in Word /\ Last(s) \in Nat
         /\ s = Append(Front(s), Last(s)) /\ Len(s) = Len(Front(s)) + 1
<1>1. PICK u \in Word, c \in Nat : s = Append(u, c)
  BY SequenceEmptyOrAppend DEF Word
<1>2. /\ Len(u) \in Nat /\ Len(s) = Len(u) + 1
      /\ Front(s) = u /\ Last(s) = c
  BY <1>1, FrontAndLast
<1> QED BY <1>1, <1>2

\* The last character taken away, an end is still one.
LEMMA EndsInFront ==
  ASSUME NEW s \in Word, NEW c \in Nat, NEW u \in Word, NEW d \in Nat,
         EndsIn(Append(s, c), Append(u, d))
  PROVE  d = c /\ EndsIn(s, u)
<1> PICK a, b : a = Append(s, c) /\ b = Append(u, d)
  OBVIOUS
<1>1. /\ Len(a) = Len(s) + 1 /\ a[Len(s) + 1] = c /\ Len(s) \in Nat
      /\ \A i \in 1..Len(s) : a[i] = s[i]
  BY FrontAndLast
<1>2. /\ Len(b) = Len(u) + 1 /\ b[Len(u) + 1] = d /\ Len(u) \in Nat
      /\ \A i \in 1..Len(u) : b[i] = u[i]
  BY FrontAndLast
<1>3. /\ Len(u) + 1 <= Len(s) + 1
      /\ \A i \in 1..(Len(u) + 1) : b[i] = a[Len(s) + 1 - (Len(u) + 1) + i]
  <2>1. EndsIn(a, b)
    OBVIOUS
  <2> QED BY <1>1, <1>2, <2>1 DEF EndsIn
<1>4. c = d
  <2>1. /\ Len(u) + 1 \in 1..(Len(u) + 1)
        /\ Len(s) + 1 - (Len(u) + 1) + (Len(u) + 1) = Len(s) + 1
    BY <1>1, <1>2
  <2> QED BY <1>1, <1>2, <1>3, <2>1
<1>5. ASSUME NEW i \in 1..Len(u)
      PROVE  u[i] = s[Len(s) - Len(u) + i]
  <2> DEFINE j == Len(s) - Len(u) + i
  <2>1. /\ i \in 1..(Len(u) + 1) /\ j \in 1..Len(s)
        /\ Len(s) + 1 - (Len(u) + 1) + i = j
    BY <1>1, <1>2, <1>3
  <2>2. b[i] = a[j]
    BY <1>3, <2>1
  <2> QED BY <1>1, <1>2, <2>1, <2>2
<1>6. Len(u) <= Len(s)
  BY <1>1, <1>2, <1>3
<1> QED BY <1>4, <1>5, <1>6 DEF EndsIn

\* Suffixes of the library
LEMMA SuffixesEnd ==
  ASSUME NEW s \in Word
  PROVE  Suffixes(s) = {t \in Word : EndsIn(s, t)}
<1>1. Len(s) \in Nat /\ \A i \in 1..Len(s) : s[i] \in Nat
  BY LenProperties, ElementOfSeq DEF Word
<1>2. ASSUME NEW l \in 1..Len(s)
      PROVE  /\ SubSeq(s, l, Len(s)) \in Word
             /\ EndsIn(s, SubSeq(s, l, Len(s)))
             /\ Len(SubSeq(s, l, Len(s))) = Len(s) - l + 1
  <2>1. l \in Int /\ Len(s) \in Int /\ \A i \in l..Len(s) : s[i] \in Nat
    BY <1>1
  <2> PICK t : t = SubSeq(s, l, Len(s))
    OBVIOUS
  <2>2. /\ t \in Seq(Nat)
        /\ Len(t) = IF l <= Len(s) THEN Len(s) - l + 1 ELSE 0
        /\ \A i \in 1..(Len(s) - l + 1) : t[i] = s[l + i - 1]
    BY <2>1, SubSeqProperties
  <2>3. Len(t) = Len(s) - l + 1 /\ Len(t) <= Len(s)
    BY <1>1, <2>2
  <2>4. ASSUME NEW i \in 1..Len(t) PROVE t[i] = s[Len(s) - Len(t) + i]
    <3>1. i \in 1..(Len(s) - l + 1) /\ Len(s) - Len(t) + i = l + i - 1
      BY <1>1, <2>3
    <3> QED BY <2>2, <3>1
  <2> QED BY <2>2, <2>3, <2>4 DEF EndsIn, Word
<1>3. << >> \in Word /\ EndsIn(s, << >>)
  BY EndsInReflexive, EmptySeq DEF Word
<1>4. ASSUME NEW t \in Word, EndsIn(s, t), t # << >>
      PROVE  \E l \in 1..Len(s) : t = SubSeq(s, l, Len(s))
  <2>1. Len(t) \in Nat /\ Len(t) > 0 /\ Len(t) <= Len(s)
    BY <1>4, FrontOfWord DEF EndsIn
  <2> PICK l : l = Len(s) - Len(t) + 1
    OBVIOUS
  <2>2. l \in 1..Len(s) /\ Len(s) - l + 1 = Len(t)
    BY <1>1, <2>1
  <2> PICK u : u = SubSeq(s, l, Len(s))
    OBVIOUS
  <2>3. u \in Word /\ EndsIn(s, u) /\ Len(u) = Len(t)
    BY <1>2, <2>2
  <2>4. Len(t) <= Len(u) /\ Len(u) <= Len(t)
    BY <2>1, <2>3
  <2>5. EndsIn(u, t)
    BY Zenon, <1>4, <2>3, <2>4, EndsInNested
  <2>6. t = u
    BY Zenon, <1>4, <2>3, <2>4, <2>5, EndsInLongest
  <2> QED BY <2>2, <2>6
<1> QED BY <1>2, <1>3, <1>4 DEF Suffixes

-----------------------------------------------------------------------------
(* Finite sets and sequences *)

\* A finite set has a bound for a function to the naturals.
LEMMA FiniteIsBounded ==
  ASSUME NEW S, IsFiniteSet(S), NEW h, \A x \in S : h[x] \in Nat
  PROVE  \E b \in Nat : \A x \in S : h[x] <= b
<1>1. PICK n \in Nat : ExistsSurjection(1..n, S)
  BY FS_NatSurjection
<1>2. PICK f \in [1..n -> S] : \A x \in S : \E i \in 1..n : f[i] = x
  BY <1>1, Zenon DEF ExistsSurjection, Surjection
<1> DEFINE Bad == {m \in Nat : m <= n /\
                     ~ \E b \in Nat : \A i \in 1..m : h[f[i]] <= b}
<1>3. Bad = {}
  <2> SUFFICES ASSUME Bad # {} PROVE FALSE
    OBVIOUS
  <2>1. Bad \subseteq Nat
    OBVIOUS
  <2>2. PICK m \in Bad : \A x \in Bad : m <= x
    BY Least, <2>1
  <2>3. m \in Nat /\ m <= n /\ ~ \E b \in Nat : \A i \in 1..m : h[f[i]] <= b
    OBVIOUS
  <2>4. m # 0
    <3> SUFFICES ASSUME m = 0 PROVE FALSE
      OBVIOUS
    <3>1. \A i \in 1..m : h[f[i]] <= 0
      OBVIOUS
    <3> QED BY <2>3, <3>1
  <2>5. m - 1 \in Nat /\ m - 1 <= n /\ ~(m <= m - 1)
    BY <2>3, <2>4
  <2>6. m - 1 \notin Bad
    BY <2>2, <2>5
  <2>7. PICK b \in Nat : \A i \in 1..(m - 1) : h[f[i]] <= b
    BY <2>5, <2>6
  <2>8. m \in 1..n
    BY <2>3, <2>4
  <2>9. h[f[m]] \in Nat
    BY <1>2, <2>8
  <2>10. PICK d \in Nat : b <= d /\ h[f[m]] <= d
    <3>1. \A x, y \in Nat : x <= x + y /\ y <= x + y /\ x + y \in Nat
      OBVIOUS
    <3> QED BY Zenon, <2>9, <3>1
  <2>11. \A i \in 1..m : h[f[i]] <= d
    <3> SUFFICES ASSUME NEW i \in 1..m PROVE h[f[i]] <= d
      OBVIOUS
    <3>1. i \in 1..n /\ h[f[i]] \in Nat
      <4>1. i \in 1..n
        BY <2>3
      <4> QED BY <1>2, <4>1
    <3>2. CASE i = m
      BY <2>10, <3>2
    <3>3. CASE i # m
      <4>1. i \in 1..(m - 1)
        BY <2>3, <3>3
      <4>2. h[f[i]] <= b
        BY <2>7, <4>1
      <4>3. \A x, y, z \in Nat : x <= y /\ y <= z => x <= z
        OBVIOUS
      <4> QED BY Zenon, <2>10, <3>1, <4>2, <4>3
    <3> QED BY <3>2, <3>3
  <2> QED BY <2>3, <2>11
<1>4. n \notin Bad
  BY <1>3
<1>5. PICK b \in Nat : \A i \in 1..n : h[f[i]] <= b
  BY <1>4
<1>6. \A x \in S : h[x] <= b
  BY <1>2, <1>5
<1> QED BY <1>6

\* A finite set of naturals has an enumeration in ascending order.
LEMMA Enumeration ==
  ASSUME NEW S, IsFiniteSet(S), S \subseteq Nat
  PROVE  \E q \in SetToSeqs(S) : \A k \in 2..Len(q) : q[k - 1] < q[k]
<1> DEFINE Q(T) == \E q \in Seq(Nat) :
                     /\ Len(q) = Cardinality(T)
                     /\ \A i \in 1..Len(q) : q[i] \in T
                     /\ \A i, j \in 1..Len(q) : i < j => q[i] < q[j]
           Bad == {n \in Nat : \E T \in SUBSET S : Cardinality(T) = n /\ ~Q(T)}
<1>1. Bad = {}
  <2> SUFFICES ASSUME Bad # {} PROVE FALSE
    OBVIOUS
  <2>1. PICK n \in Bad : \A x \in Bad : n <= x
    <3>1. Bad \subseteq Nat
      OBVIOUS
    <3> HIDE DEF Bad
    <3> QED BY Least, <3>1
  <2>2. PICK T \in SUBSET S : Cardinality(T) = n /\ ~Q(T)
    OBVIOUS
  <2>3. IsFiniteSet(T) /\ T \subseteq Nat /\ n \in Nat
    BY FS_Subset
  <2>4. T # {}
    <3> SUFFICES ASSUME T = {} PROVE FALSE
      OBVIOUS
    <3>1. Cardinality(T) = 0
      BY FS_EmptySet
    <3>2. << >> \in Seq(Nat) /\ Len(<< >>) = 0
      BY EmptySeq
    <3> PICK q : q = << >>
      OBVIOUS
    <3>3. /\ q \in Seq(Nat) /\ Len(q) = Cardinality(T)
          /\ \A i \in 1..Len(q) : FALSE
      BY <3>1, <3>2
    <3>4. Q(T)
      BY Zenon, <3>3
    <3> QED BY <2>2, <3>4
  <2>5. PICK m \in T : \A x \in T : x <= m
    <3> PICK h : h = [x \in T |-> x]
      OBVIOUS
    <3>1. PICK b \in Nat : \A x \in T : h[x] <= b
      <4>1. \A x \in T : h[x] \in Nat
        BY <2>3
      <4> QED BY <2>3, <4>1, FiniteIsBounded
    <3>2. \A x \in T : x <= b
      BY <3>1
    <3> QED BY <2>3, <2>4, <3>2, Greatest
  <2> PICK U : U = T \ {m}
    OBVIOUS
  <2>6. U \in SUBSET S /\ Cardinality(U) = n - 1
    BY <2>2, <2>3, <2>5, FS_RemoveElement
  <2>7. n - 1 \in Nat /\ ~(n <= n - 1)
    <3>1. IsFiniteSet(U)
      BY <2>6, FS_Subset
    <3>2. Cardinality(U) \in Nat
      BY <3>1, FS_CardinalityType
    <3> QED BY <2>3, <2>6, <3>2
  <2>8. Q(U)
    <3>1. n - 1 \notin Bad
      BY <2>1, <2>7
    <3> QED BY <2>6, <2>7, <3>1
  <2>9. PICK q \in Seq(Nat) :
          /\ Len(q) = Cardinality(U) /\ \A i \in 1..Len(q) : q[i] \in U
          /\ \A i, j \in 1..Len(q) : i < j => q[i] < q[j]
    BY <2>8
  <2> PICK r : r = Append(q, m)
    OBVIOUS
  <2>10. /\ r \in Seq(Nat) /\ Len(r) = Len(q) + 1 /\ Len(q) \in Nat
         /\ r[Len(q) + 1] = m /\ \A i \in 1..Len(q) : r[i] = q[i]
    <3>1. m \in Nat
      BY <2>3
    <3> QED BY <3>1, AppendProperties, LenProperties
  <2>11. \A i \in 1..Len(r) : r[i] \in T
    <3> SUFFICES ASSUME NEW i \in 1..Len(r) PROVE r[i] \in T
      OBVIOUS
    <3>1. i = Len(q) + 1 \/ i \in 1..Len(q)
      BY <2>10
    <3> QED BY <2>9, <2>10, <3>1
  <2>12. \A i, j \in 1..Len(r) : i < j => r[i] < r[j]
    <3> SUFFICES ASSUME NEW i \in 1..Len(r), NEW j \in 1..Len(r), i < j
                 PROVE  r[i] < r[j]
      OBVIOUS
    <3>1. i \in 1..Len(q)
      BY <2>10
    <3>2. r[i] = q[i] /\ q[i] \in U
      BY <2>9, <2>10, <3>1
    <3>3. CASE j \in 1..Len(q)
      <4>1. q[i] < q[j] /\ r[j] = q[j]
        BY <2>9, <2>10, <3>1, <3>3
      <4> QED BY <3>2, <4>1
    <3>4. CASE j = Len(q) + 1
      <4>1. r[j] = m /\ q[i] <= m /\ q[i] # m /\ q[i] \in Nat /\ m \in Nat
        BY <2>3, <2>5, <2>10, <3>2, <3>4
      <4> QED BY <3>2, <4>1
    <3>5. j = Len(q) + 1 \/ j \in 1..Len(q)
      BY <2>10
    <3> QED BY <3>3, <3>4, <3>5
  <2>13. Len(r) = Cardinality(T)
    BY <2>2, <2>3, <2>6, <2>9, <2>10
  <2>14. Q(T)
    BY <2>10, <2>11, <2>12, <2>13
  <2> QED BY <2>2, <2>14
<1>2. Cardinality(S) \in Nat
  BY FS_CardinalityType
<1>3. Q(S)
  BY <1>1, <1>2
<1>4. PICK q \in Seq(Nat) :
        /\ Len(q) = Cardinality(S) /\ \A i \in 1..Len(q) : q[i] \in S
        /\ \A i, j \in 1..Len(q) : i < j => q[i] < q[j]
  BY <1>3
<1> HIDE DEF Q, Bad
<1>5. q \in [1..Cardinality(S) -> S]
  <2>1. q \in [1..Len(q) -> Nat]
    BY LenProperties
  <2> QED BY <1>4, <2>1
<1>6. \A i, j \in 1..Cardinality(S) : i # j => q[i] # q[j]
  <2> SUFFICES ASSUME NEW i \in 1..Cardinality(S), NEW j \in 1..Cardinality(S),
                      i # j
               PROVE  q[i] # q[j]
    OBVIOUS
  <2>1. q[i] \in Nat /\ q[j] \in Nat
    BY <1>4
  <2>2. i < j \/ j < i
    BY <1>2
  <2>3. q[i] < q[j] \/ q[j] < q[i]
    BY <1>4, <2>2
  <2> QED BY <2>1, <2>3
<1>7. q \in SetToSeqs(S)
  BY Zenon, <1>5, <1>6 DEF SetToSeqs
<1>8. \A k \in 2..Len(q) : q[k - 1] < q[k]
  <2> SUFFICES ASSUME NEW k \in 2..Len(q) PROVE q[k - 1] < q[k]
    OBVIOUS
  <2>1. k - 1 \in 1..Len(q) /\ k \in 1..Len(q) /\ k - 1 < k
    BY <1>2, <1>4
  <2> QED BY <1>4, <2>1
<1> QED BY <1>7, <1>8

\* and every enumeration has all its members.
LEMMA EnumerationIsOnto ==
  ASSUME NEW S, IsFiniteSet(S), NEW q \in SetToSeqs(S)
  PROVE  DOMAIN q = 1..Cardinality(S) /\ ToSet(q) = S
<1>1. q \in [1..Cardinality(S) -> S]
  BY DEF SetToSeqs
<1>2. \A i, j \in 1..Cardinality(S) : i # j => q[i] # q[j]
  BY DEF SetToSeqs
<1> PICK D : D = 1..Cardinality(S)
  OBVIOUS
<1>3. Cardinality(S) \in Nat
  BY FS_CardinalityType
<1>4. IsFiniteSet(D) /\ Cardinality(D) = Cardinality(S)
  <2> PICK one, n \in Int : one = 1 /\ n = Cardinality(S)
    BY <1>3
  <2>1. /\ IsFiniteSet(one..n)
        /\ Cardinality(one..n) = IF one > n THEN 0 ELSE n - one + 1
    BY FS_Interval
  <2> QED BY <1>3, <2>1
<1>5. q \in Injection(D, S)
  <2>1. DOMAIN q = D
    BY <1>1
  <2>2. IsInjective(q)
    BY Zenon, <1>2, <2>1 DEF IsInjective
  <2> QED BY <1>1, <2>2 DEF Injection
<1>6. q \in Surjection(D, S)
  BY <1>4, <1>5, FS_Injection
<1>7. \A x \in S : \E i \in D : q[i] = x
  BY <1>6 DEF Surjection
<1>8. ToSet(q) = S
  BY <1>1, <1>7 DEF ToSet
<1> QED BY <1>1, <1>8

-----------------------------------------------------------------------------
(* The trie *)

Plain(s) == \A k \in 1..Len(s) : s[k] > END_OF_TEXT

States == {s \in cells : Plain(s)}

TrieOK ==
  /\ useTail \in BOOLEAN /\ breadthFirst \in BOOLEAN
  /\ DOMAIN end \in Dictionaries
  /\ \A w \in DOMAIN end : end[w] \in EndCells(DOMAIN end, useTail, w)
  /\ cells = Nodes({end[w] : w \in DOMAIN end})

\* Where a needle ends: behind its last character or before it.
EndsAt(w, e) ==
  /\ e \in Word /\ Len(e) \in 1..(Len(w) + 1)
  /\ \A i \in 1..Len(e) :
       IF i <= Len(w) THEN e[i] = w[i] ELSE e[i] = END_OF_TEXT
  /\ \/ e = Append(w, END_OF_TEXT)
     \/ /\ useTail /\ Len(e) \in 1..(Len(w) - 1) /\ e = SubSeq(w, 1, Len(e))
        /\ Len(e) > Shared(DOMAIN end, w)

Needles ==
  /\ IsFiniteSet(DOMAIN end) /\ useTail \in BOOLEAN
  /\ \A w \in DOMAIN end :
       w \in Word /\ Len(w) \in Nat /\ w # << >> /\ Plain(w)

\* The needles of a trie are words without an end of text.
LEMMA DictionaryOfTrie ==
  ASSUME TrieOK
  PROVE  Needles
<1>1. DOMAIN end \in Dictionaries
  BY DEF TrieOK
<1>2. IsFiniteSet(DOMAIN end) /\ \A w \in DOMAIN end : w # << >>
  BY <1>1, AutomatonAssumption
<1>3. ASSUME NEW w \in DOMAIN end
      PROVE  w \in Word /\ Len(w) \in Nat /\ Plain(w)
  <2>1. w \in UNION Dictionaries
    BY <1>1
  <2>2. w \in (UNION Dictionaries) \union Texts
    BY <2>1
  <2>3. w \in Seq(Nat)
    BY <2>2, AutomatonAssumption, Zenon
  <2>4. \A k \in DOMAIN w : w[k] > END_OF_TEXT
    BY <2>2, AutomatonAssumption, Zenon
  <2>5. DOMAIN w = 1..Len(w) /\ Len(w) \in Nat
    BY <2>3, LenProperties
  <2> QED BY <2>3, <2>4, <2>5 DEF Word, Plain
<1> QED BY <1>2, <1>3 DEF Needles, TrieOK

\* A common prefix of two words
Agree(w, v, k) == \A i \in 1..k : w[i] = v[i]

\* is no longer than the longest one of the library,
LEMMA CommonPrefix ==
  ASSUME NEW w \in Word, NEW v \in Word, NEW k \in 0..Len(w), k <= Len(v),
         Agree(w, v, k)
  PROVE  /\ Len(LongestCommonPrefix({w, v})) \in Nat
         /\ k <= Len(LongestCommonPrefix({w, v}))
         /\ Len(LongestCommonPrefix({w, v})) <= Len(w)
<1> PICK P : P = CommonPrefixes({w, v})
  OBVIOUS
<1>1. Len(w) \in Nat /\ Len(v) \in Nat /\ k \in Nat
  BY LenProperties DEF Word
<1> PICK p : p = SubSeq(w, 1, k)
  OBVIOUS
<1>2. p \in Word /\ Len(p) = k /\ \A i \in 1..k : p[i] = w[i]
  BY PrefixOf
<1>3. SubSeq(v, 1, k) = p
  <2>1. k \in 0..Len(v)
    BY <1>1
  <2>2. /\ SubSeq(v, 1, k) \in Word /\ Len(SubSeq(v, 1, k)) = k
        /\ \A i \in 1..k : SubSeq(v, 1, k)[i] = v[i]
    BY <2>1, PrefixOf
  <2>3. \A i \in 1..Len(p) : p[i] = SubSeq(v, 1, k)[i]
    BY <1>2, <2>2 DEF Agree
  <2> QED BY <1>2, <2>2, <2>3, SeqEqual DEF Word
<1>4. SubSeq(p, 1, k) = p
  BY <1>2, SubSeqFull DEF Word
<1>5. p \in P
  <2>1. p \in Prefixes(w)
    BY DEF Prefixes
  <2>2. IsPrefix(p, w) /\ IsPrefix(p, v)
    BY <1>1, <1>2, <1>3, <1>4 DEF IsPrefix
  <2> QED BY <2>1, <2>2 DEF CommonPrefixes
<1>6. \A q \in P : Len(q) \in Nat /\ Len(q) <= Len(w)
  <2> SUFFICES ASSUME NEW q \in P PROVE Len(q) \in Nat /\ Len(q) <= Len(w)
    OBVIOUS
  <2>1. q \in Prefixes(w) \/ q \in Prefixes(v)
    BY DEF CommonPrefixes
  <2>2. IsPrefix(q, w)
    BY DEF CommonPrefixes
  <2>3. Len(q) \in Nat
    <3>1. ASSUME NEW u \in Word, q \in Prefixes(u) PROVE Len(q) \in Nat
      <4>1. PICK l \in 0..Len(u) : q = SubSeq(u, 1, l)
        BY <3>1 DEF Prefixes
      <4>2. Len(q) = l /\ Len(u) \in Nat
        BY <4>1, PrefixOf, LenProperties DEF Word
      <4> QED BY <4>2
    <3> QED BY <2>1, <3>1
  <2> QED BY <2>2, <2>3 DEF IsPrefix
<1> DEFINE Lengths == {Len(q) : q \in P}
<1>7. \E m \in Lengths : \A x \in Lengths : x <= m
  <2>1. Lengths \subseteq Nat /\ Lengths # {} /\ \A x \in Lengths : x <= Len(w)
    BY <1>5, <1>6
  <2> HIDE DEF Lengths
  <2> QED BY <1>1, <2>1, Greatest
<1>8. \E longest \in P : \A other \in P : Len(other) <= Len(longest)
  BY <1>7
<1>9. /\ LongestCommonPrefix({w, v}) \in P
      /\ \A other \in P : Len(other) <= Len(LongestCommonPrefix({w, v}))
  <2>1. LongestCommonPrefix({w, v})
          = CHOOSE longest \in P : \A other \in P : Len(other) <= Len(longest)
    BY Zenon DEF LongestCommonPrefix
  <2> QED BY Zenon, <1>8, <2>1
<1> QED BY <1>2, <1>5, <1>6, <1>9

\* and Shared is as long as the longest that a word has with another.
LEMMA SharedIsLongest ==
  ASSUME NEW words, \A w \in words : w \in Word, NEW w \in words
  PROVE  /\ Shared(words, w) \in Nat
         /\ \A v \in words : \A k \in 1..Len(w) :
              v # w /\ k <= Len(v) /\ Agree(w, v, k) => k <= Shared(words, w)
<1> PICK S : S = {0} \union {Len(LongestCommonPrefix({w, other})) :
                               other \in words \ {w}}
  OBVIOUS
<1>1. w \in Word /\ Len(w) \in Nat
  BY LenProperties DEF Word
<1>2. ASSUME NEW v \in words
      PROVE  /\ Len(LongestCommonPrefix({w, v})) \in Nat
             /\ Len(LongestCommonPrefix({w, v})) <= Len(w)
  <2>1. v \in Word /\ Len(v) \in Nat
    BY LenProperties DEF Word
  <2> PICK k : k = 0
    OBVIOUS
  <2>2. k \in 0..Len(w) /\ k <= Len(v)
    BY <1>1, <2>1
  <2>3. Agree(w, v, k)
    BY DEF Agree
  <2> QED BY <1>1, <2>1, <2>2, <2>3, CommonPrefix
<1>3. S \subseteq Nat /\ S # {} /\ \A x \in S : x <= Len(w)
  <2>1. 0 \in S
    OBVIOUS
  <2>2. ASSUME NEW x \in S PROVE x \in Nat /\ x <= Len(w)
    <3>1. CASE x = 0
      BY <1>1, <3>1
    <3>2. CASE x # 0
      <4>1. PICK v \in words : x = Len(LongestCommonPrefix({w, v}))
        BY <3>2
      <4> QED BY <1>2, <4>1
    <3> QED BY <3>1, <3>2
  <2> QED BY <2>1, <2>2
<1>4. Max(S) \in S /\ \A x \in S : x <= Max(S)
  BY <1>1, <1>3, MaxIsGreatest
<1>5. Shared(words, w) = Max(S)
  BY DEF Shared
<1>6. ASSUME NEW v \in words, NEW k \in 1..Len(w), v # w, k <= Len(v),
             Agree(w, v, k)
      PROVE  k <= Max(S)
  <2>1. v \in Word /\ k \in 0..Len(w)
    BY <1>1
  <2> PICK l : l = Len(LongestCommonPrefix({w, v}))
    OBVIOUS
  <2>2. l \in Nat /\ k <= l
    BY <1>1, <1>6, <2>1, CommonPrefix
  <2>3. l \in S
    BY <1>6
  <2> PICK m : m = Max(S)
    OBVIOUS
  <2>4. l <= m /\ m \in Nat /\ k \in Nat
    <3>1. k \in Nat
      BY <2>2
    <3> QED BY Zenon, <1>3, <1>4, <2>3, <3>1
  <2>5. k <= m
    BY <2>2, <2>4
  <2> QED BY <2>5
<1> QED BY <1>3, <1>4, <1>5, <1>6

\* A needle ends in the trie where EndCells lets it,
LEMMA EndOfNeedle ==
  ASSUME TrieOK, NEW w \in DOMAIN end
  PROVE  EndsAt(w, end[w])
<1> PICK e : e = end[w]
  OBVIOUS
<1>1. e \in EndCells(DOMAIN end, useTail, w)
  BY DEF TrieOK
<1>2. w \in Word /\ Len(w) \in Nat /\ w # << >>
  BY DictionaryOfTrie DEF Needles
<1>3. Len(w) > 0
  BY <1>2, FrontOfWord
<1>4. CASE e = Append(w, END_OF_TEXT)
  <2>1. END_OF_TEXT \in Nat
    BY DEF END_OF_TEXT
  <2> PICK c \in Nat : c = END_OF_TEXT
    BY <2>1
  <2>2. /\ e \in Word /\ Len(e) = Len(w) + 1 /\ e[Len(w) + 1] = END_OF_TEXT
        /\ \A i \in 1..Len(w) : e[i] = w[i]
    <3>1. e = Append(w, c)
      BY <1>4
    <3>2. /\ Append(w, c) \in Word /\ Len(Append(w, c)) = Len(w) + 1
          /\ Append(w, c)[Len(w) + 1] = c
          /\ \A i \in 1..Len(w) : Append(w, c)[i] = w[i]
      BY Zenon, <1>2, FrontAndLast
    <3> QED BY <3>1, <3>2
  <2>3. \A i \in 1..Len(e) :
          IF i <= Len(w) THEN e[i] = w[i] ELSE e[i] = END_OF_TEXT
    <3> SUFFICES ASSUME NEW i \in 1..Len(e)
                 PROVE  IF i <= Len(w) THEN e[i] = w[i] ELSE e[i] = END_OF_TEXT
      OBVIOUS
    <3>1. CASE i <= Len(w)
      <4>1. i \in 1..Len(w)
        BY <1>2, <2>2, <3>1
      <4> QED BY <2>2, <3>1, <4>1
    <3>2. CASE ~(i <= Len(w))
      <4>1. i = Len(w) + 1
        BY <1>2, <2>2, <3>2
      <4> QED BY <2>2, <3>2, <4>1
    <3> QED BY <3>1, <3>2
  <2>4. Len(e) \in 1..(Len(w) + 1)
    BY <1>2, <2>2
  <2> QED BY <1>4, <2>2, <2>3, <2>4 DEF EndsAt
<1>5. CASE e # Append(w, END_OF_TEXT)
  <2> PICK n : n = Shared(DOMAIN end, w)
    OBVIOUS
  <2>1. useTail /\ \E k \in n + 1 .. Len(w) - 1 : e = SubSeq(w, 1, k)
    BY <1>1, <1>5 DEF EndCells
  <2>2. PICK k \in n + 1 .. Len(w) - 1 : e = SubSeq(w, 1, k)
    BY <2>1
  <2>3. n \in Nat
    BY SharedIsLongest, DictionaryOfTrie DEF Needles
  <2>4. k \in Nat /\ k \in 1..(Len(w) - 1) /\ k > n /\ k \in 0..Len(w)
    BY <1>2, <2>3
  <2>5. /\ e \in Word /\ Len(e) = k /\ \A i \in 1..k : e[i] = w[i]
    BY <1>2, <2>2, <2>4, PrefixOf
  <2>6. \A i \in 1..Len(e) :
          IF i <= Len(w) THEN e[i] = w[i] ELSE e[i] = END_OF_TEXT
    <3> SUFFICES ASSUME NEW i \in 1..Len(e) PROVE i <= Len(w) /\ e[i] = w[i]
      OBVIOUS
    <3>1. i <= Len(w)
      BY <1>2, <2>4, <2>5
    <3> QED BY <2>5, <3>1
  <2>7. Len(e) \in 1..(Len(w) + 1)
    BY <1>2, <2>4, <2>5
  <2> QED BY <2>1, <2>2, <2>4, <2>5, <2>6, <2>7 DEF EndsAt
<1> QED BY <1>4, <1>5

\* Every cell but the root leads to the end of a needle
LEMMA CellsArePrefixes ==
  ASSUME TrieOK
  PROVE  /\ cells \subseteq Word /\ Root \in cells
         /\ \A w \in DOMAIN end : \A k \in 1..Len(end[w]) :
              SubSeq(end[w], 1, k) \in cells
         /\ \A s \in cells : s # Root =>
              \E w \in DOMAIN end :
                /\ Len(s) \in 1..Len(end[w]) /\ s = SubSeq(end[w], 1, Len(s))
                /\ \A i \in 1..Len(s) : s[i] = end[w][i]
<1>1. cells = {<< >>} \union UNION {Prefixes(end[w]) : w \in DOMAIN end}
  BY DEF TrieOK, Nodes
<1>2. Root \in cells
  BY <1>1 DEF Root
<1>3. ASSUME NEW s \in cells, s # Root
      PROVE  /\ s \in Word
             /\ \E w \in DOMAIN end :
                  /\ Len(s) \in 1..Len(end[w]) /\ s = SubSeq(end[w], 1, Len(s))
                  /\ \A i \in 1..Len(s) : s[i] = end[w][i]
  <2>1. PICK w \in DOMAIN end : s \in Prefixes(end[w])
    BY <1>1, <1>3 DEF Root
  <2>2. end[w] \in Word
    BY EndOfNeedle DEF EndsAt
  <2>3. PICK l \in 0..Len(end[w]) : s = SubSeq(end[w], 1, l)
    BY <2>1 DEF Prefixes
  <2>4. /\ s \in Word /\ Len(s) = l /\ \A i \in 1..l : s[i] = end[w][i]
    BY <2>2, <2>3, PrefixOf
  <2>5. Len(s) > 0 /\ Len(s) \in Nat /\ Len(end[w]) \in Nat
    BY <1>3, <2>2, <2>4, FrontOfWord, LenProperties DEF Root, Word
  <2>6. Len(s) \in 1..Len(end[w])
    BY <2>4, <2>5
  <2> QED BY <2>3, <2>4, <2>6
<1>4. << >> \in Word
  BY EmptySeq DEF Word
<1>5. ASSUME NEW w \in DOMAIN end, NEW k \in 1..Len(end[w])
      PROVE  SubSeq(end[w], 1, k) \in cells
  <2>1. end[w] \in Word
    BY EndOfNeedle DEF EndsAt
  <2>2. k \in 0..Len(end[w])
    BY <2>1, LenProperties DEF Word
  <2>3. SubSeq(end[w], 1, k) \in Prefixes(end[w])
    BY <2>2 DEF Prefixes
  <2> QED BY <1>1, <2>3
<1> QED BY <1>2, <1>3, <1>4, <1>5 DEF Root

\* and where it ends is a cell.
LEMMA EndsAreCells ==
  ASSUME TrieOK, NEW w \in DOMAIN end
  PROVE  end[w] \in cells
<1>1. end[w] \in Word /\ Len(end[w]) \in 1..Len(end[w])
  <2>1. Len(end[w]) \in 1..(Len(w) + 1) /\ end[w] \in Word
    BY EndOfNeedle DEF EndsAt
  <2>2. Len(w) \in Nat
    BY DictionaryOfTrie DEF Needles
  <2> QED BY <2>1, <2>2
<1>2. SubSeq(end[w], 1, Len(end[w])) = end[w]
  BY <1>1, SubSeqFull DEF Word
<1> QED BY <1>1, <1>2, CellsArePrefixes

\* No character follows an end of text.
LEMMA ParentsArePlain ==
  ASSUME TrieOK, NEW s \in Word, NEW c \in Nat, Append(s, c) \in cells
  PROVE  s \in States
<1> PICK t : t = Append(s, c)
  OBVIOUS
<1>1. /\ t \in Word /\ t # Root /\ Len(s) \in Nat /\ Len(t) = Len(s) + 1
      /\ \A i \in 1..Len(s) : t[i] = s[i]
  BY FrontAndLast DEF Root
<1>2. PICK w \in DOMAIN end :
        /\ Len(t) \in 1..Len(end[w]) /\ t = SubSeq(end[w], 1, Len(t))
        /\ \A i \in 1..Len(t) : t[i] = end[w][i]
  BY <1>1, CellsArePrefixes
<1> PICK e : e = end[w]
  OBVIOUS
<1>3. /\ e \in Word /\ Len(e) \in 1..(Len(w) + 1) /\ Len(w) \in Nat
      /\ \A i \in 1..Len(e) :
           IF i <= Len(w) THEN e[i] = w[i] ELSE e[i] = END_OF_TEXT
      /\ Plain(w) /\ Len(e) \in Nat
  BY EndOfNeedle, DictionaryOfTrie, LenProperties DEF EndsAt, Needles, Word
<1>4. ASSUME NEW i \in 1..Len(s)
      PROVE  /\ s[i] = e[i] /\ s[i] > END_OF_TEXT
  <2>1. i \in 1..Len(t) /\ i \in 1..Len(e) /\ i <= Len(w) /\ i \in 1..Len(w)
    BY <1>1, <1>2, <1>3
  <2>2. s[i] = e[i]
    BY <1>1, <1>2, <2>1
  <2>3. e[i] = w[i] /\ w[i] > END_OF_TEXT
    BY <1>3, <2>1 DEF Plain
  <2> QED BY <2>2, <2>3
<1>5. s \in cells
  <2>1. CASE s = Root
    BY <2>1, CellsArePrefixes
  <2>2. CASE s # Root
    <3>1. Len(s) > 0
      BY <2>2, FrontOfWord DEF Root
    <3>2. Len(s) \in 1..Len(e) /\ Len(s) \in 0..Len(e)
      BY <1>1, <1>2, <1>3, <3>1
    <3> PICK p : p = SubSeq(e, 1, Len(s))
      OBVIOUS
    <3>3. /\ p \in Word /\ Len(p) = Len(s)
          /\ \A i \in 1..Len(s) : p[i] = e[i]
      BY <1>3, <3>2, PrefixOf
    <3>4. \A i \in 1..Len(s) : s[i] = p[i]
      BY <1>4, <3>3
    <3>5. s = p
      BY <3>3, <3>4, SeqEqual DEF Word
    <3> QED BY <3>2, <3>5, CellsArePrefixes
  <2> QED BY <2>1, <2>2
<1> QED BY <1>4, <1>5 DEF States, Plain

\* The cell of an end of text is where its needle ends.
LEMMA EndOfTextIsEnd ==
  ASSUME TrieOK, NEW s \in Word, IsEnd(s)
  PROVE  s \in DOMAIN end /\ end[s] = Append(s, END_OF_TEXT)
<1> PICK t : t = Append(s, END_OF_TEXT)
  OBVIOUS
<1>1. END_OF_TEXT \in Nat
  BY DEF END_OF_TEXT
<1>2. /\ t \in Word /\ t # Root /\ Len(s) \in Nat /\ Len(t) = Len(s) + 1
      /\ \A i \in 1..Len(s) : t[i] = s[i]
      /\ t[Len(s) + 1] = END_OF_TEXT
  BY <1>1, FrontAndLast DEF Root
<1>3. t \in cells
  BY DEF IsEnd, HasChild
<1>4. PICK w \in DOMAIN end :
        /\ Len(t) \in 1..Len(end[w]) /\ t = SubSeq(end[w], 1, Len(t))
        /\ \A i \in 1..Len(t) : t[i] = end[w][i]
  BY <1>2, <1>3, CellsArePrefixes
<1> PICK e : e = end[w]
  OBVIOUS
<1>5. /\ e \in Word /\ Len(e) \in 1..(Len(w) + 1) /\ Len(w) \in Nat
      /\ \A i \in 1..Len(e) :
           IF i <= Len(w) THEN e[i] = w[i] ELSE e[i] = END_OF_TEXT
      /\ Plain(w) /\ w \in Word
  BY EndOfNeedle, DictionaryOfTrie DEF EndsAt, Needles
<1>6. ~(Len(t) <= Len(w))
  <2> SUFFICES ASSUME Len(t) <= Len(w) PROVE FALSE
    OBVIOUS
  <2> PICK k : k = Len(t)
    OBVIOUS
  <2>1. k \in 1..Len(t) /\ k \in 1..Len(e) /\ k \in 1..Len(w) /\ k = Len(s) + 1
    BY <1>2, <1>4, <1>5
  <2>2. t[k] = END_OF_TEXT /\ t[k] = e[k] /\ e[k] = w[k] /\ w[k] > END_OF_TEXT
    BY <1>2, <1>4, <1>5, <2>1 DEF Plain
  <2>3. ~(END_OF_TEXT > END_OF_TEXT)
    BY DEF END_OF_TEXT
  <2> QED BY <2>2, <2>3
<1>7. Len(e) = Len(w) + 1 /\ Len(s) = Len(w)
  BY <1>2, <1>4, <1>5, <1>6
<1>8. \A i \in 1..Len(s) : s[i] = w[i]
  <2> SUFFICES ASSUME NEW i \in 1..Len(s) PROVE s[i] = w[i]
    OBVIOUS
  <2>1. i \in 1..Len(t) /\ i \in 1..Len(e) /\ i <= Len(w)
    BY <1>2, <1>5, <1>7
  <2>2. s[i] = t[i] /\ t[i] = e[i]
    BY <1>2, <1>4, <2>1
  <2>3. e[i] = w[i]
    BY <1>5, <2>1
  <2> QED BY <2>2, <2>3
<1>9. s = w
  BY <1>5, <1>7, <1>8, SeqEqual DEF Word
<1>10. e = t
  <2>1. Len(e) = Len(t)
    BY <1>2, <1>7
  <2>2. SubSeq(e, 1, Len(e)) = e
    BY <1>5, SubSeqFull DEF Word
  <2> QED BY <1>4, <2>1, <2>2
<1> QED BY <1>9, <1>10

\* A leaf ends a needle that goes on in the tail.
LEMMA LeafEnds ==
  ASSUME TrieOK, NEW s, IsLeaf(s)
  PROVE  /\ useTail
         /\ \E w \in DOMAIN end :
              /\ s = end[w] /\ s = SubSeq(w, 1, Len(s)) /\ s \in States
              /\ Len(s) \in 1..(Len(w) - 1) /\ Len(s) > Shared(DOMAIN end, w)
              /\ \A i \in 1..Len(s) : s[i] = w[i]
<1>1. PICK w \in DOMAIN end : end[w] = s /\ s # Append(w, END_OF_TEXT)
  BY DEF IsLeaf
<1>2. EndsAt(w, s)
  BY <1>1, EndOfNeedle
<1>3. /\ useTail /\ Len(s) \in 1..(Len(w) - 1) /\ s = SubSeq(w, 1, Len(s))
      /\ Len(s) > Shared(DOMAIN end, w)
  BY <1>1, <1>2 DEF EndsAt
<1>4. Len(w) \in Nat /\ Plain(w)
  BY DictionaryOfTrie DEF Needles
<1>5. \A i \in 1..Len(s) : s[i] = w[i] /\ w[i] > END_OF_TEXT
  <2> SUFFICES ASSUME NEW i \in 1..Len(s)
               PROVE  s[i] = w[i] /\ w[i] > END_OF_TEXT
    OBVIOUS
  <2>1. i \in 1..Len(w) /\ i <= Len(w)
    BY <1>3, <1>4
  <2>2. s[i] = w[i]
    BY <1>2, <2>1 DEF EndsAt
  <2>3. w[i] > END_OF_TEXT
    BY <1>4, <2>1 DEF Plain
  <2> QED BY <2>2, <2>3
<1>6. s \in States
  BY <1>1, <1>5, EndsAreCells DEF States, Plain
<1> QED BY <1>1, <1>3, <1>5, <1>6

\* There are finitely many cells, none of them longer than some number.
LEMMA CellsAreFinite ==
  ASSUME TrieOK
  PROVE  IsFiniteSet(cells) /\ \E b \in Nat : \A s \in cells : Len(s) <= b
<1>1. IsFiniteSet(DOMAIN end)
  BY DictionaryOfTrie DEF Needles
<1>2. \A w \in DOMAIN end : end[w] \in Word /\ Len(end[w]) \in Nat
  BY EndOfNeedle, LenProperties DEF EndsAt, Word
<1> PICK h : h = [w \in DOMAIN end |-> Len(end[w])]
  OBVIOUS
<1>3. PICK b \in Nat : \A w \in DOMAIN end : h[w] <= b
  BY <1>1, <1>2, FiniteIsBounded
<1>4. \A w \in DOMAIN end : Len(end[w]) <= b
  BY <1>3
<1>5. \A s \in cells : s # Root =>
        \E w \in DOMAIN end :
          Len(s) \in 1..Len(end[w]) /\ s = SubSeq(end[w], 1, Len(s))
  BY CellsArePrefixes
<1>6. \A s \in cells : Len(s) <= b
  <2> SUFFICES ASSUME NEW s \in cells PROVE Len(s) <= b
    OBVIOUS
  <2>1. CASE s = Root
    BY <2>1 DEF Root
  <2>2. CASE s # Root
    <3>1. PICK w \in DOMAIN end : Len(s) \in 1..Len(end[w])
      BY <1>5, <2>2
    <3>2. Len(end[w]) \in Nat /\ Len(end[w]) <= b
      BY <1>2, <1>4
    <3> QED BY <3>1, <3>2
  <2> QED BY <2>1, <2>2
<1>7. IsFiniteSet(cells)
  <2> PICK P : P = (DOMAIN end) \X (0..b)
    OBVIOUS
  <2>1. IsFiniteSet(P)
    <3> PICK zero \in Int : zero = 0
      OBVIOUS
    <3>1. IsFiniteSet(zero..b)
      BY FS_Interval
    <3> QED BY <1>1, <3>1, FS_Product
  <2> PICK f : f = [p \in P |-> SubSeq(end[p[1]], 1, p[2])]
    OBVIOUS
  <2> PICK T : T = {f[p] : p \in P}
    OBVIOUS
  <2>2. f \in Surjection(P, T)
    BY DEF Surjection
  <2>3. IsFiniteSet(T)
    BY <2>1, <2>2, FS_Surjection
  <2>4. cells \subseteq T \union {Root}
    <3> SUFFICES ASSUME NEW s \in cells, s # Root PROVE s \in T
      OBVIOUS
    <3>1. PICK w \in DOMAIN end :
            Len(s) \in 1..Len(end[w]) /\ s = SubSeq(end[w], 1, Len(s))
      BY <1>5
    <3> PICK l : l = Len(s)
      OBVIOUS
    <3>2. l \in 0..b
      BY <1>2, <1>4, <3>1
    <3>3. <<w, l>> \in P /\ f[<<w, l>>] = SubSeq(end[w], 1, l)
      BY <3>2
    <3> QED BY <3>1, <3>3
  <2>5. IsFiniteSet(T \union {Root})
    BY <2>3, FS_AddElement
  <2> QED BY <2>4, <2>5, FS_Subset
<1> QED BY <1>6, <1>7

\* The children to visit are those that a character leads to.
LEMMA ChildrenAre ==
  ASSUME TrieOK, NEW s \in Word
  PROVE  /\ ChildrenOf(s) \in Seq(States)
         /\ ToSet(ChildrenOf(s))
              = {t \in States : t # Root /\ Front(t) = s}
         /\ \A t \in ToSet(ChildrenOf(s)) :
              /\ t \in States /\ t = Append(s, Last(t)) /\ Last(t) \in Nat
              /\ Last(t) > END_OF_TEXT /\ Len(t) = Len(s) + 1 /\ t # Root
<1> PICK kids : kids = {t \in cells : t # Root /\ Front(t) = s}
  OBVIOUS
<1> PICK chars : chars = {Last(t) : t \in kids}
  OBVIOUS
<1> PICK letters : letters = chars \ {END_OF_TEXT}
  OBVIOUS
<1>1. cells \subseteq Word
  BY CellsArePrefixes
<1>2. \A t \in kids : t = Append(s, Last(t)) /\ Last(t) \in Nat
  BY <1>1, FrontOfWord DEF Root
<1>3. chars \subseteq Nat
  BY <1>2
<1>4. IsFiniteSet(letters)
  <2>1. IsFiniteSet(kids)
    BY CellsAreFinite, FS_Subset
  <2> PICK f : f = [t \in kids |-> Last(t)]
    OBVIOUS
  <2>2. f \in Surjection(kids, chars)
    BY DEF Surjection
  <2>3. IsFiniteSet(chars)
    BY <2>1, <2>2, FS_Surjection
  <2> QED BY <2>3, FS_Subset
<1> PICK q : q = CHOOSE r \in SetToSeqs(letters) :
                   \A k \in 2..Len(r) : r[k - 1] < r[k]
  OBVIOUS
<1>5. q \in SetToSeqs(letters)
  <2>1. \E r \in SetToSeqs(letters) : \A k \in 2..Len(r) : r[k - 1] < r[k]
    BY <1>3, <1>4, Enumeration
  <2> QED BY <2>1
<1>6. DOMAIN q = 1..Cardinality(letters) /\ ToSet(q) = letters
  BY <1>4, <1>5, EnumerationIsOnto
<1>7. ChildrenOf(s) = [k \in DOMAIN q |-> Append(s, q[k])]
  <2>1. chars = {Last(t) : t \in {t \in cells : t # Root /\ Front(t) = s}}
    OBVIOUS
  <2>2. q = CHOOSE q1 \in SetToSeqs(chars \ {END_OF_TEXT}) :
              \A k \in 2..Len(q1) : q1[k - 1] < q1[k]
    OBVIOUS
  <2> DEFINE chars0 == {Last(t) : t \in
                          {t \in cells : t # Root /\ Front(t) = s}}
             order0 == CHOOSE q1 \in SetToSeqs(chars0 \ {END_OF_TEXT}) :
                         \A k \in 2..Len(q1) : q1[k - 1] < q1[k]
  <2>3. ChildrenOf(s) = [k \in DOMAIN order0 |-> Append(s, order0[k])]
    BY DEF ChildrenOf
  <2>4. order0 = q
    BY <2>1, <2>2
  <2> HIDE DEF order0
  <2> QED BY <2>3, <2>4
<1>8. \A c \in letters : Append(s, c) \in kids /\ c > END_OF_TEXT
  <2> SUFFICES ASSUME NEW c \in letters
               PROVE  Append(s, c) \in kids /\ c > END_OF_TEXT
    OBVIOUS
  <2>1. PICK t \in kids : c = Last(t)
    OBVIOUS
  <2>2. t = Append(s, c) /\ c \in Nat
    BY <1>2, <2>1
  <2>3. c >= END_OF_TEXT
    <3> SUFFICES ASSUME ~(c >= END_OF_TEXT) PROVE FALSE
      OBVIOUS
    <3>1. t \in cells
      OBVIOUS
    <3>2. /\ t \in Word /\ t # Root /\ Len(s) \in Nat /\ Len(t) = Len(s) + 1
          /\ t[Len(s) + 1] = c
      BY <2>2, FrontAndLast DEF Root
    <3>3. PICK w \in DOMAIN end :
            /\ Len(t) \in 1..Len(end[w])
            /\ \A i \in 1..Len(t) : t[i] = end[w][i]
      BY <3>1, <3>2, CellsArePrefixes
    <3> PICK k : k = Len(t)
      OBVIOUS
    <3>4. k \in 1..Len(t) /\ k \in 1..Len(end[w]) /\ t[k] = c
      BY <3>2, <3>3
    <3>5. IF k <= Len(w) THEN t[k] = w[k] ELSE t[k] = END_OF_TEXT
      BY <3>3, <3>4, EndOfNeedle DEF EndsAt
    <3>6. Len(w) \in Nat /\ Plain(w)
      BY DictionaryOfTrie DEF Needles
    <3>7. CASE k <= Len(w)
      <4>1. k \in 1..Len(w)
        BY <3>2, <3>6, <3>7
      <4>2. c > END_OF_TEXT
        BY <3>4, <3>5, <3>6, <3>7, <4>1 DEF Plain
      <4> QED BY <2>2, <4>2 DEF END_OF_TEXT
    <3>8. CASE ~(k <= Len(w))
      BY <2>2, <3>4, <3>5, <3>8 DEF END_OF_TEXT
    <3> QED BY <3>7, <3>8
  <2>4. c # END_OF_TEXT
    OBVIOUS
  <2> QED BY <2>2, <2>3, <2>4 DEF END_OF_TEXT
<1>9. ASSUME NEW c \in letters
      PROVE  /\ Append(s, c) \in States /\ Append(s, c) # Root
             /\ Front(Append(s, c)) = s /\ Last(Append(s, c)) = c
             /\ Len(Append(s, c)) = Len(s) + 1
  <2> PICK t : t = Append(s, c)
    OBVIOUS
  <2>1. t \in kids /\ c > END_OF_TEXT /\ c \in Nat
    BY <1>3, <1>8
  <2>2. /\ t # Root /\ Front(t) = s /\ Last(t) = c /\ Len(t) = Len(s) + 1
        /\ Len(s) \in Nat /\ t[Len(s) + 1] = c
        /\ \A i \in 1..Len(s) : t[i] = s[i]
    BY <2>1, FrontAndLast DEF Root
  <2>3. t \in cells /\ s \in States
    BY <2>1, ParentsArePlain
  <2>4. \A k \in 1..Len(t) : t[k] > END_OF_TEXT
    <3> SUFFICES ASSUME NEW k \in 1..Len(t) PROVE t[k] > END_OF_TEXT
      OBVIOUS
    <3>1. k \in 1..Len(s) \/ k = Len(s) + 1
      BY <2>2
    <3> QED BY <2>1, <2>2, <2>3, <3>1 DEF States, Plain
  <2> QED BY <2>2, <2>3, <2>4 DEF States, Plain
<1> PICK r : r = ChildrenOf(s)
  OBVIOUS
<1>10. DOMAIN r = 1..Cardinality(letters)
       /\ \A k \in DOMAIN r : q[k] \in letters /\ r[k] = Append(s, q[k])
  BY <1>6, <1>7 DEF ToSet
<1>11. r \in Seq(States)
  <2>1. Cardinality(letters) \in Nat
    BY <1>4, FS_CardinalityType
  <2>2. \A k \in DOMAIN r : r[k] \in States
    BY <1>9, <1>10
  <2>3. r \in [1..Cardinality(letters) -> States]
    <3>1. r = [k \in DOMAIN r |-> r[k]]
      BY <1>7
    <3> QED BY <1>10, <2>2, <3>1
  <2> QED BY <2>1, <2>3, SeqDef
<1>12. ToSet(r) = {Append(s, c) : c \in letters}
  <2>1. ToSet(r) \subseteq {Append(s, c) : c \in letters}
    <3> SUFFICES ASSUME NEW t \in ToSet(r)
                 PROVE  t \in {Append(s, c) : c \in letters}
      OBVIOUS
    <3>1. PICK k \in DOMAIN r : t = r[k]
      BY DEF ToSet
    <3> QED BY <1>10, <3>1
  <2>2. ASSUME NEW c \in letters PROVE Append(s, c) \in ToSet(r)
    <3>1. PICK k \in DOMAIN q : q[k] = c
      BY <1>6 DEF ToSet
    <3> QED BY <1>6, <1>10, <3>1 DEF ToSet
  <2> QED BY <2>1, <2>2
<1>13. \A t \in States : t # Root /\ Front(t) = s =>
         t = Append(s, Last(t)) /\ Last(t) \in letters
  <2> SUFFICES ASSUME NEW t \in States, t # Root, Front(t) = s
               PROVE  t = Append(s, Last(t)) /\ Last(t) \in letters
    OBVIOUS
  <2>1. t \in kids
    BY DEF States
  <2>2. t = Append(s, Last(t)) /\ Last(t) \in Nat /\ Last(t) \in chars
    BY <1>2, <2>1
  <2>3. Len(t) \in 1..Len(t) /\ Last(t) = t[Len(t)]
    <3>1. t \in Word
      BY <1>1 DEF States
    <3>2. Len(t) \in Nat /\ Len(t) > 0
      BY <3>1, FrontOfWord DEF Root
    <3> QED BY <3>2 DEF Last
  <2>4. Last(t) > END_OF_TEXT
    BY <2>3 DEF States, Plain
  <2>5. Last(t) # END_OF_TEXT
    BY <2>4 DEF END_OF_TEXT
  <2> QED BY <2>2, <2>5
<1>14. ToSet(r) = {t \in States : t # Root /\ Front(t) = s}
  <2>1. ASSUME NEW t \in ToSet(r)
        PROVE  t \in States /\ t # Root /\ Front(t) = s
    <3>1. PICK c \in letters : t = Append(s, c)
      BY <1>12
    <3> QED BY <1>9, <3>1
  <2>2. ASSUME NEW t \in States, t # Root, Front(t) = s
        PROVE  t \in ToSet(r)
    <3>1. t = Append(s, Last(t)) /\ Last(t) \in letters
      BY <1>13, <2>2
    <3> QED BY <1>12, <3>1
  <2> QED BY <2>1, <2>2
<1>15. \A t \in ToSet(r) :
         /\ t \in States /\ t = Append(s, Last(t)) /\ Last(t) \in Nat
         /\ Last(t) > END_OF_TEXT /\ Len(t) = Len(s) + 1 /\ t # Root
  <2> SUFFICES ASSUME NEW t \in ToSet(r)
               PROVE  /\ t \in States /\ t = Append(s, Last(t))
                      /\ Last(t) \in Nat
                      /\ Last(t) > END_OF_TEXT /\ Len(t) = Len(s) + 1
                      /\ t # Root
    OBVIOUS
  <2>1. PICK c \in letters : t = Append(s, c)
    BY <1>12
  <2>2. c = Last(t) /\ t \in States /\ t # Root /\ Len(t) = Len(s) + 1
    BY <1>9, <2>1
  <2>3. c > END_OF_TEXT /\ c \in Nat
    BY <1>3, <1>8
  <2> QED BY <2>1, <2>2, <2>3
<1> QED BY <1>11, <1>14, <1>15

-----------------------------------------------------------------------------
(* automaton_step *)

\* Induction over the length of words: what a word has whenever all shorter
\* ones have it, all have.
LEMMA ByLength ==
  ASSUME NEW C, C \subseteq Word, NEW G,
         \A t \in C : (\A u \in C : Len(u) < Len(t) => u \in G) => t \in G
  PROVE  C \subseteq G
<1> SUFFICES ASSUME C \ G # {} PROVE FALSE
  OBVIOUS
<1> DEFINE Lengths == {Len(t) : t \in C \ G}
<1>1. \A t \in C : Len(t) \in Nat
  BY LenProperties DEF Word
<1>2. Lengths \subseteq Nat /\ Lengths # {}
  <2>1. \A x \in Lengths : x \in Nat
    BY <1>1
  <2>2. PICK t \in C \ G : TRUE
    OBVIOUS
  <2>3. Len(t) \in Lengths
    OBVIOUS
  <2> QED BY <2>1, <2>3
<1>3. PICK n \in Lengths : \A x \in Lengths : n <= x
  <2> HIDE DEF Lengths
  <2> QED BY <1>2, Least
<1>4. PICK t \in C \ G : n = Len(t)
  OBVIOUS
<1>5. \A u \in C : Len(u) < Len(t) => u \in G
  <2> SUFFICES ASSUME NEW u \in C \ G, Len(u) < Len(t) PROVE FALSE
    OBVIOUS
  <2>1. Len(u) \in Lengths
    OBVIOUS
  <2> HIDE DEF Lengths
  <2>2. n <= Len(u) /\ Len(u) \in Nat /\ Len(t) \in Nat
    BY <1>1, <1>3, <2>1
  <2> QED BY <1>4, <2>2
<1> QED BY <1>4, <1>5

\* The fails that are set, whatever the order of the visits.
FailOK ==
  /\ DOMAIN fail \subseteq States \ {Root}
  /\ \A s \in DOMAIN fail : fail[s] \in States /\ Len(fail[s]) < Len(s)

\* The root is a state, and all states are words.
LEMMA StatesAreWords ==
  ASSUME TrieOK
  PROVE  /\ Root \in States /\ States \subseteq cells
         /\ \A s \in States : s \in Word /\ Len(s) \in Nat
         /\ \A s \in States : s # Root => Len(s) > 0
<1>1. cells \subseteq Word /\ Root \in cells
  BY CellsArePrefixes
<1>2. Plain(Root)
  BY DEF Root, Plain
<1>3. \A s \in Word : Len(s) \in Nat /\ (s # Root => Len(s) > 0)
  BY FrontOfWord, LenProperties DEF Root, Word
<1> QED BY <1>1, <1>2, <1>3 DEF States

\* automaton_getFail leads to a state, and a shorter one.
LEMMA FailIsShorter ==
  ASSUME TrieOK, FailOK, NEW s \in cells
  PROVE  /\ Fail(s) \in States
         /\ s # Root => Len(Fail(s)) < Len(s)
<1>1. Root \in States /\ Len(Root) = 0
  BY StatesAreWords DEF Root
<1>2. s \in Word
  BY CellsArePrefixes
<1>3. s # Root => 0 < Len(s)
  BY <1>2, FrontOfWord DEF Root
<1> QED BY <1>1, <1>3 DEF Fail, FailOK

\* The function of automaton_step that follows the fails.
Settles(g, c) ==
  g = [t \in cells |->
         IF t = Root \/ HasChild(t, c) THEN t ELSE g[Fail(t)]]

\* It exists, because fails are shorter,
LEMMA SettledExists ==
  ASSUME TrieOK, FailOK, NEW c
  PROVE  \E g : Settles(g, c)
<1> DEFINE Rhs(g, t) == IF t = Root \/ HasChild(t, c) THEN t ELSE g[Fail(t)]
           Upto(n) == \E g : \A t \in cells : Len(t) <= n => g[t] = Rhs(g, t)
           Bad == {n \in Nat : ~Upto(n)}
<1>1. \A t \in cells : Len(t) \in Nat
  BY CellsArePrefixes, LenProperties DEF Word
<1>2. Upto(0)
  <2> PICK g : g = [t \in cells |-> t]
    OBVIOUS
  <2>1. ASSUME NEW t \in cells, Len(t) <= 0 PROVE g[t] = Rhs(g, t)
    <3>1. t = Root
      BY <2>1, CellsArePrefixes, FrontOfWord DEF Root
    <3> QED BY <3>1
  <2> QED BY <2>1
<1>3. ASSUME NEW n \in Nat, Upto(n) PROVE Upto(n + 1)
  <2>1. PICK g : \A t \in cells : Len(t) <= n => g[t] = Rhs(g, t)
    BY <1>3
  <2> PICK h : h = [t \in cells |-> IF Len(t) <= n THEN g[t] ELSE Rhs(g, t)]
    OBVIOUS
  <2>2. ASSUME NEW t \in cells, Len(t) <= n + 1 PROVE h[t] = Rhs(h, t)
    <3>1. h[t] = Rhs(g, t)
      BY <2>1
    <3>2. CASE t = Root \/ HasChild(t, c)
      BY <3>1, <3>2
    <3>3. CASE ~(t = Root \/ HasChild(t, c))
      <4> PICK u : u = Fail(t)
        OBVIOUS
      <4>1. u \in cells /\ Len(u) < Len(t)
        BY <3>3, FailIsShorter, StatesAreWords
      <4>2. Len(u) <= n
        BY <1>1, <2>2, <4>1
      <4>3. h[u] = g[u]
        BY <4>1, <4>2
      <4> QED BY <3>1, <3>3, <4>3
    <3> QED BY <3>2, <3>3
  <2> QED BY <2>2
<1>4. Bad = {}
  <2> SUFFICES ASSUME Bad # {} PROVE FALSE
    OBVIOUS
  <2>1. PICK n \in Bad : \A x \in Bad : n <= x
    <3>1. Bad \subseteq Nat
      OBVIOUS
    <3> HIDE DEF Bad
    <3> QED BY <3>1, Least
  <2>2. n \in Nat /\ ~Upto(n)
    OBVIOUS
  <2> HIDE DEF Upto
  <2>3. n # 0
    BY <1>2, <2>2
  <2>4. n - 1 \in Nat /\ ~(n <= n - 1) /\ (n - 1) + 1 = n
    BY <2>2, <2>3
  <2>5. Upto(n - 1)
    BY <2>1, <2>4
  <2>6. Upto((n - 1) + 1)
    BY <1>3, <2>4, <2>5
  <2> QED BY <2>2, <2>4, <2>6
<1>5. PICK b \in Nat : \A s \in cells : Len(s) <= b
  BY CellsAreFinite
<1>6. Upto(b)
  BY <1>4
<1>7. PICK g : \A t \in cells : g[t] = Rhs(g, t)
  BY <1>5, <1>6
<1> PICK h : h = [t \in cells |-> g[t]]
  OBVIOUS
<1>8. \A t \in cells : h[t] = Rhs(h, t)
  <2> SUFFICES ASSUME NEW t \in cells PROVE h[t] = Rhs(h, t)
    OBVIOUS
  <2>1. Fail(t) \in cells
    BY FailIsShorter, StatesAreWords
  <2>2. h[t] = g[t] /\ h[Fail(t)] = g[Fail(t)]
    BY <2>1
  <2> QED BY <1>7, <2>2
<1>9. h = [t \in cells |-> Rhs(h, t)]
  <2>1. h = [t \in cells |-> h[t]]
    OBVIOUS
  <2> QED BY <1>8, <2>1
<1> QED BY <1>9 DEF Settles

\* so that automaton_step is what it says.
LEMMA StepUnfolds ==
  ASSUME TrieOK, FailOK, NEW c
  PROVE  \E g :
           /\ \A t \in cells :
                g[t] = IF t = Root \/ HasChild(t, c) THEN t ELSE g[Fail(t)]
           /\ \A s : Step(s, c) = IF IsLeaf(s) THEN
                                    IF HasChild(s, c) THEN Append(s, c) ELSE s
                                  ELSE IF HasChild(g[s], c)
                                  THEN Append(g[s], c) ELSE g[s]
<1> DEFINE g == CHOOSE g : Settles(g, c)
<1>1. Settles(g, c)
  BY SettledExists
<1>2. g = CHOOSE settled :
            settled = [t \in cells |-> IF t = Root \/ HasChild(t, c) THEN t
                                       ELSE settled[Fail(t)]]
  BY DEF Settles
<1>3. \A s : Step(s, c) = LET t == IF IsLeaf(s) THEN s ELSE g[s]
                          IN  IF HasChild(t, c) THEN Append(t, c) ELSE t
  BY DEF Step, Settles
<1> HIDE DEF g
<1>4. \A s : Step(s, c) = IF IsLeaf(s) THEN
                            IF HasChild(s, c) THEN Append(s, c) ELSE s
                          ELSE IF HasChild(g[s], c)
                          THEN Append(g[s], c) ELSE g[s]
  BY <1>3
<1>5. \A t \in cells :
        g[t] = IF t = Root \/ HasChild(t, c) THEN t ELSE g[Fail(t)]
  <2>1. g = [t \in cells |-> IF t = Root \/ HasChild(t, c) THEN t
                             ELSE g[Fail(t)]]
    BY <1>1 DEF Settles
  <2> PICK f : f = g
    OBVIOUS
  <2>2. f = [t \in cells |-> IF t = Root \/ HasChild(t, c) THEN t
                             ELSE f[Fail(t)]]
    BY <2>1
  <2>3. \A t \in cells :
          f[t] = IF t = Root \/ HasChild(t, c) THEN t ELSE f[Fail(t)]
    <3> PICK F : F = [t \in cells |-> IF t = Root \/ HasChild(t, c) THEN t
                                      ELSE f[Fail(t)]]
      OBVIOUS
    <3>1. \A t \in cells :
            F[t] = IF t = Root \/ HasChild(t, c) THEN t ELSE f[Fail(t)]
      OBVIOUS
    <3> QED BY <2>2, <3>1
  <2> QED BY <2>3
<1> QED BY <1>4, <1>5

\* The state that a character leads to.
LEMMA ChildIsState ==
  ASSUME TrieOK, NEW s \in States, NEW c \in Nat, c > END_OF_TEXT,
         HasChild(s, c)
  PROVE  /\ Append(s, c) \in States /\ Append(s, c) # Root
         /\ Len(Append(s, c)) = Len(s) + 1
<1> PICK t : t = Append(s, c)
  OBVIOUS
<1>1. s \in Word /\ Len(s) \in Nat
  BY StatesAreWords
<1>2. /\ t # Root /\ Len(t) = Len(s) + 1 /\ t[Len(s) + 1] = c
      /\ \A i \in 1..Len(s) : t[i] = s[i]
  BY <1>1, FrontAndLast DEF Root
<1>3. \A k \in 1..Len(t) : t[k] > END_OF_TEXT
  <2> SUFFICES ASSUME NEW k \in 1..Len(t) PROVE t[k] > END_OF_TEXT
    OBVIOUS
  <2>1. k \in 1..Len(s) \/ k = Len(s) + 1
    BY <1>1, <1>2
  <2> QED BY <1>2, <2>1 DEF States, Plain
<1>4. t \in cells
  BY DEF HasChild
<1> QED BY <1>2, <1>3, <1>4 DEF States, Plain

\* What automaton_step leads to,
LEMMA StepLands ==
  ASSUME TrieOK, FailOK, NEW s \in States, NEW c \in Nat, c > END_OF_TEXT
  PROVE  /\ Step(s, c) \in States /\ Len(Step(s, c)) <= Len(s) + 1
         /\ HasChild(s, c) => Step(s, c) = Append(s, c)
<1>1. PICK g :
        /\ \A t \in cells :
             g[t] = IF t = Root \/ HasChild(t, c) THEN t ELSE g[Fail(t)]
        /\ \A t : Step(t, c) = IF IsLeaf(t) THEN
                                 IF HasChild(t, c) THEN Append(t, c) ELSE t
                               ELSE IF HasChild(g[t], c)
                               THEN Append(g[t], c) ELSE g[t]
  BY StepUnfolds
<1> DEFINE G == {t \in States : g[t] \in States /\ Len(g[t]) <= Len(t)}
<1>2. States \subseteq G
  <2>1. ASSUME NEW t \in States, \A u \in States : Len(u) < Len(t) => u \in G
        PROVE  t \in G
    <3>0. t \in cells /\ Len(t) \in Nat
      BY StatesAreWords
    <3>1. CASE t = Root \/ HasChild(t, c)
      <4>1. g[t] = t
        BY <1>1, <3>0, <3>1
      <4> QED BY <3>0, <4>1
    <3>2. CASE ~(t = Root \/ HasChild(t, c))
      <4> PICK u : u = Fail(t)
        OBVIOUS
      <4>1. g[t] = g[u]
        BY <1>1, <3>0, <3>2
      <4>2. u \in States /\ Len(u) < Len(t)
        BY <3>0, <3>2, FailIsShorter
      <4>3. u \in G
        BY <2>1, <4>2
      <4>4. g[u] \in States /\ Len(g[u]) <= Len(u)
        BY <4>3
      <4>5. Len(g[u]) \in Nat /\ Len(u) \in Nat
        BY <4>2, <4>4, StatesAreWords
      <4>6. Len(g[u]) <= Len(t)
        BY <3>0, <4>2, <4>4, <4>5
      <4> QED BY <4>1, <4>4, <4>6
    <3> QED BY <3>1, <3>2
  <2>2. States \subseteq Word
    BY StatesAreWords
  <2> HIDE DEF G
  <2> QED BY <2>1, <2>2, ByLength
<1> PICK u : u = IF IsLeaf(s) THEN s ELSE g[s]
  OBVIOUS
<1>3. u \in States /\ Len(u) <= Len(s) /\ Len(u) \in Nat /\ Len(s) \in Nat
  <2>1. g[s] \in States /\ Len(g[s]) <= Len(s)
    BY <1>2
  <2> QED BY <2>1, StatesAreWords
<1>4. Step(s, c) = IF HasChild(u, c) THEN Append(u, c) ELSE u
  BY <1>1
<1>5. Step(s, c) \in States /\ Len(Step(s, c)) <= Len(s) + 1
  <2>1. CASE HasChild(u, c)
    <3>1. Append(u, c) \in States /\ Len(Append(u, c)) = Len(u) + 1
      BY <1>3, <2>1, ChildIsState
    <3>2. Len(u) + 1 <= Len(s) + 1
      BY <1>3
    <3> QED BY <1>4, <2>1, <3>1, <3>2
  <2>2. CASE ~HasChild(u, c)
    <3>1. Len(u) <= Len(s) + 1
      BY <1>3
    <3> QED BY <1>3, <1>4, <2>2, <3>1
  <2> QED BY <2>1, <2>2
<1>6. HasChild(s, c) => u = s
  <2>1. s \in cells
    BY StatesAreWords
  <2> QED BY <1>1, <2>1
<1> QED BY <1>4, <1>5, <1>6

\* Without a tail a fail is a suffix of its state.
Suffixed == ~useTail /\ \A s \in DOMAIN fail : EndsIn(s, fail[s])

\* Without a tail there are no leaves.
LEMMA NoLeaves ==
  ASSUME TrieOK, ~useTail, NEW s
  PROVE  ~IsLeaf(s)
BY LeafEnds

\* Then the new state ends what was read,
LEMMA StepEnds ==
  ASSUME TrieOK, FailOK, Suffixed,
         NEW s \in States, NEW c \in Nat, c > END_OF_TEXT
  PROVE  EndsIn(Append(s, c), Step(s, c))
<1>1. PICK g :
        /\ \A t \in cells :
             g[t] = IF t = Root \/ HasChild(t, c) THEN t ELSE g[Fail(t)]
        /\ \A t : Step(t, c) = IF IsLeaf(t) THEN
                                 IF HasChild(t, c) THEN Append(t, c) ELSE t
                               ELSE IF HasChild(g[t], c)
                               THEN Append(g[t], c) ELSE g[t]
  BY StepUnfolds
<1> DEFINE G == {t \in States : /\ g[t] \in States /\ EndsIn(t, g[t])
                                /\ g[t] = Root \/ HasChild(g[t], c)}
<1>2. States \subseteq G
  <2>1. ASSUME NEW t \in States, \A u \in States : Len(u) < Len(t) => u \in G
        PROVE  t \in G
    <3>0. t \in cells /\ t \in Word
      BY StatesAreWords
    <3>1. CASE t = Root \/ HasChild(t, c)
      <4>1. g[t] = t
        BY <1>1, <3>0, <3>1
      <4>2. EndsIn(t, t)
        BY <3>0, EndsInReflexive
      <4> QED BY <3>1, <4>1, <4>2
    <3>2. CASE ~(t = Root \/ HasChild(t, c))
      <4> PICK u : u = Fail(t)
        OBVIOUS
      <4>1. g[t] = g[u]
        BY <1>1, <3>0, <3>2
      <4>2. u \in States /\ Len(u) < Len(t)
        BY <3>0, <3>2, FailIsShorter
      <4>3. u \in G
        BY <2>1, <4>2
      <4>4. /\ g[u] \in States /\ EndsIn(u, g[u])
            /\ g[u] = Root \/ HasChild(g[u], c)
        BY <4>3
      <4>5. EndsIn(t, u)
        <5>1. CASE t \in DOMAIN fail
          BY <5>1 DEF Fail, Suffixed
        <5>2. CASE t \notin DOMAIN fail
          BY <3>0, <5>2, EndsInReflexive DEF Fail, Root
        <5> QED BY <5>1, <5>2
      <4>6. u \in Word /\ g[u] \in Word
        BY <4>2, <4>4, StatesAreWords
      <4>7. EndsIn(t, g[u])
        BY <3>0, <4>4, <4>5, <4>6, EndsInTransitive
      <4> QED BY <4>1, <4>4, <4>7
    <3> QED BY <3>1, <3>2
  <2>2. States \subseteq Word
    BY StatesAreWords
  <2> HIDE DEF G
  <2> QED BY <2>1, <2>2, ByLength
<1> PICK u : u = g[s]
  OBVIOUS
<1>3. u \in States /\ EndsIn(s, u) /\ (u = Root \/ HasChild(u, c))
  BY <1>2
<1>4. Step(s, c) = IF HasChild(u, c) THEN Append(u, c) ELSE u
  BY <1>1, NoLeaves DEF Suffixed
<1>5. s \in Word /\ u \in Word /\ Append(s, c) \in Word
  BY <1>3, StatesAreWords, FrontAndLast
<1>6. CASE HasChild(u, c)
  BY <1>3, <1>4, <1>5, <1>6, EndsInAppend
<1>7. CASE ~HasChild(u, c)
  BY <1>3, <1>4, <1>5, <1>7, EndsInReflexive DEF Root
<1> QED BY <1>6, <1>7

\* The fails of the states up to length n are set, and the longest possible.
Right(n) ==
  \A t \in States \ {Root} : Len(t) <= n =>
    /\ t \in DOMAIN fail
    /\ \A u \in cells : u # t /\ EndsIn(t, u) => Len(u) <= Len(fail[t])

\* and if the fails up to the state left are right it is the longest state
\* that does.
LEMMA StepLongest ==
  ASSUME TrieOK, FailOK, Suffixed,
         NEW s \in States, NEW c \in Nat, c > END_OF_TEXT, Right(Len(s)),
         NEW v \in cells, EndsIn(Append(s, c), v)
  PROVE  Len(v) <= Len(Step(s, c))
<1>1. PICK g :
        /\ \A t \in cells :
             g[t] = IF t = Root \/ HasChild(t, c) THEN t ELSE g[Fail(t)]
        /\ \A t : Step(t, c) = IF IsLeaf(t) THEN
                                 IF HasChild(t, c) THEN Append(t, c) ELSE t
                               ELSE IF HasChild(g[t], c)
                               THEN Append(g[t], c) ELSE g[t]
  BY StepUnfolds
<1> DEFINE Best(t) == \A u \in States : HasChild(u, c) /\ EndsIn(t, u) =>
                        Len(u) <= Len(g[t]) /\ HasChild(g[t], c)
           G == {t \in States : Len(t) <= Len(s) => Best(t)}
<1>2. States \subseteq G
  <2>1. ASSUME NEW t \in States, \A u \in States : Len(u) < Len(t) => u \in G
        PROVE  t \in G
    <3> SUFFICES ASSUME Len(t) <= Len(s),
                        NEW u \in States, HasChild(u, c), EndsIn(t, u)
                 PROVE  Len(u) <= Len(g[t]) /\ HasChild(g[t], c)
      OBVIOUS
    <3>1. /\ t \in cells /\ t \in Word /\ u \in cells /\ u \in Word
          /\ Len(u) \in Nat /\ Len(t) \in Nat /\ Len(s) \in Nat
      BY StatesAreWords
    <3>2. CASE HasChild(t, c)
      <4>1. g[t] = t
        BY <1>1, <3>1, <3>2
      <4> QED BY <3>2, <4>1 DEF EndsIn
    <3>3. CASE ~HasChild(t, c)
      <4>1. u # t
        BY <3>3
      <4>2. t # Root
        <5> SUFFICES ASSUME t = Root PROVE FALSE
          OBVIOUS
        <5>1. Len(t) = 0
          BY DEF Root
        <5>2. Len(u) = 0
          BY <3>1, <5>1 DEF EndsIn
        <5>3. u = Root
          BY <3>1, <5>2, StatesAreWords
        <5> QED BY <4>1, <5>3
      <4> PICK f : f = fail[t]
        OBVIOUS
      <4>3. t \in DOMAIN fail /\ Len(u) <= Len(f)
        BY <3>1, <4>1, <4>2 DEF Right
      <4>4. f \in States /\ Len(f) < Len(t) /\ EndsIn(t, f)
        BY <4>3 DEF FailOK, Suffixed
      <4>5. f \in Word /\ Len(f) \in Nat
        BY <4>4, StatesAreWords
      <4>6. EndsIn(f, u)
        BY <3>1, <4>3, <4>4, <4>5, EndsInNested
      <4>7. Len(f) <= Len(s)
        BY <3>1, <4>4, <4>5
      <4>8. f \in G
        BY <2>1, <4>4
      <4>9. Len(u) <= Len(g[f]) /\ HasChild(g[f], c)
        BY <4>6, <4>7, <4>8
      <4>10. g[t] = g[f]
        BY <1>1, <3>1, <3>3, <4>2, <4>3 DEF Fail
      <4> QED BY <4>9, <4>10
    <3> QED BY <3>2, <3>3
  <2>2. States \subseteq Word
    BY StatesAreWords
  <2> HIDE DEF G
  <2> QED BY <2>1, <2>2, ByLength
<1>3. Best(s)
  <2>1. Len(s) <= Len(s)
    BY StatesAreWords
  <2> QED BY <1>2, <2>1
<1>4. Step(s, c) = IF HasChild(g[s], c) THEN Append(g[s], c) ELSE g[s]
  BY <1>1, NoLeaves DEF Suffixed
<1>5. v \in Word /\ s \in Word
  BY CellsArePrefixes, StatesAreWords
<1>6. Step(s, c) \in States /\ Len(Step(s, c)) \in Nat
  BY StepLands, StatesAreWords
<1>7. CASE v = << >>
  BY <1>6, <1>7
<1>8. CASE v # << >>
  <2>1. PICK u \in Word, d \in Nat :
          v = Append(u, d) /\ Len(v) = Len(u) + 1 /\ Len(u) \in Nat
    BY <1>5, <1>8, FrontOfWord, LenProperties DEF Word
  <2>2. d = c /\ EndsIn(s, u)
    BY <1>5, <2>1, EndsInFront
  <2>3. u \in States /\ HasChild(u, c)
    BY <2>1, <2>2, ParentsArePlain DEF HasChild
  <2>4. Len(u) <= Len(g[s]) /\ HasChild(g[s], c)
    BY <1>3, <2>2, <2>3
  <2>5. g[s] \in Word
    <3>1. PICK H : H = {t \in States : g[t] \in Word}
      OBVIOUS
    <3>2. ASSUME NEW t \in States, \A w \in States : Len(w) < Len(t) => w \in H
          PROVE  t \in H
      <4>1. t \in cells /\ t \in Word
        BY StatesAreWords
      <4>2. CASE t = Root \/ HasChild(t, c)
        BY <1>1, <3>1, <4>1, <4>2
      <4>3. CASE ~(t = Root \/ HasChild(t, c))
        <5>1. Fail(t) \in States /\ Len(Fail(t)) < Len(t)
          BY <4>1, <4>3, FailIsShorter
        <5>2. g[Fail(t)] \in Word
          BY <3>1, <3>2, <5>1
        <5> QED BY <1>1, <3>1, <4>1, <4>3, <5>2
      <4> QED BY <4>2, <4>3
    <3>3. States \subseteq Word
      BY StatesAreWords
    <3>4. States \subseteq H
      BY <3>2, <3>3, ByLength
    <3> QED BY <3>1, <3>4
  <2>6. Len(Append(g[s], c)) = Len(g[s]) + 1 /\ Len(g[s]) \in Nat
    BY <2>5, FrontAndLast
  <2>7. Len(Step(s, c)) = Len(g[s]) + 1
    BY <1>4, <2>4, <2>6
  <2>8. Len(u) + 1 <= Len(g[s]) + 1
    BY <2>1, <2>4, <2>6
  <2> QED BY <2>1, <2>7, <2>8
<1> QED BY <1>7, <1>8

-----------------------------------------------------------------------------
(* Needles and texts *)

\* Texts are words without an end of text.
LEMMA TextsArePlain ==
  ASSUME NEW t \in Texts \union {<< >>}
  PROVE  t \in Word /\ Len(t) \in Nat /\ Plain(t)
<1>1. CASE t = << >>
  BY <1>1, EmptySeq DEF Word, Plain
<1>2. CASE t \in Texts
  <2>1. t \in (UNION Dictionaries) \union Texts
    BY <1>2
  <2>2. t \in Seq(Nat) /\ \A k \in DOMAIN t : t[k] > END_OF_TEXT
    BY Zenon, <2>1, AutomatonAssumption
  <2>3. DOMAIN t = 1..Len(t) /\ Len(t) \in Nat
    BY <2>2, LenProperties
  <2> QED BY <2>2, <2>3 DEF Word, Plain
<1> QED BY <1>1, <1>2

\* No two needles end at the same cell.
LEMMA NeedleOfEnd ==
  ASSUME TrieOK, NEW w \in DOMAIN end
  PROVE  NeedleOf(end[w]) = w
<1> SUFFICES ASSUME NEW v \in DOMAIN end, end[v] = end[w]
             PROVE  v = w
  BY DEF NeedleOf
<1> SUFFICES ASSUME v # w PROVE FALSE
  OBVIOUS
<1> PICK e : e = end[w]
  OBVIOUS
<1>1. EndsAt(w, e) /\ EndsAt(v, e)
  BY EndOfNeedle
<1>2. /\ w \in Word /\ Len(w) \in Nat /\ Plain(w)
      /\ v \in Word /\ Len(v) \in Nat /\ Plain(v)
      /\ e \in Word /\ Len(e) \in Nat /\ Len(e) > 0
  <2>1. /\ w \in Word /\ Len(w) \in Nat /\ Plain(w)
        /\ v \in Word /\ Len(v) \in Nat /\ Plain(v)
    BY DictionaryOfTrie DEF Needles
  <2>2. e \in Word /\ Len(e) \in 1..(Len(w) + 1)
    BY <1>1 DEF EndsAt
  <2> QED BY <2>1, <2>2
<1> PICK c \in Nat : c = END_OF_TEXT
  BY DEF END_OF_TEXT
<1>3. ASSUME NEW x \in DOMAIN end, NEW y \in DOMAIN end, EndsAt(y, e),
             e = Append(x, c), Len(e) <= Len(y)
      PROVE  FALSE
  <2>1. x \in Word /\ Len(x) \in Nat /\ Plain(y) /\ Len(y) \in Nat
    BY DictionaryOfTrie DEF Needles
  <2>2. /\ Len(Append(x, c)) = Len(x) + 1
        /\ Append(x, c)[Len(x) + 1] = c
    BY <2>1, FrontAndLast
  <2> PICK k : k = Len(x) + 1
    OBVIOUS
  <2>3. k \in 1..Len(e) /\ k <= Len(y) /\ k \in 1..Len(y) /\ e[k] = c
    BY <1>3, <2>1, <2>2
  <2>4. e[k] = y[k] /\ y[k] > END_OF_TEXT
    BY <1>3, <2>1, <2>3 DEF EndsAt, Plain
  <2> QED BY <2>3, <2>4 DEF END_OF_TEXT
<1>4. CASE e = Append(w, c) /\ e = Append(v, c)
  <2>1. Append(w, c) = Append(v, c)
    BY <1>4
  <2>2. w = v
    BY <1>2, <2>1, AppendInjective DEF Word
  <2> QED BY <2>2
<1>5. CASE e = Append(w, c) /\ e # Append(v, c)
  <2>1. Len(e) \in 1..(Len(v) - 1)
    BY <1>1, <1>5 DEF EndsAt
  <2>2. Len(e) <= Len(v)
    BY <1>2, <2>1
  <2> QED BY <1>1, <1>3, <1>5, <2>2
<1>6. CASE e # Append(w, c) /\ e = Append(v, c)
  <2>1. Len(e) \in 1..(Len(w) - 1)
    BY <1>1, <1>6 DEF EndsAt
  <2>2. Len(e) <= Len(w)
    BY <1>2, <2>1
  <2> QED BY <1>1, <1>3, <1>6, <2>2
<1>7. CASE e # Append(w, c) /\ e # Append(v, c)
  <2>1. /\ Len(e) \in 1..(Len(w) - 1) /\ Len(e) > Shared(DOMAIN end, w)
        /\ Len(e) \in 1..(Len(v) - 1)
    BY <1>1, <1>7 DEF EndsAt
  <2> PICK k : k = Len(e)
    OBVIOUS
  <2>2. k \in 1..Len(w) /\ k \in 1..Len(v) /\ k <= Len(v) /\ k <= Len(w)
    BY <1>2, <2>1
  <2>3. Agree(w, v, k)
    <3> SUFFICES ASSUME NEW i \in 1..k PROVE w[i] = v[i]
      BY DEF Agree
    <3>1. i \in 1..Len(e) /\ i <= Len(w) /\ i <= Len(v)
      BY <1>2, <2>2
    <3> QED BY <1>1, <3>1 DEF EndsAt
  <2>4. Shared(DOMAIN end, w) \in Nat /\ k <= Shared(DOMAIN end, w)
    <3>1. \A x \in DOMAIN end : x \in Word
      BY DictionaryOfTrie DEF Needles
    <3> QED BY <2>2, <2>3, <3>1, SharedIsLongest
  <2> PICK n \in Nat : n = Shared(DOMAIN end, w)
    BY <2>4
  <2>5. k <= n /\ k > n /\ k \in Nat
    BY <1>2, <2>1, <2>4
  <2> QED BY <2>5
<1> QED BY <1>4, <1>5, <1>6, <1>7

Ends == {end[w] : w \in DOMAIN end}

\* What is reported at a state is the end of a needle, the state's own
\* without a tail.
LEMMA OccurrenceIsEnd ==
  ASSUME TrieOK, NEW s \in Word, IsEnd(s) \/ IsLeaf(s)
  PROVE  /\ Occurrence(s) \in Ends
         /\ ~useTail => s \in DOMAIN end /\ Occurrence(s) = end[s] /\ IsEnd(s)
<1>1. CASE IsLeaf(s)
  BY <1>1, NoLeaves DEF Occurrence, Ends, IsLeaf
<1>2. CASE ~IsLeaf(s)
  <2>1. IsEnd(s)
    BY <1>2
  <2> QED BY <1>2, <2>1, EndOfTextIsEnd DEF Occurrence, Ends
<1> QED BY <1>1, <1>2

\* A suffix of what is read occurs in the text.
LEMMA SuffixOccurs ==
  ASSUME NEW t \in Word, NEW i \in 0..Len(t), NEW w \in Word,
         EndsIn(SubSeq(t, 1, i), w)
  PROVE  Occurs(w, t)
<1> PICK p : p = SubSeq(t, 1, i)
  OBVIOUS
<1>1. p \in Word /\ Len(p) = i /\ \A j \in 1..i : p[j] = t[j]
  BY PrefixOf
<1>2. /\ Len(t) \in Nat /\ i \in Nat /\ Len(w) \in Nat
      /\ Len(w) <= i /\ i <= Len(t)
  BY <1>1, LenProperties DEF EndsIn, Word
<1> PICK k : k = i - Len(w)
  OBVIOUS
<1>3. k \in 0..Len(t) - Len(w) /\ k + Len(w) = i /\ k \in Nat
  BY <1>2
<1> PICK q : q = SubSeq(t, k + 1, k + Len(w))
  OBVIOUS
<1>4. \A j \in 1..Len(t) : t[j] \in Nat
  BY LenProperties, ElementOfSeq DEF Word
<1>5. /\ q \in Word /\ Len(q) = Len(w)
      /\ \A j \in 1..Len(w) : q[j] = t[k + j]
  <2>0. k + 1 \in Int /\ k + Len(w) \in Int
    BY <1>2, <1>3
  <2> PICK m, n \in Int : m = k + 1 /\ n = k + Len(w)
    BY <2>0
  <2>1. \A j \in m..n : t[j] \in Nat
    BY <1>2, <1>3, <1>4
  <2>2. /\ SubSeq(t, m, n) \in Seq(Nat)
        /\ Len(SubSeq(t, m, n)) = IF m <= n THEN n - m + 1 ELSE 0
        /\ \A j \in 1..(n - m + 1) : SubSeq(t, m, n)[j] = t[m + j - 1]
    BY <2>1, SubSeqProperties
  <2>3. q = SubSeq(t, m, n) /\ n - m + 1 = Len(w)
        /\ (~(m <= n) => Len(w) = 0)
    <3> PICK l \in Nat : l = Len(w)
      BY <1>2
    <3>1. m = k + 1 /\ n = k + l
      OBVIOUS
    <3>2. n - m + 1 = l /\ (~(m <= n) => l = 0)
      BY <1>3, <3>1
    <3> QED BY <3>2
  <2>4. q \in Word /\ Len(q) = Len(w)
    BY <1>2, <2>2, <2>3 DEF Word
  <2>5. ASSUME NEW j \in 1..Len(w) PROVE q[j] = t[k + j]
    <3>1. j \in 1..(n - m + 1) /\ m + j - 1 = k + j
      BY <1>2, <1>3
    <3> QED BY <2>2, <2>3, <3>1
  <2> QED BY <2>4, <2>5
<1>6. \A j \in 1..Len(w) : q[j] = w[j]
  <2> SUFFICES ASSUME NEW j \in 1..Len(w) PROVE q[j] = w[j]
    OBVIOUS
  <2>1. w[j] = p[Len(p) - Len(w) + j]
    BY DEF EndsIn
  <2>2. Len(p) - Len(w) + j = k + j /\ k + j \in 1..i
    BY <1>1, <1>2, <1>3
  <2> QED BY <1>1, <1>5, <2>1, <2>2
<1>7. q = w
  BY <1>5, <1>6, SeqEqual DEF Word
<1> QED BY <1>3, <1>7 DEF Occurs

\* What is read with one more character.
LEMMA ReadOneMore ==
  ASSUME NEW t \in Word, NEW i \in 0..(Len(t) - 1)
  PROVE  /\ SubSeq(t, 1, i + 1) = Append(SubSeq(t, 1, i), t[i + 1])
         /\ SubSeq(t, 1, i) \in Word /\ t[i + 1] \in Nat
<1>1. Len(t) \in Nat /\ \A j \in 1..Len(t) : t[j] \in Nat
  BY LenProperties, ElementOfSeq DEF Word
<1>2. /\ i \in Nat /\ i \in 0..Len(t)
      /\ i + 1 \in 0..Len(t) /\ i + 1 \in 1..Len(t)
  BY <1>1
<1> PICK p, q, c : /\ p = SubSeq(t, 1, i) /\ q = SubSeq(t, 1, i + 1)
                   /\ c = t[i + 1]
  OBVIOUS
<1>3. p \in Word /\ Len(p) = i /\ \A j \in 1..i : p[j] = t[j]
  BY <1>2, PrefixOf
<1>4. q \in Word /\ Len(q) = i + 1 /\ \A j \in 1..(i + 1) : q[j] = t[j]
  BY <1>2, PrefixOf
<1>5. c \in Nat
  BY <1>1, <1>2
<1> PICK r : r = Append(p, c)
  OBVIOUS
<1>6. /\ r \in Word /\ Len(r) = i + 1 /\ r[i + 1] = c
      /\ \A j \in 1..i : r[j] = p[j]
  <2>1. /\ Append(p, c) \in Word /\ Len(Append(p, c)) = Len(p) + 1
        /\ Append(p, c)[Len(p) + 1] = c
        /\ \A j \in 1..Len(p) : Append(p, c)[j] = p[j]
    BY <1>3, <1>5, FrontAndLast
  <2> QED BY <1>3, <2>1
<1>7. \A j \in 1..(i + 1) : q[j] = r[j]
  <2> SUFFICES ASSUME NEW j \in 1..(i + 1) PROVE q[j] = r[j]
    OBVIOUS
  <2>1. j \in 1..i \/ j = i + 1
    BY <1>2
  <2> QED BY <1>3, <1>4, <1>6, <2>1
<1>8. q = r
  BY <1>4, <1>6, <1>7, SeqEqual DEF Word
<1> QED BY <1>3, <1>5, <1>8

-----------------------------------------------------------------------------
(* The invariant: the construction *)

BuildOK ==
  /\ TrieOK
  /\ list \in Seq(DOMAIN fail)
  /\ FailOK
  /\ ~useTail => Suffixed
  /\ DOMAIN output \subseteq DOMAIN fail
  /\ \A s \in DOMAIN output : output[s] \in States /\ Len(output[s]) < Len(s)
  /\ pc = "create" => DOMAIN output = {}

\* What an occurrence is that may be reported.
Reported(o) ==
  \E w \in DOMAIN end :
    o = end[w] /\ IF mode = "exact" THEN w = text ELSE Occurs(w, text)

SearchOK ==
  /\ pc \in {"create", "build", "ready", "search", "done"}
  /\ mode \in {"all", "first", "exact"}
  /\ text \in Texts \union {<< >>}
  /\ index \in 0..Len(text) /\ state \in States
  /\ found \in Seq(Ends) /\ Len(found) <= 2
  /\ pc \in {"create", "build", "ready"} =>
       /\ mode = "all" /\ text = << >> /\ index = 0
       /\ state = Root /\ found = << >>
  /\ ~useTail => EndsIn(SubSeq(text, 1, index), state)
  /\ ~useTail => \A o \in ToSet(found) : Reported(o)

Safe == BuildOK /\ SearchOK

\* The trie is as InitOK says.
LEMMA InitSafe ==
  ASSUME Init
  PROVE  Safe
<1>1. PICK words \in Dictionaries :
        /\ end \in [words -> UNION {EndCells(words, useTail, w) : w \in words}]
        /\ \A w \in words : end[w] \in EndCells(words, useTail, w)
  BY DEF Init
<1>2. useTail \in BOOLEAN /\ breadthFirst \in BOOLEAN
  BY AutomatonAssumption DEF Init
<1>3. TrieOK
  BY <1>1, <1>2 DEF Init, TrieOK
<1>4. DOMAIN fail = {} /\ DOMAIN output = {}
  BY DEF Init
<1>5. list \in Seq(DOMAIN fail)
  BY EmptySeq DEF Init
<1>6. BuildOK
  BY <1>3, <1>4, <1>5 DEF BuildOK, FailOK, Suffixed
<1>7. Root \in States
  BY <1>3, StatesAreWords
<1>8. EndsIn(SubSeq(text, 1, index), state)
  <2> PICK zero : zero = 0
    OBVIOUS
  <2>1. << >> \in Word /\ zero \in 0..Len(<< >>)
    BY EmptySeq DEF Word
  <2>2. SubSeq(<< >>, 1, zero) \in Word
    BY <2>1, PrefixOf
  <2>3. EndsIn(SubSeq(<< >>, 1, zero), << >>)
    BY <2>2, EndsInReflexive
  <2> QED BY <2>3 DEF Init, Root
<1>9. found \in Seq(Ends) /\ Len(found) = 0 /\ ToSet(found) = {}
  BY EmptySeq DEF Init, ToSet
<1>10. SearchOK
  BY <1>7, <1>8, <1>9 DEF Init, SearchOK
<1> QED BY <1>6, <1>10 DEF Safe

\* The fail of a child is shorter, and a suffix.
LEMMA ChildFailIs ==
  ASSUME TrieOK, FailOK, NEW s \in States, s # Root,
         NEW t \in ToSet(ChildrenOf(s))
  PROVE  /\ ChildFail(s, Last(t)) \in States
         /\ Len(ChildFail(s, Last(t))) < Len(t)
         /\ Suffixed => EndsIn(t, ChildFail(s, Last(t)))
<1>1. s \in cells /\ s \in Word /\ Len(s) \in Nat
  BY StatesAreWords
<1>2. /\ t \in States /\ t = Append(s, Last(t)) /\ Last(t) \in Nat
      /\ Last(t) > END_OF_TEXT /\ Len(t) = Len(s) + 1
  BY <1>1, ChildrenAre
<1> PICK c : c = Last(t)
  OBVIOUS
<1> PICK f : f = Fail(s)
  OBVIOUS
<1>3. f \in States /\ Len(f) < Len(s)
  BY <1>1, FailIsShorter
<1> PICK r : r = Step(f, c)
  OBVIOUS
<1>4. r \in States /\ Len(r) <= Len(f) + 1
  BY <1>2, <1>3, StepLands
<1>5. /\ f \in Word /\ Len(f) \in Nat
      /\ r \in Word /\ Len(r) \in Nat /\ t \in Word
  BY <1>2, <1>3, <1>4, StatesAreWords
<1>6. Len(r) < Len(t)
  <2>1. \A x, y, z \in Nat : x <= y + 1 /\ y < z => x < z + 1
    OBVIOUS
  <2>2. Len(r) < Len(s) + 1
    BY <1>1, <1>3, <1>4, <1>5, <2>1
  <2> QED BY <1>2, <2>2
<1>7. ASSUME Suffixed PROVE EndsIn(t, r)
  <2>1. EndsIn(s, f)
    BY <1>1, <1>7, EndsInReflexive DEF Fail, Suffixed, Root
  <2>2. EndsIn(Append(s, c), Append(f, c))
    BY <1>1, <1>2, <1>5, <2>1, EndsInAppend
  <2>3. EndsIn(Append(f, c), r)
    BY <1>2, <1>3, <1>7, StepEnds
  <2>4. Append(f, c) \in Word /\ t = Append(s, c)
    BY <1>2, <1>5, FrontAndLast
  <2> QED BY <1>5, <2>2, <2>3, <2>4, EndsInTransitive
<1> QED BY <1>4, <1>6, <1>7 DEF ChildFail

\* What is taken from the list, and what remains.
LEMMA Obtaining ==
  ASSUME NEW S, list \in Seq(S), list # << >>
  PROVE  /\ Obtained \in S /\ Others \in Seq(S)
         /\ ToSet(list) = ToSet(Others) \union {Obtained}
<1>1. Len(list) \in Nat /\ Len(list) > 0
  <2>1. Len(list) \in Nat \ {0}
    BY EmptySeq
  <2> QED BY <2>1
<1>2. DOMAIN list = 1..Len(list) /\ \A i \in 1..Len(list) : list[i] \in S
  BY LenProperties, ElementOfSeq
<1>3. CASE breadthFirst
  <2>1. Head(list) = list[1]
    BY <1>1, HeadTailOfSubSeq, SubSeqFull
  <2>2. /\ Tail(list) \in Seq(S) /\ Len(Tail(list)) = Len(list) - 1
        /\ \A i \in 1..Len(Tail(list)) : Tail(list)[i] = list[i + 1]
    BY HeadTailProperties
  <2>3. DOMAIN Tail(list) = 1..(Len(list) - 1)
    BY <2>2, LenProperties
  <2>4. 1 \in 1..Len(list)
    BY <1>1
  <2>5. ASSUME NEW i \in 1..Len(list)
        PROVE  i = 1 \/ (i - 1 \in 1..(Len(list) - 1)
                         /\ Tail(list)[i - 1] = list[i])
    <3> SUFFICES ASSUME i # 1
                 PROVE  i - 1 \in 1..(Len(list) - 1)
                        /\ Tail(list)[i - 1] = list[i]
      OBVIOUS
    <3>1. i - 1 \in 1..(Len(list) - 1) /\ (i - 1) + 1 = i
      BY <1>1
    <3> QED BY <2>2, <3>1
  <2>6. ASSUME NEW i \in 1..(Len(list) - 1)
        PROVE  i + 1 \in 1..Len(list) /\ Tail(list)[i] = list[i + 1]
    BY <1>1, <2>2
  <2>7. ToSet(list) = ToSet(Tail(list)) \union {list[1]}
    <3>1. ToSet(list) = {list[i] : i \in 1..Len(list)}
      BY <1>2 DEF ToSet
    <3>2. ToSet(Tail(list)) = {Tail(list)[i] : i \in 1..(Len(list) - 1)}
      BY <2>3 DEF ToSet
    <3>3. \A x \in ToSet(list) : x \in ToSet(Tail(list)) \union {list[1]}
      <4> SUFFICES ASSUME NEW x \in ToSet(list)
                   PROVE  x \in ToSet(Tail(list)) \union {list[1]}
        OBVIOUS
      <4>1. PICK i \in 1..Len(list) : x = list[i]
        BY <3>1
      <4>2. \/ i = 1
            \/ i - 1 \in 1..(Len(list) - 1) /\ Tail(list)[i - 1] = list[i]
        BY <2>5
      <4> QED BY <3>2, <4>1, <4>2
    <3>4. \A x \in ToSet(Tail(list)) : x \in ToSet(list)
      BY <2>6, <3>1, <3>2
    <3> QED BY <2>4, <3>1, <3>3, <3>4
  <2> QED BY <1>2, <1>3, <2>1, <2>2, <2>4, <2>7 DEF Obtained, Others
<1>4. CASE ~breadthFirst
  <2> PICK n : n = Len(list)
    OBVIOUS
  <2>1. Last(list) = list[n]
    BY DEF Last
  <2> PICK f : f = Front(list)
    OBVIOUS
  <2>2. f \in Seq(S) /\ Len(f) = n - 1 /\ \A i \in 1..(n - 1) : f[i] = list[i]
    <3> PICK one, m \in Int : one = 1 /\ m = n - 1
      BY <1>1
    <3>1. \A i \in one..m : list[i] \in S
      BY <1>1, <1>2
    <3>2. /\ SubSeq(list, one, m) \in Seq(S)
          /\ Len(SubSeq(list, one, m)) = IF one <= m THEN m - one + 1 ELSE 0
          /\ \A i \in 1..(m - one + 1) :
               SubSeq(list, one, m)[i] = list[one + i - 1]
      BY <3>1, SubSeqProperties
    <3>3. f = SubSeq(list, one, m)
      BY DEF Front
    <3>4. Len(f) = n - 1
      BY <1>1, <3>2, <3>3
    <3>5. \A i \in 1..(n - 1) : f[i] = list[i]
      <4> SUFFICES ASSUME NEW i \in 1..(n - 1) PROVE f[i] = list[i]
        OBVIOUS
      <4>1. i \in 1..(m - one + 1) /\ one + i - 1 = i
        BY <1>1
      <4> QED BY <3>2, <3>3, <4>1
    <3> QED BY <3>2, <3>3, <3>4, <3>5
  <2>3. DOMAIN f = 1..(n - 1)
    BY <2>2, LenProperties
  <2>4. n \in 1..n
    BY <1>1
  <2>5. \A i \in 1..n : i = n \/ i \in 1..(n - 1)
    BY <1>1
  <2>6. \A i \in 1..(n - 1) : i \in 1..n
    BY <1>1
  <2>7. ToSet(list) = ToSet(f) \union {list[n]}
    <3>1. ToSet(list) = {list[i] : i \in 1..n}
      BY <1>2 DEF ToSet
    <3>2. ToSet(f) = {f[i] : i \in 1..(n - 1)}
      BY <2>3 DEF ToSet
    <3>3. \A x \in ToSet(list) : x \in ToSet(f) \union {list[n]}
      BY <2>2, <2>5, <3>1, <3>2
    <3>4. \A x \in ToSet(f) : x \in ToSet(list)
      BY <2>2, <2>6, <3>1, <3>2
    <3> QED BY <2>4, <3>1, <3>3, <3>4
  <2> QED BY <1>2, <1>4, <2>1, <2>2, <2>4, <2>7 DEF Obtained, Others
<1> QED BY <1>3, <1>4

\* What two sequences in a row consist of.
LEMMA ConcatToSet ==
  ASSUME NEW S, NEW q \in Seq(S), NEW r \in Seq(S)
  PROVE  q \o r \in Seq(S) /\ ToSet(q \o r) = ToSet(q) \union ToSet(r)
<1> PICK t : t = q \o r
  OBVIOUS
<1>1. Len(q) \in Nat /\ Len(r) \in Nat
  BY LenProperties
<1>2. /\ t \in Seq(S) /\ Len(t) = Len(q) + Len(r)
      /\ \A i \in 1..(Len(q) + Len(r)) :
           t[i] = IF i <= Len(q) THEN q[i] ELSE r[i - Len(q)]
  BY ConcatProperties
<1>3. /\ DOMAIN q = 1..Len(q) /\ DOMAIN r = 1..Len(r)
      /\ DOMAIN t = 1..(Len(q) + Len(r))
  BY <1>2, LenProperties
<1>4. ASSUME NEW i \in DOMAIN t
      PROVE  t[i] \in ToSet(q) \union ToSet(r)
  <2>1. CASE i <= Len(q)
    <3>1. i \in DOMAIN q
      BY <1>1, <1>3, <2>1
    <3> QED BY <1>2, <1>3, <2>1, <3>1 DEF ToSet
  <2>2. CASE ~(i <= Len(q))
    <3>1. i - Len(q) \in DOMAIN r
      BY <1>1, <1>3, <2>2
    <3> QED BY <1>2, <1>3, <2>2, <3>1 DEF ToSet
  <2> QED BY <2>1, <2>2
<1>5. ASSUME NEW i \in DOMAIN q PROVE q[i] \in ToSet(t)
  <2>1. i \in DOMAIN t /\ i <= Len(q)
    BY <1>1, <1>3
  <2>2. t[i] = q[i]
    BY <1>2, <1>3, <2>1
  <2> QED BY <2>1, <2>2 DEF ToSet
<1>6. ASSUME NEW i \in DOMAIN r PROVE r[i] \in ToSet(t)
  <2> PICK j : j = Len(q) + i
    OBVIOUS
  <2>1. j \in DOMAIN t /\ ~(j <= Len(q)) /\ j - Len(q) = i
    BY <1>1, <1>3
  <2>2. t[j] = r[i]
    BY <1>2, <1>3, <2>1
  <2> QED BY <2>1, <2>2 DEF ToSet
<1>7. ToSet(t) = ToSet(q) \union ToSet(r)
  <2>1. \A x \in ToSet(t) : x \in ToSet(q) \union ToSet(r)
    BY <1>4 DEF ToSet
  <2>2. \A x \in ToSet(q) : x \in ToSet(t)
    BY <1>5 DEF ToSet
  <2>3. \A x \in ToSet(r) : x \in ToSet(t)
    BY <1>6 DEF ToSet
  <2> QED BY <2>1, <2>2, <2>3
<1> QED BY <1>2, <1>7

\* The states of the trie stay.
LEMMA TrieStays ==
  ASSUME TrieOK, UNCHANGED trie
  PROVE  TrieOK' /\ States' = States /\ Ends' = Ends
<1>1. /\ useTail' = useTail /\ breadthFirst' = breadthFirst
      /\ end' = end /\ cells' = cells
  BY DEF trie
<1> QED BY <1>1 DEF TrieOK, States, Ends

\* createAutomatonFromTrie
LEMMA CreateSafe ==
  ASSUME Safe, CreateAutomatonFromTrie
  PROVE  BuildOK'
<1>1. TrieOK /\ UNCHANGED <<trie, output>>
  BY DEF Safe, BuildOK, CreateAutomatonFromTrie
<1>2. TrieOK' /\ States' = States
  BY <1>1, TrieStays
<1> PICK q : q = ChildrenOf(Root)
  OBVIOUS
<1>3. list' = q /\ fail' = [s \in ToSet(q) |-> Root]
  BY DEF CreateAutomatonFromTrie
<1>4. Root \in States /\ Root \in Word /\ Len(Root) = 0
  BY <1>1, StatesAreWords DEF Root
<1>5. q \in Seq(States) /\ \A t \in ToSet(q) : t \in States /\ t # Root
  BY <1>1, <1>4, ChildrenAre
<1>6. q \in Seq(ToSet(q))
  <2>1. q \in [1..Len(q) -> States] /\ Len(q) \in Nat
    BY <1>5, LenProperties
  <2>2. \A i \in 1..Len(q) : q[i] \in ToSet(q)
    BY <2>1 DEF ToSet
  <2>3. q \in [1..Len(q) -> ToSet(q)]
    BY <2>1, <2>2
  <2> QED BY <2>1, <2>3, SeqDef
<1>7. \A t \in ToSet(q) : Len(Root) < Len(t) /\ EndsIn(t, Root)
  BY <1>1, <1>4, <1>5, StatesAreWords, EndsInReflexive DEF Root
<1> PICK f : f = fail'
  OBVIOUS
<1>8. DOMAIN f = ToSet(q) /\ \A t \in ToSet(q) : f[t] = Root
  BY <1>3
<1>9. FailOK'
  BY <1>2, <1>4, <1>5, <1>7, <1>8 DEF FailOK
<1>10. (~useTail => Suffixed)'
  BY <1>7, <1>8 DEF Suffixed
<1>11. DOMAIN output' = {}
  BY <1>1 DEF Safe, BuildOK, CreateAutomatonFromTrie
<1>12. list' \in Seq(DOMAIN fail')
  BY <1>3, <1>6, <1>8
<1> QED BY <1>2, <1>9, <1>10, <1>11, <1>12 DEF BuildOK

\* What a round of buildAutomaton sets, for the children q of the state
\* obtained, their fails next, and those of them that get an output.
Sets(q, next, ending) ==
  /\ Obtained \in DOMAIN fail /\ Others \in Seq(DOMAIN fail)
  /\ ToSet(list) = ToSet(Others) \union {Obtained}
  /\ q = ChildrenOf(Obtained) /\ list' = Others \o q
  /\ next = [t \in ToSet(q) |-> ChildFail(Obtained, Last(t))]
  /\ ending = {t \in ToSet(q) : OutputThrough(next[t]) # {}}
  /\ fail' = [t \in DOMAIN fail \union ToSet(q) |->
                IF t \in ToSet(q) THEN next[t] ELSE fail[t]]
  /\ output' = [t \in DOMAIN output \union ending |->
                  IF t \in ending
                  THEN CHOOSE o \in OutputThrough(next[t]) : TRUE
                  ELSE output[t]]

\* Every round sets these.
LEMMA VisitSets ==
  ASSUME BuildOK, Visit
  PROVE  \E q, next, ending : Sets(q, next, ending)
<1> DEFINE q == ChildrenOf(Obtained)
           next == [t \in ToSet(q) |-> ChildFail(Obtained, Last(t))]
           ending == {t \in DOMAIN next : OutputThrough(next[t]) # {}}
<1>1. list # << >> /\ list \in Seq(DOMAIN fail)
  BY DEF Visit, BuildOK
<1>2. /\ Obtained \in DOMAIN fail /\ Others \in Seq(DOMAIN fail)
      /\ ToSet(list) = ToSet(Others) \union {Obtained}
  BY <1>1, Obtaining
<1>3. DOMAIN next = ToSet(q)
  OBVIOUS
<1>4. /\ fail' = [t \in DOMAIN fail \union DOMAIN next |->
                    IF t \in DOMAIN next THEN next[t] ELSE fail[t]]
      /\ output' = [t \in DOMAIN output \union ending |->
                      IF t \in ending
                      THEN CHOOSE o \in OutputThrough(next[t]) : TRUE
                      ELSE output[t]]
      /\ list' = Others \o q
  BY DEF Visit
<1>5. /\ q = ChildrenOf(Obtained)
      /\ next = [t \in ToSet(q) |-> ChildFail(Obtained, Last(t))]
      /\ ending = {t \in DOMAIN next : OutputThrough(next[t]) # {}}
  OBVIOUS
<1> HIDE DEF q, next, ending
<1>6. /\ fail' = [t \in DOMAIN fail \union ToSet(q) |->
                    IF t \in ToSet(q) THEN next[t] ELSE fail[t]]
      /\ ending = {t \in ToSet(q) : OutputThrough(next[t]) # {}}
  BY <1>3, <1>4, <1>5
<1>7. Sets(q, next, ending)
  BY <1>2, <1>4, <1>5, <1>6 DEF Sets
<1> QED BY <1>7

\* An output that is passed on is a state as short as the fail.
LEMMA OutputIs ==
  ASSUME BuildOK, NEW r \in States, OutputThrough(r) # {}
  PROVE  \E o \in States :
           /\ (CHOOSE x \in OutputThrough(r) : TRUE) = o /\ Len(o) <= Len(r)
           /\ IF IsEnd(r) THEN o = r ELSE r \in DOMAIN output /\ o = output[r]
<1> PICK o : o = CHOOSE x \in OutputThrough(r) : TRUE
  OBVIOUS
<1>1. o \in OutputThrough(r)
  OBVIOUS
<1>2. Len(r) \in Nat
  BY StatesAreWords DEF BuildOK
<1>3. CASE IsEnd(r)
  BY <1>1, <1>2, <1>3 DEF OutputThrough
<1>4. CASE ~IsEnd(r)
  <2>1. r \in DOMAIN output /\ o = output[r]
    BY <1>1, <1>4 DEF OutputThrough
  <2>2. o \in States /\ Len(o) < Len(r) /\ Len(o) \in Nat
    BY <2>1, StatesAreWords DEF BuildOK
  <2>3. Len(o) <= Len(r)
    BY <1>2, <2>2
  <2> QED BY <1>4, <2>1, <2>2, <2>3
<1> QED BY <1>3, <1>4

\* A round of buildAutomaton.
LEMMA VisitSafe ==
  ASSUME Safe, Visit
  PROVE  BuildOK'
<1>1. BuildOK /\ TrieOK /\ FailOK /\ UNCHANGED <<trie, pc>>
  BY DEF Safe, BuildOK, Visit
<1>2. TrieOK' /\ States' = States
  BY <1>1, TrieStays
<1>0. PICK q, next, ending : Sets(q, next, ending)
  BY <1>1, VisitSets
<1>3. /\ Obtained \in DOMAIN fail /\ Others \in Seq(DOMAIN fail)
      /\ ToSet(list) = ToSet(Others) \union {Obtained}
      /\ q = ChildrenOf(Obtained) /\ list' = Others \o q
      /\ next = [t \in ToSet(q) |-> ChildFail(Obtained, Last(t))]
      /\ ending = {t \in ToSet(q) : OutputThrough(next[t]) # {}}
      /\ fail' = [t \in DOMAIN fail \union ToSet(q) |->
                    IF t \in ToSet(q) THEN next[t] ELSE fail[t]]
      /\ output' = [t \in DOMAIN output \union ending |->
                      IF t \in ending
                      THEN CHOOSE o \in OutputThrough(next[t]) : TRUE
                      ELSE output[t]]
  BY <1>0 DEF Sets
<1> PICK s : s = Obtained
  OBVIOUS
<1> PICK kids : kids = ToSet(q)
  OBVIOUS
<1>4. s \in States /\ s # Root /\ s \in Word
  BY <1>1, <1>3, StatesAreWords DEF FailOK
<1>5. q \in Seq(States) /\ \A t \in kids : t \in States /\ t # Root
  BY <1>1, <1>3, <1>4, ChildrenAre
<1>6. \A t \in kids :
        /\ next[t] \in States /\ Len(next[t]) < Len(t)
        /\ Suffixed => EndsIn(t, next[t])
  <2> SUFFICES ASSUME NEW t \in kids
               PROVE  /\ next[t] \in States /\ Len(next[t]) < Len(t)
                      /\ Suffixed => EndsIn(t, next[t])
    OBVIOUS
  <2>1. next[t] = ChildFail(s, Last(t)) /\ t \in ToSet(ChildrenOf(s))
    BY <1>3
  <2> QED BY <1>1, <1>4, <2>1, ChildFailIs
<1> PICK f : f = fail'
  OBVIOUS
<1>7. /\ DOMAIN f = DOMAIN fail \union kids
      /\ \A t \in DOMAIN f : f[t] = IF t \in kids THEN next[t] ELSE fail[t]
  BY <1>3
<1>8. FailOK'
  <2>1. DOMAIN f \subseteq States \ {Root}
    BY <1>1, <1>5, <1>7 DEF FailOK
  <2>2. \A t \in DOMAIN f : f[t] \in States /\ Len(f[t]) < Len(t)
    BY <1>1, <1>6, <1>7 DEF FailOK
  <2> QED BY <1>2, <2>1, <2>2 DEF FailOK
<1>9. (~useTail => Suffixed)'
  <2>1. useTail' = useTail
    BY <1>1 DEF trie
  <2>2. ASSUME ~useTail, NEW t \in DOMAIN f PROVE EndsIn(t, f[t])
    BY <1>1, <1>6, <1>7, <2>2 DEF BuildOK, Suffixed
  <2> QED BY <2>1, <2>2 DEF Suffixed
<1>10. list' \in Seq(DOMAIN f)
  <2>1. Others \in Seq(DOMAIN f)
    BY <1>3, <1>7, SeqMonotonic
  <2>2. q \in Seq(DOMAIN f)
    <3>1. q \in [1..Len(q) -> States] /\ Len(q) \in Nat
      BY <1>5, LenProperties
    <3>2. \A i \in 1..Len(q) : q[i] \in kids
      BY <3>1 DEF ToSet
    <3>3. q \in [1..Len(q) -> DOMAIN f]
      BY <1>7, <3>1, <3>2
    <3> QED BY <3>1, <3>3, SeqDef
  <2> QED BY <1>3, <2>1, <2>2, ConcatProperties
<1> PICK h : h = output'
  OBVIOUS
<1>11. /\ DOMAIN h = DOMAIN output \union ending
       /\ \A t \in DOMAIN h :
            h[t] = IF t \in ending
                   THEN CHOOSE o \in OutputThrough(next[t]) : TRUE
                   ELSE output[t]
  BY <1>3
<1>12. DOMAIN h \subseteq DOMAIN f
  BY <1>1, <1>3, <1>7, <1>11 DEF BuildOK
<1>13. ASSUME NEW t \in DOMAIN h
       PROVE  h[t] \in States /\ Len(h[t]) < Len(t)
  <2>1. CASE t \notin ending
    BY <1>1, <1>11, <2>1 DEF BuildOK
  <2>2. CASE t \in ending
    <3> PICK r : r = next[t]
      OBVIOUS
    <3>1. t \in kids /\ OutputThrough(r) # {}
      BY <1>3, <2>2
    <3>2. r \in States /\ Len(r) < Len(t) /\ t \in States
      BY <1>5, <1>6, <3>1
    <3>3. PICK o \in States :
            (CHOOSE x \in OutputThrough(r) : TRUE) = o /\ Len(o) <= Len(r)
      BY <1>1, <3>1, <3>2, OutputIs
    <3>4. h[t] = o
      BY <1>11, <2>2, <3>3
    <3>5. Len(o) \in Nat /\ Len(r) \in Nat /\ Len(t) \in Nat
      BY <1>1, <3>2, <3>3, StatesAreWords
    <3>6. Len(o) < Len(t)
      BY <3>2, <3>3, <3>5
    <3> QED BY <3>4, <3>6
  <2> QED BY <2>1, <2>2
<1>14. pc' # "create"
  BY DEF Visit
<1> QED BY <1>2, <1>8, <1>9, <1>10, <1>12, <1>13, <1>14 DEF BuildOK

-----------------------------------------------------------------------------
(* The invariant: the searches *)

\* What the actions leave alone.
LEMMA BuildStays ==
  ASSUME BuildOK, UNCHANGED <<trie, automaton>>, pc' # "create"
  PROVE  BuildOK'
<1>1. TrieOK /\ UNCHANGED trie /\ UNCHANGED automaton
  BY DEF BuildOK
<1>2. TrieOK' /\ States' = States
  BY <1>1, TrieStays
<1>3. list' = list /\ fail' = fail /\ output' = output /\ useTail' = useTail
  BY <1>1 DEF automaton, trie
<1> QED BY <1>2, <1>3 DEF BuildOK, FailOK, Suffixed

\* The search is as it was, between the steps of the construction too.
LEMMA SearchStays ==
  ASSUME Safe, UNCHANGED <<trie, search>>,
         \/ pc' = pc
         \/ /\ pc' \in {"build", "ready"}
            /\ pc \in {"create", "build"}
         \/ pc' = "done"
  PROVE  SearchOK'
<1>1. TrieOK /\ SearchOK
  BY DEF Safe, BuildOK
<1>2. States' = States /\ Ends' = Ends
  BY <1>1, TrieStays
<1>3. /\ mode' = mode /\ text' = text /\ index' = index /\ state' = state
      /\ found' = found /\ useTail' = useTail /\ end' = end
  BY DEF trie, search
<1>4. \A o : Reported(o)' <=> Reported(o)
  BY <1>3 DEF Reported, Occurs
<1>5. ToSet(found') = ToSet(found)
  BY <1>3
<1>6. (~useTail => \A o \in ToSet(found) : Reported(o))'
  BY <1>1, <1>3, <1>4, <1>5 DEF SearchOK, ToSet
<1>7. (~useTail => EndsIn(SubSeq(text, 1, index), state))'
  BY <1>1, <1>3 DEF SearchOK, EndsIn
<1> QED BY <1>1, <1>2, <1>3, <1>6, <1>7 DEF SearchOK

\* A search begins at the root,
LEMMA StartSearchSafe ==
  ASSUME Safe, StartSearch
  PROVE  SearchOK'
<1>1. TrieOK /\ SearchOK /\ pc = "ready" /\ UNCHANGED trie
  BY DEF Safe, BuildOK, StartSearch
<1>2. States' = States /\ Ends' = Ends
  BY <1>1, TrieStays
<1>3. /\ mode' \in {"all", "first", "exact"} /\ text' \in Texts
      /\ index' = 0 /\ state' = Root /\ found' = << >> /\ pc' = "search"
  BY <1>1 DEF StartSearch, SearchOK
<1>4. Root \in States
  BY <1>1, StatesAreWords
<1>5. text' \in Word /\ Len(text') \in Nat
  BY <1>3, TextsArePlain
<1> PICK zero \in Nat : zero = 0
  OBVIOUS
<1> PICK t : t = text'
  OBVIOUS
<1>6. EndsIn(SubSeq(t, 1, zero), Root)
  <2>1. zero \in 0..Len(t)
    BY <1>5
  <2>2. SubSeq(t, 1, zero) \in Word
    BY <1>5, <2>1, PrefixOf
  <2> QED BY <2>2, EndsInReflexive DEF Root
<1>7. /\ EndsIn(SubSeq(text, 1, index), state)'
      /\ found' \in Seq(Ends) /\ Len(found') = 0 /\ ToSet(found)' = {}
  <2>1. SubSeq(text', 1, index') = SubSeq(t, 1, zero) /\ state' = Root
    BY <1>3
  <2>2. EndsIn(SubSeq(text', 1, index'), state')
    BY <1>6, <2>1
  <2> QED BY <1>3, <2>2, EmptySeq DEF ToSet, EndsIn
<1>8. index' \in 0..Len(text')
  BY <1>3, <1>5
<1> QED BY <1>2, <1>3, <1>4, <1>7, <1>8 DEF SearchOK

\* and its results are taken.
LEMMA ReturnSafe ==
  ASSUME Safe, Return
  PROVE  SearchOK'
<1>1. TrieOK /\ UNCHANGED trie
  BY DEF Safe, BuildOK, Return
<1>2. States' = States /\ Ends' = Ends
  BY <1>1, TrieStays
<1>3. /\ mode' = "all" /\ text' = << >>
      /\ index' = 0 /\ state' = Root /\ found' = << >> /\ pc' = "ready"
  BY DEF Return
<1>4. Root \in States
  BY <1>1, StatesAreWords
<1> PICK zero \in Nat : zero = 0
  OBVIOUS
<1> PICK t : t = << >>
  OBVIOUS
<1>5. t \in Word /\ zero \in 0..Len(t)
  BY EmptySeq DEF Word
<1>6. EndsIn(SubSeq(t, 1, zero), Root)
  <2>1. SubSeq(t, 1, zero) \in Word
    BY <1>5, PrefixOf
  <2> QED BY <2>1, EndsInReflexive DEF Root
<1>7. EndsIn(SubSeq(text', 1, index'), state')
  BY <1>3, <1>6
<1>8. found' \in Seq(Ends) /\ Len(found') = 0 /\ ToSet(found') = {}
  BY <1>3, EmptySeq DEF ToSet
<1>9. index' \in 0..Len(text')
  BY <1>3, <1>5
<1> QED BY <1>2, <1>3, <1>4, <1>7, <1>8, <1>9 DEF SearchOK

\* A sequence of one or of two
LEMMA OneOrTwo ==
  ASSUME NEW S, NEW a \in S, NEW b \in S
  PROVE  /\ <<a>> \in Seq(S) /\ Len(<<a>>) = 1 /\ ToSet(<<a>>) = {a}
         /\ <<a, b>> \in Seq(S) /\ Len(<<a, b>>) = 2
         /\ ToSet(<<a, b>>) = {a, b}
<1>1. DOMAIN <<a>> = {1} /\ DOMAIN <<a, b>> = {1, 2}
  OBVIOUS
<1>2. ToSet(<<a>>) = {a}
  BY <1>1 DEF ToSet
<1>3. ToSet(<<a, b>>) = {a, b}
  BY <1>1 DEF ToSet
<1> QED BY <1>2, <1>3

\* The list of occurrences is one of these.
LEMMA AtMostTwo ==
  ASSUME NEW S, NEW o \in S, NEW a \in S, NEW f, f = <<o>> \/ f = <<a, o>>
  PROVE  f \in Seq(S) /\ Len(f) <= 2 /\ ToSet(f) \subseteq {a, o}
<1>1. CASE f = <<o>>
  <2>1. f \in Seq(S) /\ Len(f) = 1 /\ ToSet(f) = {o}
    BY <1>1, OneOrTwo
  <2> QED BY <2>1
<1>2. CASE f = <<a, o>>
  <2>1. f \in Seq(S) /\ Len(f) = 2 /\ ToSet(f) = {a, o}
    BY <1>2, OneOrTwo
  <2> QED BY <2>1
<1> QED BY <1>1, <1>2

\* What automaton_createOccurrence puts behind the list of occurrences.
LEMMA LinkedIs ==
  ASSUME NEW S, found \in Seq(S), NEW o \in S, NEW rounds
  PROVE  \E a \in S :
           /\ \/ Linked(o, rounds) = <<o>> /\ a = o /\ found = << >>
              \/ Linked(o, rounds) = <<a, o>>
           /\ a = IF found = << >> THEN o ELSE Head(found)
           /\ found # << >> => a \in ToSet(found)
<1> PICK f : f = found
  OBVIOUS
<1>1. f \in Seq(S)
  OBVIOUS
<1>2. Head(Append(f, o)) = IF f = << >> THEN o ELSE Head(f)
  BY <1>1, HeadTailAppend
<1> PICK a : a = Head(Append(f, o))
  OBVIOUS
<1>3. ASSUME f # << >> PROVE Head(f) \in S /\ Head(f) \in ToSet(f)
  <2>1. Len(f) \in Nat \ {0}
    BY <1>1, <1>3, EmptySeq
  <2>2. Head(f) = f[1]
    <3>1. Len(f) \in Nat /\ Len(f) > 0
      BY <2>1
    <3> QED BY <1>1, <3>1, HeadTailOfSubSeq, SubSeqFull
  <2>3. 1 \in DOMAIN f
    <3>1. DOMAIN f = 1..Len(f)
      BY <1>1, LenProperties
    <3> QED BY <2>1, <3>1
  <2>4. Head(f) \in S
    BY <1>1, <1>3, HeadTailProperties
  <2> QED BY <2>2, <2>3, <2>4 DEF ToSet
<1>4. a \in S /\ (f # << >> => a \in ToSet(f))
  BY <1>2, <1>3
<1>5. Linked(o, rounds) = IF f = << >> /\ rounds = 1 THEN <<o>> ELSE <<a, o>>
  BY DEF Linked
<1>6. CASE f = << >> /\ rounds = 1
  BY <1>2, <1>4, <1>5, <1>6
<1>7. CASE ~(f = << >> /\ rounds = 1)
  BY <1>2, <1>4, <1>5, <1>7
<1> QED BY <1>6, <1>7

\* The matches of an exact search, and the first of them.
Matches == {k \in 1..Len(text) :
              /\ SubSeq(text, 1, k) \in cells
              /\ IsMatch(SubSeq(text, 1, k), TRUE, k)}

\* What an exact search reports.
LEMMA ExactIs ==
  ASSUME TrieOK, text \in Texts \union {<< >>}, SearchExact
  PROVE  /\ Matches = {} => found' = << >>
         /\ Matches # {} =>
              \E k \in 1..Len(text) :
                /\ k \in Matches /\ \A j \in Matches : k <= j
                /\ SubSeq(text, 1, k) \in Word
                /\ found' = <<Occurrence(SubSeq(text, 1, k))>>
                /\ Occurrence(SubSeq(text, 1, k)) \in Ends
<1>1. text \in Word /\ Len(text) \in Nat
  BY TextsArePlain
<1>2. Matches \subseteq 1..Len(text) /\ Matches \subseteq Nat
  <2>1. Matches \subseteq 1..Len(text)
    BY DEF Matches
  <2>2. \A k \in 1..Len(text) : k \in Nat
    BY <1>1
  <2> QED BY <2>1, <2>2
<1>3. found' = IF Matches = {} THEN << >>
               ELSE <<Occurrence(SubSeq(text, 1, Min(Matches)))>>
  BY DEF SearchExact, Matches
<1>4. ASSUME Matches # {}
      PROVE  \E k \in 1..Len(text) :
                /\ k \in Matches /\ \A j \in Matches : k <= j
                /\ SubSeq(text, 1, k) \in Word
                /\ found' = <<Occurrence(SubSeq(text, 1, k))>>
                /\ Occurrence(SubSeq(text, 1, k)) \in Ends
  <2> PICK k : k = Min(Matches)
    OBVIOUS
  <2>1. k \in Matches /\ \A j \in Matches : k <= j
    BY <1>2, <1>4, MinIsLeast
  <2>2. k \in 1..Len(text) /\ k \in 0..Len(text)
    BY <1>2, <2>1
  <2> PICK p : p = SubSeq(text, 1, k)
    OBVIOUS
  <2>3. p \in Word
    BY <1>1, <2>2, PrefixOf
  <2>4. IsEnd(p) \/ IsLeaf(p)
    BY <2>1 DEF Matches, IsMatch
  <2>5. Occurrence(p) \in Ends
    BY <2>3, <2>4, OccurrenceIsEnd
  <2>6. found' = <<Occurrence(p)>>
    BY <1>3, <1>4
  <2> QED BY <2>1, <2>2, <2>3, <2>5, <2>6
<1> QED BY <1>3, <1>4

\* automaton_search_exact reports the text or nothing.
LEMMA SearchExactSafe ==
  ASSUME Safe, SearchExact
  PROVE  SearchOK'
<1>1. TrieOK /\ SearchOK /\ UNCHANGED trie
  BY DEF Safe, BuildOK, SearchExact
<1>2. States' = States /\ Ends' = Ends
  BY <1>1, TrieStays
<1>3. /\ mode' = mode /\ text' = text /\ index' = index /\ state' = state
      /\ pc' = "done" /\ useTail' = useTail /\ end' = end /\ mode = "exact"
  BY <1>1 DEF trie, SearchExact
<1>4. text \in Texts \union {<< >>} /\ text \in Word /\ Len(text) \in Nat
  BY <1>1, TextsArePlain DEF SearchOK
<1>5. /\ found' \in Seq(Ends) /\ Len(found') <= 2
      /\ ~useTail => \A o \in ToSet(found') : Reported(o)
  <2>1. CASE Matches = {}
    <3>1. found' = << >>
      BY <1>1, <1>4, <2>1, ExactIs
    <3>2. found' \in Seq(Ends) /\ Len(found') = 0 /\ ToSet(found') = {}
      BY <3>1, EmptySeq DEF ToSet
    <3> QED BY <3>2
  <2>2. CASE Matches # {}
    <3> PICK k \in 1..Len(text) :
          /\ k \in Matches /\ \A j \in Matches : k <= j
          /\ SubSeq(text, 1, k) \in Word
          /\ found' = <<Occurrence(SubSeq(text, 1, k))>>
          /\ Occurrence(SubSeq(text, 1, k)) \in Ends
      BY <1>1, <1>4, <2>2, ExactIs
    <3> PICK p : p = SubSeq(text, 1, k)
      OBVIOUS
    <3> PICK o : o = Occurrence(p)
      OBVIOUS
    <3>1. found' = <<o>> /\ o \in Ends /\ p \in Word
      OBVIOUS
    <3>2. found' \in Seq(Ends) /\ Len(found') = 1 /\ ToSet(found') = {o}
      BY <3>1, OneOrTwo
    <3>3. ASSUME ~useTail PROVE Reported(o)
      <4>1. ~IsLeaf(p)
        BY <1>1, <3>3, NoLeaves
      <4>2. IsEnd(p) /\ k = Len(text)
        BY <4>1 DEF Matches, IsMatch
      <4>3. p = text
        BY <1>4, <4>2, SubSeqFull DEF Word
      <4>4. p \in DOMAIN end /\ o = end[p]
        BY <1>1, <3>1, <3>3, <4>2, OccurrenceIsEnd
      <4> QED BY <1>3, <4>3, <4>4 DEF Reported
    <3> QED BY <3>2, <3>3
  <2> QED BY <2>1, <2>2
<1>6. ~useTail' => \A o \in ToSet(found') : Reported(o)'
  BY <1>3, <1>5 DEF Reported, Occurs
<1> QED BY <1>1, <1>2, <1>3, <1>5, <1>6 DEF SearchOK, ToSet

\* A character of the text, and what is read with it.
LEMMA NextCharacter ==
  ASSUME TrieOK, FailOK, SearchOK, ReadCharacter
  PROVE  \E c \in Nat :
           /\ c > END_OF_TEXT /\ c = text[index + 1] /\ index \in Nat
           /\ index' = index + 1 /\ index' \in 1..Len(text)
           /\ index \in 0..Len(text)
           /\ state' = Step(state, c) /\ state' \in States
           /\ SubSeq(text, 1, index) \in Word
           /\ SubSeq(text, 1, index') = Append(SubSeq(text, 1, index), c)
           /\ SubSeq(text, 1, index') \in Word
           /\ text \in Word /\ Len(text) \in Nat
<1>1. text \in Word /\ Len(text) \in Nat /\ Plain(text)
  BY TextsArePlain DEF SearchOK
<1> PICK i : i = index
  OBVIOUS
<1>2. i \in 0..(Len(text) - 1) /\ i \in Nat /\ i \in 0..Len(text)
  <2>1. i \in 0..Len(text) /\ i < Len(text)
    BY DEF SearchOK, ReadCharacter
  <2> QED BY <1>1, <2>1
<1>3. i + 1 \in 1..Len(text) /\ i + 1 \in 0..Len(text)
  BY <1>1, <1>2
<1> PICK c : c = text[i + 1]
  OBVIOUS
<1>4. /\ SubSeq(text, 1, i + 1) = Append(SubSeq(text, 1, i), c)
      /\ SubSeq(text, 1, i) \in Word /\ c \in Nat
  BY <1>1, <1>2, ReadOneMore
<1>5. c > END_OF_TEXT
  BY <1>1, <1>3 DEF Plain
<1>6. index' = i + 1 /\ state' = Step(state, text[index'])
  BY DEF ReadCharacter
<1>7. state' = Step(state, c)
  BY <1>6
<1>8. state' \in States
  <2>1. state \in States
    BY DEF SearchOK
  <2>2. Step(state, c) \in States
    BY <1>4, <1>5, <2>1, StepLands
  <2> QED BY <1>7, <2>2
<1>9. SubSeq(text, 1, i + 1) \in Word
  BY <1>1, <1>3, PrefixOf
<1>10. /\ index \in Nat /\ c = text[index + 1] /\ index' = index + 1
       /\ index' \in 1..Len(text) /\ index \in 0..Len(text)
       /\ SubSeq(text, 1, index) \in Word
       /\ SubSeq(text, 1, index') = Append(SubSeq(text, 1, index), c)
       /\ SubSeq(text, 1, index') \in Word
  BY <1>2, <1>3, <1>4, <1>6, <1>9
<1> QED BY <1>1, <1>4, <1>5, <1>7, <1>8, <1>10

\* What a character adds to the occurrences.
LEMMA FoundIs ==
  ASSUME TrieOK, FailOK, SearchOK, ReadCharacter
  PROVE  \/ ~IsMatch(state', FALSE, index') /\ found' = found /\ pc' = pc
         \/ \E o \in Ends, a \in Ends :
              /\ IsMatch(state', FALSE, index') /\ o = Occurrence(state')
              /\ a = IF found = << >> THEN o ELSE Head(found)
              /\ found # << >> => a \in ToSet(found)
              /\ \/ /\ mode = "first" /\ pc' = "done" /\ found' = <<o>>
                 \/ /\ mode # "first" /\ pc' = pc
                    /\ \/ found = << >> /\ found' = <<o>>
                       \/ found' = <<a, o>>
<1> state' \in States
  BY NextCharacter
<1>1. state' \in Word
  BY StatesAreWords
<1>2. CASE ~IsMatch(state', FALSE, index')
  BY <1>2 DEF ReadCharacter
<1>3. CASE IsMatch(state', FALSE, index')
  <2> PICK s : s = state'
    OBVIOUS
  <2> PICK o : o = Occurrence(s)
    OBVIOUS
  <2>1. IsEnd(s) \/ IsLeaf(s)
    BY <1>3 DEF IsMatch
  <2>2. o \in Ends
    BY <1>1, <2>1, OccurrenceIsEnd
  <2>3. found \in Seq(Ends)
    BY DEF SearchOK
  <2> PICK rounds : rounds = 1 + IF s \in DOMAIN output THEN 1 ELSE 0
    OBVIOUS
  <2>4. /\ found' = IF mode = "first" THEN <<o>> ELSE Linked(o, rounds)
        /\ pc' = IF mode = "first" THEN "done" ELSE pc
    <3>1. /\ UNCHANGED output
          /\ state' = s
      BY DEF ReadCharacter, automaton
    <3> QED BY <1>3 DEF ReadCharacter
  <2> PICK a \in Ends :
           /\ \/ Linked(o, rounds) = <<o>> /\ a = o /\ found = << >>
              \/ Linked(o, rounds) = <<a, o>>
           /\ a = IF found = << >> THEN o ELSE Head(found)
           /\ found # << >> => a \in ToSet(found)
    BY <2>2, <2>3, LinkedIs
  <2> QED BY <1>3, <2>2, <2>4
<1> QED BY <1>2, <1>3

\* A round of automaton_search_ac: the state ends what is read.
LEMMA ReadCharacterSafe ==
  ASSUME Safe, ReadCharacter
  PROVE  SearchOK'
<1>1. /\ TrieOK /\ FailOK /\ SearchOK /\ UNCHANGED trie
      /\ ~useTail => Suffixed
  BY DEF Safe, BuildOK, ReadCharacter
<1>2. States' = States /\ Ends' = Ends
  BY <1>1, TrieStays
<1>3. /\ mode' = mode /\ text' = text /\ useTail' = useTail /\ end' = end
      /\ pc = "search" /\ mode # "exact"
  BY <1>1 DEF trie, ReadCharacter
<1> PICK c \in Nat :
      /\ c > END_OF_TEXT /\ c = text[index + 1] /\ index \in Nat
      /\ index' = index + 1 /\ index' \in 1..Len(text)
      /\ index \in 0..Len(text)
      /\ state' = Step(state, c) /\ state' \in States
      /\ SubSeq(text, 1, index) \in Word
      /\ SubSeq(text, 1, index') = Append(SubSeq(text, 1, index), c)
      /\ SubSeq(text, 1, index') \in Word
      /\ text \in Word /\ Len(text) \in Nat
  BY <1>1, NextCharacter
<1> PICK read : read = SubSeq(text, 1, index')
  OBVIOUS
<1>4. index' \in 0..Len(text)
  OBVIOUS
<1>5. state \in States /\ state \in Word /\ state' \in Word
  BY <1>1, StatesAreWords DEF SearchOK
<1>6. ASSUME ~useTail PROVE EndsIn(read, state')
  <2> PICK before : before = SubSeq(text, 1, index)
    OBVIOUS
  <2>1. EndsIn(before, state) /\ before \in Word
    BY <1>1, <1>6 DEF SearchOK
  <2>2. EndsIn(Append(before, c), Append(state, c))
    BY <1>5, <2>1, EndsInAppend
  <2>3. EndsIn(Append(state, c), Step(state, c))
    BY <1>1, <1>5, <1>6, StepEnds
  <2>4. Append(before, c) \in Word /\ Append(state, c) \in Word
    BY <1>5, <2>1, FrontAndLast
  <2>5. EndsIn(Append(before, c), state')
    BY <1>5, <2>2, <2>3, <2>4, EndsInTransitive
  <2> QED BY <2>5
<1>7. ASSUME ~useTail, NEW o, o = Occurrence(state'),
             IsMatch(state', FALSE, index')
      PROVE  Reported(o)
  <2> PICK s : s = state'
    OBVIOUS
  <2>1. IsEnd(s) \/ IsLeaf(s)
    BY <1>7 DEF IsMatch
  <2>2. s \in Word
    BY <1>5
  <2>3. s \in DOMAIN end /\ Occurrence(s) = end[s]
    BY <1>1, <1>7, <2>1, <2>2, OccurrenceIsEnd
  <2>4. EndsIn(SubSeq(text, 1, index'), s)
    BY <1>6, <1>7
  <2>5. Occurs(s, text)
    BY <1>4, <2>2, <2>4, SuffixOccurs
  <2> QED BY <1>3, <1>7, <2>3, <2>5 DEF Reported
<1>8. /\ found' \in Seq(Ends) /\ Len(found') <= 2
      /\ ~useTail => \A o \in ToSet(found') : Reported(o)
      /\ pc' \in {"search", "done"}
  <2>0. /\ found \in Seq(Ends) /\ Len(found) <= 2
        /\ ~useTail => \A o \in ToSet(found) : Reported(o)
    BY <1>1 DEF SearchOK
  <2>1. CASE ~IsMatch(state', FALSE, index') /\ found' = found /\ pc' = pc
    BY <1>3, <2>0, <2>1
  <2>2. ASSUME NEW o \in Ends, NEW a \in Ends,
               IsMatch(state', FALSE, index'), o = Occurrence(state'),
               a = IF found = << >> THEN o ELSE Head(found),
               found # << >> => a \in ToSet(found),
               \/ /\ mode = "first" /\ pc' = "done" /\ found' = <<o>>
               \/ /\ mode # "first" /\ pc' = pc
                  /\ \/ found = << >> /\ found' = <<o>>
                     \/ found' = <<a, o>>
        PROVE  /\ found' \in Seq(Ends) /\ Len(found') <= 2
               /\ ~useTail => \A x \in ToSet(found') : Reported(x)
               /\ pc' \in {"search", "done"}
    <3>1. pc' \in {"search", "done"}
      BY <1>3, <2>2
    <3>2. found' = <<o>> \/ found' = <<a, o>>
      BY <2>2
    <3>3. /\ found' \in Seq(Ends) /\ Len(found') <= 2
          /\ ToSet(found') \subseteq {a, o}
      <4> PICK f : f = found'
        OBVIOUS
      <4>1. f = <<o>> \/ f = <<a, o>>
        BY <3>2
      <4> QED BY <4>1, AtMostTwo
    <3>4. ASSUME ~useTail PROVE Reported(o) /\ Reported(a)
      <4>1. Reported(o)
        BY <1>7, <2>2, <3>4
      <4>2. CASE found = << >>
        BY <2>2, <4>1, <4>2
      <4>3. CASE found # << >>
        BY <2>0, <2>2, <3>4, <4>1, <4>3
      <4> QED BY <4>2, <4>3
    <3> QED BY <3>1, <3>3, <3>4
  <2> QED BY <1>1, <2>1, <2>2, FoundIs
<1>9. ~useTail' => \A o \in ToSet(found') : Reported(o)'
  BY <1>3, <1>8 DEF Reported, Occurs
<1> QED BY <1>2, <1>3, <1>4, <1>6, <1>8, <1>9, <1>1 DEF SearchOK, ToSet, EndsIn

\* No step breaks the invariant.
LEMMA NextSafe ==
  ASSUME Safe, [Next]_vars
  PROVE  Safe'
<1>1. CASE CreateAutomatonFromTrie
  <2>1. SearchOK'
    BY <1>1, SearchStays DEF CreateAutomatonFromTrie
  <2> QED BY <1>1, <2>1, CreateSafe DEF Safe
<1>2. CASE Visit
  <2>1. SearchOK'
    BY <1>2, SearchStays DEF Visit
  <2> QED BY <1>2, <2>1, VisitSafe DEF Safe
<1>3. CASE Built
  BY <1>3, SearchStays, BuildStays DEF Built, Safe
<1>4. CASE StartSearch
  <2>1. BuildOK'
    BY <1>4, BuildStays DEF StartSearch, Safe
  <2> QED BY <1>4, <2>1, StartSearchSafe DEF Safe
<1>5. CASE SearchExact
  <2>1. BuildOK'
    BY <1>5, BuildStays DEF SearchExact, Safe
  <2> QED BY <1>5, <2>1, SearchExactSafe DEF Safe
<1>6. CASE ReadCharacter
  <2>1. BuildOK'
    BY <1>6, BuildStays DEF ReadCharacter, Safe
  <2> QED BY <1>6, <2>1, ReadCharacterSafe DEF Safe
<1>7. CASE EndOfText
  BY <1>7, SearchStays, BuildStays DEF EndOfText, Safe
<1>8. CASE Return
  <2>1. BuildOK'
    BY <1>8, BuildStays DEF Return, Safe
  <2> QED BY <1>8, <2>1, ReturnSafe DEF Safe
<1>9. CASE UNCHANGED vars
  <2>1. SearchOK'
    BY <1>9, SearchStays DEF vars
  <2>2. pc = "create" => pc' = "create"
    BY <1>9 DEF vars
  <2>3. BuildOK'
    <3>1. TrieOK /\ UNCHANGED trie /\ UNCHANGED automaton /\ pc' = pc
      BY <1>9 DEF Safe, BuildOK, vars
    <3>2. TrieOK' /\ States' = States
      BY <3>1, TrieStays
    <3>3. /\ list' = list /\ fail' = fail /\ output' = output
          /\ useTail' = useTail
      BY <3>1 DEF automaton, trie
    <3> QED BY <3>1, <3>2, <3>3 DEF Safe, BuildOK, FailOK, Suffixed
  <2> QED BY <2>1, <2>3 DEF Safe
<1> QED BY <1>1, <1>2, <1>3, <1>4, <1>5, <1>6, <1>7, <1>8, <1>9 DEF Next

\* The construction and the searches keep the invariant.
THEOREM Invariance == Spec => []Safe
<1>1. Init => Safe
  BY InitSafe
<1>2. Safe /\ [Next]_vars => Safe'
  BY NextSafe
<1> QED BY <1>1, <1>2, PTL DEF Spec

\* The types are part of it.
LEMMA SafeTyped ==
  ASSUME Safe
  PROVE  TypeOK
<1>1. TrieOK /\ FailOK /\ BuildOK /\ SearchOK
  BY DEF Safe, BuildOK
<1>2. States \subseteq cells
  BY DEF States
<1>3. useTail \in BOOLEAN /\ breadthFirst \in BOOLEAN
  BY <1>1 DEF TrieOK
<1>4. /\ DOMAIN fail \subseteq cells
      /\ {fail[s] : s \in DOMAIN fail} \subseteq cells
  BY <1>1, <1>2 DEF FailOK
<1>5. ToSet(list) \subseteq cells
  <2>1. list \in Seq(DOMAIN fail)
    BY <1>1 DEF BuildOK
  <2>2. \A i \in DOMAIN list : list[i] \in DOMAIN fail
    BY <2>1, LenProperties, ElementOfSeq
  <2> QED BY <1>4, <2>2 DEF ToSet
<1>6. /\ DOMAIN output \subseteq DOMAIN fail
      /\ {output[s] : s \in DOMAIN output} \subseteq cells
  BY <1>1, <1>2 DEF BuildOK
<1>7. ToSet(found) \subseteq {end[w] : w \in DOMAIN end}
  <2>1. found \in Seq(Ends)
    BY <1>1 DEF SearchOK
  <2>2. \A i \in DOMAIN found : found[i] \in Ends
    BY <2>1, LenProperties, ElementOfSeq
  <2> QED BY <2>2 DEF ToSet, Ends
<1>8. /\ pc \in {"create", "build", "ready", "search", "done"}
      /\ mode \in {"all", "first", "exact"} /\ text \in Texts \union {<< >>}
      /\ index \in 0..Len(text) /\ state \in cells /\ Len(found) <= 2
  BY <1>1, <1>2 DEF SearchOK
<1> QED BY <1>3, <1>4, <1>5, <1>6, <1>7, <1>8 DEF TypeOK

\* The variables have their types in every reachable state, with a tail and
\* without, in either order of the visits: states, fails and outputs are cells
\* of the trie, and what is reported are ends of needles.
THEOREM TypeCorrect == Spec => []TypeOK
BY Invariance, SafeTyped, PTL

\* Fails and outputs lead to shorter words: no loop of automaton_step or of
\* automaton_search_ac goes on for ever.
THEOREM FailsAreShorter == Spec => []FailsShorten
<1>1. Safe => FailsShorten
  BY DEF Safe, BuildOK, FailOK, FailsShorten
<1> QED BY <1>1, Invariance, PTL

\* automaton_search_ac and automaton_search_exact, without a tail, report no
\* needle that is not in the text, in whatever order the automaton was built.
THEOREM ReportsNoMoreThanOccurs == Spec => []OnlyOccurrencesInArray
<1>1. Safe => OnlyOccurrencesInArray
  <2> SUFFICES ASSUME Safe, ~useTail, NEW o \in ToSet(found)
               PROVE  IF mode = "exact" THEN NeedleOf(o) = text
                      ELSE Occurs(NeedleOf(o), text)
    BY DEF OnlyOccurrencesInArray, OnlyOccurrences
  <2>1. TrieOK /\ Reported(o)
    BY DEF Safe, BuildOK, SearchOK
  <2> PICK w \in DOMAIN end :
        o = end[w] /\ IF mode = "exact" THEN w = text ELSE Occurs(w, text)
    BY <2>1 DEF Reported
  <2>2. NeedleOf(o) = w
    BY <2>1, NeedleOfEnd
  <2> QED BY <2>2
<1> QED BY <1>1, Invariance, PTL

-----------------------------------------------------------------------------
(* The construction with a queue *)

\* What is longest among the suffixes of a word is LongestSuffix.
LEMMA LongestSuffixIs ==
  ASSUME NEW word \in Word, NEW S, NEW u \in S, u \in Word, EndsIn(word, u),
         \A t \in S : t \in Word /\ EndsIn(word, t) => Len(t) <= Len(u)
  PROVE  LongestSuffix(word, S) = u
<1> DEFINE Among == Suffixes(word) \intersect S
<1>1. Among = {t \in S : t \in Word /\ EndsIn(word, t)}
  BY SuffixesEnd
<1> HIDE DEF Among
<1>2. u \in Among /\ \A t \in Among : Len(t) <= Len(u)
  BY <1>1
<1> PICK v : v = LongestSuffix(word, S)
  OBVIOUS
<1>3. v \in Among /\ \A t \in Among : Len(t) <= Len(v)
  <2>1. v = CHOOSE s \in Among : \A t \in Among : Len(t) <= Len(s)
    BY DEF LongestSuffix, Among
  <2> QED BY <1>2, <2>1, Zenon
<1>4. v \in Word /\ EndsIn(word, v)
  BY <1>1, <1>3
<1>5. Len(u) <= Len(v) /\ Len(v) <= Len(u)
  BY <1>2, <1>3
<1>6. EndsIn(v, u)
  BY <1>4, <1>5, EndsInNested
<1>7. u = v
  BY <1>4, <1>5, <1>6, EndsInLongest
<1> QED BY <1>7

\* No needle is empty.
LEMMA RootIsNoEnd ==
  ASSUME TrieOK
  PROVE  ~IsEnd(Root)
<1>1. Root \in Word
  BY StatesAreWords
<1>2. \A w \in DOMAIN end : w # << >>
  BY DictionaryOfTrie DEF Needles
<1> QED BY <1>1, <1>2, EndOfTextIsEnd DEF Root

\* The states to visit are such that no state is left out: a state whose
\* parent is known and no longer waits is known.
Closed ==
  /\ pc # "create" =>
       \A s \in States \ {Root} :
         /\ Front(s) = Root \/ Front(s) \in DOMAIN fail
         /\ Front(s) \notin ToSet(list)
         => s \in DOMAIN fail
  /\ pc \in {"ready", "search", "done"} => list = << >>

\* From the front of the list, states come in the order of their lengths.
Ordered ==
  \A i, j \in 1..Len(list) :
    i <= j => /\ Len(list[i]) <= Len(list[j])
              /\ Len(list[j]) <= Len(list[i]) + 1

LongestFails ==
  \A s \in DOMAIN fail : \A u \in cells :
    u # s /\ EndsIn(s, u) => Len(u) <= Len(fail[s])

NearestOutputs ==
  \A s \in DOMAIN fail :
    /\ s \in DOMAIN output => IsEnd(output[s]) /\ EndsIn(s, output[s])
    /\ \A u \in cells :
         u # s /\ EndsIn(s, u) /\ IsEnd(u) =>
           s \in DOMAIN output /\ Len(u) <= Len(output[s])

Nearest == Ordered /\ LongestFails /\ NearestOutputs

\* The parent of a state.
LEMMA ParentIs ==
  ASSUME TrieOK, NEW s \in States, s # Root
  PROVE  /\ Front(s) \in States /\ Len(s) = Len(Front(s)) + 1
         /\ s \in ToSet(ChildrenOf(Front(s)))
<1>1. s \in Word /\ s \in cells
  BY StatesAreWords
<1>2. Front(s) \in Word /\ Last(s) \in Nat /\ s = Append(Front(s), Last(s))
      /\ Len(s) = Len(Front(s)) + 1
  BY <1>1, FrontOfWord DEF Root
<1>3. Front(s) \in States
  <2> PICK f \in Word, c \in Nat : f = Front(s) /\ c = Last(s)
    BY <1>2
  <2>1. Append(f, c) \in cells
    BY <1>1, <1>2
  <2>2. f \in States
    BY <2>1, ParentsArePlain
  <2> QED BY <2>2
<1>4. ToSet(ChildrenOf(Front(s)))
        = {t \in States : t # Root /\ Front(t) = Front(s)}
  BY <1>2, ChildrenAre
<1> QED BY <1>2, <1>3, <1>4

\* States shorter than all that wait, or as long as the shortest of those,
\* are known.
LEMMA KnownUpTo ==
  ASSUME TrieOK, Closed, pc # "create",
         NEW n \in Nat, \A t \in ToSet(list) : n <= Len(t)
  PROVE  \A s \in States \ {Root} : Len(s) <= n => s \in DOMAIN fail
<1> DEFINE G == {s \in States :
                   s = Root \/ s \in DOMAIN fail \/ ~(Len(s) <= n)}
<1>1. States \subseteq Word
  BY StatesAreWords
<1>2. ASSUME NEW t \in States, \A u \in States : Len(u) < Len(t) => u \in G
      PROVE  t \in G
  <2> SUFFICES ASSUME t # Root, Len(t) <= n
               PROVE  t \in DOMAIN fail
    OBVIOUS
  <2> PICK f : f = Front(t)
    OBVIOUS
  <2>1. f \in States /\ Len(t) = Len(f) + 1
    BY ParentIs
  <2>2. Len(f) \in Nat /\ Len(t) \in Nat
    BY <2>1, StatesAreWords
  <2>3. Len(f) < Len(t) /\ Len(f) < n
    BY <2>1, <2>2
  <2>4. f \in G
    BY <1>2, <2>1, <2>3
  <2>5. f = Root \/ f \in DOMAIN fail
    BY <2>2, <2>3, <2>4
  <2>6. f \notin ToSet(list)
    <3>1. ~(n <= Len(f))
      BY <2>2, <2>3
    <3> QED BY <3>1
  <2> QED BY <2>5, <2>6 DEF Closed
<1> HIDE DEF G
<1>3. States \subseteq G
  BY <1>1, <1>2, ByLength
<1> QED BY <1>3 DEF G

\* The state at the front of the list is the shortest; what is appended
\* behind keeps the order.
LEMMA FrontIsShortest ==
  ASSUME TrieOK, list \in Seq(States), list # << >>, breadthFirst, Ordered
  PROVE  /\ Obtained \in States
         /\ \A t \in ToSet(list) :
              /\ Len(Obtained) <= Len(t) /\ Len(t) <= Len(Obtained) + 1
         /\ Len(Others) \in Nat /\ Len(list) \in Nat
         /\ Len(Others) = Len(list) - 1
         /\ \A i \in 1..Len(Others) : Others[i] = list[i + 1]
<1>1. Len(list) \in Nat /\ Len(list) > 0
  <2>1. Len(list) \in Nat \ {0}
    BY EmptySeq
  <2> QED BY <2>1
<1>2. DOMAIN list = 1..Len(list) /\ \A i \in 1..Len(list) : list[i] \in States
  BY LenProperties, ElementOfSeq
<1>3. Head(list) = list[1]
  BY <1>1, HeadTailOfSubSeq, SubSeqFull
<1>4. Obtained = list[1] /\ Others = Tail(list)
  BY <1>3 DEF Obtained, Others
<1>5. /\ Len(Tail(list)) = Len(list) - 1
      /\ \A i \in 1..Len(Tail(list)) : Tail(list)[i] = list[i + 1]
  BY HeadTailProperties
<1>6. 1 \in 1..Len(list) /\ \A i \in 1..Len(list) : 1 <= i
  BY <1>1
<1>7. ASSUME NEW t \in ToSet(list)
      PROVE  Len(list[1]) <= Len(t) /\ Len(t) <= Len(list[1]) + 1
  <2> PICK i \in 1..Len(list) : t = list[i]
    BY <1>2 DEF ToSet
  <2> QED BY <1>6 DEF Ordered
<1>8. Len(Tail(list)) \in Nat
  BY <1>1, <1>5
<1> QED BY <1>2, <1>4, <1>5, <1>6, <1>7, <1>8, <1>1

\* What is appended to a list of states in order, all as long as the first
\* one and one more,
LEMMA OrderedAppend ==
  ASSUME NEW others \in Seq(States), NEW q \in Seq(States), NEW n \in Nat,
         TrieOK,
         \A i, j \in 1..Len(others) :
           i <= j => /\ Len(others[i]) <= Len(others[j])
                     /\ Len(others[j]) <= Len(others[i]) + 1,
         \A i \in 1..Len(others) :
           n <= Len(others[i]) /\ Len(others[i]) <= n + 1,
         \A i \in 1..Len(q) : Len(q[i]) = n + 1
  PROVE  \A i, j \in 1..Len(others \o q) :
           i <= j => /\ Len((others \o q)[i]) <= Len((others \o q)[j])
                     /\ Len((others \o q)[j]) <= Len((others \o q)[i]) + 1
<1> PICK r : r = others \o q
  OBVIOUS
<1>1. /\ Len(others) \in Nat /\ Len(q) \in Nat
      /\ Len(r) = Len(others) + Len(q)
      /\ \A i \in 1..Len(r) :
           r[i] = IF i <= Len(others) THEN others[i] ELSE q[i - Len(others)]
  BY ConcatProperties, LenProperties
<1>2. ASSUME NEW i \in 1..Len(r), ~(i <= Len(others))
      PROVE  Len(r[i]) = n + 1
  <2>1. i - Len(others) \in 1..Len(q)
    BY <1>1, <1>2
  <2> QED BY <1>1, <1>2, <2>1
<1>3. ASSUME NEW i \in 1..Len(r), i <= Len(others)
      PROVE  i \in 1..Len(others) /\ r[i] = others[i]
  BY <1>1, <1>3
<1>4. ASSUME NEW i \in 1..Len(others)
      PROVE  Len(others[i]) \in Nat
  <2>1. others[i] \in States
    BY ElementOfSeq
  <2> QED BY <2>1, StatesAreWords
<1>5. ASSUME NEW i \in 1..Len(r), NEW j \in 1..Len(r), i <= j
      PROVE  Len(r[i]) <= Len(r[j]) /\ Len(r[j]) <= Len(r[i]) + 1
  <2>1. CASE j <= Len(others)
    <3>1. i <= Len(others)
      BY <1>1, <1>5, <2>1
    <3> QED BY <1>3, <1>5, <2>1, <3>1
  <2>2. CASE ~(j <= Len(others)) /\ i <= Len(others)
    <3>1. Len(r[j]) = n + 1
      BY <1>2, <2>2
    <3>2. i \in 1..Len(others) /\ r[i] = others[i] /\ Len(r[i]) \in Nat
      BY <1>3, <1>4, <2>2
    <3>3. n <= Len(r[i]) /\ Len(r[i]) <= n + 1
      BY <3>2
    <3>4. \A x, y \in Nat : y <= x /\ x <= y + 1 => y + 1 <= x + 1
      OBVIOUS
    <3> QED BY <3>1, <3>2, <3>3, <3>4
  <2>3. CASE ~(j <= Len(others)) /\ ~(i <= Len(others))
    <3>1. Len(r[j]) = n + 1 /\ Len(r[i]) = n + 1
      BY <1>2, <2>3
    <3>2. n + 1 <= n + 1 /\ n + 1 <= (n + 1) + 1
      OBVIOUS
    <3> QED BY <3>1, <3>2
  <2> QED BY <2>1, <2>2, <2>3
<1> QED BY <1>5

\* What the children of the state obtained fail to, if it is the shortest:
\* the longest possible, and known.
LEMMA ChildFailLongest ==
  ASSUME BuildOK, ~useTail, breadthFirst, Closed, Ordered, LongestFails,
         pc = "build", list # << >>, Obtained \in DOMAIN fail,
         NEW t \in ToSet(ChildrenOf(Obtained)),
         NEW r, r = ChildFail(Obtained, Last(t))
  PROVE  /\ r \in States /\ Len(r) < Len(t) /\ EndsIn(t, r)
         /\ r = Root \/ r \in DOMAIN fail
         /\ \A u \in cells : u # t /\ EndsIn(t, u) => Len(u) <= Len(r)
<1> PICK h : h = Obtained
  OBVIOUS
<1>1. /\ TrieOK /\ FailOK /\ Suffixed /\ list \in Seq(DOMAIN fail)
      /\ DOMAIN fail \subseteq States \ {Root}
  BY DEF BuildOK, FailOK
<1>2. h \in States /\ h # Root /\ h \in DOMAIN fail /\ h \in cells
  BY <1>1 DEF States
<1>3. h \in Word /\ Len(h) \in Nat
  BY <1>1, <1>2, StatesAreWords
<1>4. list \in Seq(States)
  BY <1>1, SeqMonotonic
<1>5. \A x \in ToSet(list) : Len(h) <= Len(x)
  BY <1>1, <1>4, FrontIsShortest
<1> PICK c : c = Last(t)
  OBVIOUS
<1>6. /\ t \in States /\ t = Append(h, c) /\ c \in Nat
      /\ c > END_OF_TEXT /\ Len(t) = Len(h) + 1 /\ t \in Word
  BY <1>1, <1>3, ChildrenAre, StatesAreWords
<1> PICK f : f = Fail(h)
  OBVIOUS
<1>7. f = fail[h] /\ f \in States /\ Len(f) < Len(h)
  BY <1>1, <1>2, FailIsShorter DEF Fail
<1>8. f \in Word /\ Len(f) \in Nat
  BY <1>1, <1>7, StatesAreWords
<1>9. r = Step(f, c)
  BY DEF ChildFail
<1>10. r \in States /\ Len(r) < Len(t) /\ EndsIn(t, r)
  BY <1>1, <1>2, ChildFailIs
<1>11. r \in Word /\ Len(r) \in Nat
  BY <1>1, <1>10, StatesAreWords
<1>12. \A s \in States \ {Root} : Len(s) <= Len(h) => s \in DOMAIN fail
  BY <1>1, <1>3, <1>5, KnownUpTo
<1>13. r = Root \/ r \in DOMAIN fail
  <2>1. Len(r) <= Len(h)
    BY <1>3, <1>6, <1>10, <1>11
  <2> QED BY <1>10, <1>12, <2>1
<1>14. Right(Len(f))
  <2> SUFFICES ASSUME NEW s \in States \ {Root}, Len(s) <= Len(f)
               PROVE  /\ s \in DOMAIN fail
                      /\ \A u \in cells :
                           u # s /\ EndsIn(s, u) => Len(u) <= Len(fail[s])
    BY DEF Right
  <2>1. Len(s) \in Nat
    BY <1>1, StatesAreWords
  <2>2. Len(s) <= Len(h)
    BY <1>3, <1>7, <1>8, <2>1
  <2>3. s \in DOMAIN fail
    BY <1>12, <2>2
  <2> QED BY <2>3 DEF LongestFails
<1>15. ASSUME NEW u \in cells, u # t, EndsIn(t, u)
       PROVE  Len(u) <= Len(r)
  <2>1. u \in Word
    BY <1>1, <1>15, CellsArePrefixes
  <2>2. CASE u = << >>
    <3>1. Len(u) = 0
      BY <2>2
    <3> QED BY <1>11, <3>1
  <2>3. CASE u # << >>
    <3> PICK p \in Word, d \in Nat : u = Append(p, d)
      BY <2>1, <2>3, FrontOfWord
    <3>1. d = c /\ EndsIn(h, p)
      BY <1>3, <1>6, <1>15, EndsInFront
    <3>2. p # h
      BY <1>6, <1>15, <3>1
    <3>3. p \in States /\ p \in cells
      BY <1>1, <1>15, ParentsArePlain DEF States
    <3>4. Len(p) <= Len(f)
      BY <1>2, <1>7, <3>1, <3>2, <3>3 DEF LongestFails
    <3>5. EndsIn(h, f)
      BY <1>1, <1>2, <1>7 DEF Suffixed
    <3>6. EndsIn(f, p)
      BY <1>3, <1>8, <3>1, <3>4, <3>5, EndsInNested
    <3>7. EndsIn(Append(f, c), u)
      BY <1>6, <1>8, <3>1, <3>6, EndsInAppend
    <3> QED BY <1>1, <1>6, <1>7, <1>9, <1>14, <1>15, <3>7, StepLongest
  <2> QED BY <2>2, <2>3
<1> QED BY <1>10, <1>13, <1>15

\* createAutomatonFromTrie and a round of buildAutomaton leave no state out.
LEMMA CreateClosed ==
  ASSUME Safe, CreateAutomatonFromTrie
  PROVE  Closed'
<1>1. TrieOK /\ UNCHANGED trie
  BY DEF Safe, BuildOK, CreateAutomatonFromTrie
<1>2. States' = States
  BY <1>1, TrieStays
<1> PICK q : q = ChildrenOf(Root)
  OBVIOUS
<1>3. list' = q /\ fail' = [s \in ToSet(q) |-> Root] /\ pc' = "build"
  BY DEF CreateAutomatonFromTrie
<1>4. DOMAIN fail' = ToSet(list')
  BY <1>3
<1>5. ASSUME NEW s \in States \ {Root},
             Front(s) = Root \/ Front(s) \in DOMAIN fail',
             Front(s) \notin ToSet(list')
      PROVE  s \in DOMAIN fail'
  <2>1. Front(s) = Root
    BY <1>4, <1>5
  <2>2. s \in ToSet(ChildrenOf(Root))
    <3>1. s \in ToSet(ChildrenOf(Front(s)))
      BY <1>1, ParentIs
    <3> QED BY <2>1, <3>1
  <2> QED BY <1>3, <1>4, <2>2
<1> QED BY <1>2, <1>3, <1>5 DEF Closed, ToSet

\* A round takes a state from the list and puts its children there.
LEMMA VisitClosed ==
  ASSUME Safe, Visit, Closed
  PROVE  Closed'
<1>1. BuildOK /\ TrieOK /\ FailOK /\ UNCHANGED <<trie, pc>> /\ pc = "build"
  BY DEF Safe, BuildOK, Visit
<1>2. States' = States
  BY <1>1, TrieStays
<1>3. PICK q, next, ending : Sets(q, next, ending)
  BY <1>1, VisitSets
<1>4. /\ Obtained \in DOMAIN fail /\ Others \in Seq(DOMAIN fail)
      /\ ToSet(list) = ToSet(Others) \union {Obtained}
      /\ q = ChildrenOf(Obtained) /\ list' = Others \o q
      /\ fail' = [t \in DOMAIN fail \union ToSet(q) |->
                    IF t \in ToSet(q) THEN next[t] ELSE fail[t]]
  BY <1>3 DEF Sets
<1> PICK f : f = fail'
  OBVIOUS
<1> PICK r : r = list'
  OBVIOUS
<1>5. DOMAIN f = DOMAIN fail \union ToSet(q)
  BY <1>4
<1>6. Obtained \in States /\ Obtained \in Word
  BY <1>1, <1>4, StatesAreWords DEF FailOK
<1>7. ToSet(r) = ToSet(Others) \union ToSet(q)
  <2>1. q \in Seq(States)
    BY <1>1, <1>4, <1>6, ChildrenAre
  <2>2. Others \in Seq(States)
    BY <1>1, <1>4, SeqMonotonic DEF FailOK
  <2> QED BY <1>4, <2>1, <2>2, ConcatToSet
<1>8. ASSUME NEW s \in States \ {Root},
             Front(s) = Root \/ Front(s) \in DOMAIN f,
             Front(s) \notin ToSet(r)
      PROVE  s \in DOMAIN f
  <2> PICK p : p = Front(s)
    OBVIOUS
  <2>1. p = Root \/ p \in DOMAIN fail
    BY <1>5, <1>7, <1>8
  <2>2. CASE p \in ToSet(list)
    <3>1. p = Obtained
      BY <1>4, <1>7, <1>8, <2>2
    <3>2. s \in ToSet(ChildrenOf(p))
      BY <1>1, ParentIs
    <3> QED BY <1>4, <1>5, <3>1, <3>2
  <2>3. CASE p \notin ToSet(list)
    <3>1. s \in DOMAIN fail
      BY <1>1, <2>1, <2>3 DEF Closed
    <3> QED BY <1>5, <3>1
  <2> QED BY <2>2, <2>3
<1> QED BY <1>1, <1>2, <1>8 DEF Closed, ToSet

\* The children of the root fail to the root, the only shorter state.
LEMMA CreateNearest ==
  ASSUME Safe, CreateAutomatonFromTrie, ~useTail
  PROVE  Nearest'
<1>1. TrieOK /\ UNCHANGED trie /\ DOMAIN output = {} /\ output' = output
  BY DEF Safe, BuildOK, CreateAutomatonFromTrie
<1>2. cells' = cells /\ States' = States
  BY <1>1, TrieStays DEF trie
<1> PICK q : q = ChildrenOf(Root)
  OBVIOUS
<1>3. list' = q /\ fail' = [s \in ToSet(q) |-> Root]
  BY DEF CreateAutomatonFromTrie
<1>4. Root \in Word /\ Len(Root) = 0
  BY <1>1, StatesAreWords DEF Root
<1>5. q \in Seq(States) /\ \A t \in ToSet(q) : t \in States /\ Len(t) = 1
  <2>1. \A t \in ToSet(q) : t \in States /\ Len(t) = Len(Root) + 1
    BY <1>1, <1>4, ChildrenAre
  <2>2. \A n : n = 0 => n + 1 = 1
    OBVIOUS
  <2>3. Len(Root) + 1 = 1
    BY <1>4, <2>2
  <2> QED BY <1>1, <1>4, <2>1, <2>3, ChildrenAre
<1>6. \A i \in 1..Len(q) : q[i] \in ToSet(q)
  BY <1>5, LenProperties DEF ToSet
<1>7. \A i \in 1..Len(q) : Len(q[i]) = 1
  BY <1>5, <1>6
<1>8. \A i, j \in 1..Len(q) :
        i <= j => Len(q[i]) <= Len(q[j]) /\ Len(q[j]) <= Len(q[i]) + 1
  BY <1>7
<1>9. ASSUME NEW s \in ToSet(q), NEW u \in cells, u # s, EndsIn(s, u)
      PROVE  u = Root
  <2>1. s \in Word /\ u \in Word /\ Len(s) = 1 /\ Len(u) \in Nat
    BY <1>1, <1>5, StatesAreWords, CellsArePrefixes, LenProperties DEF Word
  <2>2. ~(1 <= Len(u))
    BY <1>9, <2>1, EndsInLongest
  <2>3. Len(u) = 0
    BY <2>1, <2>2
  <2> QED BY <2>1, <2>3, EmptySeq DEF Root, Word
<1> PICK f : f = fail'
  OBVIOUS
<1>10. DOMAIN f = ToSet(q) /\ \A s \in ToSet(q) : f[s] = Root
  BY <1>3
<1>11. \A s \in DOMAIN f : \A u \in cells :
         u # s /\ EndsIn(s, u) => Len(u) <= Len(f[s])
  BY <1>4, <1>9, <1>10
<1>12. \A s \in DOMAIN f : \A u \in cells :
         ~(u # s /\ EndsIn(s, u) /\ IsEnd(u))
  BY <1>1, <1>9, <1>10, RootIsNoEnd
<1>13. Ordered'
  BY <1>3, <1>8 DEF Ordered
<1>14. LongestFails'
  BY <1>2, <1>11 DEF LongestFails, EndsIn
<1>15. NearestOutputs'
  BY <1>1, <1>2, <1>12 DEF NearestOutputs, EndsIn, IsEnd, HasChild
<1> QED BY <1>13, <1>14, <1>15 DEF Nearest

\* The list stays in the order of the lengths.
LEMMA VisitOrdered ==
  ASSUME Safe, Visit, breadthFirst, Ordered
  PROVE  Ordered'
<1>1. BuildOK /\ TrieOK /\ FailOK /\ list # << >>
  BY DEF Safe, BuildOK, Visit
<1>2. PICK q, next, ending : Sets(q, next, ending)
  BY <1>1, VisitSets
<1>3. /\ Obtained \in DOMAIN fail /\ Others \in Seq(DOMAIN fail)
      /\ q = ChildrenOf(Obtained) /\ list' = Others \o q
  BY <1>2 DEF Sets
<1> PICK h : h = Obtained
  OBVIOUS
<1> PICK others : others = Others
  OBVIOUS
<1>4. h \in States /\ h \in Word /\ Len(h) \in Nat
  BY <1>1, <1>3, StatesAreWords DEF FailOK
<1>5. list \in Seq(States) /\ others \in Seq(States)
  BY <1>1, <1>3, SeqMonotonic DEF BuildOK, FailOK
<1>6. q \in Seq(States) /\ \A t \in ToSet(q) : Len(t) = Len(h) + 1
  BY <1>1, <1>3, <1>4, ChildrenAre
<1>7. \A i \in 1..Len(q) : Len(q[i]) = Len(h) + 1
  <2>1. \A i \in 1..Len(q) : q[i] \in ToSet(q)
    BY <1>6, LenProperties DEF ToSet
  <2> QED BY <1>6, <2>1
<1>8. /\ \A t \in ToSet(list) : Len(h) <= Len(t) /\ Len(t) <= Len(h) + 1
      /\ Len(others) \in Nat /\ Len(list) \in Nat
      /\ Len(others) = Len(list) - 1
      /\ \A i \in 1..Len(others) : others[i] = list[i + 1]
  BY <1>1, <1>5, FrontIsShortest
<1>9. \A i \in 1..Len(others) : i + 1 \in 1..Len(list)
  BY <1>8
<1>10. ASSUME NEW i \in 1..Len(others), NEW j \in 1..Len(others), i <= j
       PROVE  /\ Len(others[i]) <= Len(others[j])
              /\ Len(others[j]) <= Len(others[i]) + 1
  <2>1. i + 1 \in 1..Len(list) /\ j + 1 \in 1..Len(list) /\ i + 1 <= j + 1
    BY <1>9, <1>10
  <2>2. others[i] = list[i + 1] /\ others[j] = list[j + 1]
    BY <1>8
  <2> QED BY <2>1, <2>2 DEF Ordered
<1>11. ASSUME NEW i \in 1..Len(others)
       PROVE  Len(h) <= Len(others[i]) /\ Len(others[i]) <= Len(h) + 1
  <2>1. i + 1 \in 1..Len(list) /\ others[i] = list[i + 1]
    BY <1>8, <1>9
  <2>2. list[i + 1] \in ToSet(list)
    BY <1>5, <2>1, LenProperties DEF ToSet
  <2> QED BY <1>8, <2>1, <2>2
<1>12. \A i, j \in 1..Len(others \o q) :
         i <= j => /\ Len((others \o q)[i]) <= Len((others \o q)[j])
                   /\ Len((others \o q)[j]) <= Len((others \o q)[i]) + 1
  BY <1>1, <1>4, <1>5, <1>6, <1>7, <1>10, <1>11, OrderedAppend
<1>13. list' = others \o q
  BY <1>3
<1> QED BY <1>12, <1>13 DEF Ordered

\* A round sets the longest fails and the nearest outputs.
LEMMA VisitNearest ==
  ASSUME Safe, Visit, ~useTail, breadthFirst, Closed, Nearest
  PROVE  LongestFails' /\ NearestOutputs'
<1>1. /\ BuildOK /\ TrieOK /\ FailOK /\ list # << >> /\ pc = "build"
      /\ UNCHANGED trie /\ Ordered /\ LongestFails /\ NearestOutputs
  BY DEF Safe, BuildOK, Visit, Nearest
<1>2. PICK q, next, ending : Sets(q, next, ending)
  BY <1>1, VisitSets
<1>3. /\ Obtained \in DOMAIN fail
      /\ q = ChildrenOf(Obtained)
      /\ next = [t \in ToSet(q) |-> ChildFail(Obtained, Last(t))]
      /\ ending = {t \in ToSet(q) : OutputThrough(next[t]) # {}}
      /\ fail' = [t \in DOMAIN fail \union ToSet(q) |->
                    IF t \in ToSet(q) THEN next[t] ELSE fail[t]]
      /\ output' = [t \in DOMAIN output \union ending |->
                      IF t \in ending
                      THEN CHOOSE o \in OutputThrough(next[t]) : TRUE
                      ELSE output[t]]
  BY <1>2 DEF Sets
<1> PICK kids : kids = ToSet(q)
  OBVIOUS
<1> PICK f : f = fail'
  OBVIOUS
<1> PICK h : h = output'
  OBVIOUS
<1>4. /\ DOMAIN f = DOMAIN fail \union kids
      /\ \A t \in DOMAIN f : f[t] = IF t \in kids THEN next[t] ELSE fail[t]
  BY <1>3
<1>5. /\ DOMAIN h = DOMAIN output \union ending
      /\ \A t \in DOMAIN h :
           h[t] = IF t \in ending
                  THEN CHOOSE o \in OutputThrough(next[t]) : TRUE
                  ELSE output[t]
  BY <1>3
<1>6. ASSUME NEW t \in kids, NEW r, r = next[t]
      PROVE  /\ r \in States /\ Len(r) < Len(t) /\ EndsIn(t, r)
             /\ r = Root \/ r \in DOMAIN fail
             /\ \A u \in cells : u # t /\ EndsIn(t, u) => Len(u) <= Len(r)
  <2>1. /\ next[t] = ChildFail(Obtained, Last(t))
        /\ t \in ToSet(ChildrenOf(Obtained))
    BY <1>3
  <2>2. r = ChildFail(Obtained, Last(t))
    BY <1>6, <2>1
  <2> QED BY <1>1, <1>3, <2>1, <2>2, ChildFailLongest
<1>7. \A s \in DOMAIN f : \A u \in cells :
        u # s /\ EndsIn(s, u) => Len(u) <= Len(f[s])
  BY <1>1, <1>4, <1>6 DEF LongestFails
<1>8. \A s \in kids : s \in States /\ s \in Word
  <2>1. Obtained \in Word
    BY <1>1, <1>3, StatesAreWords DEF FailOK
  <2> QED BY <1>1, <1>3, <2>1, ChildrenAre, StatesAreWords
<1>9. ASSUME NEW s \in ending
      PROVE  /\ IsEnd(h[s]) /\ EndsIn(s, h[s])
             /\ \A u \in cells :
                  u # s /\ EndsIn(s, u) /\ IsEnd(u) => Len(u) <= Len(h[s])
  <2> PICK r : r = next[s]
    OBVIOUS
  <2>1. s \in kids /\ OutputThrough(r) # {} /\ s \in Word
    BY <1>3, <1>8
  <2>2. /\ r \in States /\ EndsIn(s, r) /\ r \in Word
        /\ \A u \in cells : u # s /\ EndsIn(s, u) => Len(u) <= Len(r)
    BY <1>1, <1>6, <2>1, StatesAreWords
  <2>3. PICK o \in States :
          /\ (CHOOSE x \in OutputThrough(r) : TRUE) = o /\ Len(o) <= Len(r)
          /\ IF IsEnd(r) THEN o = r ELSE r \in DOMAIN output /\ o = output[r]
    BY <1>1, <2>1, <2>2, OutputIs
  <2>4. h[s] = o /\ o \in Word
    BY <1>1, <1>5, <2>3, StatesAreWords
  <2>5. CASE IsEnd(r)
    BY <2>2, <2>3, <2>4, <2>5
  <2>6. CASE ~IsEnd(r)
    <3>1. r \in DOMAIN output /\ o = output[r] /\ r \in DOMAIN fail
      BY <1>1, <2>3, <2>6 DEF BuildOK
    <3>2. IsEnd(o) /\ EndsIn(r, o)
      BY <1>1, <3>1 DEF NearestOutputs
    <3>3. EndsIn(s, o)
      BY <2>1, <2>2, <2>4, <3>2, EndsInTransitive
    <3>4. ASSUME NEW u \in cells, u # s, EndsIn(s, u), IsEnd(u)
          PROVE  Len(u) <= Len(o)
      <4>1. u # r /\ Len(u) <= Len(r) /\ u \in Word
        BY <1>1, <2>2, <2>6, <3>4, CellsArePrefixes
      <4>2. EndsIn(r, u)
        BY <2>1, <2>2, <3>4, <4>1, EndsInNested
      <4> QED BY <1>1, <3>1, <3>4, <4>1, <4>2 DEF NearestOutputs
    <3> QED BY <2>4, <3>2, <3>3, <3>4
  <2> QED BY <2>5, <2>6
<1>10. ASSUME NEW s \in kids, NEW u \in cells, u # s, EndsIn(s, u), IsEnd(u)
       PROVE  s \in ending
  <2> PICK r : r = next[s]
    OBVIOUS
  <2>1. /\ r \in States /\ EndsIn(s, r) /\ r \in Word /\ s \in Word
        /\ Len(u) <= Len(r) /\ u \in Word
    <3>1. r \in States /\ EndsIn(s, r) /\ Len(u) <= Len(r)
      BY <1>6, <1>10
    <3> QED BY <1>1, <1>8, <3>1, StatesAreWords, CellsArePrefixes
  <2>2. EndsIn(r, u)
    BY <1>10, <2>1, EndsInNested
  <2>3. CASE IsEnd(r)
    BY <1>3, <2>3 DEF OutputThrough
  <2>4. CASE ~IsEnd(r)
    <3>1. u # r
      BY <1>10, <2>4
    <3>2. r # Root
      <4>1. ASSUME r = Root PROVE FALSE
        <5>0. Len(r) = 0
          BY <4>1 DEF Root
        <5>1. Len(u) = 0
          BY <2>1, <5>0, LenProperties DEF Word
        <5>2. u = Root
          BY <2>1, <5>1, EmptySeq DEF Root, Word
        <5> QED BY <3>1, <4>1, <5>2
      <4> QED BY <4>1
    <3>3. r \in DOMAIN fail
      BY <1>6, <3>2
    <3>4. r \in DOMAIN output
      BY <1>1, <1>10, <2>2, <3>1, <3>3 DEF NearestOutputs
    <3> QED BY <1>3, <2>4, <3>4 DEF OutputThrough
  <2> QED BY <2>3, <2>4
<1>11. ASSUME NEW s \in DOMAIN f
       PROVE  /\ s \in DOMAIN h => IsEnd(h[s]) /\ EndsIn(s, h[s])
              /\ \A u \in cells : u # s /\ EndsIn(s, u) /\ IsEnd(u) =>
                   s \in DOMAIN h /\ Len(u) <= Len(h[s])
  <2>1. CASE s \in ending
    BY <1>5, <1>9, <2>1
  <2>2. CASE s \notin ending /\ s \in DOMAIN fail
    <3>1. /\ s \in DOMAIN h <=> s \in DOMAIN output
          /\ s \in DOMAIN h => h[s] = output[s]
      BY <1>5, <2>2
    <3> QED BY <1>1, <2>2, <3>1 DEF NearestOutputs
  <2>3. CASE s \notin ending /\ s \notin DOMAIN fail
    <3>1. s \in kids /\ s \notin DOMAIN h
      BY <1>1, <1>4, <1>5, <2>3 DEF BuildOK
    <3> QED BY <1>10, <2>3, <3>1
  <2> QED BY <2>1, <2>2, <2>3
<1>12. cells' = cells
  BY <1>1 DEF trie
<1>13. LongestFails'
  BY <1>7, <1>12 DEF LongestFails, EndsIn
<1>14. NearestOutputs'
  BY <1>11, <1>12 DEF NearestOutputs, EndsIn, IsEnd, HasChild
<1> QED BY <1>13, <1>14

\* The construction with a queue, of a trie without a tail.
NearestOK ==
  /\ Closed
  /\ breadthFirst /\ ~useTail => Nearest

\* Once it is built the automaton stays as it is.
LEMMA NearestStays ==
  ASSUME NearestOK, UNCHANGED <<trie, automaton>>, pc # "create",
         pc' \in {"ready", "search", "done"} => list = << >>
  PROVE  NearestOK'
<1>1. /\ list' = list /\ fail' = fail /\ output' = output /\ cells' = cells
      /\ useTail' = useTail /\ breadthFirst' = breadthFirst /\ end' = end
  BY DEF automaton, trie
<1>2. States' = States
  BY <1>1 DEF States, Plain
<1>3. Closed'
  BY <1>1, <1>2 DEF NearestOK, Closed, ToSet
<1>4. Nearest => Nearest'
  BY <1>1 DEF Nearest, Ordered, LongestFails, NearestOutputs, EndsIn, IsEnd,
              HasChild
<1> QED BY <1>1, <1>3, <1>4 DEF NearestOK

\* At first nothing is known and nothing waits.
LEMMA InitNearest ==
  ASSUME Init
  PROVE  NearestOK
<1>1. pc = "create" /\ list = << >> /\ DOMAIN fail = {}
  BY DEF Init
<1>2. Closed
  BY <1>1 DEF Closed
<1>3. Len(list) = 0
  BY <1>1
<1>4. Ordered
  BY <1>3 DEF Ordered
<1>5. LongestFails /\ NearestOutputs
  BY <1>1 DEF LongestFails, NearestOutputs
<1> QED BY <1>2, <1>4, <1>5 DEF NearestOK, Nearest

\* No step breaks this invariant.
LEMMA NextNearest ==
  ASSUME Safe, NearestOK, [Next]_vars
  PROVE  NearestOK'
<1>1. CASE CreateAutomatonFromTrie
  <2>1. useTail' = useTail
    BY <1>1 DEF CreateAutomatonFromTrie, trie
  <2> QED BY <1>1, <2>1, CreateClosed, CreateNearest DEF NearestOK
<1>2. CASE Visit
  <2>1. useTail' = useTail /\ breadthFirst' = breadthFirst
    BY <1>2 DEF Visit, trie
  <2>2. Closed'
    BY <1>2, VisitClosed DEF NearestOK
  <2>3. breadthFirst /\ ~useTail => Nearest'
    BY <1>2, VisitOrdered, VisitNearest DEF NearestOK, Nearest
  <2> QED BY <2>1, <2>2, <2>3 DEF NearestOK
<1>3. CASE Built
  BY <1>3, NearestStays DEF Built
<1>4. ASSUME \/ StartSearch \/ SearchExact \/ ReadCharacter \/ EndOfText
             \/ Return
      PROVE  NearestOK'
  <2>1. /\ pc \in {"ready", "search", "done"}
        /\ UNCHANGED <<trie, automaton>>
    BY <1>4 DEF StartSearch, SearchExact, ReadCharacter, EndOfText, Return
  <2>2. list = << >>
    BY <2>1 DEF NearestOK, Closed
  <2> QED BY <2>1, <2>2, NearestStays
<1>5. CASE UNCHANGED vars
  <2>1. /\ list' = list /\ fail' = fail /\ output' = output /\ cells' = cells
        /\ useTail' = useTail /\ breadthFirst' = breadthFirst /\ pc' = pc
    BY <1>5 DEF automaton, trie, vars
  <2>2. States' = States
    BY <2>1 DEF States, Plain
  <2>3. Closed'
    BY <2>1, <2>2 DEF NearestOK, Closed, ToSet
  <2>4. Nearest => Nearest'
    BY <2>1 DEF Nearest, Ordered, LongestFails, NearestOutputs, EndsIn, IsEnd,
                HasChild
  <2> QED BY <2>1, <2>3, <2>4 DEF NearestOK
<1> QED BY <1>1, <1>2, <1>3, <1>4, <1>5 DEF Next

\* It says what FailsAndOutputsNearest says.
LEMMA NearestSuffices ==
  ASSUME Safe, NearestOK
  PROVE  FailsAndOutputsNearest
<1> SUFFICES ASSUME breadthFirst, ~useTail, NEW s \in DOMAIN fail
             PROVE  /\ fail[s] = LongestSuffix(s, Shorter(s))
                    /\ LET ends == {t \in Suffixes(s) \ {s} : IsEnd(t)}
                       IN  IF ends = {} THEN s \notin DOMAIN output
                           ELSE /\ s \in DOMAIN output
                                /\ output[s] = LongestSuffix(s, ends)
  BY DEF FailsAndOutputsNearest
<1>1. /\ TrieOK /\ FailOK /\ Suffixed /\ BuildOK /\ LongestFails
      /\ NearestOutputs
  BY DEF Safe, BuildOK, NearestOK, Nearest
<1>2. s \in States /\ s \in Word /\ Len(s) \in Nat
  BY <1>1, StatesAreWords DEF FailOK
<1> PICK f : f = fail[s]
  OBVIOUS
<1>3. /\ f \in States /\ Len(f) < Len(s) /\ EndsIn(s, f)
      /\ \A u \in cells : u # s /\ EndsIn(s, u) => Len(u) <= Len(f)
  BY <1>1 DEF FailOK, Suffixed, LongestFails
<1>4. f \in Word /\ f \in cells /\ f # s
  BY <1>1, <1>2, <1>3, StatesAreWords DEF States
<1>5. f = LongestSuffix(s, Shorter(s))
  BY <1>2, <1>3, <1>4, LongestSuffixIs DEF Shorter
<1> DEFINE ends == {t \in Suffixes(s) \ {s} : IsEnd(t)}
<1>6. ends = {t \in Word : EndsIn(s, t) /\ t # s /\ IsEnd(t)}
  BY <1>2, SuffixesEnd
<1>7. \A t \in ends : t \in cells
  <2> SUFFICES ASSUME NEW t \in ends PROVE t \in cells
    OBVIOUS
  <2>1. t \in Word /\ Append(t, END_OF_TEXT) \in cells
    BY <1>6 DEF IsEnd, HasChild
  <2> PICK c \in Nat : c = END_OF_TEXT
    BY DEF END_OF_TEXT
  <2> QED BY <1>1, <2>1, ParentsArePlain DEF States
<1> HIDE DEF ends
<1>8. CASE s \in DOMAIN output
  <2> PICK o : o = output[s]
    OBVIOUS
  <2>1. o \in States /\ Len(o) < Len(s) /\ IsEnd(o) /\ EndsIn(s, o)
    BY <1>1, <1>8 DEF BuildOK, NearestOutputs
  <2>2. o \in Word /\ o # s
    BY <1>1, <1>2, <2>1, StatesAreWords
  <2>3. o \in ends
    BY <1>6, <2>1, <2>2
  <2>4. \A t \in ends : t \in Word /\ EndsIn(s, t) => Len(t) <= Len(o)
    BY <1>1, <1>6, <1>7, <1>8 DEF NearestOutputs
  <2>5. o = LongestSuffix(s, ends)
    BY <1>2, <2>1, <2>2, <2>3, <2>4, LongestSuffixIs
  <2> QED BY <1>5, <1>8, <2>3, <2>5 DEF ends
<1>9. CASE s \notin DOMAIN output
  <2>1. ends = {}
    BY <1>1, <1>6, <1>7, <1>9 DEF NearestOutputs
  <2> QED BY <1>5, <1>9, <2>1 DEF ends
<1> QED BY <1>8, <1>9

\* The construction with a queue keeps the second invariant.
THEOREM NearestInvariance == Spec => []NearestOK
<1>1. Init => NearestOK
  BY InitNearest
<1>2. Safe /\ NearestOK /\ [Next]_vars => NearestOK'
  BY NextNearest
<1> QED BY <1>1, <1>2, Invariance, PTL DEF Spec

\* buildAutomaton with a queue, without a tail: every fail is the longest
\* proper suffix of its state that is a state, every output the nearest end.
THEOREM ConstructionIsNearest == Spec => []FailsAndOutputsNearest
<1>1. Safe /\ NearestOK => FailsAndOutputsNearest
  BY NearestSuffices
<1> QED BY <1>1, Invariance, NearestInvariance, PTL

-----------------------------------------------------------------------------
(* What a search reports *)

\* The longest suffix of what is read that is a cell, and the places where
\* it is a needle.
ReachedAt(k) == LongestSuffix(SubSeq(text, 1, k), cells)

Places == {k \in 1..Len(text) : IsEnd(ReachedAt(k))}

LongestRead ==
  \A u \in cells : EndsIn(SubSeq(text, 1, index), u) => Len(u) <= Len(state)

FirstFound ==
  \E k \in Places :
    /\ k <= index /\ \A j \in Places : k <= j
    /\ Head(found) = Occurrence(ReachedAt(k))

LastFound ==
  \E k \in Places :
    /\ k <= index /\ \A j \in Places : j <= index => j <= k
    /\ Last(found) = Occurrence(ReachedAt(k))

Reading ==
  /\ LongestRead
  /\ \/ found = << >> /\ \A k \in Places : ~(k <= index)
     \/ found # << >> /\ FirstFound /\ (mode = "all" => LastFound)
  /\ pc = "search" /\ mode = "first" => found = << >>
  /\ pc = "done" => index = Len(text) \/ (found # << >> /\ mode = "first")

ReadingOK ==
  pc \in {"search", "done"} /\ mode # "exact" /\ breadthFirst /\ ~useTail =>
    Reading

\* A search begins at the root, the only end of nothing.
LEMMA StartReading ==
  ASSUME Safe, StartSearch
  PROVE  ReadingOK'
<1>1. TrieOK /\ SearchOK /\ pc = "ready" /\ UNCHANGED trie
  BY DEF Safe, BuildOK, StartSearch
<1>2. /\ text' \in Texts /\ cells' = cells
      /\ index' = 0 /\ state' = Root /\ found' = << >> /\ pc' = "search"
  BY <1>1 DEF StartSearch, SearchOK, trie
<1> PICK t : t = text'
  OBVIOUS
<1>3. t \in Word /\ Len(t) \in Nat
  BY <1>2, TextsArePlain
<1> PICK zero \in Nat : zero = 0
  OBVIOUS
<1>4. SubSeq(t, 1, zero) \in Word /\ Len(SubSeq(t, 1, zero)) = zero
  <2>1. zero \in 0..Len(t)
    BY <1>3
  <2> QED BY <1>3, <2>1, PrefixOf
<1> PICK none : none = SubSeq(t, 1, zero)
  OBVIOUS
<1>5. none = SubSeq(text', 1, index') /\ Len(none) = Len(Root)
  BY <1>2, <1>4 DEF Root
<1>6. \A u \in cells : EndsIn(none, u) => Len(u) <= Len(Root)
  BY <1>5 DEF EndsIn
<1>7. LongestRead'
  BY <1>2, <1>5, <1>6 DEF LongestRead, EndsIn
<1>8. (\A k \in Places : ~(k <= index))'
  <2>1. \A k \in 1..Len(t) : ~(k <= 0)
    BY <1>3
  <2>2. (Places \subseteq 1..Len(text))'
    BY DEF Places
  <2> QED BY <1>2, <2>1, <2>2
<1> QED BY <1>2, <1>7, <1>8 DEF ReadingOK, Reading

\* With all fails set, what a character leads to is the longest again.
LEMMA ReadLongest ==
  ASSUME Safe, NearestOK, ReadCharacter, breadthFirst, ~useTail, LongestRead
  PROVE  LongestRead'
<1>1. /\ TrieOK /\ FailOK /\ SearchOK /\ Suffixed /\ cells' = cells
      /\ text' = text /\ LongestFails /\ Closed /\ pc = "search"
  BY DEF Safe, BuildOK, ReadCharacter, trie, NearestOK, Nearest
<1> PICK c \in Nat :
      /\ c > END_OF_TEXT /\ c = text[index + 1] /\ index \in Nat
      /\ index' = index + 1 /\ index' \in 1..Len(text)
      /\ index \in 0..Len(text)
      /\ state' = Step(state, c) /\ state' \in States
      /\ SubSeq(text, 1, index) \in Word
      /\ SubSeq(text, 1, index') = Append(SubSeq(text, 1, index), c)
      /\ SubSeq(text, 1, index') \in Word
      /\ text \in Word /\ Len(text) \in Nat
  BY <1>1, NextCharacter
<1> PICK before : before = SubSeq(text, 1, index)
  OBVIOUS
<1>2. before \in Word /\ SubSeq(text, 1, index') = Append(before, c)
  OBVIOUS
<1>3. state \in States /\ EndsIn(before, state)
  BY <1>1 DEF SearchOK
<1>4. state \in Word /\ Len(state) \in Nat
  BY <1>1, <1>3, StatesAreWords
<1> PICK s : s = state
  OBVIOUS
<1>5. Right(Len(s))
  <2>1. list = << >>
    BY <1>1 DEF Closed
  <2>2. ToSet(list) = {}
    BY <2>1, EmptySeq DEF ToSet
  <2>3. \A t \in States \ {Root} : Len(t) <= Len(s) => t \in DOMAIN fail
    BY <1>1, <1>4, <2>2, KnownUpTo
  <2> QED BY <1>1, <2>3 DEF Right, LongestFails
<1>6. ASSUME NEW u \in cells, EndsIn(Append(before, c), u)
      PROVE  Len(u) <= Len(Step(s, c))
  <2>1. u \in Word
    BY <1>1, CellsArePrefixes
  <2>2. CASE u = << >>
    <3>1. Len(u) = 0
      BY <2>2
    <3>2. Len(Step(s, c)) \in Nat
      BY <1>1, StatesAreWords
    <3> QED BY <3>1, <3>2
  <2>3. CASE u # << >>
    <3>0. /\ Front(u) \in Word /\ Last(u) \in Nat
          /\ u = Append(Front(u), Last(u))
      BY <2>1, <2>3, FrontOfWord
    <3> PICK p \in Word, d \in Nat : u = Append(p, d)
      BY <3>0
    <3>1. d = c /\ EndsIn(before, p)
      BY <1>2, <1>6, EndsInFront
    <3>2. p \in States /\ p \in cells
      BY <1>1, <1>6, ParentsArePlain DEF States
    <3>3. Len(p) <= Len(s)
      BY <3>1, <3>2 DEF LongestRead
    <3>4. EndsIn(s, p)
      BY <1>2, <1>3, <1>4, <3>1, <3>3, EndsInNested
    <3>5. EndsIn(Append(s, c), u)
      BY <1>4, <3>1, <3>4, EndsInAppend
    <3> QED BY <1>1, <1>3, <1>5, <1>6, <3>5, StepLongest
  <2> QED BY <2>2, <2>3
<1>7. /\ SubSeq(text', 1, index') = Append(before, c)
      /\ state' = Step(s, c)
  BY <1>1
<1> QED BY <1>1, <1>6, <1>7 DEF LongestRead, EndsIn

\* The first and the last element of one or two.
LEMMA HeadAndLast ==
  ASSUME NEW a, NEW b
  PROVE  /\ <<a>> # << >> /\ Head(<<a>>) = a /\ Last(<<a>>) = a
         /\ <<a, b>> # << >> /\ Head(<<a, b>>) = a /\ Last(<<a, b>>) = b
<1>1. /\ Len(<<a>>) = 1 /\ Len(<<a, b>>) = 2
      /\ <<a>>[1] = a /\ <<a, b>>[2] = b
  OBVIOUS
<1>2. Last(<<a>>) = a
  BY <1>1 DEF Last
<1>3. Last(<<a, b>>) = b
  BY <1>1 DEF Last
<1> QED BY <1>2, <1>3

\* automaton_createOccurrence adds the place where the state is an end.
LEMMA ReadReading ==
  ASSUME Safe, NearestOK, ReadCharacter, breadthFirst, ~useTail, Reading
  PROVE  Reading'
<1>1. /\ TrieOK /\ FailOK /\ SearchOK /\ cells' = cells /\ TrieOK'
      /\ text' = text /\ mode' = mode /\ pc = "search" /\ mode # "exact"
      /\ mode \in {"all", "first", "exact"} /\ useTail' = useTail
  <2>1. TrieOK /\ UNCHANGED trie
    BY DEF Safe, BuildOK, ReadCharacter
  <2> QED BY <2>1, TrieStays DEF Safe, BuildOK, SearchOK, ReadCharacter, trie
<1>2. LongestRead'
  BY ReadLongest DEF Reading
<1> PICK i \in Nat : i = index /\ index' = i + 1 /\ i + 1 \in 1..Len(text)
                     /\ Len(text) \in Nat /\ state' \in States
  BY <1>1, NextCharacter
<1>3. \A k : ReachedAt(k)' = ReachedAt(k)
  BY <1>1 DEF ReachedAt, LongestSuffix
<1>4. Places' = Places /\ Places \subseteq 1..Len(text)
  <2>1. \A k : IsEnd(ReachedAt(k))' <=> IsEnd(ReachedAt(k))
    BY <1>1, <1>3 DEF IsEnd, HasChild
  <2>2. Places' = {k \in 1..Len(text) : IsEnd(ReachedAt(k))}
    BY <1>1, <2>1 DEF Places
  <2> QED BY <2>2 DEF Places
<1> PICK s : s = state'
  OBVIOUS
<1>5. s = ReachedAt(i + 1)
  <2> PICK read : read = SubSeq(text, 1, i + 1)
    OBVIOUS
  <2>1. read = SubSeq(text', 1, index')
    BY <1>1
  <2>2. EndsIn(read, s)
    <3>1. SearchOK'
      BY ReadCharacterSafe
    <3> QED BY <1>1, <2>1, <3>1 DEF SearchOK, EndsIn
  <2>3. \A u \in cells : EndsIn(read, u) => Len(u) <= Len(s)
    BY <1>1, <1>2, <2>1 DEF LongestRead, EndsIn
  <2>4. s \in cells /\ s \in Word
    BY <1>1, StatesAreWords DEF States
  <2>5. read \in Word
    <3>1. text \in Word /\ i + 1 \in 0..Len(text)
      BY <1>1, TextsArePlain DEF SearchOK
    <3> QED BY <3>1, PrefixOf
  <2>6. LongestSuffix(read, cells) = s
    BY <2>2, <2>3, <2>4, <2>5, LongestSuffixIs
  <2> QED BY <2>6 DEF ReachedAt
<1>6. IsMatch(state', FALSE, index') <=> i + 1 \in Places
  <2>1. IsMatch(s, FALSE, index') <=> IsEnd(s)
    BY <1>1, NoLeaves DEF IsMatch
  <2>2. IsEnd(s) <=> i + 1 \in Places
    BY <1>5 DEF Places
  <2> QED BY <2>1, <2>2
<1>7. \A k \in Places : k \in Nat /\ (k <= i + 1 <=> k <= i \/ k = i + 1)
  BY <1>4
<1>8. \A k : Occurrence(ReachedAt(k))' = Occurrence(ReachedAt(k))
  <2>1. end' = end
    BY DEF ReadCharacter, trie
  <2> QED BY <1>3, <2>1 DEF Occurrence, IsLeaf
<1>9. CASE i + 1 \notin Places
  <2>1. found' = found /\ pc' = pc
    BY <1>1, <1>6, <1>9, FoundIs
  <2>2. \A k \in Places : k <= i + 1 <=> k <= i
    BY <1>7, <1>9
  <2>3. (found = << >> /\ \A k \in Places : ~(k <= index)) =>
          (found = << >> /\ \A k \in Places : ~(k <= index))'
    BY <1>4, <2>1, <2>2
  <2>4. FirstFound => FirstFound'
    <3> SUFFICES ASSUME NEW k \in Places,
                        k <= index, \A j \in Places : k <= j,
                        Head(found) = Occurrence(ReachedAt(k))
                 PROVE  FirstFound'
      BY DEF FirstFound
    <3>1. k <= i + 1 /\ Head(found') = Occurrence(ReachedAt(k))'
      BY <1>7, <1>8, <2>1
    <3> QED BY <1>4, <3>1 DEF FirstFound
  <2>5. LastFound => LastFound'
    <3> SUFFICES ASSUME NEW k \in Places,
                        k <= index, \A j \in Places : j <= index => j <= k,
                        Last(found) = Occurrence(ReachedAt(k))
                 PROVE  LastFound'
      BY DEF LastFound
    <3>1. k <= i + 1 /\ Last(found') = Occurrence(ReachedAt(k))'
      BY <1>7, <1>8, <2>1
    <3> QED BY <1>4, <2>2, <3>1 DEF LastFound
  <2> QED BY <1>1, <1>2, <2>1, <2>3, <2>4, <2>5 DEF Reading
<1>10. CASE i + 1 \in Places
  <2> PICK o \in Ends, a \in Ends :
        /\ o = Occurrence(s)
        /\ a = IF found = << >> THEN o ELSE Head(found)
        /\ \/ /\ mode = "first" /\ pc' = "done" /\ found' = <<o>>
           \/ /\ mode # "first" /\ pc' = pc
              /\ \/ found = << >> /\ found' = <<o>>
                 \/ found' = <<a, o>>
    BY <1>1, <1>6, <1>10, FoundIs
  <2>1. o = Occurrence(ReachedAt(i + 1))
    BY <1>5
  <2>2. mode = "first" => found = << >>
    BY <1>1 DEF Reading
  <2>3. /\ found' # << >> /\ Last(found') = o
        /\ Head(found') = IF found = << >> THEN o ELSE Head(found)
    <3>1. /\ <<o>> # << >> /\ Head(<<o>>) = o /\ Last(<<o>>) = o
          /\ <<a, o>> # << >> /\ Head(<<a, o>>) = a /\ Last(<<a, o>>) = o
      BY HeadAndLast
    <3> PICK one : one = <<o>>
      OBVIOUS
    <3> PICK two : two = <<a, o>>
      OBVIOUS
    <3>2. (found' = one /\ found = << >>) \/ found' = two
      BY <2>2
    <3>3. CASE found' = one /\ found = << >>
      BY <3>1, <3>3, Zenon
    <3>4. CASE found' = two
      BY <3>1, <3>4, Zenon
    <3> QED BY <3>2, <3>3, <3>4
  <2>4. FirstFound'
    <3>1. CASE found = << >> /\ \A k \in Places : ~(k <= index)
      <4>1. \A j \in Places : i + 1 <= j
        BY <1>7, <3>1
      <4>2. Head(found') = Occurrence(ReachedAt(i + 1))
        BY <2>1, <2>3, <3>1
      <4>3. Head(found') = Occurrence(ReachedAt(i + 1))'
        BY <1>8, <4>2
      <4>4. i + 1 <= i + 1
        OBVIOUS
      <4> QED BY <1>4, <1>10, <4>1, <4>3, <4>4 DEF FirstFound
    <3>2. CASE found # << >> /\ FirstFound
      <4> PICK k \in Places :
            /\ k <= index /\ \A j \in Places : k <= j
            /\ Head(found) = Occurrence(ReachedAt(k))
        BY <3>2 DEF FirstFound
      <4>1. k <= i + 1
        BY <1>7
      <4>2. Head(found') = Occurrence(ReachedAt(k))'
        BY <2>3, <1>8, <3>2
      <4> QED BY <1>4, <4>1, <4>2 DEF FirstFound
    <3> QED BY <3>1, <3>2 DEF Reading
  <2>5. LastFound'
    <3>1. Last(found') = Occurrence(ReachedAt(i + 1))'
      BY <2>1, <2>3, <1>8
    <3>2. i + 1 <= i + 1
      OBVIOUS
    <3> QED BY <1>4, <1>10, <3>1, <3>2 DEF LastFound
  <2>6. pc' = "search" /\ mode' = "first" => found' = << >>
    BY <1>1
  <2>7. pc' = "done" => found' # << >> /\ mode' = "first"
    BY <1>1, <2>3
  <2> QED BY <1>2, <2>3, <2>4, <2>5, <2>6, <2>7 DEF Reading
<1> QED BY <1>9, <1>10

\* The steps that read nothing.
LEMMA ReadingStays ==
  ASSUME ReadingOK, UNCHANGED <<trie, automaton, search>>,
         pc' = pc \/ (pc = "search" /\ pc' = "done" /\ index = Len(text))
  PROVE  ReadingOK'
<1>1. /\ mode' = mode /\ text' = text /\ index' = index /\ state' = state
      /\ found' = found /\ end' = end /\ cells' = cells
      /\ useTail' = useTail /\ breadthFirst' = breadthFirst
  BY DEF trie, search
<1>2. \A k : ReachedAt(k)' = ReachedAt(k)
  BY <1>1 DEF ReachedAt, LongestSuffix
<1>3. Places' = Places
  BY <1>1, <1>2 DEF Places, IsEnd, HasChild
<1>4. \A k : Occurrence(ReachedAt(k))' = Occurrence(ReachedAt(k))
  BY <1>1, <1>2 DEF Occurrence, IsLeaf
<1>5. FirstFound' <=> FirstFound
  BY <1>1, <1>3, <1>4 DEF FirstFound
<1>6. LastFound' <=> LastFound
  BY <1>1, <1>3, <1>4 DEF LastFound
<1>7. LongestRead' <=> LongestRead
  BY <1>1 DEF LongestRead, EndsIn
<1>8. CASE pc' = pc
  BY <1>1, <1>3, <1>5, <1>6, <1>7, <1>8 DEF ReadingOK, Reading
<1>9. CASE pc = "search" /\ pc' = "done" /\ index = Len(text)
  BY <1>1, <1>3, <1>5, <1>6, <1>7, <1>9 DEF ReadingOK, Reading
<1> QED BY <1>8, <1>9

\* No step breaks this invariant either.
LEMMA NextReading ==
  ASSUME Safe, NearestOK, ReadingOK, [Next]_vars
  PROVE  ReadingOK'
<1>1. CASE CreateAutomatonFromTrie \/ Visit \/ Built \/ Return
  <2>1. pc' \in {"build", "ready"}
    BY <1>1 DEF CreateAutomatonFromTrie, Visit, Built, Return
  <2> QED BY <2>1 DEF ReadingOK
<1>2. CASE StartSearch
  BY <1>2, StartReading
<1>3. CASE SearchExact
  <2>1. mode' = "exact"
    BY <1>3 DEF SearchExact
  <2> QED BY <2>1 DEF ReadingOK
<1>4. CASE ReadCharacter
  <2>1. /\ pc = "search" /\ mode # "exact" /\ useTail' = useTail
        /\ breadthFirst' = breadthFirst
    BY <1>4 DEF ReadCharacter, trie
  <2>2. ASSUME breadthFirst, ~useTail PROVE Reading'
    BY <1>4, <2>1, <2>2, ReadReading DEF ReadingOK
  <2> QED BY <2>1, <2>2 DEF ReadingOK
<1>5. CASE EndOfText
  BY <1>5, ReadingStays DEF EndOfText
<1>6. CASE UNCHANGED vars
  BY <1>6, ReadingStays DEF vars
<1> QED BY <1>1, <1>2, <1>3, <1>4, <1>5, <1>6 DEF Next

\* It says what ReportsLongest says.
LEMMA ReadingSuffices ==
  ASSUME Safe, ReadingOK
  PROVE  ReportsLongest
<1> SUFFICES ASSUME pc = "done", mode # "exact", breadthFirst, ~useTail
             PROVE  LET reached == [k \in 0..Len(text) |->
                          LongestSuffix(SubSeq(text, 1, k), cells)]
                        places == {k \in 1..Len(text) : IsEnd(reached[k])}
                    IN  IF places = {} THEN found = << >>
                        ELSE /\ Head(found) = Occurrence(reached[Min(places)])
                             /\ mode = "all" =>
                               Last(found) = Occurrence(reached[Max(places)])
  BY DEF ReportsLongest
<1>1. Reading /\ SearchOK
  BY DEF ReadingOK, Safe
<1>2. Len(text) \in Nat
  BY <1>1, TextsArePlain DEF SearchOK
<1>3. index \in 0..Len(text)
  BY <1>1 DEF SearchOK
<1> DEFINE reached == [k \in 0..Len(text) |->
                         LongestSuffix(SubSeq(text, 1, k), cells)]
           places == {k \in 1..Len(text) : IsEnd(reached[k])}
<1>4. \A k \in 1..Len(text) : reached[k] = ReachedAt(k)
  <2>1. \A k \in 1..Len(text) : k \in 0..Len(text)
    BY <1>2
  <2> QED BY <2>1 DEF ReachedAt
<1>5. places = Places
  BY <1>4 DEF Places
<1>6. Places \subseteq 1..Len(text) /\ Places \subseteq Nat
  <2>1. \A k \in 1..Len(text) : k \in Nat
    BY <1>2
  <2> QED BY <2>1 DEF Places
<1>7. \A k \in Places : k <= Len(text)
  BY <1>2, <1>6
<1> HIDE DEF reached, places
<1>8. CASE Places = {}
  <2>1. found = << >>
    BY <1>1, <1>8 DEF Reading, FirstFound
  <2> QED BY <1>5, <1>8, <2>1 DEF reached, places
<1>9. CASE Places # {}
  <2> PICK m : m = Min(Places)
    OBVIOUS
  <2>1. m \in Places /\ \A j \in Places : m <= j
    BY <1>6, <1>9, MinIsLeast
  <2>2. found # << >> /\ FirstFound
    <3>1. CASE found = << >> /\ \A k \in Places : ~(k <= index)
      <4>1. index = Len(text)
        BY <1>1, <3>1 DEF Reading
      <4> QED BY <1>7, <1>9, <3>1, <4>1
    <3> QED BY <1>1, <3>1 DEF Reading
  <2>3. Head(found) = Occurrence(reached[Min(places)])
    <3> PICK k \in Places :
          /\ k <= index /\ \A j \in Places : k <= j
          /\ Head(found) = Occurrence(ReachedAt(k))
      BY <2>2 DEF FirstFound
    <3>1. k <= m /\ m <= k /\ k \in Nat /\ m \in Nat
      BY <1>6, <2>1
    <3>2. k = m
      BY <3>1
    <3>3. reached[m] = ReachedAt(m)
      BY <1>4, <1>6, <2>1
    <3> QED BY <1>5, <3>2, <3>3
  <2>4. ASSUME mode = "all"
        PROVE  Last(found) = Occurrence(reached[Max(places)])
    <3> PICK k \in Places :
          /\ k <= index /\ \A j \in Places : j <= index => j <= k
          /\ Last(found) = Occurrence(ReachedAt(k))
      BY <1>1, <2>2, <2>4 DEF Reading, LastFound
    <3>1. index = Len(text)
      BY <1>1, <2>4 DEF Reading
    <3> PICK x : x = Max(Places)
      OBVIOUS
    <3>2. x \in Places /\ \A j \in Places : j <= x
      BY <1>2, <1>6, <1>7, <1>9, MaxIsGreatest
    <3>3. k <= x /\ x <= k /\ k \in Nat /\ x \in Nat
      BY <1>6, <1>7, <3>1, <3>2
    <3>4. k = x
      BY <3>3
    <3>5. reached[x] = ReachedAt(x)
      BY <1>4, <1>6, <3>2
    <3> QED BY <1>5, <3>4, <3>5
  <2> QED BY <1>5, <1>9, <2>3, <2>4 DEF reached, places
<1> QED BY <1>8, <1>9

\* A search is always in the longest state possible.
THEOREM ReadingInvariance == Spec => []ReadingOK
<1>1. Init => ReadingOK
  BY DEF Init, ReadingOK
<1>2. Safe /\ NearestOK /\ ReadingOK /\ [Next]_vars => ReadingOK'
  BY NextReading
<1> QED BY <1>1, <1>2, Invariance, NearestInvariance, PTL DEF Spec

\* automaton_search_ac, after a construction with a queue and without a tail,
\* reports the first and the last place where the longest suffix that begins a
\* needle is a needle, and nothing if there is none.
THEOREM SearchReportsLongest == Spec => []ReportsLongest
<1>1. Safe /\ ReadingOK => ReportsLongest
  BY ReadingSuffices
<1> QED BY <1>1, Invariance, ReadingInvariance, PTL

-----------------------------------------------------------------------------
(* A needle in itself *)

\* How far a needle is read until it is found.
Reach(w) == IF end[w] = Append(w, END_OF_TEXT) THEN Len(w) ELSE Len(end[w])

\* On its way there is a state for every character of the needle; none of
\* these is a leaf, for no other needle shares as much with it.
LEMMA OnTheWay ==
  ASSUME TrieOK, NEW w \in DOMAIN end
  PROVE  /\ w \in Word /\ Len(w) \in Nat /\ Reach(w) \in 1..Len(w)
         /\ \A k \in 1..Reach(w) : SubSeq(w, 1, k) \in States
         /\ \A k \in 1..(Reach(w) - 1) : ~IsLeaf(SubSeq(w, 1, k))
         /\ end[w] = Append(w, END_OF_TEXT) => ~IsLeaf(w)
<1>1. w \in Word /\ Len(w) \in Nat /\ Len(w) > 0 /\ Plain(w)
      /\ \A v \in DOMAIN end : v \in Word /\ Len(v) \in Nat
  BY DictionaryOfTrie, EmptySeq DEF Needles, Word
<1> PICK e : e = end[w]
  OBVIOUS
<1>2. /\ e \in Word /\ Len(e) \in 1..(Len(w) + 1)
      /\ \A i \in 1..Len(e) :
           IF i <= Len(w) THEN e[i] = w[i] ELSE e[i] = END_OF_TEXT
      /\ \/ e = Append(w, END_OF_TEXT)
         \/ Len(e) \in 1..(Len(w) - 1) /\ e = SubSeq(w, 1, Len(e))
  BY EndOfNeedle DEF EndsAt
<1>3. Len(Append(w, END_OF_TEXT)) = Len(w) + 1
  <2> PICK c \in Nat : c = END_OF_TEXT
    BY DEF END_OF_TEXT
  <2> QED BY <1>1, FrontAndLast
<1> PICK n : n = Reach(w)
  OBVIOUS
<1>4. n \in 1..Len(w) /\ n <= Len(e)
  <2>1. CASE e = Append(w, END_OF_TEXT)
    <3>1. n = Len(w) /\ Len(e) = Len(w) + 1
      BY <1>3, <2>1 DEF Reach
    <3> QED BY <1>1, <3>1
  <2>2. CASE e # Append(w, END_OF_TEXT)
    <3>1. n = Len(e) /\ Len(e) \in 1..(Len(w) - 1)
      BY <1>2, <2>2 DEF Reach
    <3> QED BY <1>1, <3>1
  <2> QED BY <2>1, <2>2
<1>5. ASSUME NEW k \in 1..n
      PROVE  SubSeq(w, 1, k) \in States
  <2>1. k \in 0..Len(w) /\ k \in 0..Len(e) /\ k \in 1..Len(e) /\ k \in Nat
        /\ k <= Len(w)
    BY <1>1, <1>2, <1>4
  <2> PICK p : p = SubSeq(w, 1, k)
    OBVIOUS
  <2> PICK q : q = SubSeq(e, 1, k)
    OBVIOUS
  <2>2. p \in Word /\ Len(p) = k /\ \A i \in 1..k : p[i] = w[i]
    BY <1>1, <2>1, PrefixOf
  <2>3. q \in Word /\ Len(q) = k /\ \A i \in 1..k : q[i] = e[i]
    BY <1>2, <2>1, PrefixOf
  <2>4. \A i \in 1..k : i \in 1..Len(e) /\ i <= Len(w) /\ i \in 1..Len(w)
    BY <1>1, <1>2, <2>1
  <2>5. \A i \in 1..k : p[i] = q[i]
    BY <1>2, <2>2, <2>3, <2>4
  <2>6. p = q
    BY <2>2, <2>3, <2>5, SeqEqual DEF Word
  <2>7. p \in cells
    BY <2>1, <2>6, CellsArePrefixes
  <2>8. Plain(p)
    BY <1>1, <2>2, <2>4 DEF Plain
  <2> QED BY <2>7, <2>8 DEF States
<1>6. ASSUME NEW k \in 1..Len(w), k < Len(e)
      PROVE  ~IsLeaf(SubSeq(w, 1, k))
  <2> SUFFICES ASSUME IsLeaf(SubSeq(w, 1, k)) PROVE FALSE
    OBVIOUS
  <2> PICK p : p = SubSeq(w, 1, k)
    OBVIOUS
  <2>1. k \in 0..Len(w)
    BY <1>1
  <2>2. p \in Word /\ Len(p) = k /\ \A i \in 1..k : p[i] = w[i]
    BY <1>1, <2>1, PrefixOf
  <2> PICK v \in DOMAIN end :
        /\ p = end[v] /\ p = SubSeq(v, 1, Len(p))
        /\ Len(p) \in 1..(Len(v) - 1) /\ Len(p) > Shared(DOMAIN end, v)
        /\ \A i \in 1..Len(p) : p[i] = v[i]
    BY LeafEnds
  <2>3. v # w
    BY <1>2, <1>6, <2>2
  <2>4. Agree(v, w, k)
    BY <2>2 DEF Agree
  <2>5. k \in 1..Len(v) /\ k <= Len(w)
    BY <1>1, <2>2
  <2>6. /\ Shared(DOMAIN end, v) \in Nat
        /\ \A u \in DOMAIN end : \A j \in 1..Len(v) :
             u # v /\ j <= Len(u) /\ Agree(v, u, j)
               => j <= Shared(DOMAIN end, v)
    BY <1>1, SharedIsLongest
  <2>7. k <= Shared(DOMAIN end, v)
    BY <2>3, <2>4, <2>5, <2>6
  <2> QED BY <2>2, <2>6, <2>7
<1>7. ASSUME NEW k \in 1..(n - 1)
      PROVE  ~IsLeaf(SubSeq(w, 1, k))
  <2>1. k \in 1..Len(w) /\ k < Len(e)
    BY <1>1, <1>2, <1>4
  <2> QED BY <1>6, <2>1
<1>8. ASSUME e = Append(w, END_OF_TEXT)
      PROVE  ~IsLeaf(w)
  <2> PICK k : k = Len(w)
    OBVIOUS
  <2>1. k \in 1..Len(w) /\ k < Len(e)
    BY <1>1, <1>3, <1>8
  <2>2. SubSeq(w, 1, k) = w
    BY <1>1, SubSeqFull DEF Word
  <2> QED BY <1>6, <2>1, <2>2
<1> QED BY <1>1, <1>4, <1>5, <1>7, <1>8

\* Where it is found.
LEMMA FoundAtReach ==
  ASSUME TrieOK, text \in DOMAIN end, NEW n, n = Reach(text),
         NEW p, p = SubSeq(text, 1, n)
  PROVE  /\ p \in States /\ Occurrence(p) = end[text]
         /\ IsMatch(p, TRUE, n) /\ IsMatch(p, FALSE, n)
<1>1. /\ text \in Word /\ Len(text) \in Nat /\ n \in 1..Len(text)
      /\ \A k \in 1..n : SubSeq(text, 1, k) \in States
      /\ end[text] = Append(text, END_OF_TEXT) => ~IsLeaf(text)
  BY OnTheWay
<1>2. n \in 1..n
  BY <1>1
<1>3. p \in States
  BY <1>1, <1>2
<1>4. CASE end[text] = Append(text, END_OF_TEXT)
  <2>1. n = Len(text)
    BY <1>4 DEF Reach
  <2>2. p = text
    BY <1>1, <2>1, SubSeqFull DEF Word
  <2>3. IsEnd(p)
    BY <1>4, <2>2, EndsAreCells DEF IsEnd, HasChild
  <2>4. Occurrence(p) = end[text]
    BY <1>1, <1>4, <2>2 DEF Occurrence
  <2> QED BY <1>3, <2>1, <2>3, <2>4 DEF IsMatch
<1>5. CASE end[text] # Append(text, END_OF_TEXT)
  <2> PICK e : e = end[text]
    OBVIOUS
  <2>1. n = Len(e)
    BY <1>5 DEF Reach
  <2>2. e = SubSeq(text, 1, Len(e))
    BY <1>5, EndOfNeedle DEF EndsAt
  <2>3. p = e
    BY <2>1, <2>2
  <2>4. IsLeaf(p)
    BY <1>5, <2>3 DEF IsLeaf
  <2>5. NeedleOf(e) = text
    BY NeedleOfEnd
  <2>6. RestLength(p) = Len(text) - n
    BY <2>1, <2>3, <2>5 DEF RestLength
  <2>7. IsTail(p, TRUE, n)
    BY <2>6 DEF IsTail
  <2>8. IsTail(p, FALSE, n)
    <3>1. Len(text) - n >= Len(text) - n
      BY <1>1
    <3> QED BY <2>6, <3>1 DEF IsTail
  <2>9. Occurrence(p) = end[text]
    BY <2>3, <2>4 DEF Occurrence
  <2> QED BY <1>3, <2>4, <2>7, <2>8, <2>9 DEF IsMatch
<1> QED BY <1>4, <1>5

\* A search for a needle in itself.
OnItsWay ==
  text \in DOMAIN end =>
    /\ pc = "search" /\ mode # "exact" /\ found = << >> =>
         state = SubSeq(text, 1, index) /\ index < Reach(text)
    /\ pc = "done" =>
         IF mode = "exact" THEN found = <<end[text]>> ELSE found # << >>

\* It begins at the root,
LEMMA StartOnItsWay ==
  ASSUME Safe, StartSearch
  PROVE  OnItsWay'
<1>1. TrieOK /\ SearchOK /\ pc = "ready" /\ UNCHANGED trie
  BY DEF Safe, BuildOK, StartSearch
<1>2. /\ text' \in Texts /\ end' = end
      /\ index' = 0 /\ state' = Root /\ found' = << >> /\ pc' = "search"
  BY <1>1 DEF StartSearch, SearchOK, trie
<1> PICK t : t = text'
  OBVIOUS
<1>3. t \in Word /\ Len(t) \in Nat
  BY <1>2, TextsArePlain
<1>4. SubSeq(t, 1, 0) = Root
  <2> PICK zero \in Nat : zero = 0
    OBVIOUS
  <2>1. zero \in 0..Len(t)
    BY <1>3
  <2>2. SubSeq(t, 1, zero) \in Word /\ Len(SubSeq(t, 1, zero)) = 0
    BY <1>3, <2>1, PrefixOf
  <2>3. SubSeq(t, 1, zero) = << >>
    BY <2>2, EmptySeq DEF Word
  <2> QED BY <2>3 DEF Root
<1>5. ASSUME t \in DOMAIN end PROVE 0 < Reach(t)
  <2>1. Reach(t) \in 1..Len(t)
    BY <1>1, <1>5, OnTheWay
  <2> QED BY <1>3, <2>1
<1>6. Reach(text') = Reach(text)'
  BY <1>2 DEF Reach
<1> QED BY <1>2, <1>4, <1>5, <1>6 DEF OnItsWay

\* every character leads to the next state, or the needle is found,
LEMMA ReadOnItsWay ==
  ASSUME Safe, ReadCharacter, OnItsWay
  PROVE  OnItsWay'
<1>1. /\ TrieOK /\ FailOK /\ SearchOK /\ text' = text /\ mode' = mode
      /\ pc = "search" /\ mode # "exact" /\ end' = end
  BY DEF Safe, BuildOK, ReadCharacter, trie
<1> SUFFICES ASSUME text \in DOMAIN end
             PROVE  /\ pc' = "search" /\ found' = << >> =>
                         /\ state' = SubSeq(text, 1, index')
                         /\ index' < Reach(text)
                    /\ pc' = "done" => found' # << >>
  BY <1>1 DEF OnItsWay, Reach
<1>2. \/ ~IsMatch(state', FALSE, index') /\ found' = found /\ pc' = pc
      \/ IsMatch(state', FALSE, index') /\ found' # << >>
  <2>1. CASE \E o \in Ends, a \in Ends :
               /\ IsMatch(state', FALSE, index')
               /\ found' = <<o>> \/ found' = <<a, o>>
    <3> PICK o \in Ends, a \in Ends :
               /\ IsMatch(state', FALSE, index')
               /\ found' = <<o>> \/ found' = <<a, o>>
      BY <2>1
    <3>1. <<o>> # << >> /\ <<a, o>> # << >>
      BY HeadAndLast
    <3> QED BY <3>1
  <2>2. \/ ~IsMatch(state', FALSE, index') /\ found' = found /\ pc' = pc
        \/ \E o \in Ends, a \in Ends :
               /\ IsMatch(state', FALSE, index')
               /\ found' = <<o>> \/ found' = <<a, o>>
    BY <1>1, FoundIs
  <2> QED BY <2>1, <2>2
<1>3. CASE found # << >>
  BY <1>1, <1>2, <1>3
<1>4. CASE found = << >>
  <2> PICK n : n = Reach(text)
    OBVIOUS
  <2>1. state = SubSeq(text, 1, index) /\ index < n
    BY <1>1, <1>4 DEF OnItsWay
  <2> PICK c \in Nat, i \in Nat :
        /\ c > END_OF_TEXT /\ i = index /\ index' = i + 1
        /\ state' = Step(state, c) /\ state \in States
        /\ SubSeq(text, 1, i + 1) = Append(SubSeq(text, 1, i), c)
    BY <1>1, NextCharacter DEF SearchOK
  <2>2. /\ text \in Word /\ Len(text) \in Nat /\ n \in 1..Len(text)
        /\ \A k \in 1..n : SubSeq(text, 1, k) \in States
    BY <1>1, OnTheWay
  <2>3. i + 1 \in 1..n /\ n \in Nat
    BY <2>1, <2>2
  <2>4. HasChild(state, c)
    <3>1. SubSeq(text, 1, i + 1) \in cells
      BY <2>2, <2>3 DEF States
    <3> QED BY <2>1, <3>1 DEF HasChild
  <2>5. state' = Append(state, c)
    BY <1>1, <2>4, StepLands
  <2>6. state' = SubSeq(text, 1, i + 1)
    BY <2>1, <2>5
  <2>7. CASE i + 1 = n
    <3> PICK p : p = state'
      OBVIOUS
    <3>1. IsMatch(p, FALSE, n)
      BY <1>1, <2>6, <2>7, FoundAtReach
    <3>2. found' # << >>
      BY <1>2, <2>7, <3>1
    <3> QED BY <3>2
  <2>8. CASE i + 1 # n
    <3>1. i + 1 < n
      BY <2>3, <2>8
    <3> QED BY <1>1, <1>2, <2>6, <3>1
  <2> QED BY <2>7, <2>8
<1> QED BY <1>3, <1>4

\* and automaton_search_exact stops at its end and not before.
LEMMA ExactOnItsWay ==
  ASSUME Safe, SearchExact
  PROVE  OnItsWay'
<1>1. /\ TrieOK /\ SearchOK /\ text' = text /\ mode' = "exact"
      /\ mode = "exact" /\ end' = end /\ pc' = "done"
      /\ text \in Texts \union {<< >>}
  BY DEF Safe, BuildOK, SearchExact, trie, SearchOK
<1> SUFFICES ASSUME text \in DOMAIN end
             PROVE  found' = <<end[text]>>
  BY <1>1 DEF OnItsWay
<1> PICK n : n = Reach(text)
  OBVIOUS
<1>2. /\ text \in Word /\ Len(text) \in Nat /\ n \in 1..Len(text)
      /\ \A k \in 1..n : SubSeq(text, 1, k) \in States
      /\ \A k \in 1..(n - 1) : ~IsLeaf(SubSeq(text, 1, k))
  BY <1>1, OnTheWay
<1>3. n \in Matches
  <2> PICK p : p = SubSeq(text, 1, n)
    OBVIOUS
  <2>1. p \in States /\ IsMatch(p, TRUE, n)
    BY <1>1, FoundAtReach
  <2> QED BY <1>2, <2>1 DEF Matches, States
<1>4. ASSUME NEW k \in Matches, k < n
      PROVE  FALSE
  <2>1. k \in 1..Len(text) /\ IsMatch(SubSeq(text, 1, k), TRUE, k)
    BY <1>4 DEF Matches
  <2>2. k \in 1..(n - 1) /\ k # Len(text)
    BY <1>2, <1>4, <2>1
  <2>3. ~IsLeaf(SubSeq(text, 1, k))
    BY <1>2, <2>2
  <2> QED BY <2>1, <2>2, <2>3 DEF IsMatch
<1> PICK k \in 1..Len(text) :
      /\ k \in Matches /\ \A j \in Matches : k <= j
      /\ found' = <<Occurrence(SubSeq(text, 1, k))>>
  BY <1>1, <1>3, ExactIs
<1>5. k = n
  <2>1. k <= n
    BY <1>3
  <2>2. k \in Nat /\ n \in Nat
    BY <1>2
  <2>3. ~(k < n)
    BY <1>4
  <2> QED BY <2>1, <2>2, <2>3
<1> PICK p : p = SubSeq(text, 1, k)
  OBVIOUS
<1>6. Occurrence(p) = end[text]
  BY <1>1, <1>5, FoundAtReach
<1> QED BY <1>6

\* A step that changes nothing.
LEMMA StaysOnItsWay ==
  ASSUME OnItsWay, UNCHANGED <<trie, automaton, search>>, pc' = pc
  PROVE  OnItsWay'
<1>1. /\ mode' = mode /\ text' = text /\ index' = index /\ state' = state
      /\ found' = found /\ end' = end
  BY DEF trie, search
<1>2. Reach(text)' = Reach(text)
  BY <1>1 DEF Reach
<1> QED BY <1>1, <1>2 DEF OnItsWay

\* No step leads it astray.
LEMMA NextOnItsWay ==
  ASSUME Safe, OnItsWay, [Next]_vars
  PROVE  OnItsWay'
<1>1. CASE CreateAutomatonFromTrie \/ Visit \/ Built \/ Return
  <2>1. pc' \in {"build", "ready"}
    <3>1. Visit => pc' = "build"
      BY DEF Visit
    <3> QED BY <1>1, <3>1 DEF CreateAutomatonFromTrie, Built, Return
  <2> QED BY <2>1 DEF OnItsWay
<1>2. CASE StartSearch
  BY <1>2, StartOnItsWay
<1>3. CASE SearchExact
  BY <1>3, ExactOnItsWay
<1>4. CASE ReadCharacter
  BY <1>4, ReadOnItsWay
<1>5. CASE EndOfText
  <2>1. /\ TrieOK /\ text' = text /\ mode' = mode /\ found' = found
        /\ index = Len(text) /\ pc = "search" /\ mode # "exact"
        /\ pc' = "done" /\ end' = end
    BY <1>5 DEF Safe, BuildOK, EndOfText, trie, search
  <2>2. ASSUME text \in DOMAIN end, found = << >> PROVE FALSE
    <3>1. Len(text) < Reach(text)
      BY <2>1, <2>2 DEF OnItsWay
    <3>2. Reach(text) \in 1..Len(text) /\ Len(text) \in Nat
      BY <2>1, <2>2, OnTheWay
    <3> QED BY <3>1, <3>2
  <2> QED BY <2>1, <2>2 DEF OnItsWay
<1>6. CASE UNCHANGED vars
  BY <1>6, StaysOnItsWay DEF vars
<1> QED BY <1>1, <1>2, <1>3, <1>4, <1>5, <1>6 DEF Next

\* A needle that is searched in itself is found, with a tail and without, in
\* either order of the visits, and in every mode of the search.
THEOREM NeedlesFindThemselves == Spec => []NeedleFindsItself
<1>1. Init => OnItsWay
  BY DEF Init, OnItsWay
<1>2. Safe /\ OnItsWay /\ [Next]_vars => OnItsWay'
  BY NextOnItsWay
<1>3. OnItsWay => NeedleFindsItself
  BY DEF OnItsWay, NeedleFindsItself
<1> QED BY <1>1, <1>2, <1>3, Invariance, PTL DEF Spec

===============================================================================
