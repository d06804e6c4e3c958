----------------------------- MODULE StreamProofs -----------------------------
(***************************************************************************)
(* Proofs about the modules that lay out data in one sequence of numbers   *)
(* and find it there again; they share the lemmas about joined sequences.  *)
(*                                                                         *)
(* Needle: the conversions of src/needle.c are those of RFC 3629 for every *)
(* character, a needle that is made ends where its string does, and the    *)
(* needle of a string in UTF-8 is its characters.                          *)
(*                                                                         *)
(* FoundNeedle: the string returned of a cell is the UTF-8 of the          *)
(* characters that lead to it and of its tail, and nothing else is         *)
(* written.                                                                *)
(*                                                                         *)
(* File: a load that comes to its end has the dictionary of the latest     *)
(* store.                                                                  *)
(*                                                                         *)
(* Protocol: the caller gets what the automaton finds, in order, and what  *)
(* fails fails because a request or an answer came in pieces.              *)
(***************************************************************************)
EXTENDS Needle, FoundNeedle, File, Protocol, NaturalsInduction,
        WellFoundedInduction, SequenceTheorems, TLAPS


(* Needle: UTF-8 and the text that is searched. *)

\* U+10FFFF lies behind U+FFFF, and three bits behind 18 hold it.
LEMMA LastCharacterBounds ==
  /\ LastCharacter \in Nat
  /\ LastCharacter >= 65536
  /\ LastCharacter < 8 * (64 * 4096)
BY SMT DEF LastCharacter

\* The table of unicodeMaskMap, unrolled.
LEMMA UnicodeLengthCases ==
  ASSUME NEW u \in 1..LastCharacter
  PROVE  UnicodeLength(u) = IF u < 128 THEN 1 ELSE IF u < 2048 THEN 2
                            ELSE IF u < 65536 THEN 3 ELSE 4
<1> DEFINE Fits(n) == FirstOf[n] <= u /\ u <= LastOf[n]
<1>1. /\ Fits(1) <=> u < 128
      /\ Fits(2) <=> 128 <= u /\ u < 2048
      /\ Fits(3) <=> 2048 <= u /\ u < 65536
      /\ Fits(4) <=> 65536 <= u
  BY SMT, LastCharacterBounds DEF FirstOf, LastOf
<1>2. UnicodeLength(u) = IF \E n \in 1..4 : Fits(n)
                         THEN CHOOSE n \in 1..4 : Fits(n) ELSE 0
  BY SMT DEF UnicodeLength
<1>3. \A n \in 1..4 : n = 1 \/ n = 2 \/ n = 3 \/ n = 4
  BY SMT
<1> HIDE DEF Fits
<1>4. \E k \in 1..4 : Fits(k) /\ \A n \in 1..4 : Fits(n) => n = k
  BY SMT, <1>1, <1>3
<1> QED BY SMT, <1>1, <1>2, <1>3, <1>4

\* The table of utf8MaskMap, unrolled.
LEMMA Utf8LengthCases ==
  ASSUME NEW b \in 0..255
  PROVE  Utf8Length(b) = IF b < 128 THEN 1 ELSE IF b < 192 THEN 0
                         ELSE IF b < 224 THEN 2 ELSE IF b < 240 THEN 3
                         ELSE IF b < 248 THEN 4 ELSE 0
<1> DEFINE Leads(n) == b - (b % MaskOf[n]) = LeadOf[n]
<1>1. /\ Leads(1) <=> b < 128
      /\ Leads(2) <=> 192 <= b /\ b < 224
      /\ Leads(3) <=> 224 <= b /\ b < 240
      /\ Leads(4) <=> 240 <= b /\ b < 248
  BY SMT DEF MaskOf, LeadOf
<1>2. Utf8Length(b) = IF \E n \in 1..4 : Leads(n)
                      THEN CHOOSE n \in 1..4 : Leads(n) ELSE 0
  BY SMT DEF Utf8Length
<1>3. \A n \in 1..4 : n = 1 \/ n = 2 \/ n = 3 \/ n = 4
  BY SMT
<1> HIDE DEF Leads
<1>4. CASE \E n \in 1..4 : Leads(n)
  <2>1. \E k \in 1..4 : Leads(k) /\ \A n \in 1..4 : Leads(n) => n = k
    BY SMT, <1>1, <1>3, <1>4
  <2> QED BY SMT, <1>1, <1>2, <1>3, <2>1
<1>5. CASE ~\E n \in 1..4 : Leads(n)
  BY SMT, <1>1, <1>2, <1>5
<1> QED BY SMT, <1>4, <1>5

\* unicodeToUtf8 writes what RFC 3629 says, for every character.
THEOREM WritesUtf8 ==
  ASSUME NEW u \in 1..LastCharacter
  PROVE  UnicodeToUtf8(u, UnicodeLength(u)) = Rfc3629(u)
<1> DEFINE n == UnicodeLength(u)
           b == UnicodeToUtf8(u, n)
<1>1. CASE u < 128
  <2>1. n = 1
    BY SMT, <1>1, UnicodeLengthCases
  <2>2. b = [c \in 1..1 |-> u]
    BY SMT, <1>1, <2>1 DEF UnicodeToUtf8, LeadOf, MaskOf, Unit
  <2> QED BY SMT, <1>1, <2>2 DEF Rfc3629
<1>2. CASE u >= 128 /\ u < 2048
  <2>1. n = 2
    BY SMT, <1>2, UnicodeLengthCases
  <2>2. b = [c \in 1..2 |-> IF c = 1 THEN 192 + ((u \div 64) % 32)
                            ELSE 128 + (u % 64)]
    BY SMT, <1>2, <2>1 DEF UnicodeToUtf8, LeadOf, MaskOf, Unit
  <2>3. (u \div 64) % 32 = u \div 64
    BY SMT, <1>2
  <2> QED BY SMT, <1>2, <2>2, <2>3 DEF Rfc3629
<1>3. CASE u >= 2048 /\ u < 65536
  <2>1. n = 3
    BY SMT, <1>3, UnicodeLengthCases
  <2>2. b = [c \in 1..3 |-> IF c = 1 THEN 224 + ((u \div 4096) % 16)
                            ELSE IF c = 2 THEN 128 + ((u \div 64) % 64)
                            ELSE 128 + (u % 64)]
    BY SMT, <1>3, <2>1 DEF UnicodeToUtf8, LeadOf, MaskOf, Unit
  <2>3. (u \div 4096) % 16 = u \div 4096
    BY SMT, <1>3
  <2> QED BY SMT, <1>3, <2>2, <2>3 DEF Rfc3629
<1>4. CASE u >= 65536
  <2>1. n = 4
    BY SMT, <1>4, UnicodeLengthCases
  <2>2. b = [c \in 1..4 |-> IF c = 1 THEN 240 + ((u \div (64 * 4096)) % 8)
                            ELSE IF c = 2 THEN 128 + ((u \div 4096) % 64)
                            ELSE IF c = 3 THEN 128 + ((u \div 64) % 64)
                            ELSE 128 + (u % 64)]
    BY SMT, <1>4, <2>1 DEF UnicodeToUtf8, LeadOf, MaskOf, Unit
  <2>3. (u \div (64 * 4096)) % 8 = u \div (64 * 4096)
    BY SMT, <1>4, LastCharacterBounds
  <2> QED BY SMT, <1>4, <2>2, <2>3 DEF Rfc3629
<1> QED BY SMT, <1>1, <1>2, <1>3, <1>4

\* The bits of the tables.
LEMMA Tables ==
  /\ MaskOf[1] = 128 /\ MaskOf[2] = 32 /\ MaskOf[3] = 16 /\ MaskOf[4] = 8
  /\ Unit[0] = 1 /\ Unit[1] = 64 /\ Unit[2] = 4096 /\ Unit[3] = 64 * 4096
BY SMT DEF MaskOf, Unit

\* A byte that continues a character gives back the six bits it carries.
LEMMA Continues ==
  ASSUME NEW z \in 0..63
  PROVE  (128 + z) % 64 = z /\ (128 + z) - ((128 + z) % 64) = 128
BY SMT

\* The bytes of a character whose digits to the base 64 are h, x, y and z.
IsTwo(b, h, z) ==
  /\ h \in 0..31 /\ z \in 0..63
  /\ b[1] = 192 + h /\ b[2] = 128 + z

IsThree(b, h, y, z) ==
  /\ h \in 0..15 /\ y \in 0..63 /\ z \in 0..63
  /\ b[1] = 224 + h /\ b[2] = 128 + y /\ b[3] = 128 + z

IsFour(b, h, x, y, z) ==
  /\ h \in 0..7 /\ x \in 0..63 /\ y \in 0..63 /\ z \in 0..63
  /\ b[1] = 240 + h /\ b[2] = 128 + x /\ b[3] = 128 + y /\ b[4] = 128 + z

\* utf8ToUnicode puts the digits together.
LEMMA DecodeTwo ==
  ASSUME NEW b, NEW h, NEW z, IsTwo(b, h, z)
  PROVE  Utf8ToUnicode(b, 2) = h * 64 + z
<1>1. b[1] % MaskOf[2] = h
  <2>1. (192 + h) % 32 = h
    BY SMT DEF IsTwo
  <2> QED BY SMT, <2>1, Tables DEF IsTwo
<1>2. \A c \in 2..2 : c = 2
  BY SMT
<1>3. b[2] % 64 = z /\ b[2] - (b[2] % 64) = 128
  BY SMT, Continues DEF IsTwo
<1>4. ~\E c \in 2..2 : b[c] - (b[c] % 64) # 128
  BY SMT, <1>2, <1>3
<1>5. Utf8ToUnicode(b, 2) =
        (b[1] % MaskOf[2]) * Unit[1] + (b[2] % 64) * Unit[0] + 0 + 0
  BY SMT, <1>4 DEF Utf8ToUnicode
<1>6. Utf8ToUnicode(b, 2) =
        h * Unit[1] + z * Unit[0] + 0 + 0
  BY SMT, <1>1, <1>3, <1>5
<1> QED BY SMT, <1>6, Tables DEF IsTwo

\* What is decoded from three bytes.
LEMMA DecodeThree ==
  ASSUME NEW b, NEW h, NEW y, NEW z, IsThree(b, h, y, z)
  PROVE  Utf8ToUnicode(b, 3) = h * 4096 + y * 64 + z
<1>1. b[1] % MaskOf[3] = h
  <2>1. (224 + h) % 16 = h
    BY SMT DEF IsThree
  <2> QED BY SMT, <2>1, Tables DEF IsThree
<1>2. \A c \in 2..3 : c = 2 \/ c = 3
  BY SMT
<1>3. b[2] % 64 = y /\ b[2] - (b[2] % 64) = 128
  BY SMT, Continues DEF IsThree
<1>4. b[3] % 64 = z /\ b[3] - (b[3] % 64) = 128
  BY SMT, Continues DEF IsThree
<1>5. ~\E c \in 2..3 : b[c] - (b[c] % 64) # 128
  BY SMT, <1>2, <1>3, <1>4
<1>6. Utf8ToUnicode(b, 3) =
        (b[1] % MaskOf[3]) * Unit[2] + (b[2] % 64) * Unit[1]
           + (b[3] % 64) * Unit[0] + 0
  BY SMT, <1>5 DEF Utf8ToUnicode
<1>7. Utf8ToUnicode(b, 3) =
        h * Unit[2] + y * Unit[1] + z * Unit[0] + 0
  BY SMT, <1>1, <1>3, <1>4, <1>6
<1> QED BY SMT, <1>7, Tables DEF IsThree

\* What is decoded from four bytes.
LEMMA DecodeFour ==
  ASSUME NEW b, NEW h, NEW x, NEW y, NEW z, IsFour(b, h, x, y, z)
  PROVE  Utf8ToUnicode(b, 4) = h * (64 * 4096) + x * 4096 + y * 64 + z
<1>1. b[1] % MaskOf[4] = h
  <2>1. (240 + h) % 8 = h
    BY SMT DEF IsFour
  <2> QED BY SMT, <2>1, Tables DEF IsFour
<1>2. \A c \in 2..4 : c = 2 \/ c = 3 \/ c = 4
  BY SMT
<1>3. b[2] % 64 = x /\ b[2] - (b[2] % 64) = 128
  BY SMT, Continues DEF IsFour
<1>4. b[3] % 64 = y /\ b[3] - (b[3] % 64) = 128
  BY SMT, Continues DEF IsFour
<1>5. b[4] % 64 = z /\ b[4] - (b[4] % 64) = 128
  BY SMT, Continues DEF IsFour
<1>6. ~\E c \in 2..4 : b[c] - (b[c] % 64) # 128
  BY SMT, <1>2, <1>3, <1>4, <1>5
<1>7. Utf8ToUnicode(b, 4) =
        (b[1] % MaskOf[4]) * Unit[3] + (b[2] % 64) * Unit[2]
           + (b[3] % 64) * Unit[1] + (b[4] % 64) * Unit[0]
  BY SMT, <1>6 DEF Utf8ToUnicode
<1>8. Utf8ToUnicode(b, 4) =
        h * Unit[3] + x * Unit[2] + y * Unit[1] + z * Unit[0]
  BY SMT, <1>1, <1>3, <1>4, <1>5, <1>7
<1> QED BY SMT, <1>8, Tables DEF IsFour

\* The digits to the base 64 of a number make it up again.
LEMMA Digits ==
  ASSUME NEW u \in Nat, u < 8 * (64 * 4096)
  PROVE  /\ u = (u \div 64) * 64 + (u % 64)
         /\ u = (u \div 4096) * 4096 + ((u \div 64) % 64) * 64 + (u % 64)
         /\ u = (u \div (64 * 4096)) * (64 * 4096)
                  + ((u \div 4096) % 64) * 4096
                  + ((u \div 64) % 64) * 64 + (u % 64)
         /\ u \div (64 * 4096) \in 0..7
BY SMTT(60)

\* utf8Length and utf8ToUnicode read from the bytes of a character its length
\* and the character, for every character: what createTrieNeedle stores is
\* what automaton_returnNeedle returns.
THEOREM ReadsUtf8 ==
  ASSUME NEW u \in 1..LastCharacter,
         NEW n, n = UnicodeLength(u),
         NEW b, b = UnicodeToUtf8(u, n)
  PROVE  Utf8Length(b[1]) = n /\ Utf8ToUnicode(b, n) = u
<1>1. u \in Nat /\ u < 8 * (64 * 4096) /\ u >= 1
  BY SMT, LastCharacterBounds
<1>2. b = Rfc3629(u)
  BY WritesUtf8
<1>3. CASE u < 128
  <2>1. n = 1 /\ b[1] = u /\ u \in 0..255
    BY SMT, <1>1, <1>2, <1>3, UnicodeLengthCases DEF Rfc3629
  <2>2. Utf8Length(b[1]) = n
    BY SMT, <1>3, <2>1, Utf8LengthCases
  <2>3. Utf8ToUnicode(b, n) = u
    BY SMT, <1>3, <2>1 DEF Utf8ToUnicode, MaskOf, Unit
  <2> QED BY <2>2, <2>3
<1>4. CASE u >= 128 /\ u < 2048
  <2> DEFINE h == u \div 64
             z == u % 64
  <2>1. n = 2 /\ b[1] = 192 + h /\ b[2] = 128 + z
    BY SMT, <1>1, <1>2, <1>4, UnicodeLengthCases DEF Rfc3629
  <2>2. /\ h \in 0..31 /\ z \in 0..63
        /\ u = h * 64 + z
    BY SMT, <1>1, <1>4, Digits
  <2> HIDE DEF h, z
  <2>3. Utf8Length(b[1]) = n
    BY SMT, <2>1, <2>2, Utf8LengthCases
  <2>4. Utf8ToUnicode(b, 2) = h * 64 + z
    <3>1. IsTwo(b, h, z)
      BY SMT, <2>1, <2>2 DEF IsTwo
    <3> QED BY SMT, <3>1, DecodeTwo
  <2>5. Utf8ToUnicode(b, n) = u
    BY SMT, <2>1, <2>2, <2>4
  <2> QED BY SMT, <2>3, <2>5
<1>5. CASE u >= 2048 /\ u < 65536
  <2> DEFINE h == u \div 4096
             y == (u \div 64) % 64
             z == u % 64
  <2>1. n = 3 /\ b[1] = 224 + h /\ b[2] = 128 + y /\ b[3] = 128 + z
    BY SMT, <1>1, <1>2, <1>5, UnicodeLengthCases DEF Rfc3629
  <2>2. /\ h \in 0..15 /\ y \in 0..63 /\ z \in 0..63
        /\ u = h * 4096 + y * 64 + z
    BY SMT, <1>1, <1>5, Digits
  <2> HIDE DEF h, y, z
  <2>3. Utf8Length(b[1]) = n
    BY SMT, <2>1, <2>2, Utf8LengthCases
  <2>4. Utf8ToUnicode(b, 3) = h * 4096 + y * 64 + z
    <3>1. IsThree(b, h, y, z)
      BY SMT, <2>1, <2>2 DEF IsThree
    <3> QED BY SMT, <3>1, DecodeThree
  <2>5. Utf8ToUnicode(b, n) = u
    BY SMT, <2>1, <2>2, <2>4
  <2> QED BY SMT, <2>3, <2>5
<1>6. CASE u >= 65536
  <2> DEFINE h == u \div (64 * 4096)
             x == (u \div 4096) % 64
             y == (u \div 64) % 64
             z == u % 64
  <2>1. /\ n = 4 /\ b[1] = 240 + h /\ b[2] = 128 + x
        /\ b[3] = 128 + y /\ b[4] = 128 + z
    BY SMT, <1>1, <1>2, <1>6, UnicodeLengthCases DEF Rfc3629
  <2>2. /\ h \in 0..7 /\ x \in 0..63 /\ y \in 0..63 /\ z \in 0..63
        /\ u = h * (64 * 4096) + x * 4096 + y * 64 + z
    BY SMT, <1>1, <1>6, Digits
  <2> HIDE DEF h, x, y, z
  <2>3. Utf8Length(b[1]) = n
    BY SMT, <2>1, <2>2, Utf8LengthCases
  <2>4. Utf8ToUnicode(b, 4) = h * (64 * 4096) + x * 4096 + y * 64 + z
    <3>1. IsFour(b, h, x, y, z)
      BY SMT, <2>1, <2>2 DEF IsFour
    <3> QED BY SMT, <3>1, DecodeFour
  <2>5. Utf8ToUnicode(b, n) = u
    BY SMT, <2>1, <2>2, <2>4
  <2> QED BY SMT, <2>3, <2>5
<1> QED BY SMT, <1>1, <1>3, <1>4, <1>5, <1>6

-----------------------------------------------------------------------------
(* createTrieNeedle *)

\* A first byte announces at most four.
LEMMA Utf8LengthType ==
  ASSUME NEW b
  PROVE  Utf8Length(b) \in 0..4
<1> DEFINE Leads(n) == b - (b % MaskOf[n]) = LeadOf[n]
<1>1. Utf8Length(b) = IF \E n \in 1..4 : Leads(n)
                      THEN CHOOSE n \in 1..4 : Leads(n) ELSE 0
  BY SMT DEF Utf8Length
<1> HIDE DEF Leads
<1> QED BY SMT, <1>1

\* What a sequence of bytes holds.
LEMMA BytesType ==
  ASSUME NEW m \in Nat, NEW s \in Seq(m..255)
  PROVE  Len(s) \in Nat /\ \A j \in 1..Len(s) : s[j] \in m..255
OBVIOUS

\* What a loop finds in the memory: bytes, the first 0 at the end of text.
LEMMA ByteType ==
  ASSUME text \in Seq(1..255), behind \in Seq(0..255), NEW i \in Nat
  PROVE  /\ Byte(i) \in 0..255
         /\ i < Len(text) => Byte(i) # 0
         /\ i = Len(text) => Byte(i) = 0
<1>1. /\ Len(text) \in Nat /\ Len(behind) \in Nat
      /\ \A j \in 1..Len(text) : text[j] \in 1..255
      /\ \A j \in 1..Len(behind) : behind[j] \in 0..255
  <2>1. Len(text) \in Nat /\ \A j \in 1..Len(text) : text[j] \in 1..255
    BY ZenonT(60), BytesType, 1 \in Nat
  <2>2. Len(behind) \in Nat /\ \A j \in 1..Len(behind) : behind[j] \in 0..255
    BY ZenonT(60), BytesType, 0 \in Nat
  <2> QED BY <2>1, <2>2
<1>2. ASSUME i < Len(text)
      PROVE  Byte(i) \in 1..255
  <2>1. Byte(i) = text[i + 1] /\ i + 1 \in 1..Len(text)
    BY SMT, <1>1, <1>2 DEF Byte
  <2> QED BY SMT, <1>1, <2>1
<1>3. ASSUME i > Len(text), i <= Len(text) + Len(behind)
      PROVE  Byte(i) \in 0..255
  <2>1. Byte(i) = behind[i - Len(text)] /\ i - Len(text) \in 1..Len(behind)
    BY SMT, <1>1, <1>3 DEF Byte
  <2> QED BY SMT, <1>1, <2>1
<1>4. ASSUME i = Len(text) \/ i > Len(text) + Len(behind)
      PROVE  Byte(i) = 0
  BY SMT, <1>1, <1>4 DEF Byte
<1>5. 1..255 \subseteq 0..255 /\ 0 \in 0..255 /\ 0 \notin 1..255
  BY SMT
<1>6. \/ i < Len(text) /\ i # Len(text)
      \/ i > Len(text) /\ i <= Len(text) + Len(behind) /\ ~(i < Len(text))
           /\ i # Len(text)
      \/ (i = Len(text) \/ i > Len(text) + Len(behind)) /\ ~(i < Len(text))
  BY SMT, <1>1
<1> QED BY ZenonT(60), <1>2, <1>3, <1>4, <1>5, <1>6

\* What utf8ToUnicode puts together is a number.
LEMMA DecodedType ==
  ASSUME NEW n \in 1..4, NEW b, \A c \in 1..n : b[c] \in 0..255
  PROVE  Utf8ToUnicode(b, n) \in Int
<1> DEFINE Fill(c) == IF c <= n THEN (b[c] % 64) * Unit[n - c] ELSE 0
           Lead == (b[1] % MaskOf[n]) * Unit[n - 1]
<1>1. \A k \in 1..4 : k = 1 \/ k = 2 \/ k = 3 \/ k = 4
  BY SMT
<1>2. \A k \in 0..3 : k = 0 \/ k = 1 \/ k = 2 \/ k = 3
  BY SMT
<1>3. \A k \in 0..3 : Unit[k] \in Nat
  <2>1. 64 * 4096 \in Nat
    BY SMT
  <2> QED BY SMT, <1>2, <2>1, Tables
<1>5. \A c \in 1..4 : Fill(c) \in Int
  <2> SUFFICES ASSUME NEW c \in 1..4, c <= n
               PROVE  (b[c] % 64) * Unit[n - c] \in Int
    BY SMT
  <2>1. b[c] \in 0..255 /\ n - c \in 0..3
    BY SMT
  <2>2. b[c] % 64 \in Int
    BY SMT, <2>1
  <2>3. Unit[n - c] \in Int
    BY SMT, <1>3, <2>1
  <2> QED BY SMT, <2>2, <2>3
<1>6. Lead \in Int
  <2>1. b[1] \in 0..255 /\ n - 1 \in 0..3
    BY SMT
  <2>2. /\ b[1] % 128 \in Int /\ b[1] % 32 \in Int
        /\ b[1] % 16 \in Int /\ b[1] % 8 \in Int
    <3>1. \A m \in 0..255 : /\ m % 128 \in Int /\ m % 32 \in Int
                            /\ m % 16 \in Int /\ m % 8 \in Int
      BY SMTT(60)
    <3> QED BY <2>1, <3>1
  <2>3. MaskOf[n] = 128 \/ MaskOf[n] = 32 \/ MaskOf[n] = 16 \/ MaskOf[n] = 8
    BY SMT, <1>1, Tables
  <2>4. b[1] % MaskOf[n] \in Int
    BY <2>2, <2>3
  <2>5. Unit[n - 1] \in Int
    BY SMT, <1>3, <2>1
  <2> QED BY SMT, <2>4, <2>5
<1>7. Utf8ToUnicode(b, n) =
        IF \E c \in 2..n : b[c] - (b[c] % 64) # 128 THEN 0
        ELSE Lead + Fill(2) + Fill(3) + Fill(4)
  BY DEF Utf8ToUnicode
<1> HIDE DEF Fill, Lead
<1>8. Lead + Fill(2) + Fill(3) + Fill(4) \in Int
  BY SMT, <1>5, <1>6
<1> QED BY SMT, <1>7, <1>8

\* What a loop decodes is a number.
LEMMA CharacterType ==
  ASSUME text \in Seq(1..255), behind \in Seq(0..255),
         NEW i \in Nat, NEW n \in 1..4
  PROVE  CharacterAt(i, n) \in Int
<1>1. \A c \in 1..n : Byte(i + c - 1) \in 0..255
  <2> SUFFICES ASSUME NEW c \in 1..n PROVE Byte(i + c - 1) \in 0..255
    OBVIOUS
  <2>1. i + c - 1 \in Nat
    BY SMT
  <2> QED BY <2>1, ByteType
<1> QED BY <1>1, DecodedType DEF CharacterAt

\* utf8ToUnicode refuses a character with the NUL among its bytes.
LEMMA NoNulInCharacter ==
  ASSUME text \in Seq(1..255), behind \in Seq(0..255),
         NEW i \in Nat, i <= Len(text),
         NEW n, n = Utf8Length(Byte(i)), n > 0,
         CharacterAt(i, n) # 0
  PROVE  i + n <= Len(text)
<1> DEFINE b == [c \in 1..n |-> Byte(i + c - 1)]
<1>1. n \in 1..4
  BY SMT, Utf8LengthType
<1>2. ASSUME i = Len(text) PROVE FALSE
  <2>1. Byte(i) = 0
    BY SMT, <1>2, ByteType
  <2>2. n = 1
    BY SMT, <2>1, Utf8LengthCases
  <2>3. CharacterAt(i, 1) = 0
    BY SMT, <2>1, Tables DEF CharacterAt, Utf8ToUnicode
  <2> QED BY SMT, <2>2, <2>3
<1>3. ASSUME i < Len(text), i + n > Len(text) PROVE FALSE
  <2> DEFINE k == Len(text) - i + 1
  <2>1. k \in 2..n /\ b[k] = Byte(Len(text)) /\ Len(text) \in Nat
    BY SMT, <1>1, <1>3
  <2>2. Byte(Len(text)) = 0
    BY SMT, <2>1, ByteType
  <2>3. b[k] - (b[k] % 64) # 128
    BY SMT, <2>1, <2>2
  <2> HIDE DEF k, b
  <2>4. \E c \in 2..n : b[c] - (b[c] % 64) # 128
    BY SMT, <2>1, <2>3
  <2>5. CharacterAt(i, n) = 0
    BY SMT, <2>4 DEF CharacterAt, Utf8ToUnicode, b
  <2> QED BY SMT, <2>5
<1> QED BY SMT, <1>1, <1>2, <1>3

\* The path of the first loop goes on by a character.
LEMMA StartsAppend ==
  ASSUME length \in Nat, NEW p \in [0..length -> Nat], Starts(p),
         Utf8Length(Byte(p[length])) > 0, length' = length + 1,
         memory' = memory
  PROVE  \E q \in [0..length' -> Nat] :
           /\ Starts(q)'
           /\ q[length'] = p[length] + Utf8Length(Byte(p[length]))
<1>0. PICK q : q = [k \in 0..length + 1 |->
                      IF k <= length THEN p[k]
                      ELSE p[length] + Utf8Length(Byte(p[length]))]
  OBVIOUS
<1> DEFINE L(k) == Utf8Length(Byte(k))
<1>1. /\ p[0] = 0
      /\ \A k \in 0..length - 1 : L(p[k]) > 0 /\ p[k + 1] = p[k] + L(p[k])
      /\ \A k : L(k) \in Nat
  BY SMT, Utf8LengthType DEF Starts
<1>2. \A k : Byte(k)' = Byte(k)
  BY DEF memory, Byte
<1>3. (Starts(q))' <=> /\ q \in [0..length' -> Nat]
                       /\ q[0] = 0
                       /\ \A k \in 0..length' - 1 :
                            L(q[k]) > 0 /\ q[k + 1] = q[k] + L(q[k])
  BY <1>2 DEF Starts
<1> HIDE DEF L
<1>4. q = [k \in 0..length + 1 |->
             IF k <= length THEN p[k] ELSE p[length] + L(p[length])]
  BY <1>0 DEF L
<1>5. L(p[length]) > 0
  BY DEF L
<1>6. q \in [0..length' -> Nat]
  BY SMT, <1>1, <1>4
<1>7. q[0] = 0 /\ q[length'] = p[length] + L(p[length])
  BY SMT, <1>1, <1>4
<1>8. \A k \in 0..length' - 1 : L(q[k]) > 0 /\ q[k + 1] = q[k] + L(q[k])
  <2> SUFFICES ASSUME NEW k \in 0..length' - 1
               PROVE  L(q[k]) > 0 /\ q[k + 1] = q[k] + L(q[k])
    OBVIOUS
  <2>1. CASE k < length
    <3>1. q[k] = p[k] /\ q[k + 1] = p[k + 1] /\ k \in 0..length - 1
      BY SMT, <1>4, <2>1
    <3> QED BY <1>1, <3>1
  <2>2. CASE k = length
    <3>1. q[k] = p[length] /\ q[k + 1] = p[length] + L(p[length])
      BY SMT, <1>4, <2>2
    <3> QED BY <1>5, <3>1
  <2> QED BY SMT, <2>1, <2>2
<1> QED BY <1>3, <1>6, <1>7, <1>8 DEF L

\* Each step of createTrieNeedle and of the search keeps the invariant.
LEMMA InitIInv ==
  Init => IInv
<1> SUFFICES ASSUME Init PROVE IInv
  OBVIOUS
<1>1. text \in Seq(1..255) /\ behind \in Seq(0..255)
  BY NeedleAssumption DEF Init
<1>2. TypeOK
  BY SMT DEF Init, TypeOK
<1>3. LoopsAgree
  <2> DEFINE p == [k \in 0..0 |-> 0]
  <2>1. length = 0 /\ index = 0 /\ pc = "count"
    BY DEF Init
  <2>2. p \in [0..length -> Nat] /\ p[0] = 0 /\ p[length] = 0
    BY SMT, <2>1
  <2>3. Starts(p)
    BY SMT, <2>1, <2>2 DEF Starts
  <2> HIDE DEF p
  <2> QED BY <2>1, <2>2, <2>3 DEF LoopsAgree
<1>4. needle = "none" /\ characters = <<>>
  BY DEF Init
<1>5. MadeOfWholeCharacters
  BY <1>4 DEF MadeOfWholeCharacters
<1> QED BY <1>1, <1>2, <1>3, <1>4, <1>5 DEF IInv

\* The first loop keeps the invariant.
LEMMA CountCharacterKeeps ==
  IInv /\ CountCharacter => IInv'
<1> SUFFICES ASSUME IInv, CountCharacter PROVE IInv'
  OBVIOUS
<1> DEFINE n == Utf8Length(Byte(index))
<1>1. /\ pc = "count" /\ memory' = memory /\ characters' = characters
      /\ found' = found /\ text' = text /\ behind' = behind
  BY DEF CountCharacter, memory
<1>2. n \in 0..4 /\ index \in Nat /\ length \in Nat /\ needle # "made"
  BY Utf8LengthType, <1>1 DEF IInv, TypeOK
<1>3. CASE n = 0
  <2>1. /\ pc' = "returned" /\ needle' = "NULL"
        /\ index' = index /\ length' = length
    BY SMT, <1>3 DEF CountCharacter, ReturnValue
  <2>2. TypeOK'
    BY SMT, <1>1, <2>1 DEF IInv, TypeOK
  <2>3. LoopsAgree'
    <3>1. PICK p \in [0..length -> Nat] : Starts(p)
      BY DEF IInv, LoopsAgree
    <3>2. Starts(p)'
      BY <1>1, <2>1, <3>1 DEF Starts, Byte
    <3> QED BY <1>1, <2>1, <3>2 DEF LoopsAgree
  <2> QED BY <1>1, <2>1, <2>2, <2>3 DEF IInv, MadeOfWholeCharacters
<1>4. CASE n > 0
  <2>1. /\ index' = index + n /\ length' = length + 1
        /\ pc' = pc /\ needle' = needle
    BY SMT, <1>4 DEF CountCharacter, ReturnValue
  <2>2. TypeOK'
    BY SMT, <1>1, <1>2, <2>1 DEF IInv, TypeOK
  <2>3. LoopsAgree'
    <3>1. PICK p \in [0..length -> Nat] : Starts(p) /\ index = p[length]
      BY <1>1 DEF IInv, LoopsAgree
    <3>2. PICK q \in [0..length' -> Nat] :
            Starts(q)' /\ q[length'] = p[length] + n
      BY <1>1, <1>2, <1>4, <2>1, <3>1, StartsAppend
    <3> QED BY <1>1, <2>1, <3>1, <3>2 DEF LoopsAgree
  <2> QED BY <1>1, <2>1, <2>2, <2>3 DEF IInv, MadeOfWholeCharacters
<1> QED BY SMT, <1>2, <1>3, <1>4

\* So does its end.
LEMMA CountedKeeps ==
  IInv /\ Counted => IInv'
<1> SUFFICES ASSUME IInv, Counted PROVE IInv'
  OBVIOUS
<1>1. /\ pc = "count" /\ Byte(index) = 0 /\ pc' = "decode" /\ index' = 0
      /\ memory' = memory /\ text' = text /\ behind' = behind
      /\ needle' = needle /\ length' = length
      /\ characters' = characters /\ found' = found
  BY DEF Counted, memory
<1>2. characters = <<>>
  BY <1>1 DEF IInv
<1>3. TypeOK'
  BY SMT, <1>1 DEF IInv, TypeOK
<1>4. LoopsAgree'
  <2>1. PICK p \in [0..length -> Nat] : Starts(p) /\ index = p[length]
    BY <1>1 DEF IInv, LoopsAgree
  <2>2. Starts(p)'
    BY <1>1, <2>1 DEF Starts, Byte
  <2>3. Byte(p[length])' = 0
    BY <1>1, <2>1 DEF Byte
  <2>4. index' = p[Len(characters)] /\ Len(text) \in Nat /\ index' <= Len(text)
    <3>1. Len(characters) = 0 /\ p[0] = 0
      BY SMT, <1>2, <2>1 DEF Starts
    <3>2. Len(text) \in Nat
      BY SMT DEF IInv
    <3> QED BY SMT, <1>1, <3>1, <3>2
  <2> QED BY <1>1, <2>2, <2>3, <2>4 DEF LoopsAgree
<1> QED BY <1>1, <1>3, <1>4 DEF IInv, MadeOfWholeCharacters

\* The second loop keeps the invariant.
LEMMA DecodeCharacterKeeps ==
  IInv /\ DecodeCharacter => IInv'
<1> SUFFICES ASSUME IInv, DecodeCharacter PROVE IInv'
  OBVIOUS
<1> DEFINE n == Utf8Length(Byte(index))
           unicode == CharacterAt(index, n)
<1>1. /\ pc = "decode" /\ Len(characters) < length
      /\ text' = text /\ behind' = behind
      /\ length' = length /\ found' = found
  BY DEF DecodeCharacter, memory
<1>2. /\ index \in Nat /\ length \in Nat /\ Len(characters) \in Nat
      /\ needle # "made" /\ characters \in Seq(Int)
  BY <1>1 DEF IInv, TypeOK
<1>3. PICK p \in [0..length -> Nat] :
        /\ Starts(p) /\ Byte(p[length]) = 0
        /\ index = p[Len(characters)] /\ index <= Len(text)
  BY <1>1 DEF IInv, LoopsAgree
<1>4. Starts(p)' /\ Byte(p[length])' = 0
  BY <1>1, <1>3 DEF Starts, Byte
<1>5. n > 0 /\ n \in 1..4 /\ p[Len(characters) + 1] = index + n
  <2>1. Len(characters) \in 0..length - 1
    BY SMT, <1>1, <1>2
  <2>2. n > 0 /\ p[Len(characters) + 1] = index + n
    BY <1>3, <2>1 DEF Starts
  <2>3. n \in 0..4
    BY Utf8LengthType
  <2> HIDE DEF n
  <2> QED BY SMT, <2>2, <2>3
<1>6. CASE unicode = 0
  <2>1. /\ pc' = "returned" /\ needle' = "NULL"
        /\ index' = index /\ characters' = characters
    BY <1>6 DEF DecodeCharacter, ReturnValue
  <2>2. TypeOK'
    BY SMT, <1>1, <2>1 DEF IInv, TypeOK
  <2>3. LoopsAgree'
    BY <1>1, <1>4, <2>1 DEF LoopsAgree
  <2> QED BY <1>1, <2>1, <2>2, <2>3 DEF IInv, MadeOfWholeCharacters
<1>7. CASE unicode # 0
  <2>1. /\ pc' = pc /\ needle' = needle
        /\ index' = index + n /\ characters' = Append(characters, unicode)
    BY <1>7 DEF DecodeCharacter
  <2>2. unicode \in Int /\ index + n <= Len(text)
    BY <1>2, <1>3, <1>5, <1>7, CharacterType, NoNulInCharacter DEF IInv
  <2> HIDE DEF unicode, n
  <2>3. /\ Append(characters, unicode) \in Seq(Int)
        /\ Len(Append(characters, unicode)) = Len(characters) + 1
    BY SMT, <1>2, <2>2
  <2>4. TypeOK'
    <3>1. index' \in Nat /\ Len(characters') <= length'
      BY SMT, <1>1, <1>2, <1>5, <2>1, <2>3
    <3> QED BY <1>1, <2>1, <2>3, <3>1 DEF IInv, TypeOK
  <2>5. LoopsAgree'
    BY <1>1, <1>4, <1>5, <2>1, <2>2, <2>3 DEF LoopsAgree
  <2> QED BY <1>1, <2>1, <2>4, <2>5 DEF IInv, MadeOfWholeCharacters
<1> QED BY <1>6, <1>7

\* So does its end: a needle that is made ends where its string does.
LEMMA DecodedKeeps ==
  IInv /\ Decoded => IInv'
<1> SUFFICES ASSUME IInv, Decoded PROVE IInv'
  OBVIOUS
<1>1. /\ pc = "decode" /\ Len(characters) = length
      /\ pc' = "returned" /\ needle' = "made"
      /\ text' = text /\ behind' = behind /\ index' = index
      /\ length' = length /\ characters' = characters /\ found' = found
  BY DEF Decoded, ReturnValue, memory
<1>2. TypeOK'
  BY SMT, <1>1 DEF IInv, TypeOK
<1>3. PICK p \in [0..length -> Nat] :
        /\ Starts(p) /\ Byte(p[length]) = 0
        /\ index = p[Len(characters)] /\ index <= Len(text)
  BY <1>1 DEF IInv, LoopsAgree
<1>4. LoopsAgree'
  <2>1. Starts(p)'
    BY <1>1, <1>3 DEF Starts, Byte
  <2> QED BY <1>1, <2>1 DEF LoopsAgree
<1>5. index = Len(text)
  <2>1. Byte(index) = 0 /\ index \in Nat
    BY <1>1, <1>3 DEF IInv, TypeOK
  <2>2. ~(index < Len(text)) /\ Len(text) \in Nat
    BY <2>1, ByteType, BytesType DEF IInv
  <2> QED BY SMT, <1>3, <2>1, <2>2
<1> QED BY <1>1, <1>2, <1>4, <1>5 DEF IInv, MadeOfWholeCharacters

\* A search of the string keeps the invariant.
LEMMA SearchKeeps ==
  IInv /\ SearchText => IInv'
<1> SUFFICES ASSUME IInv, SearchText PROVE IInv'
  OBVIOUS
<1>1. /\ text' = text /\ behind' = behind /\ needle' = needle
      /\ length' = length /\ characters' = characters
      /\ pc' \in {"search", "end"} /\ pc \in {"returned", "search"}
  BY DEF SearchText, StartSearch, ReadCharacter, EndOfText, memory
<1>2. index' \in Nat /\ found' \in Seq(Int)
  <2>1. CASE StartSearch
    BY SMT, <2>1 DEF StartSearch, IInv, TypeOK
  <2>2. CASE ReadCharacter
    <3> DEFINE n == Utf8Length(Byte(index))
    <3>1. \/ index' = index /\ found' = found
          \/ /\ n > 0 /\ index' = index + n
             /\ found' = Append(found, CharacterAt(index, n))
      BY <2>2 DEF ReadCharacter
    <3>2. n \in 0..4 /\ index \in Nat /\ found \in Seq(Int)
      BY Utf8LengthType DEF IInv, TypeOK
    <3>3. n \in 1..4 => CharacterAt(index, n) \in Int
      BY <3>2, CharacterType DEF IInv
    <3>4. CASE index' = index /\ found' = found
      BY <3>2, <3>4
    <3>5. CASE /\ n > 0 /\ index' = index + n
               /\ found' = Append(found, CharacterAt(index, n))
      <4>1. n \in 1..4
        BY SMT, <3>2, <3>5
      <4> HIDE DEF n
      <4>2. index' \in Nat
        BY SMT, <3>2, <3>5, <4>1
      <4>3. found' \in Seq(Int)
        BY SMT, <3>2, <3>3, <3>5, <4>1
      <4> QED BY <4>2, <4>3
    <3> QED BY <3>1, <3>4, <3>5
  <2>3. CASE EndOfText
    BY <2>3 DEF EndOfText, IInv, TypeOK
  <2> QED BY <2>1, <2>2, <2>3 DEF SearchText
<1>3. TypeOK'
  BY <1>1, <1>2 DEF IInv, TypeOK
<1>4. LoopsAgree'
  <2>1. PICK p \in [0..length -> Nat] : Starts(p)
    BY DEF IInv, LoopsAgree
  <2>2. Starts(p)'
    BY <1>1, <2>1 DEF Starts, Byte
  <2> QED BY <1>1, <2>2 DEF LoopsAgree
<1> QED BY <1>1, <1>3, <1>4 DEF IInv, MadeOfWholeCharacters

\* A stuttering step keeps the invariant.
LEMMA StutterKeeps ==
  IInv /\ UNCHANGED vars => IInv'
<1> SUFFICES ASSUME IInv, UNCHANGED vars PROVE IInv'
  OBVIOUS
<1>1. /\ text' = text /\ behind' = behind /\ pc' = pc /\ needle' = needle
      /\ index' = index /\ length' = length /\ characters' = characters
      /\ found' = found
  BY DEF vars, memory
<1>2. TypeOK'
  BY <1>1 DEF IInv, TypeOK
<1>3. LoopsAgree'
  <2>1. \A i : Byte(i)' = Byte(i)
    BY <1>1 DEF Byte
  <2>2. \A p : Starts(p)' <=> Starts(p)
    BY <1>1, <2>1 DEF Starts
  <2> QED BY <1>1, <2>1, <2>2 DEF IInv, LoopsAgree
<1>4. MadeOfWholeCharacters'
  BY <1>1 DEF IInv, MadeOfWholeCharacters
<1> QED BY <1>1, <1>2, <1>3, <1>4 DEF IInv

\* The invariant of createTrieNeedle: its second loop finds the characters
\* where the first found them.
THEOREM Invariance ==
  Spec => []IInv
<1>1. IInv /\ [Next]_vars => IInv'
  BY CountCharacterKeeps, CountedKeeps, DecodeCharacterKeeps, DecodedKeeps,
     SearchKeeps, StutterKeeps DEF Next, CreateTrieNeedle
<1> QED BY InitIInv, <1>1, PTL DEF Spec

\* A needle that createTrieNeedle makes ends where its string does: one that
\* ends inside a character is refused, whatever lies behind its NUL.
THEOREM WholeCharacters ==
  Spec => []MadeOfWholeCharacters
<1>1. IInv => MadeOfWholeCharacters
  BY DEF IInv
<1> QED BY Invariance, <1>1, PTL

-----------------------------------------------------------------------------
(* Sequences of sequences *)

\* A set of natural numbers with a member has a least one.
LEMMA Least ==
  ASSUME NEW S, S \subseteq Nat, S # {}
  PROVE  \E m \in S : \A x \in S : m <= x
<1> DEFINE R == OpToRel(<, Nat)
<1>1. IsWellFoundedOn(R, Nat)
  BY NatLessThanWellFounded
<1>2. \A x, y \in Nat : x < y => <<x, y>> \in R
  BY Zenon DEF OpToRel
<1> HIDE DEF R
<1>3. PICK m \in S : \A y \in S : ~(<<y, m>> \in R)
  BY <1>1, WFMin
<1>4. \A x \in S : m <= x
  <2> SUFFICES ASSUME NEW x \in S PROVE m <= x
    OBVIOUS
  <2>1. m \in Nat /\ x \in Nat
    OBVIOUS
  <2>2. ~(x < m)
    BY <1>2, <1>3, <2>1
  <2> QED BY SMT, <2>1, <2>2
<1> QED BY <1>4


\* Induction over the naturals.
LEMMA Upward ==
  ASSUME NEW S, 0 \in S, \A n \in Nat : n \in S => n + 1 \in S
  PROVE  \A n \in Nat : n \in S
<1> SUFFICES ASSUME NEW n \in Nat, n \notin S PROVE FALSE
  OBVIOUS
<1> DEFINE B == {k \in Nat : k \notin S}
<1>1. B \subseteq Nat /\ B # {}
  OBVIOUS
<1>2. PICK m \in B : \A x \in B : m <= x
  BY <1>1, Least
<1>3. m \in Nat /\ m # 0 /\ m - 1 \in Nat
  OBVIOUS
<1>4. m - 1 \notin B
  <2>1. ~(m <= m - 1)
    BY SMT, <1>3
  <2> QED BY <1>2, <2>1
<1>5. m - 1 + 1 = m
  BY SMT, <1>3
<1> QED BY <1>3, <1>4, <1>5

\* f joins the sequences of s one by one, as FlattenSeq does.
Joins(f, s) ==
  f = [i \in 1..Len(s) |-> IF i = 1 THEN s[i] ELSE f[i - 1] \o s[i]]

\* There is such a function.
LEMMA JoinsExists ==
  ASSUME NEW s, Len(s) \in Nat
  PROVE  \E f : Joins(f, s)
<1> PICK L \in Nat : L = Len(s)
  OBVIOUS
<1> DEFINE Rhs(f, i) == IF i = 1 THEN s[i] ELSE f[i - 1] \o s[i]
           Upto(b) == \E f : \A i \in 1..L : i <= b => f[i] = Rhs(f, i)
           S == {b \in Nat : Upto(b)}
<1>1. 0 \in S
  <2> PICK f : f = [i \in 1..L |-> 0]
    OBVIOUS
  <2>1. ASSUME NEW i \in 1..L, i <= 0 PROVE f[i] = Rhs(f, i)
    BY SMT, <2>1
  <2> QED BY <2>1
<1>2. ASSUME NEW b \in Nat, b \in S PROVE b + 1 \in S
  <2>1. PICK f : \A i \in 1..L : i <= b => f[i] = Rhs(f, i)
    BY <1>2
  <2> PICK h : h = [i \in 1..L |-> IF i <= b THEN f[i] ELSE Rhs(f, i)]
    OBVIOUS
  <2>2. ASSUME NEW i \in 1..L, i <= b + 1 PROVE h[i] = Rhs(h, i)
    <3>1. h[i] = Rhs(f, i)
      BY <2>1
    <3>2. CASE i = 1
      BY <3>1, <3>2
    <3>3. CASE i # 1
      <4>1. i - 1 \in 1..L /\ i - 1 <= b
        BY <2>2, <3>3
      <4>2. h[i - 1] = f[i - 1]
        BY <4>1
      <4> QED BY <3>1, <3>3, <4>2
    <3> QED BY <3>2, <3>3
  <2>3. Upto(b + 1)
    BY ZenonT(30), <2>2
  <2>4. b + 1 \in Nat
    OBVIOUS
  <2> QED BY Zenon, <2>3, <2>4
<1> HIDE DEF S
<1>3. L \in S
  BY <1>1, <1>2, Upward
<1> USE DEF S
<1>4. PICK f : \A i \in 1..L : i <= L => f[i] = Rhs(f, i)
  BY <1>3
<1> PICK h : h = [i \in 1..L |-> f[i]]
  OBVIOUS
<1>5. \A i \in 1..L : h[i] = f[i] /\ f[i] = Rhs(f, i)
  BY <1>4
<1>6. ASSUME NEW i \in 1..L PROVE h[i] = Rhs(h, i)
  <2>1. i # 1 => i - 1 \in 1..L
    OBVIOUS
  <2>2. h[i] = Rhs(f, i)
    BY Zenon, <1>5
  <2>3. i # 1 => h[i - 1] = f[i - 1]
    BY <1>5, <2>1
  <2> QED BY <2>2, <2>3
<1>7. h = [i \in 1..L |-> Rhs(h, i)]
  BY <1>6
<1>8. Joins(h, s)
  BY <1>7 DEF Joins
<1> QED BY <1>8

\* FlattenSeq joins the sequences one by one.
LEMMA FlattenJoins ==
  ASSUME NEW s, Len(s) \in Nat, Len(s) > 0
  PROVE  \E f : /\ FlattenSeq(s) = f[Len(s)]
                /\ f[1] = s[1]
                /\ \A i \in Nat : i > 0 /\ i < Len(s) =>
                     f[i + 1] = f[i] \o s[i + 1]
<1> PICK f : f = CHOOSE g : Joins(g, s)
  OBVIOUS
<1>1. Joins(f, s)
  BY JoinsExists
<1>2. FlattenSeq(s) = f[Len(s)]
  <2>1. Len(s) # 0
    BY SMT
  <2> QED BY Zenon, <2>1 DEF FlattenSeq, Joins
<1> PICK L \in Nat : L = Len(s)
  OBVIOUS
<1>3. f = [i \in 1..L |-> IF i = 1 THEN s[i] ELSE f[i - 1] \o s[i]]
  BY Zenon, <1>1 DEF Joins
<1>4. \A i \in 1..L : f[i] = IF i = 1 THEN s[i] ELSE f[i - 1] \o s[i]
  BY Zenon, <1>3
<1>5. f[1] = s[1]
  <2>1. 1 \in 1..L
    BY SMT
  <2> QED BY Zenon, <1>4, <2>1
<1>6. ASSUME NEW i \in Nat, i > 0, i < L
      PROVE  f[i + 1] = f[i] \o s[i + 1]
  <2> PICK k \in Nat : k = i + 1
    OBVIOUS
  <2>1. k \in 1..L /\ k # 1 /\ k - 1 = i
    BY SMT, <1>6
  <2>2. f[k] = f[k - 1] \o s[k]
    BY Zenon, <1>4, <2>1
  <2> QED BY <2>1, <2>2
<1> QED BY <1>2, <1>5, <1>6

\* Nothing is the joint of nothing.
LEMMA FlattenEmpty ==
  FlattenSeq(<<>>) = <<>>
BY DEF FlattenSeq

\* A sequence of sequences is joined from the left.
LEMMA FlattenAppend ==
  ASSUME NEW S, NEW s \in Seq(Seq(S)), NEW x \in Seq(S)
  PROVE  FlattenSeq(Append(s, x)) = FlattenSeq(s) \o x
<1> PICK t : t = Append(s, x)
  OBVIOUS
<1> PICK n \in Nat : n = Len(s)
  OBVIOUS
<1>1. Len(t) = n + 1 /\ t[n + 1] = x /\ \A i \in 1..n : t[i] = s[i]
  OBVIOUS
<1>2. CASE n = 0
  <2>1. s = <<>>
    BY <1>2, EmptySeq
  <2>2. FlattenSeq(s) \o x = x
    <3>1. <<>> \o x = x
      OBVIOUS
    <3> QED BY <2>1, <3>1, FlattenEmpty
  <2>3. FlattenSeq(t) = t[1]
    <3>1. Len(t) = 1
      BY <1>1, <1>2
    <3>2. Len(t) \in Nat /\ Len(t) > 0
      BY SMT, <3>1
    <3>3. \E f : FlattenSeq(t) = f[Len(t)] /\ f[1] = t[1]
      BY Zenon, <3>2, FlattenJoins
    <3> QED BY <3>1, <3>3
  <2> QED BY <1>1, <1>2, <2>2, <2>3
<1>3. CASE n > 0
  <2>1. PICK f : /\ FlattenSeq(s) = f[n]
                 /\ f[1] = s[1]
                 /\ \A i \in Nat : i > 0 /\ i < n => f[i + 1] = f[i] \o s[i + 1]
    BY <1>3, FlattenJoins
  <2>2. PICK g : /\ FlattenSeq(t) = g[n + 1]
                 /\ g[1] = t[1]
                 /\ \A i \in Nat : i > 0 /\ i < n + 1 =>
                      g[i + 1] = g[i] \o t[i + 1]
    <3>1. Len(t) \in Nat /\ Len(t) > 0
      BY SMT, <1>1
    <3>2. \E h : /\ FlattenSeq(t) = h[Len(t)]
                 /\ h[1] = t[1]
                 /\ \A i \in Nat : i > 0 /\ i < Len(t) =>
                      h[i + 1] = h[i] \o t[i + 1]
      BY Zenon, <3>1, FlattenJoins
    <3> QED BY Zenon, <1>1, <3>2
  <2> DEFINE B == {b \in Nat : b + 1 <= n => g[b + 1] = f[b + 1]}
  <2>3. 0 \in B
    <3>1. 1 \in 1..n
      BY SMT, <1>3
    <3>2. g[1] = f[1]
      BY Zenon, <1>1, <2>1, <2>2, <3>1
    <3> QED BY <3>2
  <2>4. ASSUME NEW b \in Nat, b \in B PROVE b + 1 \in B
    <3> SUFFICES ASSUME b + 1 + 1 <= n PROVE g[b + 1 + 1] = f[b + 1 + 1]
      OBVIOUS
    <3> PICK k \in Nat : k = b + 1
      OBVIOUS
    <3>1. k > 0 /\ k < n /\ k < n + 1 /\ k + 1 \in 1..n /\ k <= n
      BY SMT
    <3>2. g[k] = f[k]
      BY <2>4, <3>1
    <3>3. /\ g[k + 1] = g[k] \o t[k + 1]
          /\ f[k + 1] = f[k] \o s[k + 1]
          /\ t[k + 1] = s[k + 1]
      BY Zenon, <1>1, <2>1, <2>2, <3>1
    <3> QED BY Zenon, <3>2, <3>3
  <2> HIDE DEF B
  <2>5. n - 1 \in Nat /\ n - 1 + 1 = n
    BY SMT, <1>3
  <2>6. n - 1 \in B
    BY Zenon, <2>3, <2>4, <2>5, Upward
  <2>7. g[n] = f[n]
    BY <2>5, <2>6 DEF B
  <2>8. n > 0 /\ n < n + 1
    BY SMT, <1>3
  <2>9. g[n + 1] = g[n] \o t[n + 1]
    BY Zenon, <2>2, <2>8
  <2> QED BY Zenon, <1>1, <2>1, <2>2, <2>7, <2>9
<1>4. n = 0 \/ n > 0
  BY SMT
<1> QED BY <1>2, <1>3, <1>4

\* The parts of a sequence of sequences are joined separately.
LEMMA FlattenUpto ==
  ASSUME NEW S, NEW s \in Seq(Seq(S)), NEW k \in Nat, k < Len(s)
  PROVE  FlattenSeq(SubSeq(s, 1, k + 1))
           = FlattenSeq(SubSeq(s, 1, k)) \o s[k + 1]
<1>1. k + 1 \in 1..Len(s) /\ 1 \in 1..Len(s) /\ k + 1 \in 1..Len(s)
      /\ k + 1 - 1 = k /\ Len(s) \in Nat
  BY SMT
<1>2. s[k + 1] \in Seq(S) /\ \A i \in 1..k : s[i] \in Seq(S)
  BY <1>1
<1>3. SubSeq(s, 1, k) \in Seq(Seq(S))
  BY <1>2, SubSeqProperties
<1>4. SubSeq(s, 1, k + 1) = SubSeq(s, 1, k) \o << s[k + 1] >>
  <2>1. SubSeq(s, 1, k + 1) = SubSeq(s, 1, k + 1 - 1) \o << s[k + 1] >>
    BY <1>1, SubSeqRecursiveSecond
  <2> QED BY <1>1, <2>1
<1>5. SubSeq(s, 1, k + 1) = Append(SubSeq(s, 1, k), s[k + 1])
  BY <1>2, <1>3, <1>4, AppendIsConcat
<1> QED BY <1>2, <1>3, <1>5, FlattenAppend

\* What is joined is a sequence.
LEMMA FlattenType ==
  ASSUME NEW S, NEW s \in Seq(Seq(S))
  PROVE  /\ FlattenSeq(s) \in Seq(S)
         /\ \A k \in 0..Len(s) : FlattenSeq(SubSeq(s, 1, k)) \in Seq(S)
<1> DEFINE B == {k \in Nat :
                   k <= Len(s) => FlattenSeq(SubSeq(s, 1, k)) \in Seq(S)}
<1>1. Len(s) \in Nat
  OBVIOUS
<1>2. 0 \in B
  <2>1. SubSeq(s, 1, 0) = <<>>
    BY SubSeqEmpty
  <2> QED BY <2>1, FlattenEmpty, EmptySeq
<1>3. ASSUME NEW k \in Nat, k \in B PROVE k + 1 \in B
  <2> SUFFICES ASSUME k + 1 <= Len(s)
               PROVE  FlattenSeq(SubSeq(s, 1, k + 1)) \in Seq(S)
    OBVIOUS
  <2>1. k < Len(s) /\ k <= Len(s) /\ k + 1 \in 1..Len(s)
    BY SMT, <1>1
  <2>2. FlattenSeq(SubSeq(s, 1, k)) \in Seq(S) /\ s[k + 1] \in Seq(S)
    BY <1>3, <2>1
  <2> QED BY <2>1, <2>2, FlattenUpto, ConcatProperties
<1> HIDE DEF B
<1>4. \A k \in Nat : k \in B
  BY <1>2, <1>3, Upward
<1>5. \A k \in 0..Len(s) : FlattenSeq(SubSeq(s, 1, k)) \in Seq(S)
  BY <1>1, <1>4 DEF B
<1>6. SubSeq(s, 1, Len(s)) = s /\ Len(s) \in 0..Len(s)
  BY <1>1, SubSeqFull
<1> QED BY Zenon, <1>5, <1>6

\* The order in which sequences are joined does not matter.
LEMMA Associative ==
  ASSUME NEW S
  PROVE  \A a, b, c \in Seq(S) : (a \o b) \o c = a \o (b \o c)
<1> SUFFICES ASSUME NEW a \in Seq(S), NEW b \in Seq(S), NEW c \in Seq(S)
             PROVE  (a \o b) \o c = a \o (b \o c)
  OBVIOUS
<1> QED BY SMT, ConcatAssociative

\* What is joined of two sequences is joined.
LEMMA FlattenConcat ==
  ASSUME NEW S, NEW s \in Seq(Seq(S)), NEW t \in Seq(Seq(S))
  PROVE  FlattenSeq(s \o t) = FlattenSeq(s) \o FlattenSeq(t)
<1> DEFINE U(k) == SubSeq(t, 1, k)
           B == {k \in Nat : k <= Len(t) =>
                   FlattenSeq(s \o U(k)) = FlattenSeq(s) \o FlattenSeq(U(k))}
<1>1. Len(t) \in Nat
  OBVIOUS
<1>2. 0 \in B
  <2>1. U(0) = <<>>
    BY SubSeqEmpty
  <2>2. s \o <<>> = s /\ FlattenSeq(s) \o <<>> = FlattenSeq(s)
    BY FlattenType, ConcatEmptySeq
  <2> QED BY <2>1, <2>2, FlattenEmpty
<1>3. ASSUME NEW k \in Nat, k \in B PROVE k + 1 \in B
  <2> SUFFICES ASSUME k + 1 <= Len(t)
               PROVE  FlattenSeq(s \o U(k + 1))
                        = FlattenSeq(s) \o FlattenSeq(U(k + 1))
    OBVIOUS
  <2>1. k < Len(t) /\ k <= Len(t) /\ k + 1 \in 1..Len(t) /\ 1 \in 1..Len(t)
        /\ k + 1 - 1 = k /\ k \in 0..Len(t)
    BY SMT, <1>1
  <2>2. t[k + 1] \in Seq(S) /\ \A i \in 1..k : t[i] \in Seq(S)
    BY <2>1
  <2>3. U(k) \in Seq(Seq(S))
    BY <2>2, SubSeqProperties
  <2>4. U(k + 1) = U(k) \o << t[k + 1] >>
    <3>1. U(k + 1) = SubSeq(t, 1, k + 1 - 1) \o << t[k + 1] >>
      BY <2>1, SubSeqRecursiveSecond
    <3> QED BY <2>1, <3>1
  <2>5. << t[k + 1] >> \in Seq(Seq(S))
    BY <2>2
  <2> HIDE DEF U
  <2>6. s \o U(k) \in Seq(Seq(S))
    BY <2>3, ConcatProperties
  <2>7. s \o U(k + 1) = Append(s \o U(k), t[k + 1])
    <3>1. (s \o U(k)) \o << t[k + 1] >> = s \o (U(k) \o << t[k + 1] >>)
      <4>1. \A a, b, c \in Seq(Seq(S)) : (a \o b) \o c = a \o (b \o c)
        BY ONLY SMTT(60), Associative
      <4> QED BY ZenonT(60), <2>3, <2>5, <4>1
    <3>2. Append(s \o U(k), t[k + 1]) = (s \o U(k)) \o << t[k + 1] >>
      BY <2>2, <2>6, AppendIsConcat
    <3> QED BY <2>4, <3>1, <3>2
  <2>8. FlattenSeq(s \o U(k + 1)) = FlattenSeq(s \o U(k)) \o t[k + 1]
    BY <2>2, <2>6, <2>7, FlattenAppend
  <2>9. FlattenSeq(s \o U(k)) = FlattenSeq(s) \o FlattenSeq(U(k))
    BY <1>3, <2>1
  <2>10. FlattenSeq(U(k + 1)) = FlattenSeq(U(k)) \o t[k + 1]
    BY <2>1, FlattenUpto DEF U
  <2>11. (FlattenSeq(s) \o FlattenSeq(U(k))) \o t[k + 1]
           = FlattenSeq(s) \o (FlattenSeq(U(k)) \o t[k + 1])
    <3>1. FlattenSeq(s) \in Seq(S) /\ FlattenSeq(U(k)) \in Seq(S)
      BY Zenon, <2>3, FlattenType
    <3>2. \A a, b, c \in Seq(S) : (a \o b) \o c = a \o (b \o c)
      BY ONLY SMTT(60), Associative
    <3> QED BY ZenonT(60), <2>2, <3>1, <3>2
  <2> QED BY <2>8, <2>9, <2>10, <2>11
<1>4. U(Len(t)) = t
  BY SubSeqFull
<1> HIDE DEF B
<1>5. Len(t) \in B
  BY <1>1, <1>2, <1>3, Upward
<1> HIDE DEF U
<1> USE DEF B
<1>6. FlattenSeq(s \o U(Len(t))) = FlattenSeq(s) \o FlattenSeq(U(Len(t)))
  BY <1>1, <1>5
<1> QED BY <1>4, <1>6

\* Where the parts of what is joined lie.
LEMMA FlattenSplit ==
  ASSUME NEW S, NEW s \in Seq(Seq(S)), NEW k \in Nat, k < Len(s)
  PROVE  \E r \in Seq(S) :
           FlattenSeq(s) = (FlattenSeq(SubSeq(s, 1, k)) \o s[k + 1]) \o r
<1>1. Len(s) \in Nat /\ k + 1 <= Len(s) /\ k + 1 \in 0..Len(s)
      /\ Len(s) \in k + 1..Len(s) /\ 1 \in 1..Len(s) + 1
      /\ k + 1 \in 1 - 1 .. Len(s)
  BY SMT
<1>2. \A i \in 1..Len(s) : s[i] \in Seq(S)
  OBVIOUS
<1> PICK a : a = SubSeq(s, 1, k + 1)
  OBVIOUS
<1> PICK b : b = SubSeq(s, k + 1 + 1, Len(s))
  OBVIOUS
<1>3. a \in Seq(Seq(S))
  <2>1. \A i \in 1..k + 1 : s[i] \in Seq(S)
    BY <1>1, <1>2
  <2> QED BY <1>1, <2>1, SubSeqProperties
<1>4. b \in Seq(Seq(S))
  <2>1. \A i \in k + 1 + 1..Len(s) : s[i] \in Seq(S)
    BY <1>1, <1>2
  <2>2. k + 1 + 1 \in Int /\ Len(s) \in Int
    BY <1>1
  <2> QED BY <2>1, <2>2, SubSeqProperties
<1>5. a \o b = s
  <2>1. a \o b = SubSeq(s, 1, Len(s))
    BY <1>1, ConcatAdjacentSubSeq
  <2> QED BY <2>1, SubSeqFull
<1>6. FlattenSeq(s) = FlattenSeq(a) \o FlattenSeq(b) /\ FlattenSeq(b) \in Seq(S)
  BY <1>3, <1>4, <1>5, FlattenConcat, FlattenType
<1>7. FlattenSeq(a) = FlattenSeq(SubSeq(s, 1, k)) \o s[k + 1]
  BY FlattenUpto
<1> QED BY <1>6, <1>7

-----------------------------------------------------------------------------
(* Strings in UTF-8 *)

Encoded(chars) == [i \in 1..Len(chars) |-> Rfc3629(chars[i])]

\* Where the character behind the first k of chars begins in their UTF-8.
At(chars, k) == Len(FlattenSeq(SubSeq(Encoded(chars), 1, k)))

\* A character in UTF-8 is one to four bytes.
LEMMA RfcType ==
  ASSUME NEW u \in 1..LastCharacter
  PROVE  /\ Rfc3629(u) \in Seq(Nat)
         /\ Len(Rfc3629(u)) = UnicodeLength(u)
         /\ UnicodeLength(u) \in 1..4
<1>1. u \in Nat /\ u >= 1
  BY SMT, LastCharacterBounds
<1>2. \A n \in {1, 64, 4096, 64 * 4096} :
        u \div n \in Nat /\ (u \div n) % 64 \in Nat
  BY SMT, <1>1
<1>3. u % 64 \in Nat
  BY SMT, <1>1
<1>4. CASE u < 128
  BY SMT, <1>1, <1>4, UnicodeLengthCases DEF Rfc3629
<1>5. CASE u >= 128 /\ u < 2048
  BY SMT, <1>1, <1>2, <1>3, <1>5, UnicodeLengthCases DEF Rfc3629
<1>6. CASE u >= 2048 /\ u < 65536
  BY SMT, <1>1, <1>2, <1>3, <1>6, UnicodeLengthCases DEF Rfc3629
<1>7. CASE u >= 65536
  BY SMT, <1>1, <1>2, <1>3, <1>7, UnicodeLengthCases DEF Rfc3629
<1> QED BY SMT, <1>1, <1>4, <1>5, <1>6, <1>7

\* The characters of a string in UTF-8, one by one.
LEMMA EncodedType ==
  ASSUME NEW chars \in Seq(1..LastCharacter)
  PROVE  /\ Len(chars) \in Nat
         /\ Encoded(chars) \in Seq(Seq(Nat))
         /\ Len(Encoded(chars)) = Len(chars)
         /\ \A k \in 1..Len(chars) : /\ chars[k] \in 1..LastCharacter
                                     /\ Encoded(chars)[k] = Rfc3629(chars[k])
<1>1. /\ Len(chars) \in Nat
      /\ \A k \in 1..Len(chars) : chars[k] \in 1..LastCharacter
  BY LenProperties
<1>2. \A k \in 1..Len(chars) : Rfc3629(chars[k]) \in Seq(Nat)
  BY <1>1, RfcType
<1> PICK n \in Nat : n = Len(chars)
  BY <1>1
<1> PICK e : e = [i \in 1..n |-> Rfc3629(chars[i])]
  OBVIOUS
<1>3. e = Encoded(chars)
  BY DEF Encoded
<1>4. e \in [1..n -> Seq(Nat)]
  BY Zenon, <1>2
<1>5. e \in Seq(Seq(Nat)) /\ Len(e) = n
  BY <1>4
<1>6. \A k \in 1..n : e[k] = Rfc3629(chars[k])
  OBVIOUS
<1> QED BY Zenon, <1>1, <1>3, <1>5, <1>6

\* The character behind the first k begins where they end, and what lies
\* there is what unicodeToUtf8 writes.
Begins(chars, k) ==
  LET n == UnicodeLength(chars[k + 1])
      b == UnicodeToUtf8(chars[k + 1], n)
  IN  /\ At(chars, k) + n = At(chars, k + 1)
      /\ At(chars, k) + n <= Len(Utf8(chars))
      /\ \A c \in 1..n : Utf8(chars)[At(chars, k) + c] = b[c]

\* The first character begins at 0, and where the last ends, the string does.
LEMMA AtType ==
  ASSUME NEW chars \in Seq(1..LastCharacter)
  PROVE  /\ At(chars, 0) = 0
         /\ At(chars, Len(chars)) = Len(Utf8(chars))
         /\ \A k \in 0..Len(chars) : At(chars, k) \in Nat
<1> PICK e : e = Encoded(chars)
  OBVIOUS
<1>1. Len(chars) \in Nat /\ e \in Seq(Seq(Nat)) /\ Len(e) = Len(chars)
  BY EncodedType
<1>2. SubSeq(e, 1, 0) = <<>>
  BY SubSeqEmpty
<1>3. SubSeq(e, 1, Len(chars)) = e
  <2>1. SubSeq(e, 1, Len(e)) = e
    BY <1>1, SubSeqFull
  <2> QED BY <1>1, <2>1
<1>4. Utf8(chars) = FlattenSeq(e)
  BY DEF Utf8, Encoded
<1>5. \A k \in 0..Len(chars) : FlattenSeq(SubSeq(e, 1, k)) \in Seq(Nat)
  BY <1>1, FlattenType
<1>6. \A s \in Seq(Nat) : Len(s) \in Nat
  BY LenProperties
<1>7. Len(<<>>) = 0
  OBVIOUS
<1>8. \A k : At(chars, k) = Len(FlattenSeq(SubSeq(e, 1, k)))
  BY DEF At
<1> QED BY Zenon, <1>2, <1>3, <1>4, <1>5, <1>6, <1>7, <1>8, FlattenEmpty

\* A sequence between two others.
LEMMA Between ==
  ASSUME NEW a \in Seq(Nat), NEW b \in Seq(Nat), NEW r \in Seq(Nat)
  PROVE  /\ Len(a) \in Nat
         /\ Len(a \o b) = Len(a) + Len(b)
         /\ Len((a \o b) \o r) >= Len(a) + Len(b)
         /\ \A c \in 1..Len(b) : ((a \o b) \o r)[Len(a) + c] = b[c]
BY SMT

\* Each character begins where the one before it ends.
LEMMA BytesOfCharacter ==
  ASSUME NEW chars \in Seq(1..LastCharacter), NEW k \in 0..Len(chars) - 1
  PROVE  Begins(chars, k)
<1> PICK e : e = Encoded(chars)
  OBVIOUS
<1>1. Len(chars) \in Nat /\ e \in Seq(Seq(Nat)) /\ Len(e) = Len(chars)
  BY EncodedType
<1>2. k \in Nat /\ k < Len(e) /\ k + 1 \in 1..Len(chars) /\ k \in 0..Len(e)
  BY SMT, <1>1
<1> PICK u \in 1..LastCharacter : u = chars[k + 1]
  BY <1>2, EncodedType
<1> PICK n : n = UnicodeLength(u)
  OBVIOUS
<1> PICK b : b = UnicodeToUtf8(u, n)
  OBVIOUS
<1>3. /\ b \in Seq(Nat) /\ Len(b) = n /\ n \in 1..4 /\ b = e[k + 1]
  <2>1. e[k + 1] = Rfc3629(u)
    BY <1>2, EncodedType
  <2>2. b = Rfc3629(u)
    BY WritesUtf8
  <2> QED BY <2>1, <2>2, RfcType
<1> PICK a : a = FlattenSeq(SubSeq(e, 1, k))
  OBVIOUS
<1>4. a \in Seq(Nat)
  BY <1>1, <1>2, FlattenType
<1>5. FlattenSeq(SubSeq(e, 1, k + 1)) = a \o b
  BY <1>1, <1>2, <1>3, FlattenUpto
<1>6. PICK r \in Seq(Nat) : FlattenSeq(e) = (a \o b) \o r
  <2>1. \E r \in Seq(Nat) :
          FlattenSeq(e) = (FlattenSeq(SubSeq(e, 1, k)) \o e[k + 1]) \o r
    BY Zenon, <1>1, <1>2, FlattenSplit
  <2> QED BY <1>3, <2>1
<1>7. Utf8(chars) = FlattenSeq(e)
  BY DEF Utf8, Encoded
<1> PICK t : t = Utf8(chars)
  OBVIOUS
<1>8. At(chars, k) = Len(a) /\ At(chars, k + 1) = Len(a) + n /\ Len(a) \in Nat
  <2>1. Len(a \o b) = Len(a) + n /\ Len(a) \in Nat
    BY <1>3, <1>4, Between
  <2> QED BY <1>5, <2>1 DEF At
<1>9. /\ Len(t) >= Len(a) + n
      /\ \A c \in 1..n : t[Len(a) + c] = b[c]
  <2>1. t = (a \o b) \o r
    BY <1>6, <1>7
  <2>2. /\ Len((a \o b) \o r) >= Len(a) + Len(b)
        /\ \A c \in 1..Len(b) : ((a \o b) \o r)[Len(a) + c] = b[c]
    BY ZenonT(60), <1>3, <1>4, Between
  <2> QED BY ZenonT(60), <1>3, <2>1, <2>2
<1>10. /\ At(chars, k) + n = At(chars, k + 1)
       /\ At(chars, k) + n <= Len(Utf8(chars))
       /\ \A c \in 1..n : Utf8(chars)[At(chars, k) + c] = b[c]
  <2>1. Len(a) + n <= Len(t)
    <3>1. \A x, y \in Nat : x >= y => y <= x
      BY SMT
    <3>2. Len(t) \in Nat /\ Len(a) + n \in Nat
      <4>1. t \in Seq(Nat)
        BY <1>1, <1>7, FlattenType
      <4> QED BY <1>3, <1>8, <4>1, LenProperties
    <3> QED BY Zenon, <1>9, <3>1, <3>2
  <2> QED BY Zenon, <1>8, <1>9, <2>1
<1> QED BY Zenon, <1>10 DEF Begins

\* The memory holds chars, and the loops find their characters in it.
Holds(chars) ==
  /\ chars \in Seq(1..LastCharacter)
  /\ text = Utf8(chars) /\ text \in Seq(1..255) /\ behind \in Seq(0..255)

\* A loop at the beginning of a character finds all of it and goes on to the
\* next.
LEMMA ReadsCharacter ==
  ASSUME NEW chars, Holds(chars), NEW k \in 0..Len(chars) - 1
  PROVE  LET i == At(chars, k)
             n == Utf8Length(Byte(i))
         IN  /\ Byte(i) # 0 /\ n > 0
             /\ CharacterAt(i, n) = chars[k + 1] /\ chars[k + 1] # 0
             /\ i + n = At(chars, k + 1)
<1> PICK i : i = At(chars, k)
  OBVIOUS
<1>1. Len(chars) \in Nat /\ k + 1 \in 1..Len(chars) /\ k \in 0..Len(chars)
  BY EncodedType DEF Holds
<1> PICK u : u = chars[k + 1]
  OBVIOUS
<1>2. u \in 1..LastCharacter
  BY <1>1, EncodedType DEF Holds
<1> PICK n : n = UnicodeLength(u)
  OBVIOUS
<1> PICK b : b = UnicodeToUtf8(u, n)
  OBVIOUS
<1>3. /\ i + n = At(chars, k + 1) /\ i + n <= Len(text)
      /\ \A c \in 1..n : text[i + c] = b[c]
  BY Zenon, BytesOfCharacter DEF Begins, Holds
<1>4. n \in 1..4 /\ i \in Nat
  BY <1>1, <1>2, RfcType, AtType DEF Holds
<1>5. Utf8Length(b[1]) = n /\ Utf8ToUnicode(b, n) = u
  BY <1>2, ReadsUtf8
<1>6. Len(text) \in Nat /\ text \in Seq(1..255) /\ behind \in Seq(0..255)
  BY DEF Holds
<1>7. \A c \in 1..n : Byte(i + c - 1) = b[c]
  <2> SUFFICES ASSUME NEW c \in 1..n PROVE Byte(i + c - 1) = b[c]
    OBVIOUS
  <2>1. i + c - 1 < Len(text) /\ i + c - 1 + 1 = i + c
    BY SMT, <1>3, <1>4, <1>6
  <2>2. Byte(i + c - 1) = text[i + c - 1 + 1]
    BY Zenon, <2>1 DEF Byte
  <2> QED BY <1>3, <2>1, <2>2
<1>8. Byte(i) = b[1] /\ Byte(i) # 0
  <2>1. 1 \in 1..n /\ i + 1 - 1 = i /\ i < Len(text)
    BY SMT, <1>3, <1>4, <1>6
  <2>2. Byte(i) = b[1]
    <3>1. Byte(i + 1 - 1) = b[1]
      BY Zenon, <1>7, <2>1
    <3> QED BY <2>1, <3>1
  <2> QED BY <1>4, <1>6, <2>1, <2>2, ByteType
<1>9. CharacterAt(i, n) = u
  <2>1. [c \in 1..n |-> Byte(i + c - 1)] = b
    <3>1. b = [c \in 1..n |-> b[c]]
      BY DEF UnicodeToUtf8
    <3>2. [c \in 1..n |-> Byte(i + c - 1)] = [c \in 1..n |-> b[c]]
      BY Zenon, <1>7
    <3> QED BY <3>1, <3>2
  <2> QED BY <1>5, <2>1 DEF CharacterAt
<1>10. n > 0 /\ u # 0
  BY SMT, <1>2, <1>4, LastCharacterBounds
<1> QED BY Zenon, <1>3, <1>5, <1>8, <1>9, <1>10

\* A loop behind the last character finds the NUL.
LEMMA ReadsEnd ==
  ASSUME NEW chars, Holds(chars)
  PROVE  /\ Byte(At(chars, Len(chars))) = 0
         /\ At(chars, Len(chars)) = Len(text)
<1>1. At(chars, Len(chars)) = Len(text) /\ Len(text) \in Nat
  BY AtType DEF Holds
<1> QED BY <1>1, ByteType DEF Holds

\* No place of a character is behind the end.
LEMMA AtBounds ==
  ASSUME NEW chars, Holds(chars), NEW k \in 0..Len(chars)
  PROVE  At(chars, k) \in Nat /\ At(chars, k) <= Len(text)
<1>1. Len(chars) \in Nat /\ At(chars, k) \in Nat /\ Len(text) \in Nat
  BY EncodedType, AtType DEF Holds
<1>2. CASE k = Len(chars)
  BY <1>1, <1>2, ReadsEnd
<1>3. CASE k # Len(chars)
  <2>1. k \in 0..Len(chars) - 1 /\ k + 1 \in 1..Len(chars)
    BY SMT, <1>1, <1>3
  <2>2. At(chars, k) + UnicodeLength(chars[k + 1]) <= Len(text)
    BY <2>1, BytesOfCharacter DEF Begins, Holds
  <2>3. UnicodeLength(chars[k + 1]) \in 1..4
    BY <2>1, EncodedType, RfcType DEF Holds
  <2> QED BY SMT, <1>1, <2>2, <2>3
<1> QED BY <1>2, <1>3

\* The state of the loops on a string that is the UTF-8 of chars.
Decoding(chars) ==
  /\ needle # "NULL"
  /\ pc \notin {"count", "decode"} => needle = "made" /\ characters = chars
  /\ pc = "count" =>
       length \in 0..Len(chars) /\ index = At(chars, length)
  /\ pc = "decode" =>
       /\ length = Len(chars) /\ index = At(chars, Len(characters))
       /\ \A k \in 1..Len(characters) : characters[k] = chars[k]
  /\ pc \notin {"count", "decode"} =>
       \E k \in 0..Len(chars) : index = At(chars, k)

\* The invariant behind DecodesUtf8.
UInv == \A chars \in Strings : text = Utf8(chars) => Decoding(chars)

\* Strings in UTF-8 are what the memory may hold.
LEMMA MemoryHolds ==
  ASSUME IInv, NEW chars \in Strings, text = Utf8(chars)
  PROVE  Holds(chars)
BY NeedleAssumption DEF IInv, Holds

\* Initially the first loop is at the first character.
LEMMA InitDecoding ==
  Init => UInv
<1> SUFFICES ASSUME Init, NEW chars \in Strings, text = Utf8(chars)
             PROVE  Decoding(chars)
  BY DEF UInv
<1>1. chars \in Seq(1..LastCharacter)
  BY NeedleAssumption
<1>2. Len(chars) \in Nat /\ At(chars, 0) = 0
  BY <1>1, EncodedType, AtType
<1> QED BY <1>2 DEF Init, Decoding

\* The first loop counts the next character.
LEMMA CountCharacterDecodes ==
  ASSUME IInv, CountCharacter, NEW chars, Holds(chars), Decoding(chars)
  PROVE  Decoding(chars)'
<1>1. /\ pc = "count" /\ Byte(index) # 0 /\ characters' = characters
  BY DEF CountCharacter
<1>2. length \in 0..Len(chars) /\ index = At(chars, length)
  BY <1>1 DEF Decoding
<1>3. Len(chars) \in Nat
  BY EncodedType DEF Holds
<1>4. length # Len(chars)
  BY <1>1, <1>2, ReadsEnd
<1>5. length \in 0..Len(chars) - 1 /\ length + 1 \in 0..Len(chars)
  BY SMT, <1>2, <1>3, <1>4
<1>6. /\ Utf8Length(Byte(index)) > 0
      /\ index + Utf8Length(Byte(index)) = At(chars, length + 1)
  BY Zenon, <1>2, <1>5, ReadsCharacter
<1>7. Utf8Length(Byte(index)) # 0
  BY <1>6
<1>8. /\ pc' = pc /\ needle' = needle /\ length' = length + 1
      /\ index' = At(chars, length + 1)
  BY Zenon, <1>6, <1>7 DEF CountCharacter
<1> QED BY <1>1, <1>5, <1>8 DEF Decoding

\* It ends when it has counted all of them.
LEMMA CountedDecodes ==
  ASSUME IInv, Counted, NEW chars, Holds(chars), Decoding(chars)
  PROVE  Decoding(chars)'
<1>1. /\ pc = "count" /\ Byte(index) = 0 /\ pc' = "decode" /\ index' = 0
      /\ needle' = needle /\ length' = length /\ characters' = characters
      /\ characters = <<>>
  BY DEF Counted, IInv
<1>2. length \in 0..Len(chars) /\ index = At(chars, length)
  BY <1>1 DEF Decoding
<1>3. Len(chars) \in Nat /\ At(chars, 0) = 0
  BY EncodedType, AtType DEF Holds
<1>4. length = Len(chars)
  <2> SUFFICES ASSUME length # Len(chars) PROVE FALSE
    OBVIOUS
  <2>1. length \in 0..Len(chars) - 1
    BY SMT, <1>2, <1>3
  <2>2. Byte(index) # 0
    BY Zenon, <1>2, <2>1, ReadsCharacter
  <2> QED BY <1>1, <2>2
<1>5. Len(characters) = 0
  BY <1>1
<1> QED BY <1>1, <1>3, <1>4, <1>5 DEF Decoding

\* The second loop appends the next character.
LEMMA DecodeCharacterDecodes ==
  ASSUME IInv, DecodeCharacter, NEW chars, Holds(chars), Decoding(chars)
  PROVE  Decoding(chars)'
<1> PICK k : k = Len(characters)
  OBVIOUS
<1>1. /\ pc = "decode" /\ k < length /\ length' = length
      /\ characters \in Seq(Int) /\ k \in Nat
  BY DEF DecodeCharacter, IInv, TypeOK
<1>2. /\ length = Len(chars) /\ index = At(chars, k)
      /\ \A j \in 1..k : characters[j] = chars[j]
  BY <1>1 DEF Decoding
<1>3. Len(chars) \in Nat
  BY EncodedType DEF Holds
<1>4. k \in 0..Len(chars) - 1
  BY SMT, <1>1, <1>2, <1>3
<1> PICK u : u = CharacterAt(index, Utf8Length(Byte(index)))
  OBVIOUS
<1>5. /\ u = chars[k + 1] /\ u # 0
      /\ index + Utf8Length(Byte(index)) = At(chars, k + 1)
  BY Zenon, <1>2, <1>4, ReadsCharacter
<1>6. /\ pc' = pc /\ needle' = needle /\ index' = At(chars, k + 1)
      /\ characters' = Append(characters, u)
  BY Zenon, <1>5 DEF DecodeCharacter
<1>7. /\ Len(characters') = k + 1
      /\ \A j \in 1..k + 1 : characters'[j] = chars[j]
  <2>1. /\ Len(Append(characters, u)) = k + 1
        /\ Append(characters, u)[k + 1] = u
        /\ \A j \in 1..k : Append(characters, u)[j] = characters[j]
    BY <1>1
  <2>2. \A j \in 1..k + 1 : j = k + 1 \/ j \in 1..k
    BY SMT, <1>1
  <2> QED BY Zenon, <1>2, <1>5, <1>6, <2>1, <2>2
<1> QED BY <1>1, <1>2, <1>6, <1>7 DEF Decoding

\* It ends with all of them.
LEMMA DecodedDecodes ==
  ASSUME IInv, Decoded, NEW chars, Holds(chars), Decoding(chars)
  PROVE  Decoding(chars)'
<1>1. /\ pc = "decode" /\ Len(characters) = length
      /\ pc' = "returned" /\ needle' = "made"
      /\ index' = index /\ characters' = characters
  BY DEF Decoded, ReturnValue
<1>2. /\ length = Len(chars) /\ index = At(chars, Len(characters))
      /\ \A j \in 1..Len(characters) : characters[j] = chars[j]
  BY <1>1 DEF Decoding
<1>3. Len(chars) \in Nat /\ chars \in Seq(Int)
  <2>1. Len(chars) \in Nat /\ chars \in Seq(1..LastCharacter)
    BY EncodedType DEF Holds
  <2>2. \A j \in 1..LastCharacter : j \in Int
    BY SMT
  <2>3. chars \in [1..Len(chars) -> 1..LastCharacter]
    BY <2>1, LenProperties
  <2>4. chars \in [1..Len(chars) -> Int]
    BY Zenon, <2>2, <2>3
  <2>5. \A n \in Nat : \A f \in [1..n -> Int] : f \in Seq(Int)
    BY SMT
  <2> QED BY Zenon, <2>1, <2>4, <2>5
<1>4. characters \in Seq(Int)
  BY DEF IInv, TypeOK
<1>5. characters = chars
  BY <1>1, <1>2, <1>3, <1>4, SeqEqual
<1>6. Len(chars) \in 0..Len(chars)
  BY <1>3
<1> QED BY <1>1, <1>2, <1>5, <1>6 DEF Decoding

\* A search stops at characters only.
LEMMA SearchDecodes ==
  ASSUME IInv, SearchText, NEW chars, Holds(chars), Decoding(chars)
  PROVE  Decoding(chars)'
<1>1. /\ needle' = needle /\ characters' = characters
      /\ pc' \in {"search", "end"} /\ pc \in {"returned", "search"}
  BY DEF SearchText, StartSearch, ReadCharacter, EndOfText
<1>2. Len(chars) \in Nat /\ At(chars, 0) = 0
  BY EncodedType, AtType DEF Holds
<1>3. PICK k \in 0..Len(chars) : index = At(chars, k)
  BY <1>1 DEF Decoding
<1>4. \E j \in 0..Len(chars) : index' = At(chars, j)
  <2>1. CASE StartSearch
    BY <1>2, <2>1 DEF StartSearch
  <2>2. CASE EndOfText
    BY <1>3, <2>2 DEF EndOfText
  <2>3. CASE ReadCharacter
    <3>1. Byte(index) # 0
      BY <2>3 DEF ReadCharacter
    <3>2. k # Len(chars)
      BY <1>3, <3>1, ReadsEnd
    <3>3. k \in 0..Len(chars) - 1 /\ k + 1 \in 0..Len(chars)
      BY SMT, <1>2, <3>2
    <3>4. index + Utf8Length(Byte(index)) = At(chars, k + 1)
      BY Zenon, <1>3, <3>3, ReadsCharacter
    <3>5. index' = index \/ index' = index + Utf8Length(Byte(index))
      BY Zenon, <2>3 DEF ReadCharacter
    <3> QED BY <1>3, <3>3, <3>4, <3>5
  <2> QED BY <2>1, <2>2, <2>3 DEF SearchText
<1> QED BY <1>1, <1>4 DEF Decoding

\* Every step keeps the loops at the characters of the string.
LEMMA StepDecodes ==
  ASSUME IInv, [Next]_vars, NEW chars, Holds(chars), Decoding(chars)
  PROVE  Decoding(chars)'
<1>1. CASE UNCHANGED vars
  <2>1. /\ needle' = needle /\ pc' = pc /\ characters' = characters
        /\ index' = index /\ length' = length
    BY <1>1 DEF vars
  <2> QED BY <2>1 DEF Decoding
<1>2. CASE Next
  BY <1>2, CountCharacterDecodes, CountedDecodes, DecodeCharacterDecodes,
     DecodedDecodes, SearchDecodes DEF Next, CreateTrieNeedle
<1> QED BY <1>1, <1>2

\* A string in UTF-8 becomes the needle of its characters, and neither loop nor
\* a search reads behind its NUL: for all strings of characters from U+0001 to
\* U+10FFFF, whatever lies behind them.
THEOREM NeedlesAreDecoded ==
  Spec => []DecodesUtf8
<1>1. Init => UInv
  BY InitDecoding
<1>2. IInv /\ UInv /\ [Next]_vars => UInv'
  <2> SUFFICES ASSUME IInv, UInv, [Next]_vars,
                      NEW chars \in Strings, text' = Utf8(chars)
               PROVE  Decoding(chars)'
    BY DEF UInv
  <2>1. text' = text
    BY DEF Next, CreateTrieNeedle, SearchText, vars, memory, CountCharacter,
       Counted, DecodeCharacter, Decoded, StartSearch, ReadCharacter, EndOfText
  <2>2. text = Utf8(chars) /\ Decoding(chars)
    BY <2>1 DEF UInv
  <2> QED BY <2>2, MemoryHolds, StepDecodes
<1>3. IInv /\ UInv => DecodesUtf8
  <2> SUFFICES ASSUME IInv, UInv, NEW chars \in Strings, text = Utf8(chars)
               PROVE  /\ needle # "NULL"
                      /\ needle = "made" => characters = chars
                      /\ index <= Len(text)
    BY DEF DecodesUtf8
  <2>1. Holds(chars) /\ Decoding(chars)
    BY MemoryHolds DEF UInv
  <2>2. needle = "made" => pc \notin {"count", "decode"}
    BY DEF IInv
  <2>3. \E k \in 0..Len(chars) : index = At(chars, k)
    <3>1. CASE pc = "decode"
      <4>1. Len(characters) \in Nat /\ Len(characters) <= length
        BY DEF IInv, TypeOK
      <4>2. length = Len(chars) /\ index = At(chars, Len(characters))
        BY <2>1, <3>1 DEF Decoding
      <4> QED BY <4>1, <4>2
    <3> QED BY <2>1, <3>1 DEF Decoding
  <2>4. index <= Len(text)
    BY <2>1, <2>3, AtBounds
  <2> QED BY <2>1, <2>2, <2>4 DEF Decoding
<1> QED BY Invariance, <1>1, <1>2, <1>3, PTL DEF Spec

-----------------------------------------------------------------------------
(* FoundNeedle: a string is measured and filled in from both its ends. *)

\* The characters of the string, first those on the way.
CellCharacters == way \o suffix

\* The size of the string when all its characters are measured.
Size == Len(Utf8(CellCharacters))

\* The string is allocated, and the bytes behind the first a up to b are there.
Filled(a, b) ==
  /\ string \in [1..Size -> Int]
  /\ \A p \in a + 1..b : string[p] = Utf8(CellCharacters)[p]

\* What the loops have measured.
Measured ==
  /\ doing = "trieLength" =>
       /\ trieLength + At(CellCharacters, depth) = At(CellCharacters, Len(way))
       /\ tailLength = 0 /\ tailCharIndex = 0
  /\ doing # "trieLength" => trieLength = At(CellCharacters, Len(way))
  /\ doing = "tailLength" =>
       trieLength + tailLength = At(CellCharacters, Len(way) + tailCharIndex)
  /\ doing \in {"tailFill", "trieFill", "returned"} =>
       trieLength + tailLength = Size

\* What the loops have filled in: first from trieLength up, then from there
\* down.
FilledIn ==
  /\ doing = "tailFill" =>
       /\ start = At(CellCharacters, Len(way) + tailCharIndex)
       /\ start >= trieLength
       /\ Filled(trieLength, start)
  /\ doing = "trieFill" =>
       start = At(CellCharacters, depth) /\ Filled(start, Size)
  /\ doing = "returned" => Filled(0, Size)

\* The inductive invariant of automaton_returnNeedle.
FoundInv ==
  /\ FoundTypeOK
  /\ CellCharacters =
       IF suffix = <<>> THEN Append(word, END_OF_TEXT) ELSE word
  /\ Measured
  /\ FilledIn

\* A needle alone ends at its END_OF_TEXT, or in a leaf before its end.
LEMMA CellOfWord ==
  ASSUME NEW w, w # <<>>, w \in Seq(1..LastCharacter),
         NEW cell \in EndCells({w}, UseTail, w)
  PROVE  \/ cell = Append(w, END_OF_TEXT)
         \/ \E k \in 1..Len(w) - 1 : cell = SubSeq(w, 1, k)
<1>1. Shared({w}, w) = 0
  <2>1. {Len(LongestCommonPrefix({w, other})) : other \in {w} \ {w}} = {}
    OBVIOUS
  <2>2. Shared({w}, w) = Max({0})
    BY <2>1 DEF Shared
  <2>3. Max({0}) = 0
    BY SMT DEF Max
  <2> QED BY <2>2, <2>3
<1>2. CASE cell = Append(w, END_OF_TEXT)
  BY <1>2
<1>3. CASE cell # Append(w, END_OF_TEXT)
  <2>1. PICK k \in (IF UseTail THEN Shared({w}, w) + 1 .. Len(w) - 1 ELSE {}) :
          cell = SubSeq(w, 1, k)
    BY <1>3 DEF EndCells
  <2>2. k \in 1..Len(w) - 1
    BY <1>1, <2>1
  <2> QED BY <2>1, <2>2
<1> QED BY <1>2, <1>3

\* The characters of the cell are those of its way, then those of its suffix.
LEMMA CellCharactersType ==
  ASSUME FoundTypeOK
  PROVE  /\ CellCharacters \in Seq(1..LastCharacter)
         /\ Len(way) \in Nat /\ Len(suffix) \in Nat
         /\ Len(CellCharacters) = Len(way) + Len(suffix)
         /\ \A i \in 1..Len(way) : CellCharacters[i] = way[i]
         /\ \A i \in 1..Len(suffix) : CellCharacters[Len(way) + i] = suffix[i]
<1>1. way \in Seq(1..LastCharacter) /\ suffix \in Seq(1..LastCharacter)
  BY DEF FoundTypeOK
<1>2. Len(way) \in Nat /\ Len(suffix) \in Nat
  BY <1>1, LenProperties
<1>3. /\ way \o suffix \in Seq(1..LastCharacter)
      /\ Len(way \o suffix) = Len(way) + Len(suffix)
      /\ \A i \in 1..Len(way) + Len(suffix) :
           (way \o suffix)[i] =
             IF i <= Len(way) THEN way[i] ELSE suffix[i - Len(way)]
  BY <1>1, ConcatProperties
<1>4. \A i \in 1..Len(way) : (way \o suffix)[i] = way[i]
  BY <1>2, <1>3
<1>5. \A i \in 1..Len(suffix) : (way \o suffix)[Len(way) + i] = suffix[i]
  <2> TAKE i \in 1..Len(suffix)
  <2>1. /\ Len(way) + i \in 1..Len(way) + Len(suffix)
        /\ ~(Len(way) + i <= Len(way)) /\ Len(way) + i - Len(way) = i
    BY <1>2
  <2> QED BY <1>3, <2>1
<1> QED BY <1>1, <1>2, <1>3, <1>4, <1>5 DEF CellCharacters

\* Nothing is measured at first.
LEMMA InitFound == FoundInit => FoundInv
<1> SUFFICES ASSUME FoundInit PROVE FoundInv
  OBVIOUS
<1>1. word \in Seq(1..LastCharacter) /\ word # <<>> /\ Len(word) \in Nat
  BY FoundNeedleAssumption, LenProperties DEF FoundInit
<1>2. END_OF_TEXT \in 1..LastCharacter
  BY SMT, LastCharacterBounds DEF END_OF_TEXT
<1>3. /\ way \in Seq(1..LastCharacter) /\ suffix \in Seq(1..LastCharacter)
      /\ CellCharacters =
           IF suffix = <<>> THEN Append(word, END_OF_TEXT) ELSE word
  <2>1. suffix = SubSeq(word, Len(way) + 1, Len(word))
    BY DEF FoundInit
  <2>2. \A i \in 1..Len(word) : word[i] \in 1..LastCharacter
    BY <1>1, LenProperties
  <2>3. CASE way = Append(word, END_OF_TEXT)
    <3>1. way \in Seq(1..LastCharacter) /\ Len(way) = Len(word) + 1
      BY <1>1, <1>2, <2>3, AppendProperties
    <3>2. suffix = <<>>
      <4>1. Len(way) + 1 \in Int /\ Len(word) \in Int /\ Len(word) < Len(way) + 1
        BY <1>1, <3>1
      <4> QED BY <2>1, <4>1, SubSeqEmpty
    <3>3. way \o <<>> = way
      BY <3>1, ConcatEmptySeq
    <3> QED BY <2>3, <3>1, <3>2, <3>3 DEF CellCharacters
  <2>4. CASE \E k \in 1..Len(word) - 1 : way = SubSeq(word, 1, k)
    <3> PICK k \in 1..Len(word) - 1 : way = SubSeq(word, 1, k)
      BY <2>4
    <3>1. way \in Seq(1..LastCharacter) /\ Len(way) = k
      <4>1. \A i \in 1..k : word[i] \in 1..LastCharacter
        BY <1>1, <2>2
      <4>2. 1 \in Int /\ k \in Int /\ 1 <= k /\ k - 1 + 1 = k
        BY <1>1
      <4> QED BY <4>1, <4>2, SubSeqProperties
    <3>2. suffix \in Seq(1..LastCharacter) /\ Len(suffix) = Len(word) - k
      <4>1. \A i \in k + 1..Len(word) : word[i] \in 1..LastCharacter
        BY <1>1, <2>2
      <4>2. /\ k + 1 \in Int /\ Len(word) \in Int /\ k + 1 <= Len(word)
            /\ Len(word) - (k + 1) + 1 = Len(word) - k
        BY <1>1
      <4> QED BY <2>1, <3>1, <4>1, <4>2, SubSeqProperties
    <3>3. suffix # <<>>
      BY <1>1, <3>2
    <3>4. way \o suffix = SubSeq(word, 1, Len(word))
      <4>1. 1 \in 1..Len(word) + 1 /\ k \in 1 - 1..Len(word)
            /\ Len(word) \in k..Len(word)
        BY <1>1
      <4> QED BY <1>1, <2>1, <3>1, <4>1, ConcatAdjacentSubSeq
    <3>5. SubSeq(word, 1, Len(word)) = word
      BY <1>1, SubSeqFull
    <3> QED BY <3>1, <3>2, <3>3, <3>4, <3>5 DEF CellCharacters
  <2> QED BY <1>1, <2>3, <2>4, CellOfWord DEF FoundInit
<1>4. FoundTypeOK
  <2>1. Len(way) \in Nat /\ Len(suffix) \in Nat
    BY <1>3, LenProperties
  <2> QED BY <1>3, <2>1 DEF FoundInit, FoundTypeOK
<1>5. Measured
  <2>1. At(CellCharacters, Len(way)) \in Nat
    BY <1>4, CellCharactersType, AtType
  <2> QED BY <2>1 DEF FoundInit, Measured
<1>6. FilledIn
  BY DEF FoundInit, FilledIn
<1> QED BY <1>3, <1>4, <1>5, <1>6 DEF FoundInv

\* The characters measured and filled in are those of the string.
LEMMA LengthAtPlace ==
  ASSUME FoundTypeOK
  PROVE  /\ \A i \in 1..Len(way) :
              /\ LengthAt(way, i) \in 1..4
              /\ At(CellCharacters, i - 1) + LengthAt(way, i)
                   = At(CellCharacters, i)
         /\ \A i \in 0..Len(suffix) - 1 :
              /\ LengthAt(suffix, i + 1) \in 1..4
              /\ At(CellCharacters, Len(way) + i) + LengthAt(suffix, i + 1)
                   = At(CellCharacters, Len(way) + i + 1)
         /\ \A i \in 0..Len(way) + Len(suffix) : At(CellCharacters, i) \in Nat
         /\ Size = At(CellCharacters, Len(way) + Len(suffix)) /\ Size \in Nat
         /\ At(CellCharacters, 0) = 0
<1> DEFINE chars == CellCharacters
<1>1. /\ chars \in Seq(1..LastCharacter)
      /\ Len(way) \in Nat /\ Len(suffix) \in Nat
      /\ Len(chars) = Len(way) + Len(suffix)
      /\ \A i \in 1..Len(way) : chars[i] = way[i]
      /\ \A i \in 1..Len(suffix) : chars[Len(way) + i] = suffix[i]
  BY CellCharactersType
<1>2. \A i \in 1..Len(chars) : UnicodeLength(chars[i]) \in 1..4
  BY <1>1, EncodedType, RfcType
<1>3. \A k \in 0..Len(chars) - 1 :
        At(chars, k) + UnicodeLength(chars[k + 1]) = At(chars, k + 1)
  BY <1>1, BytesOfCharacter DEF Begins
<1>4. /\ At(chars, 0) = 0 /\ At(chars, Len(chars)) = Len(Utf8(chars))
      /\ \A k \in 0..Len(chars) : At(chars, k) \in Nat
  BY <1>1, AtType
<1> HIDE DEF chars
<1>5. \A i \in 1..Len(way) :
        /\ LengthAt(way, i) \in 1..4
        /\ At(chars, i - 1) + LengthAt(way, i) = At(chars, i)
  <2> TAKE i \in 1..Len(way)
  <2>1. i \in 1..Len(chars) /\ i - 1 \in 0..Len(chars) - 1 /\ i - 1 + 1 = i
    BY <1>1
  <2>2. LengthAt(way, i) = UnicodeLength(chars[i])
    BY <1>1 DEF LengthAt
  <2>3. At(chars, i - 1) + UnicodeLength(chars[i - 1 + 1]) = At(chars, i - 1 + 1)
    BY <1>3, <2>1
  <2> QED BY <1>2, <2>1, <2>2, <2>3
<1>6. \A i \in 0..Len(suffix) - 1 :
        /\ LengthAt(suffix, i + 1) \in 1..4
        /\ At(chars, Len(way) + i) + LengthAt(suffix, i + 1)
             = At(chars, Len(way) + i + 1)
  <2> TAKE i \in 0..Len(suffix) - 1
  <2>1. /\ Len(way) + i + 1 \in 1..Len(chars) /\ i + 1 \in 1..Len(suffix)
        /\ Len(way) + i \in 0..Len(chars) - 1
        /\ Len(way) + (i + 1) = Len(way) + i + 1
    BY <1>1
  <2>2. LengthAt(suffix, i + 1) = UnicodeLength(chars[Len(way) + i + 1])
    BY <1>1, <2>1 DEF LengthAt
  <2>3. At(chars, Len(way) + i) + UnicodeLength(chars[Len(way) + i + 1])
          = At(chars, Len(way) + i + 1)
    BY <1>3, <2>1
  <2> QED BY <1>2, <2>1, <2>2, <2>3
<1>7. Size = Len(Utf8(chars))
  BY DEF Size, chars
<1> QED
  <2>1. Len(chars) \in 0..Len(chars)
    BY <1>1
  <2> QED BY <1>1, <1>4, <1>5, <1>6, <1>7, <2>1 DEF chars

\* The string in UTF-8 is a sequence of bytes.
LEMMA Utf8Type ==
  ASSUME NEW chars \in Seq(1..LastCharacter)
  PROVE  Utf8(chars) \in Seq(Nat)
<1>1. Encoded(chars) \in Seq(Seq(Nat))
  BY EncodedType
<1>2. FlattenSeq(Encoded(chars)) \in Seq(Nat)
  BY <1>1, FlattenType
<1> QED BY <1>2 DEF Utf8, Encoded

\* No character begins behind the end.
LEMMA PlaceInside ==
  ASSUME FoundTypeOK
  PROVE  \A i \in 0..Len(suffix) : At(CellCharacters, Len(way) + i) <= Size
<1> TAKE i \in 0..Len(suffix)
<1>1. Len(way) \in Nat /\ Len(suffix) \in Nat
  BY CellCharactersType
<1>2. CASE i = Len(suffix)
  BY <1>1, <1>2, LengthAtPlace
<1>3. CASE i # Len(suffix)
  <2>1. /\ Len(way) + i \in 0..Len(CellCharacters) - 1
        /\ Len(way) + i + 1 \in 1..Len(CellCharacters)
        /\ CellCharacters \in Seq(1..LastCharacter)
        /\ Len(way) + i \in 0..Len(way) + Len(suffix)
    BY <1>1, <1>3, CellCharactersType
  <2>2. At(CellCharacters, Len(way) + i)
          + UnicodeLength(CellCharacters[Len(way) + i + 1]) <= Size
    BY <2>1, BytesOfCharacter DEF Begins, Size
  <2>3. UnicodeLength(CellCharacters[Len(way) + i + 1]) \in 1..4
    BY <2>1, EncodedType, RfcType
  <2>4. At(CellCharacters, Len(way) + i) \in Nat /\ Size \in Nat
    BY <2>1, LengthAtPlace
  <2> QED BY SMT, <2>2, <2>3, <2>4
<1> QED BY <1>2, <1>3

\* What Put writes at its place are the bytes of the string, and nothing else
\* changes.
LEMMA PutFills ==
  ASSUME FoundTypeOK, string \in [1..Size -> Int],
         NEW k \in 0..Len(way) + Len(suffix) - 1,
         Put(CellCharacters[k + 1], At(CellCharacters, k))
  PROVE  /\ string' \in [1..Size -> Int]
         /\ \A p \in At(CellCharacters, k) + 1..At(CellCharacters, k + 1) :
              string'[p] = Utf8(CellCharacters)[p]
         /\ \A p \in 1..Size :
              p \notin At(CellCharacters, k) + 1..At(CellCharacters, k + 1)
                => string'[p] = string[p]
<1> DEFINE chars == CellCharacters
           a == At(chars, k)
           n == UnicodeLength(chars[k + 1])
           b == UnicodeToUtf8(chars[k + 1], n)
<1>1. chars \in Seq(1..LastCharacter) /\ Len(chars) = Len(way) + Len(suffix)
      /\ Len(chars) \in Nat
  BY CellCharactersType
<1>2. k \in 0..Len(chars) - 1 /\ k + 1 \in 1..Len(chars) /\ k \in 0..Len(chars)
  BY <1>1
<1>3. /\ a + n = At(chars, k + 1) /\ a + n <= Size
      /\ \A c \in 1..n : Utf8(chars)[a + c] = b[c]
  BY <1>1, <1>2, BytesOfCharacter DEF Begins, Size
<1>4. n \in 1..4 /\ b \in Seq(Nat) /\ Len(b) = n
  <2>1. chars[k + 1] \in 1..LastCharacter
    BY <1>1, <1>2, EncodedType
  <2> QED BY <2>1, RfcType, WritesUtf8
<1>5. a \in Nat /\ Size \in Nat
  BY <1>1, <1>2, AtType, LengthAtPlace
<1>6. string' = [p \in DOMAIN string \union (a + 1..a + n) |->
                  IF p \in a + 1..a + n THEN b[p - a] ELSE string[p]]
  BY DEF Put
<1> HIDE DEF a, n, b, chars
<1>7. /\ DOMAIN string' = 1..Size
      /\ \A p \in a + 1..a + n : string'[p] = b[p - a]
      /\ \A p \in 1..Size : p \notin a + 1..a + n => string'[p] = string[p]
      /\ string' = [p \in 1..Size |-> string'[p]]
  <2>1. 1..Size \union (a + 1..a + n) = 1..Size
    BY <1>3, <1>4, <1>5
  <2>2. string' = [p \in 1..Size \union (a + 1..a + n) |->
                     IF p \in a + 1..a + n THEN b[p - a] ELSE string[p]]
    BY <1>6
  <2> QED BY <1>3, <1>4, <1>5, <2>1, <2>2
<1>8. \A p \in a + 1..a + n : /\ p - a \in 1..n /\ a + (p - a) = p
                              /\ b[p - a] \in Int
  <2>1. \A c \in 1..n : b[c] \in Int
    BY <1>4
  <2> QED BY <1>4, <1>5, <2>1
<1>9. \A p \in a + 1..a + n : string'[p] = Utf8(chars)[p]
  BY <1>3, <1>7, <1>8
<1>10. string' \in [1..Size -> Int]
  <2>1. \A p \in 1..Size : string'[p] \in Int
    BY <1>7, <1>8
  <2> QED BY <1>7, <2>1
<1> QED BY <1>3, <1>7, <1>9, <1>10 DEF a, chars

\* The characters on the way are measured from the last to the first.
LEMMA MeasureTrieKeeps ==
  ASSUME FoundInv, MeasureTrie
  PROVE  FoundInv'
<1> DEFINE chars == CellCharacters
<1>1. /\ FoundTypeOK /\ Measured /\ doing = "trieLength"
      /\ word' = word /\ way' = way /\ suffix' = suffix
      /\ tailCharIndex' = tailCharIndex /\ tailLength' = tailLength
      /\ start' = start
  BY DEF FoundInv, MeasureTrie
<1>2. chars' = chars /\ Size' = Size
  BY <1>1 DEF CellCharacters, Size
<1>3. /\ trieLength + At(chars, depth) = At(chars, Len(way))
      /\ tailLength = 0 /\ tailCharIndex = 0
      /\ trieLength \in Nat /\ depth \in 0..Len(way) /\ Len(way) \in Nat
  BY <1>1, CellCharactersType DEF Measured, FoundTypeOK
<1>4. \A i \in 0..Len(way) : At(chars, i) \in Nat
  BY <1>1, CellCharactersType, LengthAtPlace
<1> HIDE DEF chars
<1>5. CASE depth > 0
  <2>1. /\ trieLength' = trieLength + LengthAt(way, depth)
        /\ depth' = depth - 1 /\ doing' = doing
    BY <1>1, <1>3, <1>5 DEF MeasureTrie
  <2>2. depth \in 1..Len(way)
    BY <1>3, <1>5
  <2>3. /\ LengthAt(way, depth) \in 1..4
        /\ At(chars, depth - 1) + LengthAt(way, depth) = At(chars, depth)
    BY <1>1, <2>2, LengthAtPlace DEF chars
  <2>4. depth - 1 \in 0..Len(way) /\ depth \in 0..Len(way)
    BY <1>3, <2>2
  <2>5. /\ trieLength' \in Nat
        /\ trieLength' + At(chars, depth') = At(chars, Len(way))
    <3>1. \A t, l, a, b, e : /\ t \in Nat /\ l \in 1..4 /\ a \in Nat
                            /\ a + l = b /\ t + b = e
                            => t + l \in Nat /\ t + l + a = e
      BY SMT
    <3>2. At(chars, depth - 1) \in Nat
      BY <1>4, <2>4
    <3> QED BY <1>3, <2>1, <2>3, <3>1, <3>2
  <2>6. FoundTypeOK'
    BY <1>1, <2>1, <2>4, <2>5 DEF FoundTypeOK
  <2>7. Measured'
    BY <1>1, <1>2, <1>3, <2>1, <2>5 DEF Measured, chars
  <2>8. FilledIn'
    BY <1>1, <2>1 DEF FilledIn
  <2> QED BY <1>1, <1>2, <2>6, <2>7, <2>8 DEF FoundInv, chars
<1>6. CASE ~(depth > 0)
  <2>1. /\ doing' = "tailLength" /\ depth = 0
        /\ depth' = depth /\ trieLength' = trieLength
    BY <1>1, <1>6 DEF MeasureTrie
  <2>2. At(chars, 0) = 0
    BY <1>1, LengthAtPlace DEF chars
  <2>3. trieLength' = At(chars, Len(way))
    BY <1>3, <2>1, <2>2
  <2>4. /\ Len(way) + tailCharIndex = Len(way)
        /\ trieLength' + tailLength = trieLength'
    BY <1>3, <2>1
  <2>5. FoundTypeOK'
    BY <1>1, <2>1 DEF FoundTypeOK
  <2>6. Measured'
    BY <1>1, <1>2, <2>1, <2>3, <2>4 DEF Measured, chars
  <2>7. FilledIn'
    BY <2>1 DEF FilledIn
  <2> QED BY <1>1, <1>2, <2>5, <2>6, <2>7 DEF FoundInv, chars
<1> QED BY <1>5, <1>6

\* Those of the tail are measured from the first to the last.
LEMMA MeasureTailKeeps ==
  ASSUME FoundInv, MeasureTail
  PROVE  FoundInv'
<1> DEFINE chars == CellCharacters
<1>1. /\ FoundTypeOK /\ Measured /\ doing = "tailLength" /\ doing' = doing
      /\ word' = word /\ way' = way /\ suffix' = suffix
      /\ depth' = depth /\ trieLength' = trieLength /\ start' = start
      /\ tailLength' = tailLength + LengthAt(suffix, tailCharIndex + 1)
      /\ tailCharIndex' = tailCharIndex + 1 /\ tailCharIndex < Len(suffix)
  BY DEF FoundInv, MeasureTail
<1>2. chars' = chars /\ Size' = Size
  BY <1>1 DEF CellCharacters, Size
<1>3. /\ trieLength = At(chars, Len(way))
      /\ trieLength + tailLength = At(chars, Len(way) + tailCharIndex)
      /\ trieLength \in Nat /\ tailLength \in Nat
      /\ tailCharIndex \in 0..Len(suffix) - 1
      /\ Len(way) \in Nat /\ Len(suffix) \in Nat
  BY <1>1, CellCharactersType DEF Measured, FoundTypeOK
<1> HIDE DEF chars
<1>4. /\ LengthAt(suffix, tailCharIndex + 1) \in 1..4
      /\ At(chars, Len(way) + tailCharIndex) + LengthAt(suffix, tailCharIndex + 1)
           = At(chars, Len(way) + tailCharIndex + 1)
  BY <1>1, <1>3, LengthAtPlace DEF chars
<1>5. /\ tailLength' \in Nat
      /\ Len(way) + tailCharIndex' = Len(way) + tailCharIndex + 1
      /\ trieLength + tailLength' = At(chars, Len(way) + tailCharIndex + 1)
  <2> DEFINE L == LengthAt(suffix, tailCharIndex + 1)
             a == At(chars, Len(way) + tailCharIndex)
             b == At(chars, Len(way) + tailCharIndex + 1)
  <2>1. L \in 1..4 /\ a + L = b /\ trieLength + tailLength = a
    BY <1>3, <1>4
  <2>2. tailLength' = tailLength + L /\ trieLength \in Nat /\ tailLength \in Nat
    BY <1>1, <1>3
  <2>3. Len(way) + tailCharIndex' = Len(way) + tailCharIndex + 1
    BY <1>1, <1>3
  <2> HIDE DEF L, a, b
  <2>4. tailLength' \in Nat /\ trieLength + tailLength' = b
    BY <2>1, <2>2
  <2> QED BY <2>3, <2>4 DEF b
<1>6. FoundTypeOK'
  BY <1>1, <1>3, <1>5 DEF FoundTypeOK
<1>7. Measured'
  BY <1>1, <1>2, <1>3, <1>5 DEF Measured, chars
<1>8. FilledIn'
  BY <1>1 DEF FilledIn
<1> QED BY <1>1, <1>2, <1>6, <1>7, <1>8 DEF FoundInv, chars

\* As many bytes are allocated as the string has.
LEMMA AllocateKeeps ==
  ASSUME FoundInv, Allocate
  PROVE  FoundInv'
<1> DEFINE chars == CellCharacters
<1>1. /\ FoundTypeOK /\ Measured /\ doing = "tailLength" /\ doing' = "tailFill"
      /\ word' = word /\ way' = way /\ suffix' = suffix
      /\ depth' = depth /\ trieLength' = trieLength /\ tailLength' = tailLength
      /\ tailCharIndex = Len(suffix) /\ tailCharIndex' = 0
      /\ start' = trieLength
      /\ string' = [p \in 1..trieLength + tailLength |-> Unwritten]
  BY DEF FoundInv, Allocate
<1>2. chars' = chars /\ Size' = Size
  BY <1>1 DEF CellCharacters, Size
<1>3. /\ trieLength = At(chars, Len(way)) /\ trieLength \in Nat
      /\ trieLength + tailLength = At(chars, Len(way) + tailCharIndex)
      /\ Len(way) \in Nat /\ Len(suffix) \in Nat
  BY <1>1, CellCharactersType DEF Measured, FoundTypeOK
<1>4. trieLength + tailLength = Size
  BY <1>1, <1>3, LengthAtPlace
<1> HIDE DEF chars
<1>5. Len(way) + 0 = Len(way) /\ trieLength >= trieLength
      /\ trieLength + 1 > trieLength
  BY <1>3
<1>6. FoundTypeOK'
  BY <1>1, <1>3 DEF FoundTypeOK
<1>7. Measured'
  BY <1>1, <1>2, <1>3, <1>4 DEF Measured, chars
<1>8. Filled(trieLength, start)'
  <2>1. string' \in [1..Size -> Int]
    BY <1>1, <1>4 DEF Unwritten
  <2>2. trieLength' + 1..start' = {}
    BY <1>1, <1>3
  <2> QED BY <1>2, <2>1, <2>2 DEF Filled
<1>9. FilledIn'
  BY <1>1, <1>2, <1>3, <1>5, <1>8 DEF FilledIn, chars
<1> QED BY <1>1, <1>2, <1>6, <1>7, <1>9 DEF FoundInv, chars

\* The tail goes behind the characters on the way, one after the other.
LEMMA FillTailKeeps ==
  ASSUME FoundInv, FillTail
  PROVE  FoundInv'
<1> DEFINE chars == CellCharacters
<1>1. /\ FoundTypeOK /\ Measured /\ doing = "tailFill"
      /\ word' = word /\ way' = way /\ suffix' = suffix
      /\ trieLength' = trieLength /\ tailLength' = tailLength
  BY DEF FoundInv, FillTail
<1>2. chars' = chars /\ Size' = Size
  BY <1>1 DEF CellCharacters, Size
<1>3. /\ trieLength = At(chars, Len(way)) /\ trieLength + tailLength = Size
      /\ start = At(chars, Len(way) + tailCharIndex) /\ start >= trieLength
      /\ Filled(trieLength, start)
      /\ trieLength \in Nat /\ start \in Nat /\ depth \in 0..Len(way)
      /\ tailCharIndex \in 0..Len(suffix)
      /\ Len(way) \in Nat /\ Len(suffix) \in Nat
  BY <1>1, CellCharactersType DEF Measured, FoundTypeOK, FoundInv, FilledIn
<1>4. CASE tailCharIndex < Len(suffix)
  <2>1. /\ Put(suffix[tailCharIndex + 1], start)
        /\ start' = start + LengthAt(suffix, tailCharIndex + 1)
        /\ tailCharIndex' = tailCharIndex + 1
        /\ doing' = doing /\ depth' = depth
    BY <1>1, <1>3, <1>4 DEF FillTail
  <2>2. tailCharIndex \in 0..Len(suffix) - 1
        /\ tailCharIndex + 1 \in 1..Len(suffix)
        /\ Len(way) + tailCharIndex \in 0..Len(way) + Len(suffix) - 1
        /\ Len(way) + (tailCharIndex + 1) = Len(way) + tailCharIndex + 1
    BY <1>3, <1>4
  <2>3. chars[Len(way) + tailCharIndex + 1] = suffix[tailCharIndex + 1]
    <3>1. \A i \in 1..Len(suffix) : chars[Len(way) + i] = suffix[i]
      BY <1>1, CellCharactersType
    <3>2. chars[Len(way) + (tailCharIndex + 1)] = suffix[tailCharIndex + 1]
      BY Zenon, <2>2, <3>1
    <3> QED BY Zenon, <2>2, <3>2
  <2>4. /\ LengthAt(suffix, tailCharIndex + 1) \in 1..4
        /\ start' = At(chars, Len(way) + tailCharIndex + 1)
    BY <1>1, <1>3, <2>1, <2>2, LengthAtPlace
  <2>5. string \in [1..Size -> Int] /\ Size \in Nat
    BY <1>1, <1>3, LengthAtPlace DEF Filled
  <2>6. Put(chars[Len(way) + tailCharIndex + 1],
            At(chars, Len(way) + tailCharIndex))
    BY <1>3, <2>1, <2>3
  <2>7. /\ string' \in [1..Size -> Int]
        /\ \A p \in start + 1..start' : string'[p] = Utf8(chars)[p]
        /\ \A p \in 1..Size : p \notin start + 1..start' =>
                             string'[p] = string[p]
    BY ZenonT(60), <1>1, <1>3, <2>2, <2>4, <2>5, <2>6, PutFills
  <2> HIDE DEF chars
  <2>8. Filled(trieLength, start)'
    <3>1. start' <= Size
      <4>1. \A i \in 0..Len(suffix) :
              At(CellCharacters, Len(way) + i) <= Size
        BY <1>1, PlaceInside
      <4> QED BY <2>2, <2>4, <4>1 DEF chars
    <3>2. \A p \in trieLength + 1..start' :
            /\ p \in 1..Size
            /\ p \in start + 1..start' \/ p \in trieLength + 1..start
      BY <1>3, <2>1, <2>4, <2>5, <3>1
    <3>3. \A p \in trieLength + 1..start : string[p] = Utf8(chars)[p]
      BY <1>3 DEF Filled, chars
    <3>4. \A p \in trieLength + 1..start' : string'[p] = Utf8(chars)[p]
      BY <2>7, <3>2, <3>3
    <3> QED BY <1>1, <1>2, <2>7, <3>4 DEF Filled, chars
  <2>9. start' >= trieLength /\ start' \in Nat
    BY <1>3, <2>1, <2>4
  <2>10. FoundTypeOK'
    BY <1>1, <1>3, <2>1, <2>2, <2>9 DEF FoundTypeOK
  <2>11. Measured'
    BY <1>1, <1>2, <1>3, <2>1 DEF Measured, chars
  <2>12. FilledIn'
    BY <1>1, <1>2, <2>1, <2>2, <2>4, <2>8, <2>9 DEF FilledIn, chars
  <2> QED BY <1>1, <1>2, <2>10, <2>11, <2>12 DEF FoundInv, chars
<1>5. CASE ~(tailCharIndex < Len(suffix))
  <2>1. /\ doing' = "trieFill" /\ depth' = Len(way) /\ start' = trieLength
        /\ tailCharIndex' = tailCharIndex /\ string' = string
        /\ tailCharIndex = Len(suffix)
    BY <1>1, <1>5 DEF FillTail
  <2>2. start = Size
    BY <1>1, <1>3, <2>1, LengthAtPlace
  <2>3. Filled(start, Size)'
    BY <1>1, <1>2, <1>3, <2>1, <2>2 DEF Filled
  <2>4. FoundTypeOK'
    BY <1>1, <1>3, <2>1 DEF FoundTypeOK
  <2>5. Measured'
    BY <1>1, <1>2, <1>3, <2>1 DEF Measured
  <2>6. FilledIn'
    BY <1>1, <1>2, <1>3, <2>1, <2>3 DEF FilledIn
  <2> QED BY <1>1, <1>2, <2>4, <2>5, <2>6 DEF FoundInv
<1> QED BY <1>4, <1>5

\* The characters on the way go before the tail, one before the other.
LEMMA FillTrieKeeps ==
  ASSUME FoundInv, FillTrie
  PROVE  FoundInv'
<1> DEFINE chars == CellCharacters
<1>1. /\ FoundTypeOK /\ Measured /\ doing = "trieFill"
      /\ word' = word /\ way' = way /\ suffix' = suffix
      /\ trieLength' = trieLength /\ tailLength' = tailLength
      /\ tailCharIndex' = tailCharIndex
  BY DEF FoundInv, FillTrie
<1>2. chars' = chars /\ Size' = Size
  BY <1>1 DEF CellCharacters, Size
<1>3. /\ trieLength = At(chars, Len(way)) /\ trieLength + tailLength = Size
      /\ start = At(chars, depth) /\ Filled(start, Size)
      /\ start \in Nat /\ depth \in 0..Len(way)
      /\ Len(way) \in Nat /\ Len(suffix) \in Nat
  BY <1>1, CellCharactersType DEF Measured, FoundTypeOK, FoundInv, FilledIn
<1>4. CASE depth > 0
  <2>1. /\ Put(way[depth], start - LengthAt(way, depth))
        /\ start' = start - LengthAt(way, depth)
        /\ depth' = depth - 1 /\ doing' = doing
    BY <1>1, <1>3, <1>4 DEF FillTrie
  <2>2. /\ depth \in 1..Len(way) /\ depth - 1 \in 0..Len(way)
        /\ depth - 1 \in 0..Len(way) + Len(suffix) - 1
        /\ depth - 1 + 1 = depth
        /\ depth - 1 \in 0..Len(way) + Len(suffix)
    BY <1>3, <1>4
  <2>3. chars[depth] = way[depth]
    BY <1>1, <2>2, CellCharactersType
  <2>4. start' = At(chars, depth - 1) /\ start' \in Nat
    <3>1. /\ LengthAt(way, depth) \in 1..4
          /\ At(chars, depth - 1) + LengthAt(way, depth) = At(chars, depth)
          /\ At(chars, depth - 1) \in Nat
      BY <1>1, <2>2, LengthAtPlace
    <3> HIDE DEF chars
    <3> QED BY <1>3, <2>1, <3>1
  <2>5. string \in [1..Size -> Int] /\ Size \in Nat
    BY <1>1, <1>3, LengthAtPlace DEF Filled
  <2>6. Put(chars[depth - 1 + 1], At(chars, depth - 1))
    BY <2>1, <2>2, <2>3, <2>4
  <2>7. /\ string' \in [1..Size -> Int]
        /\ \A p \in start' + 1..start : string'[p] = Utf8(chars)[p]
        /\ \A p \in 1..Size : p \notin start' + 1..start =>
                             string'[p] = string[p]
    <3>1. At(chars, depth - 1 + 1) = start
      BY <1>3, <2>2
    <3> QED BY ZenonT(60), <1>1, <2>2, <2>4, <2>5, <2>6, <3>1, PutFills
  <2> HIDE DEF chars
  <2>8. Filled(start, Size)'
    <3>1. \A p \in start' + 1..Size :
            p \in 1..Size /\ (p \in start' + 1..start \/
                              (p \in start + 1..Size
                                /\ p \notin start' + 1..start))
      BY <1>3, <2>4, <2>5
    <3>2. \A p \in start + 1..Size : string[p] = Utf8(chars)[p]
      BY <1>3 DEF Filled, chars
    <3>3. \A p \in start' + 1..Size : string'[p] = Utf8(chars)[p]
      BY <2>7, <3>1, <3>2
    <3> QED BY <1>2, <2>7, <3>3 DEF Filled, chars
  <2>9. FoundTypeOK'
    BY <1>1, <2>1, <2>2, <2>4 DEF FoundTypeOK
  <2>10. Measured'
    BY <1>1, <1>2, <1>3, <2>1 DEF Measured, chars
  <2>11. FilledIn'
    BY <1>1, <1>2, <2>1, <2>4, <2>8 DEF FilledIn, chars
  <2> QED BY <1>1, <1>2, <2>9, <2>10, <2>11 DEF FoundInv, chars
<1>5. CASE ~(depth > 0)
  <2>1. /\ doing' = "returned" /\ depth' = depth /\ depth = 0
        /\ start' = start /\ string' = string
    BY <1>1, <1>5 DEF FillTrie
  <2>2. start = 0
    BY <1>1, <1>3, <2>1, LengthAtPlace
  <2>3. Filled(0, Size)'
    BY <1>1, <1>2, <1>3, <2>1, <2>2 DEF Filled
  <2>4. FoundTypeOK'
    BY <1>1, <2>1 DEF FoundTypeOK
  <2>5. Measured'
    BY <1>1, <1>2, <1>3, <2>1 DEF Measured
  <2>6. FilledIn'
    BY <1>1, <2>1, <2>3 DEF FilledIn
  <2> QED BY <1>1, <1>2, <2>4, <2>5, <2>6 DEF FoundInv
<1> QED BY <1>4, <1>5

\* The invariant of automaton_returnNeedle: what was measured is what the
\* characters so far take, and what was filled in are their bytes.
THEOREM FoundInvariance == FoundSpec => []FoundInv
<1>1. FoundInv /\ [FoundNext]_returnVars => FoundInv'
  <2> SUFFICES ASSUME FoundInv, [FoundNext]_returnVars PROVE FoundInv'
    OBVIOUS
  <2>1. CASE UNCHANGED returnVars
    <3>1. /\ word' = word /\ way' = way /\ suffix' = suffix /\ doing' = doing
          /\ depth' = depth /\ tailCharIndex' = tailCharIndex
          /\ trieLength' = trieLength /\ tailLength' = tailLength
          /\ start' = start /\ string' = string
      BY <2>1 DEF returnVars, counters
    <3> QED BY <3>1 DEF FoundInv, FoundTypeOK, Measured, FilledIn, Filled, Size,
                        CellCharacters
  <2>2. CASE FoundNext
    BY <2>2, MeasureTrieKeeps, MeasureTailKeeps, AllocateKeeps, FillTailKeeps,
       FillTrieKeeps DEF FoundNext
  <2> QED BY <2>1, <2>2
<1> QED BY InitFound, <1>1, PTL DEF FoundSpec

\* automaton_returnNeedle writes no byte outside those it has allocated.
THEOREM FillsStayInside == FoundSpec => []StaysInAllocation
<1>1. FoundInv => StaysInAllocation
  BY DEF FoundInv, Measured, FilledIn, Filled, StaysInAllocation
<1> QED BY FoundInvariance, <1>1, PTL

\* It returns the UTF-8 of the needle for a leaf, and with U+0003 behind it
\* for a needle that ends in the array.
THEOREM CellIsReturned == FoundSpec => []ReturnsCharactersOfCell
<1>1. FoundInv => ReturnsCharactersOfCell
  <2> SUFFICES ASSUME FoundInv, doing = "returned"
               PROVE  string = Utf8(CellCharacters)
    BY DEF ReturnsCharactersOfCell, FoundInv
  <2>1. /\ string \in [1..Size -> Int]
        /\ \A p \in 0 + 1..Size : string[p] = Utf8(CellCharacters)[p]
    BY DEF FoundInv, FilledIn, Filled
  <2>2. CellCharacters \in Seq(1..LastCharacter)
    BY CellCharactersType DEF FoundInv
  <2>3. Utf8(CellCharacters) \in Seq(Nat)
    BY <2>2, Utf8Type
  <2>4. string \in Seq(Int) /\ Len(string) = Size /\ Size \in Nat
    BY <2>1, <2>3 DEF Size
  <2> QED BY <2>1, <2>3, <2>4 DEF Size
<1> QED BY FoundInvariance, <1>1, PTL

-----------------------------------------------------------------------------
(* File: a dictionary is written as one sequence and read part by part. *)

\* A sequence put together of its first element and the rest.
PutFirst(e, r, t) ==
  /\ Len(t) = 1 + Len(r) /\ Len(r) \in Nat /\ t[1] = e
  /\ \A i \in 1..Len(r) : t[i + 1] = r[i]

\* Its elements are that one and those of the rest.
LEMMA ElementsOf ==
  ASSUME NEW S, NEW e \in S, NEW r \in Seq(S)
  PROVE  <<e>> \o r \in Seq(S) /\ PutFirst(e, r, <<e>> \o r)
BY DEF PutFirst

\* What follows the first k of s.
From(s, k) == SubSeq(s, k + 1, Len(s))

\* The sequence f has the first k of s.
HasFirst(f, s, k) == k <= Len(s) /\ Len(f) = k /\ \A i \in 1..k : f[i] = s[i]

\* What follows the first is the next and what follows that.
LEMMA FromNext ==
  ASSUME NEW S, NEW s \in Seq(S), NEW k \in Nat, k < Len(s)
  PROVE  /\ From(s, k) = <<s[k + 1]>> \o From(s, k + 1)
         /\ From(s, k) \in Seq(S) /\ From(s, k + 1) \in Seq(S)
         /\ s[k + 1] \in S
<1>1. s[k + 1] \in S /\ Len(s) \in Nat /\ k + 1 \in 1..Len(s)
  OBVIOUS
<1>2. \A m \in Nat : From(s, m) \in Seq(S)
  <2> SUFFICES ASSUME NEW m \in Nat PROVE From(s, m) \in Seq(S)
    OBVIOUS
  <2>1. \A i \in m + 1..Len(s) : s[i] \in S
    BY <1>1
  <2>2. m + 1 \in Int /\ Len(s) \in Int
    BY <1>1
  <2> QED BY <2>1, <2>2, SubSeqProperties DEF From
<1>3. From(s, k) = <<s[k + 1]>> \o From(s, k + 1)
  BY <1>1, SubSeqRecursiveFirst DEF From
<1> QED BY <1>1, <1>2, <1>3

\* Nothing comes before the whole sequence, and nothing follows it.
LEMMA FromEnds ==
  ASSUME NEW S, NEW s \in Seq(S)
  PROVE  From(s, 0) = s /\ From(s, Len(s)) = <<>>
<1>1. From(s, 0) = s
  BY SubSeqFull DEF From
<1>2. From(s, Len(s)) = <<>>
  BY SubSeqEmpty DEF From
<1> QED BY <1>1, <1>2

\* An entry as it is written.
Entry(x) == <<Len(x)>> \o x
Each(s) == [i \in 1..Len(s) |-> Entry(s[i])]

\* The entries of s, and what is written of them, are sequences of numbers.
LEMMA EachType ==
  ASSUME NEW s \in Seq(Seq(Int))
  PROVE  /\ Each(s) \in Seq(Seq(Int)) /\ Len(Each(s)) = Len(s)
         /\ \A i \in 1..Len(s) : Each(s)[i] = Entry(s[i])
         /\ Entries(s) = FlattenSeq(Each(s)) /\ Entries(s) \in Seq(Int)
<1>1. \A i \in 1..Len(s) : Entry(s[i]) \in Seq(Int)
  <2>1. \A x \in Seq(Int) : <<Len(x)>> \o x \in Seq(Int)
    OBVIOUS
  <2>2. \A i \in 1..Len(s) : s[i] \in Seq(Int)
    OBVIOUS
  <2> QED BY Zenon, <2>1, <2>2 DEF Entry
<1> PICK n \in Nat : n = Len(s)
  OBVIOUS
<1>2. Each(s) \in [1..n -> Seq(Int)]
  BY Zenon, <1>1 DEF Each
<1>3. Each(s) \in Seq(Seq(Int)) /\ Len(Each(s)) = n
  <2> PICK e : e = Each(s)
    OBVIOUS
  <2>1. e \in [1..n -> Seq(Int)]
    BY <1>2
  <2>2. e \in Seq(Seq(Int)) /\ Len(e) = n
    BY ONLY <2>1, n \in Nat
  <2> QED BY <2>2
<1>4. Entries(s) = FlattenSeq(Each(s))
  BY Zenon DEF Entries, Each, Entry
<1>5. Entries(s) \in Seq(Int)
  BY Zenon, <1>3, <1>4, FlattenType
<1>6. \A i \in 1..Len(s) : Each(s)[i] = Entry(s[i])
  BY Zenon DEF Each
<1> QED BY <1>3, <1>4, <1>5, <1>6

\* Of no entry nothing is written.
LEMMA NoEntries ==
  Entries(<<>>) = <<>>
<1>1. Each(<<>>) = <<>>
  BY DEF Each
<1>2. <<>> \in Seq(Seq(Int))
  OBVIOUS
<1> QED BY <1>1, <1>2, EachType, FlattenEmpty

\* The first entry that follows is written with its length, then the others.
LEMMA EntriesFrom ==
  ASSUME NEW s \in Seq(Seq(Int)), NEW k \in Nat, k < Len(s)
  PROVE  /\ Entries(From(s, k))
              = <<Len(s[k + 1])>> \o (s[k + 1] \o Entries(From(s, k + 1)))
         /\ s[k + 1] \in Seq(Int) /\ Entries(From(s, k + 1)) \in Seq(Int)
<1> PICK e : e = s[k + 1]
  OBVIOUS
<1> PICK r : r = From(s, k + 1)
  OBVIOUS
<1>1. /\ From(s, k) = <<e>> \o r /\ From(s, k) \in Seq(Seq(Int))
      /\ r \in Seq(Seq(Int)) /\ e \in Seq(Int)
  BY FromNext
<1>2. Each(<<e>> \o r) = <<Entry(e)>> \o Each(r)
  <2> PICK t : t = <<e>> \o r
    OBVIOUS
  <2>1. /\ t \in Seq(Seq(Int)) /\ Len(t) = 1 + Len(r) /\ Len(r) \in Nat
        /\ t[1] = e /\ \A i \in 1..Len(r) : t[i + 1] = r[i]
    <3>1. <<e>> \o r \in Seq(Seq(Int)) /\ PutFirst(e, r, <<e>> \o r)
      BY ONLY <1>1, ElementsOf
    <3> QED BY Zenon, <3>1 DEF PutFirst
  <2>2. /\ Each(t) \in Seq(Seq(Int)) /\ Len(Each(t)) = Len(t)
        /\ \A i \in 1..Len(t) : Each(t)[i] = Entry(t[i])
        /\ Each(r) \in Seq(Seq(Int)) /\ Len(Each(r)) = Len(r)
        /\ \A i \in 1..Len(r) : Each(r)[i] = Entry(r[i])
    BY <1>1, <2>1, EachType
  <2> PICK u : u = Entry(e)
    OBVIOUS
  <2>3. u \in Seq(Int) /\ Each(t)[1] = u
    <3>1. 1 \in 1..Len(t)
      BY <2>1
    <3>2. Each(t)[1] = Entry(e)
      BY Zenon, <2>1, <2>2, <3>1
    <3>3. Entry(e) \in Seq(Int)
      BY <1>1 DEF Entry
    <3> QED BY <3>2, <3>3
  <2>4. \A i \in 1..Len(r) : Each(t)[i + 1] = Each(r)[i]
    <3> SUFFICES ASSUME NEW i \in 1..Len(r) PROVE Each(t)[i + 1] = Each(r)[i]
      OBVIOUS
    <3>1. i + 1 \in 1..Len(t)
      BY <2>1
    <3>2. Each(t)[i + 1] = Entry(t[i + 1])
      BY Zenon, <2>2, <3>1
    <3> QED BY Zenon, <2>1, <2>2, <3>2
  <2> PICK v : v = Each(r)
    OBVIOUS
  <2> PICK w : w = Each(t)
    OBVIOUS
  <2>5. /\ w \in Seq(Seq(Int)) /\ Len(w) = 1 + Len(v) /\ v \in Seq(Seq(Int))
        /\ w[1] = u /\ \A i \in 1..Len(v) : w[i + 1] = v[i]
    BY ONLY <2>1, <2>2, <2>3, <2>4, v = Each(r), w = Each(t)
  <2>6. /\ <<u>> \o v \in Seq(Seq(Int)) /\ Len(<<u>> \o v) = 1 + Len(v)
        /\ Len(v) \in Nat /\ (<<u>> \o v)[1] = u
        /\ \A i \in 1..Len(v) : (<<u>> \o v)[i + 1] = v[i]
    BY ONLY <2>3, <2>5
  <2>7. \A i \in 1..Len(w) : w[i] = (<<u>> \o v)[i]
    <3> SUFFICES ASSUME NEW i \in 1..Len(w) PROVE w[i] = (<<u>> \o v)[i]
      OBVIOUS
    <3>1. CASE i = 1
      BY <2>5, <2>6, <3>1
    <3>2. CASE i # 1
      <4>1. Len(w) = 1 + Len(v) /\ Len(v) \in Nat
        BY <2>5, <2>6
      <4>2. i - 1 \in 1..Len(v) /\ i - 1 + 1 = i
        BY ONLY SMT, <3>2, <4>1, i \in 1..Len(w)
      <4>3. w[i - 1 + 1] = v[i - 1]
        BY ONLY Zenon, <2>5, <4>2
      <4>4. (<<u>> \o v)[i - 1 + 1] = v[i - 1]
        BY ONLY Zenon, <2>6, <4>2
      <4> QED BY ONLY Zenon, <4>2, <4>3, <4>4
    <3> QED BY <3>1, <3>2
  <2>8. w = <<u>> \o v
    BY <2>5, <2>6, <2>7, SeqEqual
  <2> QED BY <2>8
<1>3. /\ Each(r) \in Seq(Seq(Int)) /\ Entries(r) = FlattenSeq(Each(r))
      /\ Entries(r) \in Seq(Int)
  BY <1>1, EachType
<1>4. <<Entry(e)>> \in Seq(Seq(Int)) /\ Entry(e) \in Seq(Int)
      /\ <<Len(e)>> \in Seq(Int)
  BY <1>1 DEF Entry
<1>5. FlattenSeq(<<Entry(e)>>) = Entry(e)
  <2>1. <<>> \in Seq(Seq(Int)) /\ <<Entry(e)>> = Append(<<>>, Entry(e))
    BY <1>4
  <2>2. FlattenSeq(Append(<<>>, Entry(e))) = <<>> \o Entry(e)
    BY <1>4, <2>1, FlattenAppend, FlattenEmpty
  <2>3. <<>> \o Entry(e) = Entry(e)
    BY <1>4, ConcatEmptySeq
  <2> QED BY <2>1, <2>2, <2>3
<1>6. Entries(From(s, k)) = Entry(e) \o Entries(r)
  <2>1. Entries(From(s, k)) = FlattenSeq(<<Entry(e)>> \o Each(r))
    BY <1>1, <1>2, EachType
  <2>2. FlattenSeq(<<Entry(e)>> \o Each(r))
          = FlattenSeq(<<Entry(e)>>) \o FlattenSeq(Each(r))
    BY <1>3, <1>4, FlattenConcat
  <2> QED BY <1>3, <1>5, <2>1, <2>2
<1>7. (<<Len(e)>> \o e) \o Entries(r) = <<Len(e)>> \o (e \o Entries(r))
  <2>1. \A a, b, c \in Seq(Int) : (a \o b) \o c = a \o (b \o c)
    BY ONLY SMTT(60), Associative
  <2> QED BY ZenonT(60), <1>1, <1>3, <1>4, <2>1
<1> QED BY <1>1, <1>3, <1>6, <1>7 DEF Entry

\* What a program may store.
IsDictionary(d) ==
  /\ d \in [header : 0..3, cells : Seq(Int),
            tail : Seq(Seq(Int)), data : Seq(Seq(Int))]
  /\ Len(d.cells) > 0
  /\ ~HasTail(d.header) => d.tail = <<>>
  /\ IF HasUserData(d.header) THEN Len(d.data) = Len(d.cells)
                              ELSE d.data = <<>>

\* What follows the automaton in the file.
TailPart(d) ==
  IF HasTail(d.header) THEN <<Len(d.tail) + 1>> \o Entries(d.tail) ELSE <<>>
Remainder(d) == TailPart(d) \o Entries(d.data)

\* The dictionary l that is being built has what it needs of d before the
\* cells, the tail and the user data.
Built == [header : Int, cells : Seq(Int),
          tail : Seq(Seq(Int)), data : Seq(Seq(Int))]
InCells(l, d) ==
  l \in Built /\ l.header = d.header /\ l.tail = <<>> /\ l.data = <<>>
InTail(l, d) ==
  l \in Built /\ l.header = d.header /\ l.cells = d.cells /\ l.data = <<>>
InData(l, d) ==
  l \in Built /\ l.header = d.header /\ l.cells = d.cells /\ l.tail = d.tail

\* The sequence f has the first k entries of s, and j of the next one.
Opened(f, s, k, j) ==
  /\ k < Len(s) /\ Len(f) = k + 1 /\ \A i \in 1..k : f[i] = s[i]
  /\ HasFirst(f[k + 1], s[k + 1], j)

\* What lies ahead at each place of file_load, when the file is that of d.
AtHeader(r, l, d, R) ==
  r = "header" /\ l = Empty /\ R = Contents(d)
AtSize(r, l, d, R) ==
  /\ r = "size" /\ InCells(l, d) /\ l.cells = <<>>
  /\ R = <<Len(d.cells)>> \o (d.cells \o Remainder(d))
AtCell(r, l, sz, d, R) ==
  /\ r = "cell" /\ InCells(l, d) /\ sz = Len(d.cells)
  /\ \E k \in Nat : /\ k < Len(d.cells) /\ HasFirst(l.cells, d.cells, k)
                    /\ R = From(d.cells, k) \o Remainder(d)
AtTailSize(r, l, d, R) ==
  /\ r = "tailSize" /\ InTail(l, d) /\ l.tail = <<>> /\ HasTail(d.header)
  /\ R = Remainder(d)
AtTailLength(r, l, sz, d, R) ==
  /\ r = "tailLength" /\ InTail(l, d) /\ sz = Len(d.tail) + 1
  /\ \E k \in Nat :
       /\ k < Len(d.tail) /\ HasFirst(l.tail, d.tail, k)
       /\ R = Entries(From(d.tail, k)) \o Entries(d.data)
AtTailChar(r, l, sz, lf, d, R) ==
  /\ r = "tailChar" /\ InTail(l, d) /\ sz = Len(d.tail) + 1
  /\ \E k, j \in Nat :
       /\ Opened(l.tail, d.tail, k, j)
       /\ lf = Len(d.tail[k + 1]) - j /\ lf > 0
       /\ R = From(d.tail[k + 1], j)
                \o (Entries(From(d.tail, k + 1)) \o Entries(d.data))
AtDataSize(r, l, d, R) ==
  /\ r = "dataSize" /\ InData(l, d)
  /\ \E k \in Nat : /\ k < Len(d.data) /\ HasFirst(l.data, d.data, k)
                    /\ R = Entries(From(d.data, k))
AtDataByte(r, l, lf, d, R) ==
  /\ r = "dataByte" /\ InData(l, d)
  /\ \E k, j \in Nat :
       /\ Opened(l.data, d.data, k, j)
       /\ lf = Len(d.data[k + 1]) - j /\ lf > 0
       /\ R = From(d.data[k + 1], j) \o Entries(From(d.data, k + 1))
AtEnd(r, l, d, R) ==
  r = "loaded" /\ l = d /\ R = <<>>

Position(r, l, sz, lf, d, R) ==
  \/ AtHeader(r, l, d, R) \/ AtSize(r, l, d, R) \/ AtCell(r, l, sz, d, R)
  \/ AtTailSize(r, l, d, R) \/ AtTailLength(r, l, sz, d, R)
  \/ AtTailChar(r, l, sz, lf, d, R)
  \/ AtDataSize(r, l, d, R) \/ AtDataByte(r, l, lf, d, R) \/ AtEnd(r, l, d, R)

\* The parts of a dictionary are sequences of numbers.
LEMMA PartsType ==
  ASSUME NEW d, IsDictionary(d)
  PROVE  /\ d.header \in Int /\ d.cells \in Seq(Int)
         /\ d.tail \in Seq(Seq(Int)) /\ d.data \in Seq(Seq(Int))
         /\ Entries(d.tail) \in Seq(Int) /\ Entries(d.data) \in Seq(Int)
         /\ TailPart(d) \in Seq(Int) /\ Remainder(d) \in Seq(Int)
<1>1. /\ d.header \in Int /\ d.cells \in Seq(Int)
      /\ d.tail \in Seq(Seq(Int)) /\ d.data \in Seq(Seq(Int))
  BY DEF IsDictionary
<1>2. Entries(d.tail) \in Seq(Int) /\ Entries(d.data) \in Seq(Int)
  BY <1>1, EachType
<1>3. \A t \in Seq(Int) : <<Len(d.tail) + 1>> \o t \in Seq(Int)
  BY <1>1
<1>4. TailPart(d) \in Seq(Int)
  <2>1. <<>> \in Seq(Int)
    OBVIOUS
  <2> QED BY Zenon, <1>2, <1>3, <2>1 DEF TailPart
<1>5. Remainder(d) \in Seq(Int)
  BY <1>2, <1>4, ConcatProperties DEF Remainder
<1> QED BY <1>1, <1>2, <1>4, <1>5

\* Sequences of numbers are joined in any order.
Joined(a, b, c) == (a \o b) \o c = a \o (b \o c)

\* Joining is associative.
LEMMA NumbersJoin ==
  \A a, b, c \in Seq(Int) : Joined(a, b, c)
<1>1. \A a, b, c \in Seq(Int) : (a \o b) \o c = a \o (b \o c)
  BY ONLY SMTT(60), Associative
<1> QED BY Zenon, <1>1 DEF Joined

Chained(h, n, c, t, e) ==
  (((h \o n) \o c) \o t) \o e = h \o (n \o (c \o (t \o e)))

\* Five parts joined from the left are joined from the right.
LEMMA FiveJoin ==
  ASSUME NEW h \in Seq(Int), NEW n \in Seq(Int), NEW c \in Seq(Int),
         NEW t \in Seq(Int), NEW e \in Seq(Int)
  PROVE  Chained(h, n, c, t, e)
<1>1. \A x, y \in Seq(Int) : x \o y \in Seq(Int)
  BY ConcatProperties
<1>2. h \o n \in Seq(Int) /\ t \o e \in Seq(Int)
  BY <1>1
<1>3. (h \o n) \o c \in Seq(Int) /\ c \o (t \o e) \in Seq(Int)
  BY Zenon, <1>1, <1>2
<1>4. (((h \o n) \o c) \o t) \o e = ((h \o n) \o c) \o (t \o e)
  <2>1. Joined((h \o n) \o c, t, e)
    BY Zenon, <1>3, NumbersJoin
  <2> QED BY Zenon, <2>1 DEF Joined
<1>5. ((h \o n) \o c) \o (t \o e) = (h \o n) \o (c \o (t \o e))
  <2>1. Joined(h \o n, c, t \o e)
    BY Zenon, <1>2, NumbersJoin
  <2> QED BY Zenon, <2>1 DEF Joined
<1>6. (h \o n) \o (c \o (t \o e)) = h \o (n \o (c \o (t \o e)))
  <2>1. Joined(h, n, c \o (t \o e))
    BY Zenon, <1>3, NumbersJoin
  <2> QED BY Zenon, <2>1 DEF Joined
<1> QED BY Zenon, <1>4, <1>5, <1>6 DEF Chained

\* The parts of the file in the order in which they are read.
LEMMA Layout ==
  ASSUME NEW d, IsDictionary(d)
  PROVE  /\ Contents(d)
              = <<d.header>> \o (<<Len(d.cells)>> \o (d.cells \o Remainder(d)))
         /\ d.cells \o Remainder(d) \in Seq(Int)
         /\ <<Len(d.cells)>> \o (d.cells \o Remainder(d)) \in Seq(Int)
         /\ Len(d.cells) \in Int
<1> PICK h : h = <<d.header>>
  OBVIOUS
<1> PICK n : n = <<Len(d.cells)>>
  OBVIOUS
<1> PICK c : c = d.cells
  OBVIOUS
<1> PICK t : t = TailPart(d)
  OBVIOUS
<1> PICK e : e = Entries(d.data)
  OBVIOUS
<1>1. h \in Seq(Int) /\ n \in Seq(Int) /\ c \in Seq(Int) /\ t \in Seq(Int)
      /\ e \in Seq(Int)
  <2>1. \A i \in Int : <<i>> \in Seq(Int)
    OBVIOUS
  <2>2. Len(d.cells) \in Int
    BY PartsType
  <2> QED BY <2>1, <2>2, PartsType
<1>2. <<d.header, Len(d.cells)>> = h \o n
  BY PartsType
<1>3. Contents(d) = (((h \o n) \o c) \o t) \o e
  BY Zenon, <1>2 DEF Contents, TailPart
<1>4. \A x, y \in Seq(Int) : x \o y \in Seq(Int)
  BY ConcatProperties
<1>5. (((h \o n) \o c) \o t) \o e = h \o (n \o (c \o (t \o e)))
  <2>1. Chained(h, n, c, t, e)
    BY Zenon, <1>1, FiveJoin
  <2> QED BY Zenon, <2>1 DEF Chained
<1>6. Remainder(d) = t \o e
  BY DEF Remainder
<1>7. c \o (t \o e) \in Seq(Int) /\ n \o (c \o (t \o e)) \in Seq(Int)
  BY Zenon, <1>1, <1>4
<1>8. Len(d.cells) \in Int
  BY PartsType
<1> QED BY Zenon, <1>3, <1>5, <1>6, <1>7, <1>8

\* The head of the loop over user data.
LEMMA AtNextData ==
  ASSUME NEW d, IsDictionary(d), NEW l, InData(l, d), NEW sz, NEW lf,
         NEW k \in Nat, HasFirst(l.data, d.data, k)
  PROVE  Position(NextData(l), l, sz, lf, d, Entries(From(d.data, k)))
<1> PICK R : R = Entries(From(d.data, k))
  OBVIOUS
<1>1. /\ l \in Built /\ l.header = d.header /\ l.cells = d.cells
      /\ l.tail = d.tail /\ d \in Built /\ Len(d.data) \in Nat
      /\ Len(l.data) = k /\ k <= Len(d.data)
      /\ \A i \in 1..k : l.data[i] = d.data[i]
  BY PartsType DEF InData, HasFirst, Built, IsDictionary
<1>2. CASE HasUserData(d.header) /\ k < Len(d.cells)
  <2>1. k < Len(d.data)
    BY <1>2 DEF IsDictionary
  <2>2. NextData(l) = "dataSize"
    BY <1>1, <1>2 DEF NextData
  <2>3. AtDataSize("dataSize", l, d, R)
    BY <2>1 DEF AtDataSize
  <2> QED BY <2>2, <2>3 DEF Position
<1>3. CASE ~(HasUserData(d.header) /\ k < Len(d.cells))
  <2>1. k = Len(d.data)
    <3>1. CASE HasUserData(d.header)
      <4>1. Len(d.data) = Len(d.cells)
        BY <3>1 DEF IsDictionary
      <4> QED BY <1>1, <1>3, <3>1, <4>1
    <3>2. CASE ~HasUserData(d.header)
      <4>1. Len(d.data) = 0
        BY <3>2 DEF IsDictionary
      <4> QED BY <1>1, <4>1
    <3> QED BY <3>1, <3>2
  <2>2. l.data = d.data
    <3>1. l.data \in Seq(Seq(Int)) /\ d.data \in Seq(Seq(Int))
      BY <1>1 DEF Built
    <3> QED BY <1>1, <2>1, <3>1, SeqEqual
  <2>3. l = d
    <3>1. \A x \in Built :
            x = [header |-> x.header, cells |-> x.cells,
                 tail |-> x.tail, data |-> x.data]
      BY ONLY SMT DEF Built
    <3> QED BY Zenon, <1>1, <2>2, <3>1
  <2>4. R = <<>>
    BY <2>1, FromEnds, NoEntries, PartsType
  <2>5. NextData(l) = "loaded"
    BY <1>1, <1>3 DEF NextData
  <2>6. AtEnd("loaded", l, d, R)
    BY <2>3, <2>4 DEF AtEnd
  <2> QED BY <2>5, <2>6 DEF Position
<1> QED BY <1>2, <1>3

\* The head of the loop over the tail.
LEMMA AtNextTail ==
  ASSUME NEW d, IsDictionary(d), NEW l, InTail(l, d), NEW lf,
         NEW k \in Nat, HasFirst(l.tail, d.tail, k)
  PROVE  Position(NextTail(l, Len(d.tail) + 1), l, Len(d.tail) + 1, lf, d,
                  Entries(From(d.tail, k)) \o Entries(d.data))
<1> PICK R : R = Entries(From(d.tail, k)) \o Entries(d.data)
  OBVIOUS
<1> PICK sz : sz = Len(d.tail) + 1
  OBVIOUS
<1>1. /\ l \in Built /\ l.header = d.header /\ l.cells = d.cells
      /\ l.data = <<>> /\ Len(d.tail) \in Nat
      /\ Len(l.tail) = k /\ k <= Len(d.tail)
      /\ \A i \in 1..k : l.tail[i] = d.tail[i]
  BY PartsType DEF InTail, HasFirst
<1>2. CASE k < Len(d.tail)
  <2>1. NextTail(l, sz) = "tailLength"
    BY <1>1, <1>2 DEF NextTail
  <2>2. AtTailLength("tailLength", l, sz, d, R)
    BY <1>2 DEF AtTailLength
  <2> QED BY <2>1, <2>2 DEF Position
<1>3. CASE ~(k < Len(d.tail))
  <2>1. k = Len(d.tail)
    BY <1>1, <1>3
  <2>2. NextTail(l, sz) = NextData(l)
    BY <1>1, <2>1 DEF NextTail
  <2>3. l.tail = d.tail
    <3>1. l.tail \in Seq(Seq(Int)) /\ d.tail \in Seq(Seq(Int))
      BY <1>1, PartsType DEF Built
    <3> QED BY <1>1, <2>1, <3>1, SeqEqual
  <2>4. InData(l, d)
    BY <1>1, <2>3 DEF InData
  <2>5. HasFirst(l.data, d.data, 0)
    BY <1>1, PartsType DEF HasFirst
  <2>6. From(d.data, 0) = d.data
    BY FromEnds, PartsType
  <2>7. Position(NextData(l), l, sz, lf, d, Entries(d.data))
    <3>1. Position(NextData(l), l, sz, lf, d, Entries(From(d.data, 0)))
      BY <2>4, <2>5, AtNextData
    <3> QED BY <2>6, <3>1
  <2>8. R = Entries(d.data)
    <3>1. Entries(From(d.tail, k)) = <<>>
      BY <2>1, FromEnds, NoEntries, PartsType
    <3>2. <<>> \o Entries(d.data) = Entries(d.data)
      BY PartsType, ConcatEmptySeq
    <3> QED BY <3>1, <3>2
  <2> QED BY <2>2, <2>7, <2>8
<1> QED BY <1>2, <1>3

\* What follows the cells.
LEMMA AtAfterCells ==
  ASSUME NEW d, IsDictionary(d), NEW l, InTail(l, d), l.tail = <<>>,
         NEW sz, NEW lf
  PROVE  Position(AfterCells(l), l, sz, lf, d, Remainder(d))
<1>1. l.header = d.header
  BY DEF InTail
<1>2. CASE HasTail(d.header)
  <2>1. AfterCells(l) = "tailSize"
    BY <1>1, <1>2 DEF AfterCells
  <2>2. AtTailSize("tailSize", l, d, Remainder(d))
    BY <1>2 DEF AtTailSize
  <2> QED BY <2>1, <2>2 DEF Position
<1>3. CASE ~HasTail(d.header)
  <2>1. AfterCells(l) = NextData(l)
    BY <1>1, <1>3 DEF AfterCells
  <2>2. InData(l, d)
    BY <1>3 DEF InTail, InData, IsDictionary
  <2>3. HasFirst(l.data, d.data, 0)
    BY PartsType DEF HasFirst, InTail
  <2>4. From(d.data, 0) = d.data
    BY FromEnds, PartsType
  <2>5. Remainder(d) = Entries(d.data)
    BY <1>3, PartsType, ConcatEmptySeq DEF Remainder, TailPart
  <2>6. Position(NextData(l), l, sz, lf, d, Entries(From(d.data, 0)))
    BY <2>2, <2>3, AtNextData
  <2> QED BY <2>1, <2>4, <2>5, <2>6
<1> QED BY <1>2, <1>3

\* One more element is one more of the first.
LEMMA AppendFirst ==
  ASSUME NEW S, NEW f \in Seq(S), NEW s \in Seq(S), NEW k \in Nat,
         k < Len(s), HasFirst(f, s, k)
  PROVE  /\ Append(f, s[k + 1]) \in Seq(S)
         /\ HasFirst(Append(f, s[k + 1]), s, k + 1)
<1>1. s[k + 1] \in S /\ Len(f) = k /\ \A i \in 1..k : f[i] = s[i]
  BY DEF HasFirst
<1> PICK g : g = Append(f, s[k + 1])
  OBVIOUS
<1>2. /\ g \in Seq(S) /\ Len(g) = k + 1 /\ g[k + 1] = s[k + 1]
      /\ \A i \in 1..k : g[i] = f[i]
  BY <1>1
<1>3. \A i \in 1..k + 1 : i = k + 1 \/ i \in 1..k
  OBVIOUS
<1>4. \A i \in 1..k + 1 : g[i] = s[i]
  BY Zenon, <1>1, <1>2, <1>3
<1>5. k + 1 <= Len(s)
  OBVIOUS
<1> QED BY <1>2, <1>4, <1>5 DEF HasFirst

\* The first of a sequence, up to its end, are the sequence.
LEMMA AllFirst ==
  ASSUME NEW S, NEW f \in Seq(S), NEW s \in Seq(S), HasFirst(f, s, Len(s))
  PROVE  f = s
BY SeqEqual DEF HasFirst

\* A new entry of file_load is empty.
LEMMA OpenEntry ==
  ASSUME NEW f \in Seq(Seq(Int)), NEW s \in Seq(Seq(Int)), NEW k \in Nat,
         k < Len(s), HasFirst(f, s, k)
  PROVE  /\ Append(f, <<>>) \in Seq(Seq(Int))
         /\ Opened(Append(f, <<>>), s, k, 0)
         /\ s[k + 1] = <<>> => HasFirst(Append(f, <<>>), s, k + 1)
<1>1. /\ s[k + 1] \in Seq(Int) /\ Len(f) = k
      /\ \A i \in 1..k : f[i] = s[i]
  BY DEF HasFirst
<1> PICK g : g = Append(f, <<>>)
  OBVIOUS
<1>2. /\ g \in Seq(Seq(Int)) /\ Len(g) = k + 1 /\ g[k + 1] = <<>>
      /\ \A i \in 1..k : g[i] = f[i]
  BY <1>1
<1>3. HasFirst(<<>>, s[k + 1], 0)
  BY <1>1 DEF HasFirst
<1>4. Opened(g, s, k, 0)
  BY <1>1, <1>2, <1>3 DEF Opened
<1>5. s[k + 1] = <<>> => HasFirst(Append(f, s[k + 1]), s, k + 1)
  BY AppendFirst
<1> QED BY <1>2, <1>4, <1>5

\* An entry that is read grows by what it lacks.
LEMMA FillEntry ==
  ASSUME NEW f \in Seq(Seq(Int)), NEW s \in Seq(Seq(Int)), NEW k \in Nat,
         NEW j \in Nat, Opened(f, s, k, j), j < Len(s[k + 1]),
         NEW g, g = [f EXCEPT ![Len(f)] = Append(@, s[k + 1][j + 1])]
  PROVE  /\ g \in Seq(Seq(Int)) /\ Opened(g, s, k, j + 1)
         /\ j + 1 = Len(s[k + 1]) => HasFirst(g, s, k + 1)
<1> PICK e : e = s[k + 1]
  OBVIOUS
<1>1. /\ k < Len(s) /\ Len(f) = k + 1 /\ \A i \in 1..k : f[i] = s[i]
      /\ HasFirst(f[k + 1], e, j)
  BY DEF Opened
<1>2. e \in Seq(Int) /\ f[k + 1] \in Seq(Int)
  BY <1>1
<1> PICK h : h = Append(f[k + 1], e[j + 1])
  OBVIOUS
<1>3. h \in Seq(Int) /\ HasFirst(h, e, j + 1)
  BY <1>1, <1>2, AppendFirst
<1>4. g = [f EXCEPT ![k + 1] = h]
  BY <1>1
<1>5. /\ g \in Seq(Seq(Int)) /\ Len(g) = k + 1 /\ g[k + 1] = h
      /\ \A i \in 1..k : g[i] = f[i]
  <2>1. h \in Seq(Int) /\ Len(f) = k + 1 /\ f \in Seq(Seq(Int))
    BY <1>1, <1>3
  <2> QED BY ONLY SMT, <2>1, <1>4, k \in Nat
<1>6. \A i \in 1..k : g[i] = s[i]
  BY <1>1, <1>5
<1>7. Opened(g, s, k, j + 1)
  BY Zenon, <1>1, <1>3, <1>5, <1>6 DEF Opened
<1>8. ASSUME j + 1 = Len(e) PROVE HasFirst(g, s, k + 1)
  <2>1. h = e
    BY <1>2, <1>3, <1>8, AllFirst
  <2>2. \A i \in 1..k + 1 : i = k + 1 \/ i \in 1..k
    OBVIOUS
  <2>3. \A i \in 1..k + 1 : g[i] = s[i]
    BY Zenon, <1>5, <1>6, <2>1, <2>2
  <2>4. k + 1 <= Len(s)
    BY <1>1
  <2> QED BY <1>5, <2>3, <2>4 DEF HasFirst
<1> QED BY <1>5, <1>7, <1>8

\* The next number of the file is taken, and the position is that behind it.
Advances(d, R) ==
  \E y \in Int, S \in Seq(Int) :
    /\ R = <<y>> \o S
    /\ Take(y) => Position(reading', loaded', size', left', d, S)

\* The header is read: the next read is that of the number of cells.
LEMMA HeaderAdvances ==
  ASSUME NEW d, IsDictionary(d), NEW R, AtHeader(reading, loaded, d, R)
  PROVE  Advances(d, R)
<1> PICK y : y = d.header
  OBVIOUS
<1> PICK S : S = <<Len(d.cells)>> \o (d.cells \o Remainder(d))
  OBVIOUS
<1>1. /\ reading = "header" /\ loaded = Empty /\ R = <<y>> \o S
      /\ y \in Int /\ S \in Seq(Int)
  BY Layout, PartsType DEF AtHeader
<1>2. ASSUME Take(y) PROVE Position(reading', loaded', size', left', d, S)
  <2>1. reading' = "size" /\ loaded' = [Empty EXCEPT !.header = y]
    BY <1>1, <1>2 DEF Take, Becomes
  <2>2. InCells(loaded', d) /\ loaded'.cells = <<>>
    <3>1. loaded' = [header |-> y, cells |-> <<>>, tail |-> <<>>, data |-> <<>>]
      BY <1>1, <2>1 DEF Empty
    <3>2. <<>> \in Seq(Int) /\ <<>> \in Seq(Seq(Int))
      OBVIOUS
    <3>3. loaded' \in Built
      BY Zenon, <1>1, <3>1, <3>2 DEF Built
    <3> QED BY <3>1, <3>3 DEF InCells
  <2>3. AtSize(reading', loaded', d, S)
    BY <2>1, <2>2 DEF AtSize
  <2> QED BY <2>3 DEF Position
<1> QED BY <1>1, <1>2 DEF Advances

\* The number of cells is read: the next read is that of the first cell, or
\* what follows the cells.
LEMMA SizeAdvances ==
  ASSUME NEW d, IsDictionary(d), NEW R, AtSize(reading, loaded, d, R)
  PROVE  Advances(d, R)
<1> PICK y : y = Len(d.cells)
  OBVIOUS
<1> PICK S : S = d.cells \o Remainder(d)
  OBVIOUS
<1>1. /\ reading = "size" /\ InCells(loaded, d) /\ loaded.cells = <<>>
      /\ R = <<y>> \o S /\ y \in Int /\ S \in Seq(Int) /\ y > 0
      /\ d.cells \in Seq(Int)
  BY Layout, PartsType DEF AtSize, IsDictionary
<1>2. ASSUME Take(y) PROVE Position(reading', loaded', size', left', d, S)
  <2>1. reading' = "cell" /\ loaded' = loaded /\ size' = y
    BY <1>1, <1>2 DEF Take, Becomes
  <2>2. HasFirst(loaded.cells, d.cells, 0)
    BY <1>1 DEF HasFirst
  <2>3. From(d.cells, 0) = d.cells
    BY <1>1, FromEnds
  <2>4. 0 < Len(d.cells) /\ 0 \in Nat
    BY <1>1
  <2>5. AtCell(reading', loaded', size', d, S)
    BY Zenon, <1>1, <2>1, <2>2, <2>3, <2>4 DEF AtCell
  <2> QED BY <2>5 DEF Position
<1> QED BY <1>1, <1>2 DEF Advances

\* A cell is read: the next one follows, or what follows the cells.
LEMMA CellAdvances ==
  ASSUME NEW d, IsDictionary(d), NEW R, AtCell(reading, loaded, size, d, R)
  PROVE  Advances(d, R)
<1>1. /\ reading = "cell" /\ InCells(loaded, d) /\ size = Len(d.cells)
      /\ d.cells \in Seq(Int) /\ Remainder(d) \in Seq(Int)
  BY PartsType DEF AtCell
<1>2. PICK k \in Nat : /\ k < Len(d.cells) /\ HasFirst(loaded.cells, d.cells, k)
                       /\ R = From(d.cells, k) \o Remainder(d)
  BY DEF AtCell
<1> PICK y : y = d.cells[k + 1]
  OBVIOUS
<1> PICK S : S = From(d.cells, k + 1) \o Remainder(d)
  OBVIOUS
<1>3. y \in Int /\ S \in Seq(Int) /\ R = <<y>> \o S
  <2>1. /\ From(d.cells, k) = <<y>> \o From(d.cells, k + 1)
        /\ From(d.cells, k + 1) \in Seq(Int) /\ y \in Int
    BY <1>1, <1>2, FromNext
  <2>2. <<y>> \in Seq(Int) /\ S \in Seq(Int)
    BY <1>1, <2>1, ConcatProperties
  <2>3. Joined(<<y>>, From(d.cells, k + 1), Remainder(d))
    BY Zenon, <1>1, <2>1, <2>2, NumbersJoin
  <2> QED BY Zenon, <1>2, <2>1, <2>2, <2>3 DEF Joined
<1> PICK l : l = [loaded EXCEPT !.cells = Append(@, y)]
  OBVIOUS
<1>4. loaded.cells \in Seq(Int) /\ loaded \in Built
  BY <1>1 DEF InCells, Built
<1>5. /\ Append(loaded.cells, y) \in Seq(Int)
      /\ HasFirst(Append(loaded.cells, y), d.cells, k + 1)
  BY <1>1, <1>2, <1>4, AppendFirst
<1>6. InCells(l, d) /\ l.cells = Append(loaded.cells, y)
  BY <1>1, <1>4, <1>5 DEF InCells, Built
<1>7. ASSUME Take(y) PROVE Position(reading', loaded', size', left', d, S)
  <2>1. /\ loaded' = l /\ size' = size /\ left' = 0
        /\ reading' = IF Len(l.cells) < size THEN "cell" ELSE AfterCells(l)
    BY <1>1, <1>7 DEF Take, Becomes
  <2>2. Len(l.cells) = k + 1 /\ k + 1 \in Nat
        /\ HasFirst(l.cells, d.cells, k + 1)
    BY <1>5, <1>6 DEF HasFirst
  <2>3. CASE k + 1 < Len(d.cells)
    <3>1. reading' = "cell"
      BY <1>1, <2>1, <2>2, <2>3
    <3>2. AtCell("cell", l, size, d, S)
      BY Zenon, <1>1, <1>6, <2>2, <2>3 DEF AtCell
    <3> QED BY <2>1, <3>1, <3>2 DEF Position
  <2>4. CASE ~(k + 1 < Len(d.cells))
    <3>1. k + 1 = Len(d.cells)
      BY <1>1, <1>2, <2>4
    <3>2. reading' = AfterCells(l)
      BY <1>1, <2>1, <2>2, <2>4
    <3>3. l.cells = d.cells
      BY <1>1, <1>5, <1>6, <3>1, AllFirst
    <3>4. InTail(l, d) /\ l.tail = <<>>
      BY <1>6, <3>3 DEF InCells, InTail
    <3>5. S = Remainder(d)
      <4>1. From(d.cells, k + 1) = <<>>
        BY <1>1, <3>1, FromEnds
      <4> QED BY <1>1, <4>1, ConcatEmptySeq
    <3>6. Position(AfterCells(l), l, size, 0, d, Remainder(d))
      BY <3>4, AtAfterCells
    <3> QED BY <2>1, <3>2, <3>5, <3>6
  <2> QED BY <2>3, <2>4
<1> QED BY <1>3, <1>7 DEF Advances

\* The number of tail entries is read: the first of them follows, or the data.
LEMMA TailSizeAdvances ==
  ASSUME NEW d, IsDictionary(d), NEW R, AtTailSize(reading, loaded, d, R)
  PROVE  Advances(d, R)
<1>1. /\ reading = "tailSize" /\ InTail(loaded, d) /\ loaded.tail = <<>>
      /\ HasTail(d.header) /\ R = Remainder(d)
      /\ d.tail \in Seq(Seq(Int)) /\ Len(d.tail) \in Nat
      /\ Entries(d.tail) \in Seq(Int) /\ Entries(d.data) \in Seq(Int)
  BY PartsType DEF AtTailSize
<1> PICK y : y = Len(d.tail) + 1
  OBVIOUS
<1> PICK S : S = Entries(d.tail) \o Entries(d.data)
  OBVIOUS
<1>2. y \in Int /\ S \in Seq(Int) /\ R = <<y>> \o S
  <2>1. y \in Int /\ <<y>> \in Seq(Int) /\ S \in Seq(Int)
    BY <1>1, ConcatProperties
  <2>2. Joined(<<y>>, Entries(d.tail), Entries(d.data))
    BY Zenon, <1>1, <2>1, NumbersJoin
  <2>3. TailPart(d) = <<y>> \o Entries(d.tail)
    BY Zenon, <1>1 DEF TailPart
  <2> QED BY Zenon, <1>1, <2>1, <2>2, <2>3 DEF Joined, Remainder
<1>3. ASSUME Take(y) PROVE Position(reading', loaded', size', left', d, S)
  <2>1. /\ loaded' = loaded /\ size' = y /\ left' = 0
        /\ reading' = NextTail(loaded, y)
    BY <1>1, <1>3 DEF Take, Becomes
  <2>2. HasFirst(loaded.tail, d.tail, 0)
    BY <1>1 DEF HasFirst
  <2>3. From(d.tail, 0) = d.tail
    BY <1>1, FromEnds
  <2>4. Position(NextTail(loaded, y), loaded, y, 0, d,
                 Entries(From(d.tail, 0)) \o Entries(d.data))
    BY <1>1, <2>2, AtNextTail
  <2> QED BY <2>1, <2>3, <2>4
<1> QED BY <1>2, <1>3 DEF Advances

\* An entry whose length is the next number: what follows it.
LEMMA LengthFirst ==
  ASSUME NEW s \in Seq(Seq(Int)), NEW k \in Nat, k < Len(s), NEW t \in Seq(Int)
  PROVE  /\ Entries(From(s, k)) \o t
              = <<Len(s[k + 1])>> \o
                  (s[k + 1] \o (Entries(From(s, k + 1)) \o t))
         /\ Entries(From(s, k + 1)) \o t \in Seq(Int)
         /\ s[k + 1] \o (Entries(From(s, k + 1)) \o t) \in Seq(Int)
         /\ s[k + 1] \in Seq(Int) /\ Len(s[k + 1]) \in Nat
         /\ Entries(From(s, k + 1)) \in Seq(Int)
<1> DEFINE e == s[k + 1]
           r == Entries(From(s, k + 1))
<1>1. Entries(From(s, k)) = <<Len(e)>> \o (e \o r)
      /\ e \in Seq(Int) /\ r \in Seq(Int)
  BY EntriesFrom
<1> HIDE DEF e, r
<1>2. \A x, y \in Seq(Int) : x \o y \in Seq(Int)
  BY ConcatProperties
<1>3. Len(e) \in Nat /\ <<Len(e)>> \in Seq(Int)
  BY <1>1
<1>4. Joined(<<Len(e)>>, e \o r, t) /\ Joined(e, r, t)
  <2>1. e \o r \in Seq(Int)
    BY Zenon, <1>1, <1>2
  <2> QED BY Zenon, <1>1, <1>3, <2>1, NumbersJoin
<1>5. (<<Len(e)>> \o (e \o r)) \o t = <<Len(e)>> \o (e \o (r \o t))
  BY Zenon, <1>4 DEF Joined
<1>6. r \o t \in Seq(Int) /\ e \o (r \o t) \in Seq(Int)
  BY Zenon, <1>1, <1>2
<1> QED BY Zenon, <1>1, <1>3, <1>5, <1>6 DEF e, r

\* The next number of an entry.
LEMMA NumberFirst ==
  ASSUME NEW e \in Seq(Int), NEW j \in Nat, j < Len(e), NEW t \in Seq(Int)
  PROVE  /\ From(e, j) \o t = <<e[j + 1]>> \o (From(e, j + 1) \o t)
         /\ e[j + 1] \in Int /\ From(e, j + 1) \o t \in Seq(Int)
<1>1. /\ From(e, j) = <<e[j + 1]>> \o From(e, j + 1)
      /\ From(e, j + 1) \in Seq(Int) /\ e[j + 1] \in Int
  BY FromNext
<1>2. From(e, j + 1) \o t \in Seq(Int) /\ <<e[j + 1]>> \in Seq(Int)
  BY <1>1, ConcatProperties
<1>3. Joined(<<e[j + 1]>>, From(e, j + 1), t)
  BY Zenon, <1>1, <1>2, NumbersJoin
<1> QED BY Zenon, <1>1, <1>2, <1>3 DEF Joined

\* The length of a tail entry is read: its first character follows, or the
\* next entry when it has none.
LEMMA TailLengthAdvances ==
  ASSUME NEW d, IsDictionary(d), NEW R,
         AtTailLength(reading, loaded, size, d, R)
  PROVE  Advances(d, R)
<1>1. /\ reading = "tailLength" /\ InTail(loaded, d) /\ size = Len(d.tail) + 1
      /\ d.tail \in Seq(Seq(Int)) /\ Entries(d.data) \in Seq(Int)
  BY PartsType DEF AtTailLength
<1>2. PICK k \in Nat : /\ k < Len(d.tail) /\ HasFirst(loaded.tail, d.tail, k)
                       /\ R = Entries(From(d.tail, k)) \o Entries(d.data)
  BY DEF AtTailLength
<1> DEFINE e == d.tail[k + 1]
           T == Entries(From(d.tail, k + 1)) \o Entries(d.data)
           l == [loaded EXCEPT !.tail = Append(@, <<>>)]
<1>3. /\ R = <<Len(e)>> \o (e \o T) /\ e \o T \in Seq(Int) /\ T \in Seq(Int)
      /\ e \in Seq(Int) /\ Len(e) \in Nat
  BY <1>1, <1>2, LengthFirst
<1>4. loaded.tail \in Seq(Seq(Int)) /\ loaded \in Built
  BY <1>1 DEF InTail, Built
<1>5. /\ Append(loaded.tail, <<>>) \in Seq(Seq(Int))
      /\ Opened(Append(loaded.tail, <<>>), d.tail, k, 0)
      /\ e = <<>> => HasFirst(Append(loaded.tail, <<>>), d.tail, k + 1)
  BY <1>1, <1>2, <1>4, OpenEntry
<1>6. InTail(l, d) /\ l.tail = Append(loaded.tail, <<>>)
  BY <1>1, <1>4, <1>5 DEF InTail, Built
<1>7. ASSUME Take(Len(e))
      PROVE  Position(reading', loaded', size', left', d, e \o T)
  <2>1. /\ loaded' = l /\ size' = size /\ left' = Len(e)
        /\ reading' = IF Len(e) > 0 THEN "tailChar" ELSE NextTail(l, size)
    BY <1>1, <1>7 DEF Take, Becomes
  <2> HIDE DEF l, T
  <2>2. CASE Len(e) > 0
    <3>1. From(e, 0) = e
      BY <1>3, FromEnds
    <3>2. Len(e) = Len(e) - 0
      BY <1>3
    <3>3. AtTailChar("tailChar", l, size, Len(e), d, e \o T)
      <4>1. 0 \in Nat
        OBVIOUS
      <4> QED BY Zenon, <1>1, <1>5, <1>6, <2>2, <3>1, <3>2, <4>1
              DEF AtTailChar, T
    <3> QED BY <2>1, <2>2, <3>3 DEF Position
  <2>3. CASE ~(Len(e) > 0)
    <3>1. e = <<>>
      BY <1>3, <2>3, EmptySeq
    <3>2. e \o T = T
      BY <1>3, <3>1, ConcatEmptySeq
    <3>3. HasFirst(l.tail, d.tail, k + 1) /\ k + 1 \in Nat
      BY <1>5, <1>6, <3>1
    <3>4. Position(NextTail(l, size), l, size, left', d, T)
      BY <1>1, <1>6, <3>3, AtNextTail DEF T
    <3> QED BY <2>1, <2>3, <3>2, <3>4
  <2> QED BY <2>2, <2>3
<1> PICK S \in Seq(Int) : S = e \o T
  BY Zenon, <1>3
<1> HIDE DEF e
<1> PICK y \in Int : y = Len(e)
  BY <1>3
<1>8. R = <<y>> \o S
  BY Zenon, <1>3
<1>9. Take(y) => Position(reading', loaded', size', left', d, S)
  BY Zenon, <1>7
<1> QED BY Zenon, <1>8, <1>9 DEF Advances

\* A character of a tail entry is read: the next one follows, or the next
\* entry.
LEMMA TailCharAdvances ==
  ASSUME NEW d, IsDictionary(d), NEW R,
         AtTailChar(reading, loaded, size, left, d, R)
  PROVE  Advances(d, R)
<1>1. /\ reading = "tailChar" /\ InTail(loaded, d) /\ size = Len(d.tail) + 1
      /\ d.tail \in Seq(Seq(Int)) /\ Entries(d.data) \in Seq(Int)
  BY PartsType DEF AtTailChar
<1>2. PICK k \in Nat, j \in Nat :
        /\ Opened(loaded.tail, d.tail, k, j)
        /\ left = Len(d.tail[k + 1]) - j /\ left > 0
        /\ R = From(d.tail[k + 1], j)
                 \o (Entries(From(d.tail, k + 1)) \o Entries(d.data))
  BY DEF AtTailChar
<1> DEFINE e == d.tail[k + 1]
           T == Entries(From(d.tail, k + 1)) \o Entries(d.data)
           y == e[j + 1]
           g == [loaded.tail EXCEPT ![Len(loaded.tail)] = Append(@, y)]
           l == [loaded EXCEPT !.tail = g]
           S == From(e, j + 1) \o T
<1>3. k < Len(d.tail)
  BY <1>2 DEF Opened
<1>4. /\ T \in Seq(Int) /\ e \in Seq(Int) /\ Len(e) \in Nat
  BY <1>1, <1>3, LengthFirst
<1>5. j < Len(e)
  BY <1>2, <1>4
<1>6. R = <<y>> \o S /\ S \in Seq(Int) /\ y \in Int
  <2> HIDE DEF T
  <2>1. /\ From(e, j) \o T = <<y>> \o (From(e, j + 1) \o T)
        /\ y \in Int /\ From(e, j + 1) \o T \in Seq(Int)
    BY <1>4, <1>5, NumberFirst
  <2> QED BY <1>2, <2>1 DEF T
<1>7. loaded.tail \in Seq(Seq(Int)) /\ loaded \in Built
  BY <1>1 DEF InTail, Built
<1>8. /\ g \in Seq(Seq(Int)) /\ Opened(g, d.tail, k, j + 1)
      /\ j + 1 = Len(e) => HasFirst(g, d.tail, k + 1)
  BY <1>1, <1>2, <1>5, <1>7, FillEntry
<1>9. InTail(l, d) /\ l.tail = g
  BY <1>1, <1>7, <1>8 DEF InTail, Built
<1>10. ASSUME Take(y)
       PROVE  Position(reading', loaded', size', left', d, S)
  <2>1. /\ loaded' = l /\ size' = size /\ left' = left - 1
        /\ reading' = IF left > 1 THEN "tailChar" ELSE NextTail(l, size)
    BY <1>1, <1>10 DEF Take, Becomes
  <2> HIDE DEF l, T, g, S
  <2>2. CASE left > 1
    <3>1. left - 1 = Len(e) - (j + 1) /\ left - 1 > 0 /\ j + 1 \in Nat
      BY <1>2, <1>4, <2>2
    <3>2. AtTailChar("tailChar", l, size, left - 1, d, S)
      BY Zenon, <1>1, <1>8, <1>9, <3>1 DEF AtTailChar, S, T
    <3> QED BY <2>1, <2>2, <3>2 DEF Position
  <2>3. CASE ~(left > 1)
    <3>1. j + 1 = Len(e)
      BY <1>2, <1>4, <2>3
    <3>2. S = T
      <4>1. From(e, Len(e)) = <<>>
        BY <1>4, FromEnds
      <4>2. <<>> \o T = T
        BY <1>4, ConcatEmptySeq
      <4> QED BY Zenon, <3>1, <4>1, <4>2 DEF S
    <3>3. HasFirst(l.tail, d.tail, k + 1) /\ k + 1 \in Nat
      BY <1>8, <1>9, <3>1
    <3>4. Position(NextTail(l, size), l, size, left', d, T)
      BY <1>1, <1>9, <3>3, AtNextTail DEF T
    <3> QED BY <2>1, <2>3, <3>2, <3>4
  <2> QED BY <2>2, <2>3
<1> HIDE DEF S
<1> QED BY <1>6, <1>10 DEF Advances

\* The size of an entry of user data is read: its first byte follows, or the
\* next entry when it has none.
LEMMA DataSizeAdvances ==
  ASSUME NEW d, IsDictionary(d), NEW R, AtDataSize(reading, loaded, d, R)
  PROVE  Advances(d, R)
<1>1. /\ reading = "dataSize" /\ InData(loaded, d) /\ d.data \in Seq(Seq(Int))
  BY PartsType DEF AtDataSize
<1>2. PICK k \in Nat : /\ k < Len(d.data) /\ HasFirst(loaded.data, d.data, k)
                       /\ R = Entries(From(d.data, k))
  BY DEF AtDataSize
<1> DEFINE e == d.data[k + 1]
           T == Entries(From(d.data, k + 1))
           l == [loaded EXCEPT !.data = Append(@, <<>>)]
<1>3. /\ R = <<Len(e)>> \o (e \o T) /\ T \in Seq(Int)
      /\ e \in Seq(Int) /\ Len(e) \in Nat /\ e \o T \in Seq(Int)
  <2>1. /\ R = <<Len(e)>> \o (e \o T) /\ T \in Seq(Int) /\ e \in Seq(Int)
    BY <1>1, <1>2, EntriesFrom
  <2> HIDE DEF T
  <2> QED BY <2>1, ConcatProperties
<1>4. loaded.data \in Seq(Seq(Int)) /\ loaded \in Built
  BY <1>1 DEF InData, Built
<1>5. /\ Append(loaded.data, <<>>) \in Seq(Seq(Int))
      /\ Opened(Append(loaded.data, <<>>), d.data, k, 0)
      /\ e = <<>> => HasFirst(Append(loaded.data, <<>>), d.data, k + 1)
  BY <1>1, <1>2, <1>4, OpenEntry
<1>6. InData(l, d) /\ l.data = Append(loaded.data, <<>>)
  BY <1>1, <1>4, <1>5 DEF InData, Built
<1>7. ASSUME Take(Len(e))
      PROVE  Position(reading', loaded', size', left', d, e \o T)
  <2>1. /\ loaded' = l /\ size' = size /\ left' = Len(e)
        /\ reading' = IF Len(e) > 0 THEN "dataByte" ELSE NextData(l)
    BY <1>1, <1>7 DEF Take, Becomes
  <2> HIDE DEF l, T
  <2>2. CASE Len(e) > 0
    <3>1. From(e, 0) = e
      BY <1>3, FromEnds
    <3>2. Len(e) = Len(e) - 0
      BY <1>3
    <3>3. AtDataByte("dataByte", l, Len(e), d, e \o T)
      <4>1. 0 \in Nat
        OBVIOUS
      <4> QED BY Zenon, <1>1, <1>5, <1>6, <2>2, <3>1, <3>2, <4>1
              DEF AtDataByte, T
    <3> QED BY <2>1, <2>2, <3>3 DEF Position
  <2>3. CASE ~(Len(e) > 0)
    <3>1. e = <<>>
      BY <1>3, <2>3, EmptySeq
    <3>2. e \o T = T
      BY <1>3, <3>1, ConcatEmptySeq
    <3>3. HasFirst(l.data, d.data, k + 1) /\ k + 1 \in Nat
      BY <1>5, <1>6, <3>1
    <3>4. Position(NextData(l), l, size', left', d, T)
      BY <1>6, <3>3, AtNextData DEF T
    <3> QED BY <2>1, <2>3, <3>2, <3>4
  <2> QED BY <2>2, <2>3
<1> PICK S \in Seq(Int) : S = e \o T
  BY Zenon, <1>3
<1> HIDE DEF e
<1> PICK y \in Int : y = Len(e)
  BY <1>3
<1>8. R = <<y>> \o S
  BY Zenon, <1>3
<1>9. Take(y) => Position(reading', loaded', size', left', d, S)
  BY Zenon, <1>7
<1> QED BY Zenon, <1>8, <1>9 DEF Advances

\* A byte of user data is read: the next one follows, or the next entry.
LEMMA DataByteAdvances ==
  ASSUME NEW d, IsDictionary(d), NEW R, AtDataByte(reading, loaded, left, d, R)
  PROVE  Advances(d, R)
<1>1. /\ reading = "dataByte" /\ InData(loaded, d) /\ d.data \in Seq(Seq(Int))
  BY PartsType DEF AtDataByte
<1>2. PICK k \in Nat, j \in Nat :
        /\ Opened(loaded.data, d.data, k, j)
        /\ left = Len(d.data[k + 1]) - j /\ left > 0
        /\ R = From(d.data[k + 1], j) \o Entries(From(d.data, k + 1))
  BY DEF AtDataByte
<1> DEFINE e == d.data[k + 1]
           T == Entries(From(d.data, k + 1))
           y == e[j + 1]
           g == [loaded.data EXCEPT ![Len(loaded.data)] = Append(@, y)]
           l == [loaded EXCEPT !.data = g]
           S == From(e, j + 1) \o T
<1>3. k < Len(d.data)
  BY <1>2 DEF Opened
<1>4. /\ T \in Seq(Int) /\ e \in Seq(Int) /\ Len(e) \in Nat
  <2>1. T \in Seq(Int) /\ e \in Seq(Int)
    BY <1>1, <1>3, EntriesFrom
  <2> HIDE DEF T, e
  <2> QED BY <2>1, LenProperties
<1>5. j < Len(e)
  BY <1>2, <1>4
<1>6. R = <<y>> \o S /\ S \in Seq(Int) /\ y \in Int
  <2> HIDE DEF T
  <2>1. /\ From(e, j) \o T = <<y>> \o (From(e, j + 1) \o T)
        /\ y \in Int /\ From(e, j + 1) \o T \in Seq(Int)
    BY <1>4, <1>5, NumberFirst
  <2> QED BY <1>2, <2>1 DEF T
<1>7. loaded.data \in Seq(Seq(Int)) /\ loaded \in Built
  BY <1>1 DEF InData, Built
<1>8. /\ g \in Seq(Seq(Int)) /\ Opened(g, d.data, k, j + 1)
      /\ j + 1 = Len(e) => HasFirst(g, d.data, k + 1)
  BY <1>1, <1>2, <1>5, <1>7, FillEntry
<1>9. InData(l, d) /\ l.data = g
  BY <1>1, <1>7, <1>8 DEF InData, Built
<1>10. ASSUME Take(y)
       PROVE  Position(reading', loaded', size', left', d, S)
  <2>1. /\ loaded' = l /\ size' = size /\ left' = left - 1
        /\ reading' = IF left > 1 THEN "dataByte" ELSE NextData(l)
    BY <1>1, <1>10 DEF Take, Becomes
  <2> HIDE DEF l, T, g, S
  <2>2. CASE left > 1
    <3>1. left - 1 = Len(e) - (j + 1) /\ left - 1 > 0 /\ j + 1 \in Nat
      BY <1>2, <1>4, <2>2
    <3>2. AtDataByte("dataByte", l, left - 1, d, S)
      BY Zenon, <1>1, <1>8, <1>9, <3>1 DEF AtDataByte, S, T
    <3> QED BY <2>1, <2>2, <3>2 DEF Position
  <2>3. CASE ~(left > 1)
    <3>1. j + 1 = Len(e)
      BY <1>2, <1>4, <2>3
    <3>2. S = T
      <4>1. From(e, Len(e)) = <<>>
        BY <1>4, FromEnds
      <4>2. <<>> \o T = T
        BY <1>4, ConcatEmptySeq
      <4> QED BY Zenon, <3>1, <4>1, <4>2 DEF S
    <3>3. HasFirst(l.data, d.data, k + 1) /\ k + 1 \in Nat
      BY <1>8, <1>9, <3>1
    <3>4. Position(NextData(l), l, size', left', d, T)
      BY <1>9, <3>3, AtNextData DEF T
    <3> QED BY <2>1, <2>3, <3>2, <3>4
  <2> QED BY <2>2, <2>3
<1> HIDE DEF S
<1> QED BY <1>6, <1>10 DEF Advances

Places == {"header", "size", "cell", "tailSize", "tailLength", "tailChar",
           "dataSize", "dataByte"}

\* The types of the variables that the steps compute with.
FileTyped ==
  /\ file \in Seq(Int) /\ unwritten \in Seq(Int)
  /\ stores \in Nat /\ stores <= MaxStores
  /\ reading \in Idle \union Places
  /\ offset \in Nat /\ size \in Int /\ left \in Int
  /\ overtaken \in BOOLEAN

\* The file is the beginning of the contents of the dictionary stored last,
\* and what is still to be written is all the rest.
Writing(d) ==
  \E r \in Seq(Int) :
    file \o r = Contents(d) /\ (unwritten = <<>> \/ unwritten = r)

Written ==
  \/ /\ stores = 0 /\ latest = Empty /\ reading = "nothing"
     /\ file = <<>> /\ unwritten = <<>>
  \/ stores > 0 /\ latest \in Dictionaries /\ Writing(latest)

\* A load that no store has overtaken is somewhere in those contents, and
\* what it has read is what it has built.
Loading(d) ==
  \E p, R \in Seq(Int) :
    /\ p \o R = Contents(d) /\ Len(p) = offset
    /\ Position(reading, loaded, size, left, d, R)

FileInv ==
  /\ FileTyped /\ Written
  /\ ~overtaken /\ reading \notin Idle => Loading(latest)

\* What may be stored is a dictionary.
LEMMA DictionariesType ==
  \A d \in Dictionaries : IsDictionary(d)
BY FileAssumption DEF IsDictionary

\* What a store writes is a sequence of numbers.
LEMMA ContentsType ==
  ASSUME NEW d, IsDictionary(d)
  PROVE  Contents(d) \in Seq(Int)
<1>1. d.header \in Int
  BY PartsType
<1> PICK x \in Int : x = d.header
  BY <1>1
<1> PICK t : t = <<Len(d.cells)>> \o (d.cells \o Remainder(d))
  OBVIOUS
<1>2. t \in Seq(Int) /\ Contents(d) = <<x>> \o t
  BY Zenon, Layout
<1>3. <<x>> \o t \in Seq(Int)
  BY <1>2
<1> QED BY <1>2, <1>3

\* As long as file_load is not done, something lies ahead, and it goes on to
\* what lies behind that.
LEMMA PositionAdvances ==
  ASSUME NEW d, IsDictionary(d), NEW R, reading \notin Idle,
         Position(reading, loaded, size, left, d, R)
  PROVE  Advances(d, R)
<1>1. ~AtEnd(reading, loaded, d, R)
  BY DEF AtEnd, Idle
<1> QED BY <1>1, HeaderAdvances, SizeAdvances, CellAdvances, TailSizeAdvances,
           TailLengthAdvances, TailCharAdvances, DataSizeAdvances,
           DataByteAdvances DEF Position

\* At the end the dictionary is the one that was stored.
LEMMA EndIsWhole ==
  ASSUME NEW l, NEW sz, NEW lf, NEW d, NEW R,
         Position("loaded", l, sz, lf, d, R)
  PROVE  l = d
BY DEF Position, AtHeader, AtSize, AtCell, AtTailSize, AtTailLength,
       AtTailChar, AtDataSize, AtDataByte, AtEnd

\* What is read is the next number of the contents, however much of them has
\* been written.
LEMMA ReadsNext ==
  ASSUME NEW f \in Seq(Int), NEW r \in Seq(Int), NEW p \in Seq(Int),
         NEW y \in Int, NEW S \in Seq(Int), f \o r = p \o (<<y>> \o S),
         Len(p) < Len(f)
  PROVE  f[Len(p) + 1] = y
<1>1. (f \o r)[Len(p) + 1] = f[Len(p) + 1]
  OBVIOUS
<1>2. (p \o (<<y>> \o S))[Len(p) + 1] = y
  <2>1. /\ <<y>> \o S \in Seq(Int) /\ Len(<<y>> \o S) = 1 + Len(S)
        /\ (<<y>> \o S)[1] = y
    OBVIOUS
  <2> PICK t : t = <<y>> \o S
    OBVIOUS
  <2>2. t \in Seq(Int) /\ Len(t) = 1 + Len(S) /\ t[1] = y
    BY <2>1
  <2>3. (p \o t)[Len(p) + 1] = t[1]
    BY ONLY SMT, <2>2, p \in Seq(Int), S \in Seq(Int)
  <2> QED BY <2>2, <2>3
<1> QED BY <1>1, <1>2

\* One number more is behind.
LEMMA OneBehind ==
  ASSUME NEW p \in Seq(Int), NEW y \in Int, NEW S \in Seq(Int)
  PROVE  /\ p \o <<y>> \in Seq(Int) /\ Len(p \o <<y>>) = Len(p) + 1
         /\ (p \o <<y>>) \o S = p \o (<<y>> \o S)
<1>1. p \o <<y>> \in Seq(Int) /\ Len(p \o <<y>>) = Len(p) + 1
      /\ <<y>> \in Seq(Int)
  OBVIOUS
<1>2. Joined(p, <<y>>, S)
  BY Zenon, <1>1, NumbersJoin
<1> QED BY Zenon, <1>1, <1>2 DEF Joined

\* safeRead of a load that no store has overtaken.
LEMMA SafeReadGoesOn ==
  ASSUME NEW d, IsDictionary(d), FileTyped, Writing(d), Loading(d), SafeRead
  PROVE  Loading(d)'
<1>1. /\ reading \notin Idle /\ offset < Len(file)
      /\ Take(file[offset + 1]) /\ offset' = offset + 1
  BY DEF SafeRead
<1>2. PICK r \in Seq(Int) : file \o r = Contents(d)
  BY DEF Writing
<1>3. PICK p \in Seq(Int), R \in Seq(Int) :
        /\ p \o R = Contents(d) /\ Len(p) = offset
        /\ Position(reading, loaded, size, left, d, R)
  BY DEF Loading
<1>4. PICK y \in Int, S \in Seq(Int) :
        /\ R = <<y>> \o S
        /\ Take(y) => Position(reading', loaded', size', left', d, S)
  BY <1>1, <1>3, PositionAdvances DEF Advances
<1>5. file \in Seq(Int)
  BY DEF FileTyped
<1>6. file[Len(p) + 1] = y
  <2>1. file \o r = p \o (<<y>> \o S)
    BY Zenon, <1>2, <1>3, <1>4
  <2>2. Len(p) < Len(file)
    BY <1>1, <1>3
  <2> QED BY Zenon, <1>5, <2>1, <2>2, ReadsNext
<1>7. Position(reading', loaded', size', left', d, S)
  BY Zenon, <1>1, <1>3, <1>4, <1>6
<1>8. /\ p \o <<y>> \in Seq(Int) /\ Len(p \o <<y>>) = offset'
      /\ (p \o <<y>>) \o S = Contents(d)
  BY <1>1, <1>3, <1>4, OneBehind
<1> QED BY Zenon, <1>7, <1>8 DEF Loading

\* The types of what safeRead computes.
LEMMA TakeType ==
  ASSUME NEW t \in Int, size \in Int, left \in Int, Take(t)
  PROVE  size' \in Int /\ left' \in Int /\ reading' \in Idle \union Places
<1>1. \A l : NextData(l) \in {"dataSize", "loaded"}
  BY DEF NextData
<1>2. \A l, n : NextTail(l, n) \in {"tailLength", "dataSize", "loaded"}
  BY <1>1 DEF NextTail
<1>3. \A l : AfterCells(l) \in {"tailSize", "dataSize", "loaded"}
  BY <1>1 DEF AfterCells
<1> DEFINE Next8 == Idle \union Places
<1>4. /\ \A l : NextData(l) \in Next8 /\ AfterCells(l) \in Next8
      /\ \A l, n : NextTail(l, n) \in Next8
      /\ Places \subseteq Next8
  BY Zenon, <1>1, <1>2, <1>3 DEF Idle, Places
<1>5. /\ "size" \in Next8 /\ "cell" \in Next8 /\ "tailChar" \in Next8
      /\ "dataByte" \in Next8
  BY DEF Places
<1> HIDE DEF Next8
<1>6. 0 \in Int /\ left - 1 \in Int
  OBVIOUS
<1>7. size' \in Int /\ left' \in Int
  BY Zenon, <1>6 DEF Take, Becomes
<1>8. reading' \in Next8
  BY Zenon, <1>4, <1>5 DEF Take, Becomes
<1> QED BY <1>7, <1>8 DEF Next8

\* The invariant holds of an empty disk.
LEMMA InitFile ==
  FileInit => FileInv
<1> SUFFICES ASSUME FileInit PROVE FileInv
  OBVIOUS
<1>1. MaxStores \in Nat
  BY FileAssumption
<1>2. <<>> \in Seq(Int) /\ 0 \in Nat /\ 0 \in Int /\ 0 <= MaxStores
  BY <1>1
<1>3. FileTyped
  BY Zenon, <1>2 DEF FileInit, FileTyped, Idle
<1>4. Written /\ reading \in Idle
  BY Zenon DEF FileInit, Written, Idle
<1> QED BY Zenon, <1>3, <1>4 DEF FileInv

\* A store that begins has all of its dictionary before it.
LEMMA BeginStoreKeeps ==
  ASSUME FileInv, NEW d \in Dictionaries, BeginStore(d)
  PROVE  FileInv'
<1>1. /\ unwritten = <<>> /\ stores < MaxStores /\ stores' = stores + 1
      /\ file' = <<>> /\ latest' = d /\ unwritten' = Contents(d)
      /\ overtaken' = (overtaken \/ reading \notin Idle)
      /\ reading' = reading /\ offset' = offset /\ size' = size
      /\ left' = left /\ loaded' = loaded
  BY DEF BeginStore, loader
<1>2. Contents(d) \in Seq(Int)
  BY DictionariesType, ContentsType
<1>3. FileTyped'
  <2>1. overtaken' \in BOOLEAN
    BY Zenon, <1>1
  <2>2. MaxStores \in Nat
    BY FileAssumption
  <2> QED BY <1>1, <1>2, <2>1, <2>2 DEF FileInv, FileTyped
<1>4. Writing(d)'
  <2>1. <<>> \o Contents(d) = Contents(d)
    BY <1>2, ConcatEmptySeq
  <2> QED BY Zenon, <1>1, <1>2, <2>1 DEF Writing
<1>5. Written'
  <2>1. stores' > 0
    BY <1>1 DEF FileInv, FileTyped
  <2>2. Writing(latest)'
    BY Zenon, <1>1, <1>4 DEF Writing
  <2> QED BY Zenon, <1>1, <2>1, <2>2 DEF Written
<1>6. ~overtaken' => reading' \in Idle
  BY Zenon, <1>1
<1> QED BY Zenon, <1>3, <1>5, <1>6 DEF FileInv

\* A flush moves what is written from the buffer to the file.
LEMMA FlushKeeps ==
  ASSUME FileInv, NEW n \in 1..Len(unwritten), Flush(n)
  PROVE  FileInv'
<1> DEFINE a == SubSeq(unwritten, 1, n)
           b == SubSeq(unwritten, n + 1, Len(unwritten))
<1>1. /\ file' = file \o a /\ unwritten' = b
      /\ latest' = latest /\ stores' = stores /\ overtaken' = overtaken
      /\ reading' = reading /\ offset' = offset /\ size' = size
      /\ left' = left /\ loaded' = loaded
  BY DEF Flush, loader
<1>2. file \in Seq(Int) /\ unwritten \in Seq(Int) /\ unwritten # <<>>
  <2>1. file \in Seq(Int) /\ unwritten \in Seq(Int)
    BY DEF FileInv, FileTyped
  <2>2. unwritten # <<>>
    BY <2>1
  <2> QED BY <2>1, <2>2
<1>3. a \in Seq(Int) /\ b \in Seq(Int) /\ a \o b = unwritten
  <2>1. \A i \in 1..n : unwritten[i] \in Int
    BY <1>2
  <2>2. \A i \in n + 1..Len(unwritten) : unwritten[i] \in Int
    BY <1>2
  <2>3. a \in Seq(Int) /\ b \in Seq(Int)
    BY <2>1, <2>2, SubSeqProperties
  <2>4. a \o b = SubSeq(unwritten, 1, Len(unwritten))
    <3>1. 1 \in 1..Len(unwritten) + 1 /\ n \in 1 - 1..Len(unwritten)
          /\ Len(unwritten) \in n..Len(unwritten)
      BY <1>2
    <3> QED BY <1>2, <3>1, ConcatAdjacentSubSeq
  <2> QED BY <1>2, <2>3, <2>4, SubSeqFull
<1> HIDE DEF a, b
<1>4. file \o a \in Seq(Int)
  BY <1>2, <1>3, ConcatProperties
<1>5. FileTyped'
  BY <1>1, <1>3, <1>4 DEF FileInv, FileTyped
<1>6. stores > 0 /\ latest \in Dictionaries /\ Writing(latest)
  BY <1>2 DEF FileInv, Written
<1>7. Writing(latest)'
  <2>1. PICK r \in Seq(Int) :
          file \o r = Contents(latest) /\ (unwritten = <<>> \/ unwritten = r)
    BY Zenon, <1>6 DEF Writing
  <2>2. file \o (a \o b) = Contents(latest)
    BY Zenon, <1>2, <1>3, <2>1
  <2>3. Joined(file, a, b)
    BY Zenon, <1>2, <1>3, NumbersJoin
  <2>4. file' \o b = Contents(latest')
    BY Zenon, <1>1, <2>2, <2>3 DEF Joined
  <2> QED BY Zenon, <1>1, <1>3, <2>4 DEF Writing
<1>8. Written'
  BY Zenon, <1>1, <1>6, <1>7 DEF Written
<1>9. ~overtaken' /\ reading' \notin Idle => Loading(latest)'
  BY Zenon, <1>1 DEF FileInv, Loading
<1> QED BY Zenon, <1>5, <1>8, <1>9 DEF FileInv

\* A crash loses what was not flushed, and ends the store.
LEMMA CrashKeeps ==
  FileInv /\ Crash => FileInv'
<1> SUFFICES ASSUME FileInv, Crash PROVE FileInv'
  OBVIOUS
<1>1. /\ unwritten # <<>> /\ unwritten' = <<>> /\ file' = file
      /\ latest' = latest /\ stores' = stores /\ overtaken' = overtaken
      /\ reading' = reading /\ offset' = offset /\ size' = size
      /\ left' = left /\ loaded' = loaded
  BY DEF Crash, loader
<1>2. <<>> \in Seq(Int)
  OBVIOUS
<1>3. FileTyped'
  BY Zenon, <1>1, <1>2 DEF FileInv, FileTyped
<1>4. stores > 0 /\ latest \in Dictionaries /\ Writing(latest)
  BY <1>1 DEF FileInv, Written
<1>5. Writing(latest)'
  BY Zenon, <1>1, <1>4 DEF Writing
<1>6. Written'
  BY Zenon, <1>1, <1>4, <1>5 DEF Written
<1>7. ~overtaken' /\ reading' \notin Idle => Loading(latest)'
  BY Zenon, <1>1 DEF FileInv, Loading
<1> QED BY Zenon, <1>3, <1>6, <1>7 DEF FileInv

\* The load leaves the writer alone.
LEMMA LoadLeaves ==
  ASSUME Written, stores > 0, stores \in Nat,
         file' = file, latest' = latest, unwritten' = unwritten,
         stores' = stores
  PROVE  Written' /\ latest \in Dictionaries /\ Writing(latest)
<1>1. latest \in Dictionaries /\ Writing(latest)
  BY DEF Written
<1>2. Writing(latest)'
  BY Zenon, <1>1 DEF Writing
<1> QED BY Zenon, <1>1, <1>2 DEF Written

\* A load that begins has the whole file before it.
LEMMA BeginLoadKeeps ==
  FileInv /\ BeginLoad => FileInv'
<1> SUFFICES ASSUME FileInv, BeginLoad PROVE FileInv'
  OBVIOUS
<1>1. /\ stores > 0 /\ reading' = "header" /\ offset' = 0 /\ size' = 0
      /\ left' = 0 /\ loaded' = Empty /\ overtaken' = FALSE /\ file' = file
      /\ latest' = latest /\ unwritten' = unwritten /\ stores' = stores
  BY DEF BeginLoad, writer
<1>2. FileTyped'
  <2>1. 0 \in Nat /\ 0 \in Int
    OBVIOUS
  <2> QED BY Zenon, <1>1, <2>1 DEF FileInv, FileTyped, Places
<1>3. Written' /\ latest \in Dictionaries
  BY <1>1, LoadLeaves DEF FileInv, FileTyped
<1>4. Loading(latest)'
  <2>1. Contents(latest) \in Seq(Int)
    BY <1>3, DictionariesType, ContentsType
  <2>2. <<>> \in Seq(Int) /\ Len(<<>>) = 0
    OBVIOUS
  <2>3. <<>> \o Contents(latest) = Contents(latest)
    BY <2>1, ConcatEmptySeq
  <2>4. AtHeader(reading', loaded', latest, Contents(latest))
    BY Zenon, <1>1 DEF AtHeader
  <2>5. Position(reading', loaded', size', left', latest, Contents(latest))
    BY Zenon, <2>4 DEF Position
  <2> QED BY Zenon, <1>1, <2>1, <2>2, <2>3, <2>5 DEF Loading
<1> QED BY Zenon, <1>2, <1>3, <1>4 DEF FileInv

\* A read that gets its bytes goes on to the next place.
LEMMA SafeReadKeeps ==
  FileInv /\ SafeRead => FileInv'
<1> SUFFICES ASSUME FileInv, SafeRead PROVE FileInv'
  OBVIOUS
<1>1. /\ reading \notin Idle /\ offset < Len(file)
      /\ Take(file[offset + 1]) /\ offset' = offset + 1
      /\ file' = file /\ latest' = latest /\ unwritten' = unwritten
      /\ stores' = stores /\ overtaken' = overtaken
  BY DEF SafeRead, writer
<1>2. FileTyped'
  <2>1. file[offset + 1] \in Int /\ size \in Int /\ left \in Int
    BY <1>1 DEF FileInv, FileTyped
  <2>2. size' \in Int /\ left' \in Int /\ reading' \in Idle \union Places
    BY <1>1, <2>1, TakeType
  <2>3. offset' \in Nat
    BY <1>1 DEF FileInv, FileTyped
  <2> QED BY Zenon, <1>1, <2>2, <2>3 DEF FileInv, FileTyped
<1>3. stores > 0 /\ stores \in Nat
  BY <1>1 DEF FileInv, FileTyped, Written, Idle
<1>4. Written' /\ latest \in Dictionaries /\ Writing(latest)
  BY Zenon, <1>1, <1>3, LoadLeaves DEF FileInv
<1>5. ASSUME ~overtaken' PROVE Loading(latest)'
  <2> PICK d : d = latest
    OBVIOUS
  <2>1. IsDictionary(d) /\ FileTyped /\ Writing(d) /\ Loading(d)
    BY Zenon, <1>1, <1>4, <1>5, DictionariesType DEF FileInv
  <2>2. Loading(d)'
    BY <2>1, SafeReadGoesOn
  <2> QED BY Zenon, <1>1, <2>2 DEF Loading
<1> QED BY Zenon, <1>2, <1>4, <1>5 DEF FileInv

\* A read that does not get its bytes ends the load.
LEMMA SafeReadFailsKeeps ==
  FileInv /\ SafeReadFails => FileInv'
<1> SUFFICES ASSUME FileInv, SafeReadFails PROVE FileInv'
  OBVIOUS
<1>1. /\ reading \notin Idle /\ reading' = "refused" /\ offset' = offset
      /\ size' = size /\ left' = left
      /\ file' = file /\ latest' = latest /\ unwritten' = unwritten
      /\ stores' = stores /\ overtaken' = overtaken
  BY DEF SafeReadFails, writer
<1>2. FileTyped' /\ reading' \in Idle
  BY Zenon, <1>1 DEF FileInv, FileTyped, Idle
<1>3. stores > 0 /\ stores \in Nat
  BY <1>1 DEF FileInv, FileTyped, Written, Idle
<1>4. Written'
  BY Zenon, <1>1, <1>3, LoadLeaves DEF FileInv
<1> QED BY Zenon, <1>2, <1>4 DEF FileInv

\* Every step of File keeps its invariant.
LEMMA StepKeepsFile ==
  FileInv /\ [FileNext]_fileVars => FileInv'
<1> SUFFICES ASSUME FileInv, [FileNext]_fileVars PROVE FileInv'
  OBVIOUS
<1>1. CASE UNCHANGED fileVars
  BY <1>1 DEF fileVars, writer, loader, FileInv, FileTyped, Written, Writing,
     Loading
<1>2. CASE FileNext
  BY <1>2, BeginStoreKeeps, FlushKeeps, CrashKeeps, BeginLoadKeeps,
     SafeReadKeeps, SafeReadFailsKeeps DEF FileNext, Store, Load
<1> QED BY <1>1, <1>2

\* While a store writes, the file and what is still to be written are the
\* contents of its dictionary; while a load reads the latest store, what it
\* has is the part of that dictionary that lies before its offset.
THEOREM FileInvariance ==
  FileSpec => []FileInv
BY InitFile, StepKeepsFile, PTL DEF FileSpec

\* The variables of the writer and of the loader have their types, and what
\* has not been written is what the file lacks.
THEOREM FileTypes ==
  FileSpec => []FileTypeOK
<1>1. FileInv => FileTypeOK
  <2> SUFFICES ASSUME FileInv PROVE FileTypeOK
    OBVIOUS
  <2>1. stores \in 0..MaxStores
    BY FileAssumption DEF FileInv, FileTyped
  <2>2. unwritten = <<>> \/ file \o unwritten = Contents(latest)
    BY Zenon DEF FileInv, Written, Writing
  <2>3. latest \in Dictionaries \union {Empty}
    BY Zenon DEF FileInv, Written
  <2> QED BY <2>1, <2>2, <2>3 DEF FileInv, FileTyped, FileTypeOK, Places
<1> QED BY <1>1, FileInvariance, PTL

\* A load that no store overtakes ends with the dictionary stored last, whole,
\* or is refused, and then the file is torn: at whatever places the stream was
\* flushed, wherever the writer died, for all dictionaries.
THEOREM LoadsLatest ==
  FileSpec => LoadsLatestOrRefuses
<1>1. ASSUME FileInv, [FileNext]_fileVars, ~overtaken
      PROVE  /\ reading # "loaded" /\ reading' = "loaded" => loaded' = latest
             /\ reading # "refused" /\ reading' = "refused" =>
                  file # Contents(latest)
  <2>1. ASSUME reading # "loaded", reading' = "loaded" PROVE loaded' = latest
    <3>1. SafeRead
      BY <1>1, <2>1 DEF FileNext, Store, Load, fileVars, loader, BeginStore,
         Flush, Crash, BeginLoad, SafeReadFails
    <3>2. /\ reading \notin Idle
          /\ stores > 0
      BY <1>1, <3>1 DEF SafeRead, FileInv, Written, Idle
    <3> PICK d : d = latest
      OBVIOUS
    <3>3. IsDictionary(d) /\ FileTyped /\ Writing(d) /\ Loading(d)
      BY <1>1, <3>2, DictionariesType DEF FileInv, Written
    <3>4. Loading(d)'
      BY <3>1, <3>3, SafeReadGoesOn
    <3>5. \E R : Position("loaded", loaded', size', left', d, R)
      BY Zenon, <2>1, <3>4 DEF Loading
    <3> QED BY <3>5, EndIsWhole
  <2>2. ASSUME reading # "refused", reading' = "refused"
        PROVE  file # Contents(latest)
    <3>1. SafeReadFails \/ SafeRead
      BY <1>1, <2>2 DEF FileNext, Store, Load, fileVars, loader, BeginStore,
         Flush, Crash, BeginLoad
    <3>2. reading \notin Idle /\ stores > 0
      BY <1>1, <3>1 DEF SafeRead, SafeReadFails, FileInv, Written, Idle
    <3> PICK d : d = latest
      OBVIOUS
    <3>3. IsDictionary(d) /\ FileTyped /\ Writing(d) /\ Loading(d)
      BY <1>1, <3>2, DictionariesType DEF FileInv, Written
    <3>4. CASE SafeRead
      <4>1. Loading(d)'
        BY <3>3, <3>4, SafeReadGoesOn
      <4>2. \E R : Position("refused", loaded', size', left', d, R)
        BY Zenon, <2>2, <4>1 DEF Loading
      <4> QED BY <4>2 DEF Position, AtHeader, AtSize, AtCell, AtTailSize,
                 AtTailLength, AtTailChar, AtDataSize, AtDataByte, AtEnd
    <3>5. CASE SafeReadFails
      <4>1. PICK p \in Seq(Int), R \in Seq(Int) :
              /\ p \o R = Contents(d) /\ Len(p) = offset
              /\ Position(reading, loaded, size, left, d, R)
        BY <3>3 DEF Loading
      <4>2. PICK y \in Int, S \in Seq(Int) : R = <<y>> \o S
        <5>1. Advances(d, R)
          BY Zenon, <3>2, <3>3, <4>1, PositionAdvances
        <5> QED BY Zenon, <5>1 DEF Advances
      <4>3. Len(R) > 0
        BY <4>2
      <4>4. Len(p \o R) > offset
        BY <4>1, <4>3
      <4>5. offset >= Len(file)
        BY <3>5 DEF SafeReadFails
      <4>6. file # p \o R
        <5>1. p \o R \in Seq(Int) /\ file \in Seq(Int) /\ offset \in Nat
          BY <3>3, <4>1, ConcatProperties DEF FileTyped
        <5>2. Len(p \o R) \in Nat /\ Len(file) \in Nat
          BY <5>1, LenProperties
        <5> QED BY <4>4, <4>5, <5>1, <5>2
      <4> QED BY Zenon, <4>1, <4>6
    <3> QED BY <3>1, <3>4, <3>5
  <2> QED BY <2>1, <2>2
<1>2. FileInv /\ [FileNext]_fileVars =>
        [~overtaken =>
           /\ reading # "loaded" /\ reading' = "loaded" => loaded' = latest
           /\ reading # "refused" /\ reading' = "refused" =>
                file # Contents(latest)]_fileVars
  BY <1>1
<1> QED BY <1>2, FileInvariance, PTL DEF FileSpec, LoadsLatestOrRefuses

-----------------------------------------------------------------------------
(* Protocol: two streams, and what each side finds in its own. *)

\* The first of what is joined, and the joint of what follows it.
LEMMA FlattenFrom ==
  ASSUME NEW S, NEW s \in Seq(Seq(S)), NEW k \in Nat, k < Len(s)
  PROVE  /\ FlattenSeq(From(s, k)) = s[k + 1] \o FlattenSeq(From(s, k + 1))
         /\ s[k + 1] \in Seq(S) /\ FlattenSeq(From(s, k + 1)) \in Seq(S)
<1> DEFINE x == s[k + 1]
           r == From(s, k + 1)
<1>1. /\ From(s, k) = <<x>> \o r /\ From(s, k) \in Seq(Seq(S))
      /\ r \in Seq(Seq(S)) /\ x \in Seq(S)
  BY FromNext
<1> HIDE DEF x, r
<1>2. <<x>> \in Seq(Seq(S)) /\ <<>> \in Seq(Seq(S)) /\ <<x>> = Append(<<>>, x)
  BY <1>1
<1>3. FlattenSeq(<<x>>) = x
  <2>1. FlattenSeq(Append(<<>>, x)) = <<>> \o x
    BY <1>1, <1>2, FlattenAppend, FlattenEmpty
  <2>2. <<>> \o x = x
    BY <1>1, ConcatEmptySeq
  <2> QED BY <1>2, <2>1, <2>2
<1>4. FlattenSeq(<<x>> \o r) = FlattenSeq(<<x>>) \o FlattenSeq(r)
  BY <1>1, <1>2, FlattenConcat
<1>5. FlattenSeq(r) \in Seq(S)
  BY <1>1, FlattenType
<1> QED BY <1>1, <1>3, <1>4, <1>5 DEF x, r

Occurrences == [data : Seq(Nat), needle : Seq(Nat)]
IsRequest(r) ==
  r \in [mode : Nat, text : Seq(Nat)] /\ Lookup(r.text) \in Seq(Occurrences)

\* The assumption about the constants, for each request.
LEMMA RequestsType ==
  \A r \in Requests : IsRequest(r)
BY ProtocolAssumption DEF IsRequest, Occurrences

\* Numbers from 0 on are numbers.
LEMMA NatsAreInts ==
  \A s \in Seq(Nat) : s \in Seq(Int) /\ Len(s) \in Nat
<1> SUFFICES ASSUME NEW s \in Seq(Nat) PROVE s \in Seq(Int) /\ Len(s) \in Nat
  OBVIOUS
<1>1. Len(s) \in Nat /\ s \in [1..Len(s) -> Nat]
  BY LenProperties
<1>2. \A i \in Nat : i \in Int
  OBVIOUS
<1>3. s \in [1..Len(s) -> Int]
  BY Zenon, <1>1, <1>2
<1>4. \A n \in Nat : \A f \in [1..n -> Int] : f \in Seq(Int)
  BY SMT
<1> QED BY Zenon, <1>1, <1>3, <1>4

\* A search has what was asked for.
LEMMA AnswerType ==
  ASSUME NEW r, IsRequest(r)
  PROVE  /\ Answer(r) \in Seq(Occurrences) /\ Len(Answer(r)) \in Nat
         /\ First(r.mode) => Len(Answer(r)) <= 1
         /\ \A i \in 1..Len(Answer(r)) :
              /\ Answer(r)[i].data \in Seq(Int)
              /\ Len(Answer(r)[i].data) \in Nat
              /\ Answer(r)[i].needle \in Seq(Int)
              /\ Len(Answer(r)[i].needle) \in Nat
              /\ Answer(r)[i] = [data   |-> Answer(r)[i].data,
                                 needle |-> Answer(r)[i].needle]
              /\ ~WithUserData(r.mode) => Answer(r)[i].data = <<>>
              /\ ~WithNeedle(r.mode) => Answer(r)[i].needle = <<>>
<1> DEFINE all == Lookup(r.text)
<1> PICK n : n = IF First(r.mode) /\ Len(all) > 1 THEN 1 ELSE Len(all)
  OBVIOUS
<1> DEFINE Part(i) ==
         [data   |-> IF WithUserData(r.mode) THEN all[i].data ELSE <<>>,
          needle |-> IF WithNeedle(r.mode) THEN all[i].needle ELSE <<>>]
<1>1. all \in Seq(Occurrences)
  BY DEF IsRequest
<1>2. n \in Nat /\ n <= Len(all) /\ (First(r.mode) => n <= 1)
  BY <1>1
<1> PICK f : f = [i \in 1..n |-> Part(i)]
  OBVIOUS
<1>3. f = Answer(r)
  BY Zenon DEF Answer, Search
<1>4. ASSUME NEW i \in 1..n
      PROVE  /\ f[i] = Part(i) /\ f[i] \in Occurrences
             /\ f[i].data \in Seq(Nat) /\ f[i].needle \in Seq(Nat)
             /\ f[i] = [data |-> f[i].data, needle |-> f[i].needle]
             /\ ~WithUserData(r.mode) => f[i].data = <<>>
             /\ ~WithNeedle(r.mode) => f[i].needle = <<>>
  <2>1. all[i].data \in Seq(Nat) /\ all[i].needle \in Seq(Nat)
    <3>1. all[i] \in Occurrences
      BY <1>1, <1>2
    <3> QED BY <3>1 DEF Occurrences
  <2>2. <<>> \in Seq(Nat)
    OBVIOUS
  <2> PICK a \in Seq(Nat) :
        a = IF WithUserData(r.mode) THEN all[i].data ELSE <<>>
    BY <2>1, <2>2
  <2> PICK b \in Seq(Nat) :
        b = IF WithNeedle(r.mode) THEN all[i].needle ELSE <<>>
    BY <2>1, <2>2
  <2>3. f[i] = [data |-> a, needle |-> b]
    BY Zenon
  <2>4. f[i] \in Occurrences
    BY Zenon, <2>3 DEF Occurrences
  <2>5. f[i] = Part(i)
    BY Zenon
  <2>6. f[i].data = a /\ f[i].needle = b
    BY <2>3
  <2> HIDE DEF all, Part
  <2> QED BY Zenon, <2>3, <2>4, <2>5, <2>6
<1>5. f \in Seq(Occurrences) /\ Len(f) = n
  <2>1. f \in [1..n -> Occurrences]
    BY Zenon, <1>4
  <2>2. n \in Nat
    BY <1>2
  <2> QED BY ONLY SMT, <2>1, <2>2
<1>6. \A i \in 1..n :
        /\ f[i].data \in Seq(Int) /\ Len(f[i].data) \in Nat
        /\ f[i].needle \in Seq(Int) /\ Len(f[i].needle) \in Nat
  BY Zenon, <1>4, NatsAreInts
<1> HIDE DEF all, Part
<1>7. /\ f \in Seq(Occurrences) /\ Len(f) \in Nat
      /\ First(r.mode) => Len(f) <= 1
  BY <1>2, <1>5
<1> QED BY Zenon, <1>3, <1>4, <1>5, <1>6, <1>7

\* The parts of a frame.
SizeOf(r, i) ==
  IF i > Len(Answer(r)) THEN Int32(None) ELSE Int32(Len(Answer(r)[i].data))
DataPart(r, i) == IF WithUserData(r.mode) THEN Answer(r)[i].data ELSE <<>>
NeedlePart(r, i) ==
  IF WithNeedle(r.mode)
  THEN Int32(Len(Answer(r)[i].needle)) \o Answer(r)[i].needle ELSE <<>>
NextSize(r, i) == IF First(r.mode) THEN <<>> ELSE SizeOf(r, i + 1)
Body(r, i) == DataPart(r, i) \o NeedlePart(r, i) \o NextSize(r, i)
BodiesOf(r) == [i \in 1..Len(Answer(r)) |-> Body(r, i)]
\* What follows the first k occurrences.
Bodies(r, k) == FlattenSeq(From(BodiesOf(r), k))
FrameOf(r) == Frame(r.mode, Answer(r))

\* The size before an occurrence is one 32 bit number, below zero at the end.
LEMMA SizeType ==
  ASSUME NEW r, IsRequest(r), NEW i \in Nat, i > 0
  PROVE  \E n \in Int : /\ SizeOf(r, i) = <<n, 0>>
                        /\ SizeOf(r, i) \in Seq(Int) /\ Len(SizeOf(r, i)) = 2
                        /\ IF i > Len(Answer(r)) THEN n < 0
                           ELSE n = Len(Answer(r)[i].data) /\ n >= 0
<1>1. Len(Answer(r)) \in Nat
  BY AnswerType
<1>2. CASE i > Len(Answer(r))
  <2>1. SizeOf(r, i) = <<-1, 0>>
    BY <1>2 DEF SizeOf, Int32, None
  <2>2. <<-1, 0>> \in Seq(Int) /\ Len(<<-1, 0>>) = 2 /\ -1 \in Int /\ -1 < 0
    OBVIOUS
  <2> QED BY <1>2, <2>1, <2>2
<1>3. CASE ~(i > Len(Answer(r)))
  <2>1. i \in 1..Len(Answer(r))
    BY <1>1, <1>3
  <2>2. Len(Answer(r)[i].data) \in Nat
    BY <2>1, AnswerType
  <2> PICK n \in Nat : n = Len(Answer(r)[i].data)
    BY <2>2
  <2>3. SizeOf(r, i) = <<n, 0>>
    BY <1>3 DEF SizeOf, Int32
  <2>4. <<n, 0>> \in Seq(Int) /\ Len(<<n, 0>>) = 2 /\ n \in Int /\ n >= 0
    OBVIOUS
  <2> QED BY <1>3, <2>3, <2>4
<1> QED BY <1>2, <1>3

\* The parts of a frame are sequences of numbers.
LEMMA PartsOfFrame ==
  ASSUME NEW r, IsRequest(r), NEW i \in 1..Len(Answer(r))
  PROVE  /\ DataPart(r, i) = Answer(r)[i].data
         /\ DataPart(r, i) \in Seq(Int) /\ NeedlePart(r, i) \in Seq(Int)
         /\ NextSize(r, i) \in Seq(Int) /\ Body(r, i) \in Seq(Int)
         /\ Int32(Len(Answer(r)[i].needle)) \in Seq(Int)
         /\ Answer(r)[i].needle \in Seq(Int)
<1>1. /\ Answer(r)[i].data \in Seq(Int) /\ Answer(r)[i].needle \in Seq(Int)
      /\ Len(Answer(r)[i].needle) \in Nat
      /\ ~WithUserData(r.mode) => Answer(r)[i].data = <<>>
  BY AnswerType
<1>2. DataPart(r, i) = Answer(r)[i].data
  BY Zenon, <1>1 DEF DataPart
<1>3. \A n \in Nat : <<n, 0>> \in Seq(Int)
  OBVIOUS
<1>4. Int32(Len(Answer(r)[i].needle)) \in Seq(Int)
  BY Zenon, <1>1, <1>3 DEF Int32
<1>5. \A x, y \in Seq(Int) : x \o y \in Seq(Int)
  BY ConcatProperties
<1>6. <<>> \in Seq(Int)
  OBVIOUS
<1>7. NeedlePart(r, i) \in Seq(Int)
  BY Zenon, <1>1, <1>4, <1>5, <1>6 DEF NeedlePart
<1>8. i + 1 \in Nat /\ i + 1 > 0
  BY AnswerType
<1>9. SizeOf(r, i + 1) \in Seq(Int)
  BY Zenon, <1>8, SizeType
<1>10. NextSize(r, i) \in Seq(Int)
  BY Zenon, <1>6, <1>9 DEF NextSize
<1>11. Body(r, i) \in Seq(Int)
  BY Zenon, <1>1, <1>2, <1>5, <1>7, <1>10 DEF Body
<1> QED BY Zenon, <1>1, <1>2, <1>4, <1>7, <1>10, <1>11

\* There is one part of a frame for each occurrence.
LEMMA BodiesType ==
  ASSUME NEW r, IsRequest(r)
  PROVE  /\ BodiesOf(r) \in Seq(Seq(Int)) /\ Len(BodiesOf(r)) = Len(Answer(r))
         /\ \A i \in 1..Len(Answer(r)) : BodiesOf(r)[i] = Body(r, i)
<1> PICK n \in Nat : n = Len(Answer(r))
  BY AnswerType
<1>1. \A i \in 1..n : Body(r, i) \in Seq(Int)
  BY PartsOfFrame
<1> PICK f : f = [i \in 1..n |-> Body(r, i)]
  OBVIOUS
<1>2. f \in [1..n -> Seq(Int)]
  BY Zenon, <1>1
<1>3. f \in Seq(Seq(Int)) /\ Len(f) = n
  BY <1>2
<1>4. f = BodiesOf(r) /\ \A i \in 1..n : f[i] = Body(r, i)
  BY Zenon DEF BodiesOf
<1> QED BY Zenon, <1>3, <1>4

\* A frame is the first size, and then each occurrence with the next size.
LEMMA FrameLayout ==
  ASSUME NEW r, IsRequest(r)
  PROVE  /\ FrameOf(r) = SizeOf(r, 1) \o Bodies(r, 0)
         /\ Bodies(r, 0) \in Seq(Int) /\ FrameOf(r) \in Seq(Int)
         /\ Bodies(r, Len(Answer(r))) = <<>>
<1>1. From(BodiesOf(r), 0) = BodiesOf(r)
      /\ From(BodiesOf(r), Len(Answer(r))) = <<>>
  BY BodiesType, FromEnds
<1>2. FrameOf(r) = SizeOf(r, 1) \o FlattenSeq(BodiesOf(r))
  BY Zenon DEF FrameOf, Frame, SizeOf, BodiesOf, Body, DataPart, NeedlePart,
     NextSize
<1>3. Bodies(r, 0) = FlattenSeq(BodiesOf(r))
  BY Zenon, <1>1 DEF Bodies
<1>4. Bodies(r, 0) \in Seq(Int)
  BY <1>3, BodiesType, FlattenType
<1>5. SizeOf(r, 1) \in Seq(Int)
  <2>1. 1 \in Nat /\ 1 > 0
    OBVIOUS
  <2> QED BY Zenon, <2>1, SizeType
<1>6. SizeOf(r, 1) \o Bodies(r, 0) \in Seq(Int)
  BY <1>4, <1>5, ConcatProperties
<1>7. Bodies(r, Len(Answer(r))) = <<>>
  BY Zenon, <1>1, FlattenEmpty DEF Bodies
<1> QED BY Zenon, <1>2, <1>3, <1>4, <1>6, <1>7

\* The next occurrence of a frame, part by part.
LEMMA NextBody ==
  ASSUME NEW r, IsRequest(r), NEW k \in Nat, k < Len(Answer(r))
  PROVE  /\ Bodies(r, k) = DataPart(r, k + 1) \o
              (NeedlePart(r, k + 1) \o (NextSize(r, k + 1) \o Bodies(r, k + 1)))
         /\ Bodies(r, k + 1) \in Seq(Int)
         /\ NextSize(r, k + 1) \o Bodies(r, k + 1) \in Seq(Int)
         /\ NeedlePart(r, k + 1) \o (NextSize(r, k + 1) \o Bodies(r, k + 1))
              \in Seq(Int)
<1> DEFINE a == DataPart(r, k + 1)
           b == NeedlePart(r, k + 1)
           c == NextSize(r, k + 1)
           t == Bodies(r, k + 1)
<1>0. k + 1 \in 1..Len(Answer(r)) /\ Len(Answer(r)) \in Nat
  BY AnswerType
<1>1. a \in Seq(Int) /\ b \in Seq(Int) /\ c \in Seq(Int)
  BY <1>0, PartsOfFrame
<1>2. /\ Bodies(r, k) = Body(r, k + 1) \o t /\ t \in Seq(Int)
  <2>1. k < Len(BodiesOf(r)) /\ BodiesOf(r) \in Seq(Seq(Int))
        /\ BodiesOf(r)[k + 1] = Body(r, k + 1)
    BY <1>0, BodiesType
  <2>2. /\ FlattenSeq(From(BodiesOf(r), k))
             = BodiesOf(r)[k + 1] \o FlattenSeq(From(BodiesOf(r), k + 1))
        /\ FlattenSeq(From(BodiesOf(r), k + 1)) \in Seq(Int)
    BY <2>1, FlattenFrom
  <2> QED BY Zenon, <2>1, <2>2 DEF Bodies
<1>3. Body(r, k + 1) = (a \o b) \o c
  BY Zenon DEF Body
<1> HIDE DEF a, b, c, t
<1>4. \A x, y \in Seq(Int) : x \o y \in Seq(Int)
  BY ConcatProperties
<1>5. c \o t \in Seq(Int) /\ b \o (c \o t) \in Seq(Int) /\ a \o b \in Seq(Int)
  BY Zenon, <1>1, <1>2, <1>4
<1>6. Joined(a \o b, c, t) /\ Joined(a, b, c \o t)
  BY Zenon, <1>1, <1>2, <1>5, NumbersJoin
<1>7. ((a \o b) \o c) \o t = a \o (b \o (c \o t))
  BY Zenon, <1>6 DEF Joined
<1> QED BY Zenon, <1>2, <1>3, <1>5, <1>7 DEF a, b, c, t

\* Occurrence has built the first k of the answer to r, and one more that
\* still lacks its needle.
Lacking(r, value, k) ==
  /\ k < Len(Answer(r)) /\ value \in Seq(Occurrences) /\ Len(value) = k + 1
  /\ \A i \in 1..k : value[i] = Answer(r)[i]
  /\ value[k + 1] = [data |-> Answer(r)[k + 1].data, needle |-> <<>>]
  /\ First(r.mode) => k = 0

\* What follows the needle of the occurrence k + 1.
AfterNeedle(r, k) == NextSize(r, k + 1) \o Bodies(r, k + 1)

\* Where Occurrence is in the answer to r, with C ahead.
ReadsSize(f, n, value, r, C) ==
  /\ f = "size" /\ n = 2 /\ value \in Seq(Occurrences)
  /\ \E k \in Nat :
       /\ k <= Len(Answer(r)) /\ HasFirst(value, Answer(r), k)
       /\ First(r.mode) => k = 0
       /\ C = SizeOf(r, k + 1) \o Bodies(r, k)
ReadsData(f, n, value, r, C) ==
  /\ f = "data" /\ value \in Seq(Occurrences)
  /\ \E k \in Nat :
       /\ k < Len(Answer(r)) /\ Len(value) = k + 1
       /\ \A i \in 1..k : value[i] = Answer(r)[i]
       /\ value[k + 1] = [data |-> <<>>, needle |-> <<>>]
       /\ First(r.mode) => k = 0
       /\ n = Len(Answer(r)[k + 1].data) /\ n > 0
       /\ C = Bodies(r, k)
ReadsLength(f, n, value, r, C) ==
  /\ f = "length" /\ n = 2 /\ WithNeedle(r.mode)
  /\ \E k \in Nat : /\ Lacking(r, value, k)
                    /\ C = NeedlePart(r, k + 1) \o AfterNeedle(r, k)
ReadsNeedle(f, n, value, r, C) ==
  /\ f = "needle" /\ WithNeedle(r.mode)
  /\ \E k \in Nat : /\ Lacking(r, value, k)
                    /\ n = Len(Answer(r)[k + 1].needle)
                    /\ C = Answer(r)[k + 1].needle \o AfterNeedle(r, k)

Within(f, n, value, r, C) ==
  \/ ReadsSize(f, n, value, r, C) \/ ReadsData(f, n, value, r, C)
  \/ ReadsLength(f, n, value, r, C) \/ ReadsNeedle(f, n, value, r, C)

\* A step of Occurrence leaves it within the answer to r, or at the end of it
\* with the answer as result.
Goes(r, C) ==
  \/ results' = results /\ Within(field', want', list', r, C)
  \/ /\ results' = Append(results, Answer(r))
     /\ field' = "none" /\ want' = 0 /\ C = <<>>

\* The end of the loop's body, when the list has k + 1 of the answer.
LEMMA EndOfOccurrenceGoes ==
  ASSUME NEW r, IsRequest(r), Mode = r.mode, NEW k \in Nat,
         k < Len(Answer(r)), NEW value \in Seq(Occurrences),
         HasFirst(value, Answer(r), k + 1), First(r.mode) => k = 0,
         EndOfOccurrence(value)
  PROVE  Goes(r, AfterNeedle(r, k))
<1>1. k + 1 \in 1..Len(Answer(r)) /\ Answer(r) \in Seq(Occurrences)
      /\ Len(Answer(r)) \in Nat /\ (First(r.mode) => Len(Answer(r)) <= 1)
  BY AnswerType
<1>2. CASE First(r.mode)
  <2>1. k + 1 = Len(Answer(r))
    <3>1. k = 0 /\ Len(Answer(r)) <= 1 /\ Len(Answer(r)) \in Nat
          /\ k < Len(Answer(r))
      BY Zenon, <1>1, <1>2
    <3>2. \A a, b \in Nat : a = 0 /\ b <= 1 /\ a < b => a + 1 = b
      BY ONLY SMT
    <3> QED BY Zenon, <3>1, <3>2
  <2>2. value = Answer(r)
    BY <1>1, <2>1, AllFirst
  <2>3. AfterNeedle(r, k) = <<>>
    <3>1. Bodies(r, k + 1) = <<>>
      BY <2>1, FrameLayout
    <3>2. NextSize(r, k + 1) = <<>>
      BY Zenon, <1>2 DEF NextSize
    <3>3. <<>> \o <<>> = <<>>
      OBVIOUS
    <3> QED BY Zenon, <3>1, <3>2, <3>3 DEF AfterNeedle
  <2>4. /\ results' = Append(results, value) /\ field' = "none" /\ want' = 0
    BY Zenon, <1>2 DEF EndOfOccurrence, Return, ReadNext
  <2> QED BY Zenon, <2>2, <2>3, <2>4 DEF Goes
<1>3. CASE ~First(r.mode)
  <2>1. /\ results' = results /\ list' = value /\ field' = "size" /\ want' = 2
    BY Zenon, <1>3 DEF EndOfOccurrence, ReadNext
  <2>2. AfterNeedle(r, k) = SizeOf(r, k + 1 + 1) \o Bodies(r, k + 1)
    BY Zenon, <1>3 DEF AfterNeedle, NextSize
  <2>3. k + 1 <= Len(Answer(r)) /\ k + 1 \in Nat
    BY <1>1
  <2>4. ReadsSize(field', want', list', r, AfterNeedle(r, k))
    BY Zenon, <1>3, <2>1, <2>2, <2>3 DEF ReadsSize
  <2> QED BY Zenon, <2>1, <2>4 DEF Goes, Within
<1> QED BY <1>2, <1>3

\* The occurrence that lacked its needle has it.
LEMMA LackingFilled ==
  ASSUME NEW r, IsRequest(r), NEW k \in Nat, NEW value, Lacking(r, value, k),
         NEW full \in Seq(Occurrences), Len(full) = k + 1,
         \A i \in 1..k : full[i] = value[i],
         full[k + 1] = Answer(r)[k + 1]
  PROVE  HasFirst(full, Answer(r), k + 1)
<1>1. \A i \in 1..k + 1 : i = k + 1 \/ i \in 1..k
  OBVIOUS
<1>2. \A i \in 1..k : value[i] = Answer(r)[i]
  BY DEF Lacking
<1>3. \A i \in 1..k + 1 : full[i] = Answer(r)[i]
  BY Zenon, <1>1, <1>2
<1>4. k + 1 <= Len(Answer(r))
  BY AnswerType DEF Lacking
<1> QED BY <1>3, <1>4 DEF HasFirst

\* What follows the user data, when the list lacks only the needle.
LEMMA ThenNeedleGoes ==
  ASSUME NEW r, IsRequest(r), Mode = r.mode, NEW k \in Nat, NEW value,
         Lacking(r, value, k), ThenNeedle(value)
  PROVE  Goes(r, NeedlePart(r, k + 1) \o AfterNeedle(r, k))
<1>1. k < Len(Answer(r)) /\ value \in Seq(Occurrences) /\ Len(value) = k + 1
      /\ (First(r.mode) => k = 0)
  BY DEF Lacking
<1>2. CASE WithNeedle(r.mode)
  <2>1. list' = value /\ field' = "length" /\ want' = 2 /\ results' = results
    BY Zenon, <1>2 DEF ThenNeedle, ReadNext
  <2>2. ReadsLength(field', want', list', r,
                    NeedlePart(r, k + 1) \o AfterNeedle(r, k))
    BY Zenon, <1>2, <2>1 DEF ReadsLength
  <2> QED BY Zenon, <2>1, <2>2 DEF Goes, Within
<1>3. CASE ~WithNeedle(r.mode)
  <2>1. EndOfOccurrence(value)
    BY Zenon, <1>3 DEF ThenNeedle
  <2>2. k + 1 \in 1..Len(Answer(r))
    BY <1>1, AnswerType
  <2>3. value[k + 1] = Answer(r)[k + 1]
    <3>1. /\ Answer(r)[k + 1].needle = <<>>
          /\ Answer(r)[k + 1] = [data   |-> Answer(r)[k + 1].data,
                                 needle |-> Answer(r)[k + 1].needle]
      BY <1>3, <2>2, AnswerType
    <3> QED BY Zenon, <3>1 DEF Lacking
  <2>4. HasFirst(value, Answer(r), k + 1)
    BY <1>1, <2>3, LackingFilled
  <2>5. NeedlePart(r, k + 1) \o AfterNeedle(r, k) = AfterNeedle(r, k)
    <3>1. AfterNeedle(r, k) \in Seq(Int)
      BY <1>1, NextBody DEF AfterNeedle
    <3>2. <<>> \o AfterNeedle(r, k) = AfterNeedle(r, k)
      BY <3>1, ConcatEmptySeq
    <3> QED BY Zenon, <1>3, <3>2 DEF NeedlePart
  <2>6. Goes(r, AfterNeedle(r, k))
    BY <1>1, <2>1, <2>4, EndOfOccurrenceGoes
  <2> QED BY Zenon, <2>5, <2>6
<1> QED BY <1>2, <1>3

\* What is read next lies ahead, and Occurrence goes on with it.
Proceeds(r, C) ==
  \E got, R \in Seq(Int) : /\ C = got \o R /\ Len(got) = want
                           /\ Use(got) => Goes(r, R)

\* Occurrence reads a size: it is that of the next occurrence, or the end.
LEMMA SizeProceeds ==
  ASSUME NEW r, IsRequest(r), Mode = r.mode, NEW C,
         ReadsSize(field, want, list, r, C)
  PROVE  Proceeds(r, C)
<1>1. field = "size" /\ want = 2 /\ list \in Seq(Occurrences)
  BY DEF ReadsSize
<1>2. PICK k \in Nat :
        /\ k <= Len(Answer(r)) /\ HasFirst(list, Answer(r), k)
        /\ First(r.mode) => k = 0
        /\ C = SizeOf(r, k + 1) \o Bodies(r, k)
  BY DEF ReadsSize
<1>3. k + 1 \in Nat /\ k + 1 > 0 /\ Len(Answer(r)) \in Nat
      /\ Answer(r) \in Seq(Occurrences)
  BY AnswerType
<1>4. PICK n \in Int :
        /\ SizeOf(r, k + 1) = <<n, 0>>
        /\ SizeOf(r, k + 1) \in Seq(Int) /\ Len(SizeOf(r, k + 1)) = 2
        /\ IF k + 1 > Len(Answer(r)) THEN n < 0
           ELSE n = Len(Answer(r)[k + 1].data) /\ n >= 0
  BY Zenon, <1>3, SizeType
<1> PICK got : got = SizeOf(r, k + 1)
  OBVIOUS
<1>5. got \in Seq(Int) /\ Len(got) = want /\ got[1] = n
  <2>1. <<n, 0>>[1] = n
    OBVIOUS
  <2> QED BY Zenon, <1>1, <1>4, <2>1
<1>6. CASE k = Len(Answer(r))
  <2>1. Bodies(r, k) = <<>>
    BY <1>6, FrameLayout
  <2>2. n < 0
    BY <1>3, <1>4, <1>6
  <2>3. ASSUME Use(got) PROVE Goes(r, <<>>)
    <3>1. Return(list)
      <4>1. ~(got[1] >= 0)
        BY <1>5, <2>2
      <4> QED BY Zenon, <1>1, <2>3, <4>1 DEF Use
    <3>2. list = Answer(r)
      BY <1>1, <1>2, <1>3, <1>6, AllFirst
    <3> QED BY Zenon, <3>1, <3>2 DEF Return, ReadNext, Goes
  <2>4. <<>> \in Seq(Int)
    OBVIOUS
  <2> QED BY Zenon, <1>2, <1>5, <2>1, <2>3, <2>4 DEF Proceeds
<1>7. CASE k # Len(Answer(r))
  <2>1. k < Len(Answer(r)) /\ k + 1 \in 1..Len(Answer(r))
    BY <1>2, <1>3, <1>7
  <2>2. n = Len(Answer(r)[k + 1].data) /\ n >= 0
    BY <1>3, <1>4, <2>1
  <2>3. Bodies(r, k) \in Seq(Int)
        /\ Bodies(r, k) = DataPart(r, k + 1) \o
             (NeedlePart(r, k + 1) \o AfterNeedle(r, k))
        /\ NeedlePart(r, k + 1) \o AfterNeedle(r, k) \in Seq(Int)
    <3>1. Bodies(r, k) = DataPart(r, k + 1) \o
             (NeedlePart(r, k + 1) \o AfterNeedle(r, k))
          /\ NeedlePart(r, k + 1) \o AfterNeedle(r, k) \in Seq(Int)
      BY <2>1, NextBody DEF AfterNeedle
    <3>2. DataPart(r, k + 1) \in Seq(Int)
      BY <2>1, PartsOfFrame
    <3> QED BY Zenon, <3>1, <3>2, ConcatProperties
  <2> PICK blank : blank = [data |-> <<>>, needle |-> <<>>]
    OBVIOUS
  <2> PICK more : more = Append(list, blank)
    OBVIOUS
  <2>4. /\ more \in Seq(Occurrences) /\ Len(more) = k + 1
        /\ more[k + 1] = blank /\ \A i \in 1..k : more[i] = Answer(r)[i]
    <3>1. <<>> \in Seq(Nat)
      OBVIOUS
    <3>2. blank \in Occurrences
      BY Zenon, <3>1 DEF Occurrences
    <3>3. Len(list) = k /\ \A i \in 1..k : list[i] = Answer(r)[i]
      BY <1>2 DEF HasFirst
    <3>4. /\ more \in Seq(Occurrences) /\ Len(more) = k + 1
          /\ more[k + 1] = blank /\ \A i \in 1..k : more[i] = list[i]
      BY <1>1, <3>2, <3>3
    <3> QED BY Zenon, <3>3, <3>4
  <2>5. ASSUME Use(got) PROVE Goes(r, Bodies(r, k))
    <3>1. ~(got[1] < 0)
      BY <1>5, <2>2
    <3>2. IF n > 0 THEN /\ list' = more /\ ReadNext("data", n)
                        /\ UNCHANGED results
          ELSE ThenNeedle(more)
      BY Zenon, <1>1, <1>5, <2>5, <3>1 DEF Use
    <3>3. CASE n > 0
      <4>1. list' = more /\ field' = "data" /\ want' = n /\ results' = results
        BY Zenon, <3>2, <3>3 DEF ReadNext
      <4>2. ReadsData(field', want', list', r, Bodies(r, k))
        BY Zenon, <1>2, <2>1, <2>2, <2>4, <3>3, <4>1 DEF ReadsData
      <4> QED BY Zenon, <4>1, <4>2 DEF Goes, Within
    <3>4. CASE ~(n > 0)
      <4>1. Len(Answer(r)[k + 1].data) = 0
        BY <2>2, <3>4
      <4>2. Answer(r)[k + 1].data = <<>>
        <5>1. Answer(r)[k + 1].data \in Seq(Int)
          BY <2>1, AnswerType
        <5> QED BY <4>1, <5>1, EmptySeq
      <4>3. Lacking(r, more, k)
        BY Zenon, <1>2, <2>1, <2>4, <4>2 DEF Lacking
      <4>4. ThenNeedle(more)
        BY Zenon, <3>2, <3>4
      <4>5. Bodies(r, k) = NeedlePart(r, k + 1) \o AfterNeedle(r, k)
        <5>1. DataPart(r, k + 1) = <<>>
          BY <2>1, <4>2, PartsOfFrame
        <5>2. <<>> \o (NeedlePart(r, k + 1) \o AfterNeedle(r, k))
                = NeedlePart(r, k + 1) \o AfterNeedle(r, k)
          BY <2>3, ConcatEmptySeq
        <5> QED BY Zenon, <2>3, <5>1, <5>2
      <4>6. Goes(r, NeedlePart(r, k + 1) \o AfterNeedle(r, k))
        BY Zenon, <4>3, <4>4, ThenNeedleGoes
      <4> QED BY Zenon, <4>5, <4>6
    <3> QED BY <3>3, <3>4
  <2> QED BY Zenon, <1>2, <1>5, <2>3, <2>5 DEF Proceeds
<1> QED BY <1>6, <1>7

\* Occurrence reads user data: all of the next occurrence's, and no more.
LEMMA DataProceeds ==
  ASSUME NEW r, IsRequest(r), Mode = r.mode, NEW C,
         ReadsData(field, want, list, r, C)
  PROVE  Proceeds(r, C)
<1>1. field = "data" /\ list \in Seq(Occurrences)
  BY DEF ReadsData
<1>2. PICK k \in Nat :
        /\ k < Len(Answer(r)) /\ Len(list) = k + 1
        /\ \A i \in 1..k : list[i] = Answer(r)[i]
        /\ list[k + 1] = [data |-> <<>>, needle |-> <<>>]
        /\ First(r.mode) => k = 0
        /\ want = Len(Answer(r)[k + 1].data) /\ want > 0
        /\ C = Bodies(r, k)
  BY DEF ReadsData
<1>3. k + 1 \in 1..Len(Answer(r)) /\ Answer(r) \in Seq(Occurrences)
  BY <1>2, AnswerType
<1> PICK got : got = Answer(r)[k + 1].data
  OBVIOUS
<1> PICK R : R = NeedlePart(r, k + 1) \o AfterNeedle(r, k)
  OBVIOUS
<1>4. got \in Seq(Int) /\ got \in Seq(Nat) /\ got = DataPart(r, k + 1)
  <2>1. got \in Seq(Int) /\ got = DataPart(r, k + 1)
    BY <1>3, PartsOfFrame
  <2>2. Answer(r)[k + 1] \in Occurrences
    BY <1>3
  <2> QED BY <2>1, <2>2 DEF Occurrences
<1>5. C = got \o R /\ R \in Seq(Int)
  BY <1>2, <1>4, NextBody DEF AfterNeedle
<1>6. ASSUME Use(got) PROVE Goes(r, R)
  <2> PICK full : full = [list EXCEPT ![k + 1].data = got]
    OBVIOUS
  <2>1. ThenNeedle(full)
    BY Zenon, <1>1, <1>2, <1>6 DEF Use
  <2>2. Lacking(r, full, k)
    <3> PICK last : last = [data |-> got, needle |-> <<>>]
      OBVIOUS
    <3>1. last = [list[k + 1] EXCEPT !.data = got]
      BY <1>2
    <3>2. last \in Occurrences
      <4>1. <<>> \in Seq(Nat)
        OBVIOUS
      <4> QED BY Zenon, <1>4, <4>1 DEF Occurrences
    <3>3. k + 1 \in 1..Len(list)
      BY <1>2
    <3>4. full = [list EXCEPT ![k + 1] = last]
      BY Zenon, <3>1
    <3>5. /\ full \in Seq(Occurrences) /\ Len(full) = k + 1
          /\ full[k + 1] = last /\ \A i \in 1..k : full[i] = list[i]
      BY <1>1, <1>2, <3>2, <3>3, <3>4
    <3> QED BY Zenon, <1>2, <3>5 DEF Lacking
  <2> QED BY Zenon, <2>1, <2>2, ThenNeedleGoes
<1> QED BY Zenon, <1>2, <1>4, <1>5, <1>6 DEF Proceeds

\* Occurrence reads the length of a needle.
LEMMA LengthProceeds ==
  ASSUME NEW r, IsRequest(r), Mode = r.mode, NEW C,
         ReadsLength(field, want, list, r, C)
  PROVE  Proceeds(r, C)
<1>1. field = "length" /\ want = 2 /\ WithNeedle(r.mode)
  BY DEF ReadsLength
<1>2. PICK k \in Nat : /\ Lacking(r, list, k)
                       /\ C = NeedlePart(r, k + 1) \o AfterNeedle(r, k)
  BY DEF ReadsLength
<1>3. k + 1 \in 1..Len(Answer(r)) /\ k < Len(Answer(r))
  BY <1>2, AnswerType DEF Lacking
<1> PICK e : e = Answer(r)[k + 1].needle
  OBVIOUS
<1>4. e \in Seq(Int) /\ Len(e) \in Nat /\ AfterNeedle(r, k) \in Seq(Int)
      /\ Int32(Len(e)) \in Seq(Int)
  BY <1>3, AnswerType, PartsOfFrame, NextBody DEF AfterNeedle
<1>5. Int32(Len(e))[1] = Len(e) /\ Len(Int32(Len(e))) = 2
  BY DEF Int32
<1>6. C = Int32(Len(e)) \o (e \o AfterNeedle(r, k))
      /\ e \o AfterNeedle(r, k) \in Seq(Int)
  <2>1. NeedlePart(r, k + 1) = Int32(Len(e)) \o e
    BY Zenon, <1>1 DEF NeedlePart
  <2>2. Joined(Int32(Len(e)), e, AfterNeedle(r, k))
    BY Zenon, <1>4, NumbersJoin
  <2> QED BY Zenon, <1>2, <1>4, <2>1, <2>2, ConcatProperties DEF Joined
<1>7. ASSUME Use(Int32(Len(e))) PROVE Goes(r, e \o AfterNeedle(r, k))
  <2>1. /\ field' = "needle" /\ want' = Len(e)
        /\ results' = results /\ list' = list
    BY Zenon, <1>1, <1>5, <1>7 DEF Use, ReadNext
  <2>2. ReadsNeedle(field', want', list', r, e \o AfterNeedle(r, k))
    BY Zenon, <1>1, <1>2, <2>1 DEF ReadsNeedle
  <2> QED BY Zenon, <2>1, <2>2 DEF Goes, Within
<1> QED BY Zenon, <1>1, <1>4, <1>5, <1>6, <1>7 DEF Proceeds

\* Occurrence reads a needle: all of it, and no more.
LEMMA NeedleProceeds ==
  ASSUME NEW r, IsRequest(r), Mode = r.mode, NEW C,
         ReadsNeedle(field, want, list, r, C)
  PROVE  Proceeds(r, C)
<1>1. field = "needle" /\ WithNeedle(r.mode)
  BY DEF ReadsNeedle
<1>2. PICK k \in Nat : /\ Lacking(r, list, k)
                       /\ want = Len(Answer(r)[k + 1].needle)
                       /\ C = Answer(r)[k + 1].needle \o AfterNeedle(r, k)
  BY DEF ReadsNeedle
<1>3. /\ k + 1 \in 1..Len(Answer(r)) /\ k < Len(Answer(r))
      /\ list \in Seq(Occurrences) /\ Len(list) = k + 1
      /\ First(r.mode) => k = 0
      /\ list[k + 1] = [data |-> Answer(r)[k + 1].data, needle |-> <<>>]
      /\ Answer(r) \in Seq(Occurrences)
  BY <1>2, AnswerType DEF Lacking
<1> PICK e : e = Answer(r)[k + 1].needle
  OBVIOUS
<1>4. e \in Seq(Int) /\ AfterNeedle(r, k) \in Seq(Int)
      /\ Answer(r)[k + 1] = [data |-> Answer(r)[k + 1].data, needle |-> e]
  BY <1>3, AnswerType, NextBody DEF AfterNeedle
<1>5. ASSUME Use(e) PROVE Goes(r, AfterNeedle(r, k))
  <2> PICK full : full = [list EXCEPT ![k + 1].needle = e]
    OBVIOUS
  <2>1. EndOfOccurrence(full)
    BY Zenon, <1>1, <1>3, <1>5 DEF Use
  <2>2. HasFirst(full, Answer(r), k + 1) /\ full \in Seq(Occurrences)
    <3> PICK last : last = Answer(r)[k + 1]
      OBVIOUS
    <3>1. last = [list[k + 1] EXCEPT !.needle = e]
      <4>1. [list[k + 1] EXCEPT !.needle = e]
              = [data |-> Answer(r)[k + 1].data, needle |-> e]
        BY <1>3
      <4> QED BY Zenon, <1>4, <4>1
    <3>2. last \in Occurrences
      BY <1>3
    <3>3. k + 1 \in 1..Len(list)
      BY <1>3
    <3>4. full = [list EXCEPT ![k + 1] = last]
      BY Zenon, <3>1
    <3>5. /\ full \in Seq(Occurrences) /\ Len(full) = k + 1
          /\ full[k + 1] = last /\ \A i \in 1..k : full[i] = list[i]
      BY <1>3, <3>2, <3>3, <3>4
    <3> QED BY <1>2, <3>5, LackingFilled
  <2> QED BY <1>3, <2>1, <2>2, EndOfOccurrenceGoes
<1> QED BY Zenon, <1>2, <1>4, <1>5 DEF Proceeds

\* What M makes of each of w, and that joined.
Images(M, w) == [i \in 1..Len(w) |-> M[w[i]]]
Joint(M, w) == FlattenSeq(Images(M, w))

\* e is the sequence of the images of w.
AreImages(M, w, e) ==
  /\ e = Images(M, w) /\ e \in Seq(Seq(Int)) /\ Len(e) = Len(w)
  /\ \A i \in 1..Len(w) : e[i] = M[w[i]]

\* The images are sequences, one for each of w.
LEMMA ImagesType ==
  ASSUME NEW X, NEW M \in [X -> Seq(Int)], NEW w \in Seq(X)
  PROVE  AreImages(M, w, Images(M, w)) /\ Joint(M, w) \in Seq(Int)
<1> PICK n \in Nat : n = Len(w)
  OBVIOUS
<1>1. \A i \in 1..n : w[i] \in X
  OBVIOUS
<1>2. \A i \in 1..n : M[w[i]] \in Seq(Int)
  BY Zenon, <1>1
<1> PICK e : e = [i \in 1..n |-> M[w[i]]]
  OBVIOUS
<1>3. e \in [1..n -> Seq(Int)]
  BY Zenon, <1>2
<1>4. e \in Seq(Seq(Int)) /\ Len(e) = n
  BY ONLY SMT, <1>3, n \in Nat
<1>5. Joint(M, w) = FlattenSeq(e) /\ e = Images(M, w)
  BY Zenon DEF Joint, Images
<1>6. FlattenSeq(e) \in Seq(Int)
  BY <1>4, FlattenType
<1>7. \A i \in 1..n : e[i] = M[w[i]]
  BY Zenon
<1> QED BY Zenon, <1>4, <1>5, <1>6, <1>7 DEF AreImages

\* A sequence with the elements of a and then those of b.
InTwoParts(a, b, c) ==
  /\ Len(c) = Len(a) + Len(b) /\ \A i \in 1..Len(a) : c[i] = a[i]
  /\ \A j \in 1..Len(b) : c[Len(a) + j] = b[j]

\* Such a sequence is the concatenation.
LEMMA TwoParts ==
  ASSUME NEW S, NEW a \in Seq(S), NEW b \in Seq(S), NEW c \in Seq(S),
         InTwoParts(a, b, c)
  PROVE  c = a \o b
<1> USE DEF InTwoParts
<1> DEFINE d == a \o b
<1>1. /\ d \in Seq(S) /\ Len(d) = Len(a) + Len(b)
      /\ \A i \in 1..Len(a) : d[i] = a[i]
      /\ \A j \in 1..Len(b) : d[Len(a) + j] = b[j]
  OBVIOUS
<1> HIDE DEF d
<1>2. Len(a) \in Nat /\ Len(b) \in Nat
  OBVIOUS
<1>3. ASSUME NEW i \in 1..Len(a) + Len(b) PROVE c[i] = d[i]
  <2>1. CASE i \in 1..Len(a)
    BY Zenon, <1>1, <2>1
  <2>2. CASE i \notin 1..Len(a)
    <3>1. i - Len(a) \in 1..Len(b) /\ Len(a) + (i - Len(a)) = i
      BY ONLY SMT, <1>2, <2>2, i \in 1..Len(a) + Len(b)
    <3> QED BY Zenon, <1>1, <3>1
  <2> QED BY <2>1, <2>2
<1>4. \A i \in 1..Len(c) : c[i] = d[i]
  BY Zenon, <1>3
<1>5. Len(c) = Len(d)
  BY Zenon, <1>1
<1> QED BY <1>1, <1>4, <1>5, SeqEqual DEF d

\* Images of a concatenation.
LEMMA ImagesConcat ==
  ASSUME NEW X, NEW M \in [X -> Seq(Int)],
         NEW w \in Seq(X), NEW v \in Seq(X)
  PROVE  Images(M, w \o v) = Images(M, w) \o Images(M, v)
<1>1. /\ w \o v \in Seq(X) /\ Len(w \o v) = Len(w) + Len(v)
      /\ Len(w) \in Nat /\ Len(v) \in Nat
      /\ \A i \in 1..Len(w) : (w \o v)[i] = w[i]
      /\ \A j \in 1..Len(v) : (w \o v)[Len(w) + j] = v[j]
  OBVIOUS
<1>2. PICK a : AreImages(M, w, a)
  BY Zenon, ImagesType
<1>3. PICK b : AreImages(M, v, b)
  BY Zenon, ImagesType
<1>4. PICK c : AreImages(M, w \o v, c)
  BY Zenon, <1>1, ImagesType
<1>5. /\ \A i \in 1..Len(w) : i \in 1..Len(w) + Len(v)
      /\ \A j \in 1..Len(v) : Len(w) + j \in 1..Len(w) + Len(v)
  <2>1. \A m, n \in Nat : /\ \A i \in 1..m : i \in 1..m + n
                          /\ \A j \in 1..n : m + j \in 1..m + n
    BY ONLY SMT
  <2> QED BY Zenon, <1>1, <2>1
<1>6. /\ Len(c) = Len(w) + Len(v) /\ Len(a) = Len(w) /\ Len(b) = Len(v)
      /\ a \in Seq(Seq(Int)) /\ b \in Seq(Seq(Int)) /\ c \in Seq(Seq(Int))
  BY Zenon, <1>1, <1>2, <1>3, <1>4 DEF AreImages
<1>7. ASSUME NEW i \in 1..Len(w) PROVE c[i] = a[i]
  <2>1. i \in 1..Len(w \o v)
    BY Zenon, <1>1, <1>5
  <2>2. c[i] = M[(w \o v)[i]]
    BY Zenon, <1>4, <2>1 DEF AreImages
  <2>3. a[i] = M[w[i]]
    BY Zenon, <1>2 DEF AreImages
  <2> QED BY Zenon, <1>1, <2>2, <2>3
<1>8. ASSUME NEW j \in 1..Len(v) PROVE c[Len(w) + j] = b[j]
  <2>1. Len(w) + j \in 1..Len(w \o v)
    BY Zenon, <1>1, <1>5
  <2>2. c[Len(w) + j] = M[(w \o v)[Len(w) + j]]
    BY Zenon, <1>4, <2>1 DEF AreImages
  <2>3. b[j] = M[v[j]]
    BY Zenon, <1>3 DEF AreImages
  <2> QED BY Zenon, <1>1, <2>2, <2>3
<1>9. c = a \o b
  <2>1. InTwoParts(a, b, c)
    BY Zenon, <1>6, <1>7, <1>8 DEF InTwoParts
  <2> QED BY ZenonT(60), <1>6, <2>1, TwoParts
<1> QED BY Zenon, <1>2, <1>3, <1>4, <1>9 DEF AreImages

\* The joint of a concatenation.
LEMMA JointConcat ==
  ASSUME NEW X, NEW M \in [X -> Seq(Int)],
         NEW w \in Seq(X), NEW v \in Seq(X)
  PROVE  Joint(M, w \o v) = Joint(M, w) \o Joint(M, v)
<1>1. w \o v \in Seq(X)
  BY ConcatProperties
<1>2. Images(M, w \o v) = Images(M, w) \o Images(M, v)
  BY Zenon, <1>1, ImagesConcat
<1>3. Images(M, w) \in Seq(Seq(Int)) /\ Images(M, v) \in Seq(Seq(Int))
  BY ImagesType DEF AreImages
<1>4. FlattenSeq(Images(M, w) \o Images(M, v))
        = FlattenSeq(Images(M, w)) \o FlattenSeq(Images(M, v))
  BY <1>3, FlattenConcat
<1> QED BY Zenon, <1>2, <1>4 DEF Joint

\* The joint of a single one.
LEMMA JointOne ==
  ASSUME NEW X, NEW M \in [X -> Seq(Int)], NEW x \in X
  PROVE  Joint(M, <<x>>) = M[x]
<1> PICK w : w = <<x>>
  OBVIOUS
<1>1. w \in Seq(X) /\ Len(w) = 1 /\ w[1] = x
  OBVIOUS
<1> PICK e : AreImages(M, w, e)
  BY Zenon, <1>1, ImagesType
<1>2. e \in Seq(Seq(Int)) /\ Len(e) = 1 /\ e[1] = M[x]
  <2>1. e \in Seq(Seq(Int)) /\ Len(e) = Len(w)
        /\ \A i \in 1..Len(w) : e[i] = M[w[i]]
    BY Zenon DEF AreImages
  <2>2. 1 \in 1..1
    OBVIOUS
  <2> QED BY Zenon, <1>1, <2>1, <2>2
<1>3. 0 \in Nat /\ 0 < Len(e) /\ 0 + 1 = 1 /\ From(e, 0) = e
  BY <1>2, FromEnds
<1>4. From(e, 1) = <<>>
  <2>1. From(e, Len(e)) = <<>>
    BY <1>2, FromEnds
  <2> QED BY Zenon, <1>2, <2>1
<1>5. FlattenSeq(From(e, 0)) = e[0 + 1] \o FlattenSeq(From(e, 0 + 1))
  BY <1>2, <1>3, FlattenFrom
<1>6. M[x] \o <<>> = M[x]
  BY ConcatEmptySeq
<1>7. Joint(M, w) = FlattenSeq(e)
  BY Zenon DEF Joint, AreImages
<1>8. FlattenSeq(e) = M[x] \o FlattenSeq(<<>>)
  BY Zenon, <1>2, <1>3, <1>4, <1>5
<1> QED BY Zenon, <1>6, <1>7, <1>8, FlattenEmpty

Answers(w) == FlattenSeq([i \in 1..Len(w) |-> FrameOf(w[i])])
Asks(u) == FlattenSeq([i \in 1..Len(u) |-> Request(u[i])])

\* A request is the mode, the length of the text and the text.
LEMMA RequestIs ==
  ASSUME NEW r \in Requests
  PROVE  /\ Request(r) \in Seq(Int) /\ Len(Request(r)) = 3 + Len(r.text)
         /\ Len(r.text) \in Nat /\ r.text \in Seq(Int)
         /\ Request(r)[1] = r.mode /\ Request(r)[2] = Len(r.text)
         /\ \A i \in 1..Len(r.text) : Request(r)[3 + i] = r.text[i]
<1>1. r.mode \in Nat /\ r.text \in Seq(Nat)
  BY RequestsType DEF IsRequest
<1>2. r.text \in Seq(Int) /\ Len(r.text) \in Nat
  BY Zenon, <1>1, NatsAreInts
<1>3. \A m, n \in Nat : <<m>> \o <<n, 0>> = <<m, n, 0>>
  <2> SUFFICES ASSUME NEW m \in Nat, NEW n \in Nat
               PROVE  <<m>> \o <<n, 0>> = <<m, n, 0>>
    OBVIOUS
  <2>1. <<m>> \in Seq(Int) /\ <<n, 0>> \in Seq(Int) /\ <<m, n, 0>> \in Seq(Int)
        /\ Len(<<m>>) = 1 /\ Len(<<n, 0>>) = 2 /\ Len(<<m, n, 0>>) = 3
        /\ <<m>>[1] = m /\ <<n, 0>>[1] = n /\ <<n, 0>>[2] = 0
        /\ <<m, n, 0>>[1] = m /\ <<m, n, 0>>[2] = n /\ <<m, n, 0>>[3] = 0
    OBVIOUS
  <2>2. /\ \A i \in 1..1 : <<m, n, 0>>[i] = <<m>>[i]
        /\ \A j \in 1..2 : <<m, n, 0>>[1 + j] = <<n, 0>>[j]
    <3>1. \A i \in 1..1 : i = 1
      OBVIOUS
    <3>2. (\A j \in 1..2 : j = 1 \/ j = 2) /\ 1 + 1 = 2 /\ 1 + 2 = 3
      OBVIOUS
    <3> QED BY Zenon, <2>1, <3>1, <3>2
  <2>3. 3 = 1 + 2
    OBVIOUS
  <2>4. InTwoParts(<<m>>, <<n, 0>>, <<m, n, 0>>)
    BY Zenon, <2>1, <2>2, <2>3 DEF InTwoParts
  <2> QED BY Zenon, <2>1, <2>4, TwoParts
<1>4. Request(r) = <<r.mode, Len(r.text), 0>> \o r.text
  BY Zenon, <1>1, <1>2, <1>3 DEF Request, Int32
<1>5. \A m \in Nat : \A t \in Seq(Int) :
        /\ <<m, Len(t), 0>> \o t \in Seq(Int)
        /\ Len(<<m, Len(t), 0>> \o t) = 3 + Len(t)
        /\ (<<m, Len(t), 0>> \o t)[1] = m
        /\ (<<m, Len(t), 0>> \o t)[2] = Len(t)
        /\ \A i \in 1..Len(t) : (<<m, Len(t), 0>> \o t)[3 + i] = t[i]
  BY ONLY SMTT(20)
<1> PICK t \in Seq(Int) : t = r.text
  BY <1>2
<1>6. /\ <<r.mode, Len(t), 0>> \o t \in Seq(Int)
      /\ Len(<<r.mode, Len(t), 0>> \o t) = 3 + Len(t)
      /\ (<<r.mode, Len(t), 0>> \o t)[1] = r.mode
      /\ (<<r.mode, Len(t), 0>> \o t)[2] = Len(t)
      /\ \A i \in 1..Len(t) : (<<r.mode, Len(t), 0>> \o t)[3 + i] = t[i]
  BY Zenon, <1>1, <1>5
<1> QED BY Zenon, <1>2, <1>4, <1>6

\* Answers and requests, joined.
LEMMA StreamsJoin ==
  /\ \A w \in Seq(Requests) : Answers(w) \in Seq(Int) /\ Asks(w) \in Seq(Int)
  /\ \A w, v \in Seq(Requests) : /\ Answers(w \o v) = Answers(w) \o Answers(v)
                                 /\ Asks(w \o v) = Asks(w) \o Asks(v)
  /\ \A r \in Requests : Answers(<<r>>) = FrameOf(r) /\ Asks(<<r>>) = Request(r)
<1> DEFINE M == [r \in Requests |-> FrameOf(r)]
           N == [r \in Requests |-> Request(r)]
<1>1. M \in [Requests -> Seq(Int)] /\ N \in [Requests -> Seq(Int)]
  <2>1. \A r \in Requests : FrameOf(r) \in Seq(Int)
    BY RequestsType, FrameLayout
  <2>2. \A r \in Requests : Request(r) \in Seq(Int)
    BY RequestIs
  <2> QED BY Zenon, <2>1, <2>2
<1>2. ASSUME NEW w \in Seq(Requests)
      PROVE  Answers(w) = Joint(M, w) /\ Asks(w) = Joint(N, w)
  <2>1. \A i \in 1..Len(w) : w[i] \in Requests
    OBVIOUS
  <2>2. [i \in 1..Len(w) |-> FrameOf(w[i])] = [i \in 1..Len(w) |-> M[w[i]]]
    BY Zenon, <2>1
  <2>3. [i \in 1..Len(w) |-> Request(w[i])] = [i \in 1..Len(w) |-> N[w[i]]]
    BY Zenon, <2>1
  <2> QED BY Zenon, <2>2, <2>3 DEF Answers, Asks, Joint, Images
<1>3. \A r \in Requests : M[r] = FrameOf(r) /\ N[r] = Request(r)
  BY Zenon
<1> HIDE DEF M, N
<1>4. \A w \in Seq(Requests) :
        Joint(M, w) \in Seq(Int) /\ Joint(N, w) \in Seq(Int)
  BY <1>1, ImagesType
<1>5. ASSUME NEW w \in Seq(Requests), NEW v \in Seq(Requests)
      PROVE  /\ Answers(w \o v) = Answers(w) \o Answers(v)
             /\ Asks(w \o v) = Asks(w) \o Asks(v)
  <2>1. w \o v \in Seq(Requests)
    BY ConcatProperties
  <2>2. /\ Joint(M, w \o v) = Joint(M, w) \o Joint(M, v)
        /\ Joint(N, w \o v) = Joint(N, w) \o Joint(N, v)
    BY ZenonT(60), <1>1, JointConcat
  <2> QED BY Zenon, <1>2, <2>1, <2>2
<1>6. ASSUME NEW r \in Requests
      PROVE  Answers(<<r>>) = FrameOf(r) /\ Asks(<<r>>) = Request(r)
  <2>1. <<r>> \in Seq(Requests)
    OBVIOUS
  <2>2. Joint(M, <<r>>) = M[r] /\ Joint(N, <<r>>) = N[r]
    BY <1>1, JointOne
  <2> QED BY Zenon, <1>2, <1>3, <2>1, <2>2
<1> QED BY Zenon, <1>2, <1>4, <1>5, <1>6

\* Nobody asks nothing, and nothing is the answer.
LEMMA NoStream ==
  Answers(<<>>) = <<>> /\ Asks(<<>>) = <<>>
<1>1. 1..Len(<<>>) = {}
  OBVIOUS
<1>2. [i \in 1..Len(<<>>) |-> FrameOf(<<>>[i])] = <<>>
      /\ [i \in 1..Len(<<>>) |-> Request(<<>>[i])] = <<>>
  BY <1>1
<1> QED BY Zenon, <1>2, FlattenEmpty DEF Answers, Asks

\* Of two equal beginnings, the rest is equal.
LEMMA CancelFirst ==
  ASSUME NEW c \in Seq(Int), NEW x \in Seq(Int), NEW y \in Seq(Int),
         c \o x = c \o y
  PROVE  x = y
<1>1. /\ Len(c \o x) = Len(c) + Len(x) /\ Len(c \o y) = Len(c) + Len(y)
      /\ \A i \in 1..Len(x) : (c \o x)[Len(c) + i] = x[i]
      /\ \A i \in 1..Len(y) : (c \o y)[Len(c) + i] = y[i]
      /\ Len(c) \in Nat /\ Len(x) \in Nat /\ Len(y) \in Nat
  OBVIOUS
<1>2. Len(x) = Len(y)
  BY <1>1
<1>3. \A i \in 1..Len(x) : x[i] = y[i]
  BY Zenon, <1>1, <1>2
<1> QED BY <1>2, <1>3, SeqEqual

\* The longer of two beginnings of a sequence begins with the shorter one.
Cut(a, b, c, d) ==
  /\ a = c \o From(a, Len(c)) /\ d = From(a, Len(c)) \o b
  /\ From(a, Len(c)) \in Seq(Int) /\ SubSeq(a, 1, Len(c)) = c

\* When two beginnings join to the same sequence, the longer is cut so.
LEMMA LongerBeginning ==
  ASSUME NEW a \in Seq(Int), NEW b \in Seq(Int), NEW c \in Seq(Int),
         NEW d \in Seq(Int), a \o b = c \o d, Len(c) <= Len(a)
  PROVE  Cut(a, b, c, d)
<1> DEFINE e == From(a, Len(c))
<1>1. Len(a) \in Nat /\ Len(c) \in Nat
  OBVIOUS
<1>2. \A i \in 1..Len(c) : a[i] = c[i]
  <2>1. /\ \A i \in 1..Len(c) : (c \o d)[i] = c[i]
        /\ \A i \in 1..Len(a) : (a \o b)[i] = a[i]
    OBVIOUS
  <2>2. \A i \in 1..Len(c) : i \in 1..Len(a)
    BY <1>1
  <2> QED BY Zenon, <2>1, <2>2
<1>3. e \in Seq(Int) /\ SubSeq(a, 1, Len(c)) \in Seq(Int)
  <2>1. \A i \in Len(c) + 1..Len(a) : a[i] \in Int
    BY <1>1
  <2>2. \A i \in 1..Len(c) : a[i] \in Int
    BY <1>1
  <2>3. Len(c) + 1 \in Int /\ Len(c) \in Int /\ Len(a) \in Int /\ 1 \in Int
    BY <1>1
  <2> QED BY <2>1, <2>2, <2>3, SubSeqProperties DEF From
<1>4. SubSeq(a, 1, Len(c)) = c
  <2> PICK s : s = SubSeq(a, 1, Len(c))
    OBVIOUS
  <2>1. Len(s) = Len(c) /\ \A i \in 1..Len(c) : s[i] = a[i]
    BY <1>1
  <2>2. \A i \in 1..Len(s) : s[i] = c[i]
    BY Zenon, <1>2, <2>1
  <2> QED BY <1>3, <2>1, <2>2, SeqEqual
<1>5. c \o e = a
  <2>1. 1 \in 1..Len(a) + 1 /\ Len(c) \in 1 - 1..Len(a)
        /\ Len(a) \in Len(c)..Len(a)
    BY <1>1
  <2>2. SubSeq(a, 1, Len(c)) \o e = SubSeq(a, 1, Len(a))
    BY <2>1, ConcatAdjacentSubSeq DEF From
  <2>3. SubSeq(a, 1, Len(a)) = a
    BY SubSeqFull
  <2> QED BY Zenon, <1>4, <2>2, <2>3
<1> HIDE DEF e
<1>6. e \o b = d
  <2>1. Joined(c, e, b)
    BY Zenon, <1>3, NumbersJoin
  <2>2. c \o (e \o b) = c \o d
    BY Zenon, <1>5, <2>1 DEF Joined
  <2>3. e \o b \in Seq(Int)
    BY <1>3, ConcatProperties
  <2> QED BY <2>2, <2>3, CancelFirst
<1> QED BY Zenon, <1>3, <1>4, <1>5, <1>6 DEF Cut, e

\* The handler finds the first of the requests that are on their way.
Takes(buffer, rest, u) ==
  \E r \in Requests, v \in Seq(Requests) :
    /\ u = <<r>> \o v /\ buffer[1] = r.mode
    /\ SubSeq(buffer, 4, 3 + buffer[2]) = r.text
    /\ SubSeq(buffer, 3 + buffer[2] + 1, Len(buffer)) \in Seq(Int)
    /\ SubSeq(buffer, 3 + buffer[2] + 1, Len(buffer)) \o rest = Asks(v)

\* A sequence that is not empty has a first element.
HasFirstIn(S, s) == \E x \in S, t \in Seq(S) : s = <<x>> \o t

\* Every sequence but the empty one has a first element.
LEMMA FirstAndRest ==
  ASSUME NEW S, NEW s \in Seq(S), s # <<>>
  PROVE  HasFirstIn(S, s)
<1>1. 0 \in Nat /\ 0 < Len(s)
  BY EmptySeq
<1>2. From(s, 0) = <<s[0 + 1]>> \o From(s, 0 + 1) /\ s[0 + 1] \in S
      /\ From(s, 0 + 1) \in Seq(S)
  BY <1>1, FromNext
<1>3. From(s, 0) = s
  BY FromEnds
<1> QED BY Zenon, <1>2, <1>3 DEF HasFirstIn

\* The beginning of a concatenation.
LEMMA FirstPart ==
  ASSUME NEW a \in Seq(Int), NEW b \in Seq(Int)
  PROVE  \A i \in 1..Len(a) : (a \o b)[i] = a[i]
OBVIOUS

\* A buffer that begins like a request, and is as long as its size says.
LikeRequest(q, words) ==
  /\ Len(q) = 3 + Len(words) /\ q[2] = Len(words)
  /\ \A i \in 1..Len(words) : q[3 + i] = words[i]
HeadIs(buffer, q, words) ==
  /\ buffer[1] = q[1] /\ buffer[2] = Len(words)
  /\ 3 + buffer[2] = Len(q) /\ Len(q) <= Len(buffer)
  /\ SubSeq(buffer, 4, Len(q)) = words

\* What joins to the same as a request begins with its mode, size and text.
LEMMA RequestHead ==
  ASSUME NEW buffer \in Seq(Int), NEW rest \in Seq(Int), NEW q \in Seq(Int),
         NEW t \in Seq(Int), NEW words \in Seq(Int), buffer \o rest = q \o t,
         LikeRequest(q, words), Whole(buffer)
  PROVE  HeadIs(buffer, q, words)
<1>1. Len(buffer) \in Nat /\ Len(words) \in Nat /\ Len(q) \in Nat
  BY ONLY buffer \in Seq(Int), words \in Seq(Int), q \in Seq(Int)
<1> USE DEF LikeRequest, Whole
<1>2. /\ \A i \in 1..Len(q) : (q \o t)[i] = q[i]
      /\ \A i \in 1..Len(buffer) : (buffer \o rest)[i] = buffer[i]
  BY ONLY FirstPart, buffer \in Seq(Int), rest \in Seq(Int), q \in Seq(Int),
          t \in Seq(Int)
<1>3. /\ 1 \in 1..Len(q) /\ 2 \in 1..Len(q)
      /\ 1 \in 1..Len(buffer) /\ 2 \in 1..Len(buffer)
  BY ONLY <1>1, Len(q) = 3 + Len(words), Len(buffer) >= 3
<1>4. buffer[1] = q[1] /\ buffer[2] = q[2]
  <2>1. (q \o t)[1] = q[1] /\ (q \o t)[2] = q[2]
    BY ONLY Zenon, <1>2, <1>3
  <2>2. (buffer \o rest)[1] = buffer[1] /\ (buffer \o rest)[2] = buffer[2]
    BY ONLY Zenon, <1>2, <1>3
  <2> QED BY ONLY Zenon, <2>1, <2>2, buffer \o rest = q \o t
<1>5. 3 + buffer[2] = Len(q) /\ Len(q) <= Len(buffer)
  BY <1>1, <1>4
<1>6. \A i \in 1..Len(words) : 3 + i \in 1..Len(q) /\ 3 + i \in 1..Len(buffer)
  BY ONLY <1>1, <1>5, Len(q) = 3 + Len(words)
<1>7. \A i \in 1..Len(words) : buffer[3 + i] = words[i]
  <2> SUFFICES ASSUME NEW i \in 1..Len(words)
               PROVE  buffer[3 + i] = words[i]
    OBVIOUS
  <2>1. (q \o t)[3 + i] = q[3 + i] /\ (buffer \o rest)[3 + i] = buffer[3 + i]
    BY Zenon, <1>2, <1>6
  <2>2. q[3 + i] = words[i]
    BY Zenon
  <2> QED BY ONLY Zenon, <2>1, <2>2, buffer \o rest = q \o t
<1>8. SubSeq(buffer, 4, Len(q)) = words
  <2>1. \A i \in 4..Len(q) : buffer[i] \in Int
    BY <1>1, <1>5
  <2> PICK n \in Nat : n = Len(words)
    BY <1>1
  <2>2. Len(q) = 3 + n
    OBVIOUS
  <2> PICK s : s = SubSeq(buffer, 4, 3 + n)
    OBVIOUS
  <2>3. /\ s \in Seq(Int) /\ Len(s) = n
        /\ \A i \in 1..n : s[i] = buffer[3 + i]
    <3>1. 3 + n <= Len(buffer)
      BY <1>5, <2>2
    <3> QED BY ONLY SMTT(60), <3>1, buffer \in Seq(Int), n \in Nat,
                    s = SubSeq(buffer, 4, 3 + n)
  <2>4. \A i \in 1..Len(s) : s[i] = words[i]
    BY Zenon, <1>7, <2>3
  <2>5. s = words
    BY ONLY <2>3, <2>4, n = Len(words), words \in Seq(Int), SeqEqual
  <2> QED BY Zenon, <2>2, <2>5
<1> QED BY Zenon, <1>4, <1>5, <1>8 DEF HeadIs

\* What the handler finds when the buffer holds a whole request.
LEMMA WholeRequest ==
  ASSUME NEW buffer \in Seq(Int), NEW rest \in Seq(Int),
         NEW u \in Seq(Requests), buffer \o rest = Asks(u), Whole(buffer)
  PROVE  Takes(buffer, rest, u)
<1>1. Len(buffer) >= 3 /\ Len(buffer) >= 3 + buffer[2] /\ Len(buffer) \in Nat
  BY DEF Whole
<1>2. u # <<>>
  <2> SUFFICES ASSUME u = <<>> PROVE FALSE
    OBVIOUS
  <2>1. buffer \o rest = <<>>
    BY Zenon, NoStream
  <2>2. Len(buffer \o rest) = Len(buffer) + Len(rest) /\ Len(rest) \in Nat
    OBVIOUS
  <2>3. Len(<<>>) = 0
    OBVIOUS
  <2> QED BY <1>1, <2>1, <2>2, <2>3
<1>3. PICK r \in Requests, v \in Seq(Requests) : u = <<r>> \o v
  <2>1. HasFirstIn(Requests, u)
    BY <1>2, FirstAndRest
  <2> QED BY Zenon, <2>1 DEF HasFirstIn
<1>4. /\ Request(r) \in Seq(Int) /\ Len(Request(r)) = 3 + Len(r.text)
      /\ Request(r)[1] = r.mode /\ Request(r)[2] = Len(r.text)
      /\ r.text \in Seq(Int)
      /\ \A i \in 1..Len(r.text) : Request(r)[3 + i] = r.text[i]
  BY RequestIs
<1>5. buffer \o rest = Request(r) \o Asks(v) /\ Asks(v) \in Seq(Int)
  <2>1. <<r>> \in Seq(Requests)
    OBVIOUS
  <2> QED BY Zenon, <1>3, <2>1, StreamsJoin
<1>6. /\ buffer[1] = r.mode /\ 3 + buffer[2] = Len(Request(r))
      /\ Len(Request(r)) <= Len(buffer)
      /\ SubSeq(buffer, 4, Len(Request(r))) = r.text
  <2>1. LikeRequest(Request(r), r.text)
    BY Zenon, <1>4 DEF LikeRequest
  <2>2. HeadIs(buffer, Request(r), r.text)
    BY Zenon, <1>4, <1>5, <2>1, RequestHead
  <2> QED BY Zenon, <1>4, <2>2 DEF HeadIs
<1>7. Cut(buffer, rest, Request(r), Asks(v))
  BY Zenon, <1>4, <1>5, <1>6, LongerBeginning
<1>8. SubSeq(buffer, 3 + buffer[2] + 1, Len(buffer))
        = From(buffer, Len(Request(r)))
  BY Zenon, <1>6 DEF From
<1> QED BY Zenon, <1>3, <1>6, <1>7, <1>8 DEF Takes, Cut

\* Occurrence is in the midst of the answer to the first of w, and with Z,
\* which is ahead, that answer and those to the others of w end.
Inside(f, n, value, w, Z) ==
  \E r \in Requests, v \in Seq(Requests), C \in Seq(Int) :
    /\ w = <<r>> \o v /\ Z = C \o Answers(v)
    /\ Within(f, n, value, r, C)

\* Where the client is, when what is ahead of it is Z and ends the answers to
\* the requests w.
Fetching(f, n, value, w, Z) ==
  \/ f = "none" /\ Z = Answers(w)
  \/ f = "size" /\ n = 2 /\ value = <<>> /\ Z = Answers(w)
  \/ Inside(f, n, value, w, Z)

\* Sequences of requests join in any order.
LEMMA RequestsJoin ==
  ASSUME NEW a \in Seq(Requests), NEW b \in Seq(Requests),
         NEW c \in Seq(Requests)
  PROVE  Joined(a, b, c) /\ a \o b \in Seq(Requests)
BY Associative, ConcatProperties DEF Joined

\* More answers behind those ahead.
LEMMA FetchingMore ==
  ASSUME NEW f, NEW n, NEW value, NEW w \in Seq(Requests),
         NEW y \in Seq(Requests), NEW Z \in Seq(Int),
         Fetching(f, n, value, w, Z)
  PROVE  Fetching(f, n, value, w \o y, Z \o Answers(y))
<1>1. CASE /\ Z = Answers(w)
           /\ \/ f = "none"
              \/ f = "size" /\ n = 2 /\ value = <<>>
  <2>1. Z \o Answers(y) = Answers(w \o y)
    BY Zenon, <1>1, StreamsJoin
  <2> QED BY Zenon, <1>1, <2>1 DEF Fetching
<1>2. CASE Inside(f, n, value, w, Z)
  <2>1. PICK r \in Requests, v \in Seq(Requests), C \in Seq(Int) :
          /\ w = <<r>> \o v /\ Z = C \o Answers(v)
          /\ Within(f, n, value, r, C)
    BY Zenon, <1>2 DEF Inside
  <2>2. <<r>> \in Seq(Requests)
    OBVIOUS
  <2>3. w \o y = <<r>> \o (v \o y) /\ v \o y \in Seq(Requests)
    <3>1. Joined(<<r>>, v, y) /\ v \o y \in Seq(Requests)
      BY Zenon, <2>2, RequestsJoin
    <3> QED BY Zenon, <2>1, <3>1 DEF Joined
  <2>4. Answers(v) \in Seq(Int) /\ Answers(y) \in Seq(Int)
        /\ Answers(v \o y) = Answers(v) \o Answers(y)
    BY Zenon, StreamsJoin
  <2>5. Z \o Answers(y) = C \o Answers(v \o y)
    <3>1. Joined(C, Answers(v), Answers(y))
      BY Zenon, <2>4, NumbersJoin
    <3> QED BY Zenon, <2>1, <2>4, <3>1 DEF Joined
  <2> QED BY Zenon, <2>1, <2>3, <2>5 DEF Inside, Fetching
<1>3. \/ f = "none" /\ Z = Answers(w)
      \/ f = "size" /\ n = 2 /\ value = <<>> /\ Z = Answers(w)
      \/ Inside(f, n, value, w, Z)
  BY Zenon DEF Fetching
<1> QED BY Zenon, <1>1, <1>2, <1>3

\* A client that reads is inside an answer as soon as something is ahead.
LEMMA FetchingInside ==
  ASSUME NEW f, NEW n, NEW value, NEW w \in Seq(Requests), NEW Z \in Seq(Int),
         Fetching(f, n, value, w, Z), f # "none", Z # <<>>
  PROVE  Inside(f, n, value, w, Z)
<1>1. CASE f = "size" /\ n = 2 /\ value = <<>> /\ Z = Answers(w)
  <2>1. w # <<>>
    BY Zenon, <1>1, NoStream
  <2>2. HasFirstIn(Requests, w)
    BY <2>1, FirstAndRest
  <2>3. PICK r \in Requests, v \in Seq(Requests) : w = <<r>> \o v
    BY Zenon, <2>2 DEF HasFirstIn
  <2>4. <<r>> \in Seq(Requests)
    OBVIOUS
  <2>5. Z = FrameOf(r) \o Answers(v)
    BY Zenon, <1>1, <2>3, <2>4, StreamsJoin
  <2>6. IsRequest(r)
    BY RequestsType
  <2>7. FrameOf(r) \in Seq(Int) /\ FrameOf(r) = SizeOf(r, 1) \o Bodies(r, 0)
    BY Zenon, <2>6, FrameLayout
  <2>8. ReadsSize(f, n, value, r, FrameOf(r))
    <3>1. <<>> \in Seq(Occurrences) /\ Len(<<>>) = 0 /\ 0 + 1 = 1 /\ 0 \in Nat
          /\ \A i \in 1..0 : FALSE
      OBVIOUS
    <3>2. 0 <= Len(Answer(r))
      BY <2>6, AnswerType
    <3>3. HasFirst(value, Answer(r), 0)
      BY Zenon, <1>1, <3>1, <3>2 DEF HasFirst
    <3> QED BY Zenon, <1>1, <2>7, <3>1, <3>2, <3>3 DEF ReadsSize
  <2> QED BY Zenon, <2>3, <2>5, <2>7, <2>8 DEF Inside, Within
<1> QED BY Zenon, <1>1 DEF Fetching

\* A step of Occurrence leaves the client among the answers to w, or it takes
\* the first of them.
GoesOn(w, T) ==
  \/ results' = results /\ Inside(field', want', list', w, T)
  \/ \E r \in Requests, v \in Seq(Requests) :
       /\ w = <<r>> \o v /\ T = Answers(v)
       /\ results' = Append(results, Answer(r))
       /\ field' = "none" /\ want' = 0

Ahead(w, Z) ==
  \E got, T \in Seq(Int) : /\ Z = got \o T /\ Len(got) = want
                           /\ Use(got) => GoesOn(w, T)

\* What is read next lies ahead, as soon as something does.
LEMMA FetchingReads ==
  ASSUME NEW w \in Seq(Requests), NEW Z \in Seq(Int), Z # <<>>,
         field # "none", Fetching(field, want, list, w, Z),
         \A r \in Requests, v \in Seq(Requests) :
           w = <<r>> \o v => Mode = r.mode
  PROVE  Ahead(w, Z)
<1>1. PICK r \in Requests, v \in Seq(Requests), C \in Seq(Int) :
        /\ w = <<r>> \o v /\ Z = C \o Answers(v)
        /\ Within(field, want, list, r, C)
  <2>1. Inside(field, want, list, w, Z)
    BY Zenon, FetchingInside
  <2> QED BY Zenon, <2>1 DEF Inside
<1>2. IsRequest(r) /\ Mode = r.mode
  BY Zenon, <1>1, RequestsType
<1>3. Proceeds(r, C)
  BY Zenon, <1>1, <1>2, SizeProceeds, DataProceeds, LengthProceeds,
     NeedleProceeds DEF Within
<1>4. PICK got \in Seq(Int), R \in Seq(Int) :
        C = got \o R /\ Len(got) = want /\ (Use(got) => Goes(r, R))
  BY Zenon, <1>3 DEF Proceeds
<1> DEFINE T == R \o Answers(v)
<1>5. Answers(v) \in Seq(Int) /\ T \in Seq(Int)
  BY Zenon, StreamsJoin, ConcatProperties
<1>6. Z = got \o T
  <2>1. Joined(got, R, Answers(v))
    BY Zenon, <1>5, NumbersJoin
  <2> QED BY Zenon, <1>1, <1>4, <2>1 DEF Joined
<1>7. ASSUME Use(got) PROVE GoesOn(w, T)
  <2>1. CASE results' = results /\ Within(field', want', list', r, R)
    BY Zenon, <1>1, <2>1 DEF GoesOn, Inside
  <2>2. CASE /\ results' = Append(results, Answer(r))
             /\ field' = "none" /\ want' = 0 /\ R = <<>>
    <3>1. T = Answers(v)
      BY <1>5, <2>2, ConcatEmptySeq
    <3> QED BY Zenon, <1>1, <2>2, <3>1 DEF GoesOn
  <2> QED BY Zenon, <1>4, <1>7, <2>1, <2>2 DEF Goes
<1> HIDE DEF T
<1> QED BY Zenon, <1>4, <1>5, <1>6, <1>7 DEF Ahead

\* A client inside an answer reads some number of bytes.
LEMMA InsideType ==
  ASSUME NEW f, NEW n, NEW value, NEW w, NEW Z, Inside(f, n, value, w, Z)
  PROVE  f \in {"size", "data", "length", "needle"} /\ n \in Nat
<1>1. ASSUME NEW r \in Requests, NEW C, Within(f, n, value, r, C)
      PROVE  f \in {"size", "data", "length", "needle"} /\ n \in Nat
  <2>1. \A k \in Nat : k < Len(Answer(r)) =>
          /\ Len(Answer(r)[k + 1].data) \in Nat
          /\ Len(Answer(r)[k + 1].needle) \in Nat
    <3> SUFFICES ASSUME NEW k \in Nat, k < Len(Answer(r))
                 PROVE  /\ Len(Answer(r)[k + 1].data) \in Nat
                        /\ Len(Answer(r)[k + 1].needle) \in Nat
      OBVIOUS
    <3>1. k + 1 \in 1..Len(Answer(r))
      BY RequestsType, AnswerType
    <3> QED BY <3>1, RequestsType, AnswerType
  <2>2. 2 \in Nat
    OBVIOUS
  <2> QED BY Zenon, <1>1, <2>1, <2>2 DEF Within, ReadsSize, ReadsData,
       ReadsLength, ReadsNeedle, Lacking
<1> QED BY Zenon, <1>1 DEF Inside

\* What is left behind the first part of a rest of a sequence.
RestIs(s, k, w, u) ==
  /\ k + Len(w) \in 0..Len(s) /\ u = From(s, k + Len(w))
  /\ Len(From(s, k)) = Len(s) - k

\* What follows a part of a rest is a rest.
LEMMA RestOfRest ==
  ASSUME NEW S, NEW s \in Seq(S), NEW k \in 0..Len(s), NEW w \in Seq(S),
         NEW u \in Seq(S), From(s, k) = w \o u
  PROVE  RestIs(s, k, w, u)
<1>1. Len(s) \in Nat /\ Len(w) \in Nat /\ Len(u) \in Nat /\ k \in Nat
      /\ k <= Len(s)
  OBVIOUS
<1>2. /\ Len(w \o u) = Len(w) + Len(u)
      /\ \A i \in 1..Len(u) : (w \o u)[Len(w) + i] = u[i]
  OBVIOUS
<1>3. \A j \in 0..Len(s) :
        /\ From(s, j) \in Seq(S) /\ Len(From(s, j)) = Len(s) - j
        /\ \A i \in 1..Len(s) - j : From(s, j)[i] = s[j + i]
  <2> SUFFICES ASSUME NEW j \in 0..Len(s)
               PROVE  /\ From(s, j) \in Seq(S) /\ Len(From(s, j)) = Len(s) - j
                      /\ \A i \in 1..Len(s) - j : From(s, j)[i] = s[j + i]
    OBVIOUS
  <2> QED BY ONLY SMTT(20), s \in Seq(S), j \in 0..Len(s) DEF From
<1>4. Len(s) - k = Len(w) + Len(u)
  BY Zenon, <1>2, <1>3
<1>5. k + Len(w) \in 0..Len(s) /\ Len(s) - (k + Len(w)) = Len(u)
  BY ONLY SMT, <1>1, <1>4
<1>6. \A i \in 1..Len(u) : /\ Len(w) + i \in 1..Len(s) - k
                           /\ k + (Len(w) + i) = (k + Len(w)) + i
  BY ONLY SMT, <1>1, <1>4
<1>7. \A i \in 1..Len(u) : u[i] = From(s, k + Len(w))[i]
  <2> SUFFICES ASSUME NEW i \in 1..Len(u)
               PROVE  u[i] = From(s, k + Len(w))[i]
    OBVIOUS
  <2>1. From(s, k)[Len(w) + i] = s[k + (Len(w) + i)]
    BY Zenon, <1>3, <1>6
  <2>2. From(s, k)[Len(w) + i] = u[i]
    BY Zenon, <1>2
  <2>3. From(s, k + Len(w))[i] = s[(k + Len(w)) + i]
    BY Zenon, <1>3, <1>5
  <2>4. k + (Len(w) + i) = (k + Len(w)) + i
    BY Zenon, <1>6
  <2> QED BY Zenon, <2>1, <2>2, <2>3, <2>4
<1>8. From(s, k + Len(w)) \in Seq(S) /\ Len(From(s, k + Len(w))) = Len(u)
  BY Zenon, <1>3, <1>5
<1>9. u = From(s, k + Len(w))
  BY <1>7, <1>8, SeqEqual
<1> QED BY Zenon, <1>3, <1>5, <1>9 DEF RestIs

\* The more requests are left, the longer what is left of the stream.
LEMMA AsksShrink ==
  ASSUME NEW s \in Seq(Requests), NEW i \in Nat, NEW j \in Nat, i <= j,
         j <= Len(s)
  PROVE  /\ Len(Asks(From(s, j))) <= Len(Asks(From(s, i)))
         /\ Len(Asks(From(s, i))) \in Nat
<1> DEFINE a == SubSeq(s, i + 1, j)
<1>1. i + 1 \in 1..Len(s) + 1 /\ j \in (i + 1) - 1..Len(s)
      /\ Len(s) \in j..Len(s) /\ Len(s) \in Nat
  OBVIOUS
<1>2. From(s, i) = a \o From(s, j)
  BY <1>1, ConcatAdjacentSubSeq DEF From
<1>3. a \in Seq(Requests) /\ From(s, j) \in Seq(Requests)
  <2>1. \A k \in i + 1..j : s[k] \in Requests
    BY <1>1
  <2>2. \A k \in j + 1..Len(s) : s[k] \in Requests
    BY <1>1
  <2> QED BY <1>1, <2>1, <2>2, SubSeqProperties DEF From
<1> HIDE DEF a
<1>4. /\ Asks(From(s, i)) = Asks(a) \o Asks(From(s, j))
      /\ Asks(a) \in Seq(Int) /\ Asks(From(s, j)) \in Seq(Int)
  BY Zenon, <1>2, <1>3, StreamsJoin
<1>5. \A x, y \in Seq(Int) : Len(x \o y) = Len(x) + Len(y)
        /\ Len(x) \in Nat /\ Len(y) \in Nat
  OBVIOUS
<1>6. Len(Asks(From(s, i))) = Len(Asks(a)) + Len(Asks(From(s, j)))
      /\ Len(Asks(a)) \in Nat /\ Len(Asks(From(s, j))) \in Nat
  BY Zenon, <1>4, <1>5
<1> QED BY ONLY SMT, <1>6

\* What After counts.
LEMMA AfterIs ==
  ASSUME asked \in Seq(Requests), NEW k \in 1..Len(asked)
  PROVE  After(k) = Len(Asks(From(asked, k)))
<1> PICK z : z = From(asked, k)
  OBVIOUS
<1>1. /\ Len(z) = Len(asked) - k
      /\ \A i \in 1..Len(asked) - k : z[i] = asked[k + i]
  BY ONLY SMTT(20), asked \in Seq(Requests), k \in 1..Len(asked),
          z = From(asked, k) DEF From
<1>2. [i \in 1..Len(z) |-> Request(z[i])]
        = [i \in 1..Len(asked) - k |-> Request(asked[k + i])]
  BY Zenon, <1>1
<1> QED BY Zenon, <1>2 DEF After, Asks

\* A sequence cut after its first n, behind a.
Parted(a, s, n) ==
  /\ SubSeq(s, 1, n) \in Seq(Int) /\ From(s, n) \in Seq(Int)
  /\ Len(From(s, n)) = Len(s) - n
  /\ a \o SubSeq(s, 1, n) \in Seq(Int)
  /\ (a \o SubSeq(s, 1, n)) \o From(s, n) = a \o s

\* A sequence can be cut anywhere.
LEMMA Parting ==
  ASSUME NEW a \in Seq(Int), NEW s \in Seq(Int), NEW n \in 1..Len(s)
  PROVE  Parted(a, s, n)
<1>1. n \in Int /\ Len(s) \in Nat /\ 1 \in Int /\ n + 1 \in Int
  OBVIOUS
<1>2. SubSeq(s, 1, n) \in Seq(Int)
  <2>1. \A i \in 1..n : s[i] \in Int
    OBVIOUS
  <2> QED BY <1>1, <2>1, SubSeqProperties
<1>3. From(s, n) \in Seq(Int) /\ Len(From(s, n)) = Len(s) - n
  <2>1. \A i \in n + 1..Len(s) : s[i] \in Int
    OBVIOUS
  <2> QED BY <1>1, <2>1, SubSeqProperties DEF From
<1>4. SubSeq(s, 1, n) \o From(s, n) = s
  <2>1. 1 \in 1..Len(s) + 1 /\ n \in 1 - 1..Len(s) /\ Len(s) \in n..Len(s)
    OBVIOUS
  <2>2. SubSeq(s, 1, n) \o From(s, n) = SubSeq(s, 1, Len(s))
    BY <2>1, ConcatAdjacentSubSeq DEF From
  <2>3. SubSeq(s, 1, Len(s)) = s
    BY SubSeqFull
  <2> QED BY Zenon, <2>2, <2>3
<1>5. a \o SubSeq(s, 1, n) \in Seq(Int)
  BY Zenon, <1>2, ConcatProperties
<1>6. Joined(a, SubSeq(s, 1, n), From(s, n))
  BY Zenon, <1>2, <1>3, NumbersJoin
<1> QED BY Zenon, <1>2, <1>3, <1>4, <1>5, <1>6 DEF Parted, Joined

\* What is long enough for a request holds it whole.
LEMMA HoldsRequest ==
  ASSUME NEW r \in Requests, NEW z \in Seq(Int), NEW buffer \in Seq(Int),
         NEW rest \in Seq(Int), buffer \o rest = Request(r) \o z,
         Len(rest) <= Len(z)
  PROVE  Whole(buffer)
<1> PICK q \in Seq(Int) : q = Request(r)
  BY RequestIs
<1>1. Len(q) = 3 + Len(r.text) /\ Len(r.text) \in Nat /\ q[2] = Len(r.text)
  BY RequestIs
<1>2. buffer \o rest = q \o z
  BY Zenon
<1>3. /\ Len(q \o z) = Len(q) + Len(z) /\ Len(z) \in Nat
      /\ Len(buffer \o rest) = Len(buffer) + Len(rest)
      /\ Len(buffer) \in Nat /\ Len(rest) \in Nat
  BY ONLY q \in Seq(Int), z \in Seq(Int), buffer \in Seq(Int),
          rest \in Seq(Int)
<1>4. Len(q) <= Len(buffer) /\ 2 \in 1..Len(q) /\ 2 \in 1..Len(buffer)
  <2>1. Len(q) + Len(z) = Len(buffer) + Len(rest)
    BY ONLY Zenon, <1>2, <1>3
  <2>2. Len(q) \in Nat
    OBVIOUS
  <2>3. \A a, b, c, d, e \in Nat : a = 3 + e /\ a + b = c + d /\ d <= b
          => a <= c /\ 2 \in 1..a /\ 2 \in 1..c
    BY ONLY SMT
  <2> QED BY Zenon, <1>1, <1>3, <2>1, <2>2, <2>3
<1>5. (q \o z)[2] = q[2] /\ (buffer \o rest)[2] = buffer[2]
  <2>1. /\ \A i \in 1..Len(q) : (q \o z)[i] = q[i]
        /\ \A i \in 1..Len(buffer) : (buffer \o rest)[i] = buffer[i]
    BY ONLY FirstPart, q \in Seq(Int), z \in Seq(Int), buffer \in Seq(Int),
            rest \in Seq(Int)
  <2> QED BY ONLY Zenon, <1>4, <2>1
<1>6. buffer[2] = q[2]
  BY Zenon, <1>2, <1>5
<1> QED BY ONLY <1>1, <1>3, <1>4, <1>6 DEF Whole

\* A read that ends where a request ends brings a whole request.
LEMMA EndBringsWhole ==
  ASSUME asked \in Seq(Requests), NEW w \in Seq(Requests),
         NEW u \in Seq(Requests), Len(results) \in 0..Len(asked),
         From(asked, Len(results)) = w \o u, Asks(u) = input \o toServer,
         input \in Seq(Int), toServer \in Seq(Int), NEW n \in 1..Len(toServer),
         EndsWith(n)
  PROVE  Whole(input \o SubSeq(toServer, 1, n))
<1> PICK m \in 0..Len(asked) : u = From(asked, m)
  <2>1. RestIs(asked, Len(results), w, u)
    BY Zenon, RestOfRest
  <2> QED BY Zenon, <2>1 DEF RestIs
<1>1. PICK k \in 1..Len(asked) :
        After(k) = Len(toServer) - n /\ After(k) < Len(toServer)
  BY DEF EndsWith, EndIn
<1>2. After(k) = Len(Asks(From(asked, k)))
  BY AfterIs
<1>3. /\ Len(Asks(u)) = Len(input) + Len(toServer) /\ Len(input) \in Nat
      /\ Len(toServer) \in Nat /\ Len(asked) \in Nat /\ m \in Nat /\ k \in Nat
      /\ m <= Len(asked) /\ k <= Len(asked)
  OBVIOUS
<1>4. m < k
  <2> SUFFICES ASSUME k <= m PROVE FALSE
    BY <1>3
  <2>1. Len(Asks(From(asked, m))) <= Len(Asks(From(asked, k)))
    BY <1>3, AsksShrink
  <2> QED BY <1>1, <1>2, <1>3, <2>1
<1>5. /\ From(asked, m) = <<asked[m + 1]>> \o From(asked, m + 1)
      /\ From(asked, m + 1) \in Seq(Requests) /\ asked[m + 1] \in Requests
  <2>1. m < Len(asked)
    BY ONLY SMT, <1>3, <1>4
  <2> QED BY <1>3, <2>1, FromNext
<1> PICK r \in Requests : r = asked[m + 1]
  BY <1>5
<1> PICK v \in Seq(Requests) : v = From(asked, m + 1)
  BY <1>5
<1>6. Len(Asks(From(asked, k))) <= Len(Asks(v))
  BY <1>3, <1>4, AsksShrink
<1> PICK buffer : buffer = input \o SubSeq(toServer, 1, n)
  OBVIOUS
<1> PICK rest : rest = From(toServer, n)
  OBVIOUS
<1>7. /\ buffer \in Seq(Int) /\ rest \in Seq(Int)
      /\ Len(rest) = Len(toServer) - n
      /\ input \o toServer = buffer \o rest
  BY Zenon, Parting DEF Parted
<1>8. buffer \o rest = Request(r) \o Asks(v)
  <2>1. <<r>> \in Seq(Requests)
    OBVIOUS
  <2>2. u = <<r>> \o v
    BY Zenon, <1>5
  <2>3. Asks(<<r>> \o v) = Asks(<<r>>) \o Asks(v) /\ Asks(<<r>>) = Request(r)
    BY Zenon, <2>1, StreamsJoin
  <2> QED BY Zenon, <1>7, <2>2, <2>3
<1>9. Asks(v) \in Seq(Int) /\ Len(rest) <= Len(Asks(v))
  <2>1. Len(rest) = Len(Asks(From(asked, k)))
    BY Zenon, <1>1, <1>2, <1>7
  <2> QED BY Zenon, <1>6, <2>1, StreamsJoin
<1> QED BY Zenon, <1>7, <1>8, <1>9, HoldsRequest

\* The types, of the streams too.
ProtocolTyped ==
  /\ asked \in Seq(Requests) /\ Len(asked) <= MaxRequests
  /\ results \in Seq(Seq(Occurrences))
  /\ Len(results) <= Len(asked) /\ Len(asked) <= Len(results) + MaxAhead
  /\ field \in {"none", "size", "data", "length", "needle", "failed"}
  /\ want \in Nat
  /\ toServer \in Seq(Int) /\ input \in Seq(Int)
  /\ toClient \in Seq(Int) /\ arrived \in Seq(Int)
  /\ alive \in BOOLEAN /\ mishaps \subseteq Mishap

\* The client fetches the answers to w from A, which has arrived, and B, which
\* has not; as long as every answer arrived whole, A ends where one ends.
Fetched(f, n, value, w, A, B, m) ==
  /\ Fetching(f, n, value, w, A \o B)
  /\ "answer cut" \notin m =>
       \E x, y \in Seq(Requests) :
         w = x \o y /\ B = Answers(y) /\ Fetching(f, n, value, x, A)

\* Of the requests that have no answer yet, the server has answered the first,
\* w, and the others, u, are on their way to it.
Carried(a, k, w, u, i, t) == From(a, k) = w \o u /\ Asks(u) = i \o t
Flowing ==
  \E w, u \in Seq(Requests) :
    /\ Carried(asked, Len(results), w, u, input, toServer)
    /\ field # "failed" =>
         Fetched(field, want, list, w, arrived, toClient, mishaps)

ProtocolInv == ProtocolTyped /\ Flowing /\ ErrorsOnlyOfMishaps

\* The invariant holds of a fresh connection.
LEMMA InitProtocol ==
  ASSUME ProtocolInit
  PROVE  ProtocolInv
<1>1. /\ <<>> \in Seq(Requests) /\ <<>> \in Seq(Seq(Occurrences))
      /\ <<>> \in Seq(Int) /\ Len(<<>>) = 0 /\ <<>> \o <<>> = <<>>
      /\ 0 \in Nat
  OBVIOUS
<1>2. ProtocolTyped
  <2>1. 0 <= MaxRequests /\ 0 <= 0 /\ 0 <= 0 + MaxAhead
    BY ProtocolAssumption
  <2> QED BY Zenon, <1>1, <2>1 DEF ProtocolTyped, ProtocolInit
<1>3. From(<<>>, 0) = <<>>
  BY <1>1, FromEnds
<1>4. Fetched("none", want, list, <<>>, <<>>, <<>>, mishaps)
  BY Zenon, <1>1, NoStream DEF Fetched, Fetching
<1>5. Carried(<<>>, 0, <<>>, <<>>, <<>>, <<>>)
  BY Zenon, <1>1, <1>3, NoStream DEF Carried
<1>6. Flowing
  BY Zenon, <1>1, <1>4, <1>5 DEF Flowing, ProtocolInit
<1>7. ErrorsOnlyOfMishaps
  BY Zenon DEF ErrorsOnlyOfMishaps, ProtocolInit
<1> QED BY <1>2, <1>6, <1>7 DEF ProtocolInv

\* The rest of a sequence that grows.
LEMMA RestAppend ==
  ASSUME NEW S, NEW s \in Seq(S), NEW x \in S, NEW k \in 0..Len(s)
  PROVE  From(Append(s, x), k) = From(s, k) \o <<x>>
<1> PICK t : t = Append(s, x)
  OBVIOUS
<1> PICK n \in Nat : n = Len(s)
  OBVIOUS
<1>1. t \in Seq(S) /\ Len(t) = n + 1 /\ t[n + 1] = x
      /\ \A i \in 1..n : t[i] = s[i]
  OBVIOUS
<1>2. k \in 0..n /\ s \in Seq(S) /\ Len(s) = n
  OBVIOUS
<1> PICK e : e = From(s, k)
  OBVIOUS
<1>3. e \in Seq(S) /\ Len(e) = n - k /\ \A i \in 1..n - k : e[i] = s[k + i]
  BY ONLY SMTT(20), <1>2, e = From(s, k) DEF From
<1> PICK f : f = From(t, k)
  OBVIOUS
<1>4. f \in Seq(S) /\ Len(f) = n + 1 - k
      /\ \A i \in 1..n + 1 - k : f[i] = t[k + i]
  BY ONLY SMTT(20), <1>1, <1>2, f = From(t, k) DEF From
<1> PICK o : o = <<x>>
  OBVIOUS
<1>5. o \in Seq(S) /\ Len(o) = 1 /\ o[1] = x
  OBVIOUS
<1>6. InTwoParts(e, o, f)
  <2>1. Len(f) = Len(e) + Len(o)
    BY ONLY SMT, <1>2, <1>3, <1>4, <1>5, n \in Nat
  <2>2. \A i \in 1..n - k : f[i] = e[i]
    <3>1. \A i \in 1..n - k : i \in 1..n + 1 - k /\ k + i \in 1..n
      BY ONLY SMT, <1>2, n \in Nat
    <3> QED BY ONLY Zenon, <1>1, <1>3, <1>4, <3>1
  <2>3. \A j \in 1..1 : f[n - k + j] = o[j]
    <3>1. n + 1 - k \in 1..n + 1 - k /\ k + (n + 1 - k) = n + 1
          /\ (\A j \in 1..1 : j = 1) /\ n - k + 1 = n + 1 - k
      BY ONLY SMT, <1>2, n \in Nat
    <3>2. f[n + 1 - k] = x
      BY ONLY Zenon, <1>1, <1>4, <3>1
    <3> QED BY ONLY Zenon, <1>5, <3>1, <3>2
  <2> QED BY ONLY Zenon, <1>3, <1>5, <2>1, <2>2, <2>3 DEF InTwoParts
<1>7. f = e \o o
  BY <1>3, <1>4, <1>5, <1>6, TwoParts
<1> QED BY Zenon, <1>7

\* Search appends one request to those on their way.
LEMMA SendRequestKeeps ==
  ASSUME ProtocolInv, NEW r \in Requests, SendRequest(r)
  PROVE  ProtocolInv'
<1> USE DEF ProtocolInv
<1>1. ProtocolTyped'
  <2>1. /\ asked' \in Seq(Requests) /\ Len(asked') = Len(asked) + 1
        /\ Len(asked) \in Nat /\ Len(results) \in Nat
    BY DEF SendRequest, ProtocolTyped
  <2>2. /\ Len(asked') <= MaxRequests /\ Len(results) <= Len(asked')
        /\ Len(asked') <= Len(results) + MaxAhead
    BY <2>1, ProtocolAssumption DEF SendRequest, ProtocolTyped
  <2>3. toServer' \in Seq(Int)
    BY RequestIs, ConcatProperties DEF SendRequest, ProtocolTyped
  <2> QED BY Zenon, <2>1, <2>2, <2>3 DEF SendRequest, ProtocolTyped
<1>2. PICK w \in Seq(Requests), u \in Seq(Requests) :
        /\ Carried(asked, Len(results), w, u, input, toServer)
        /\ field # "failed" =>
             Fetched(field, want, list, w, arrived, toClient, mishaps)
  BY Zenon DEF Flowing
<1>3. <<r>> \in Seq(Requests) /\ u \o <<r>> \in Seq(Requests)
  OBVIOUS
<1>4. Carried(asked', Len(results), w, u \o <<r>>, input, toServer')
  <2>1. From(asked', Len(results)) = From(asked, Len(results)) \o <<r>>
    <3>1. Len(results) \in 0..Len(asked) /\ asked \in Seq(Requests)
      BY DEF ProtocolTyped
    <3>2. asked' = Append(asked, r)
      BY DEF SendRequest
    <3> QED BY <3>1, <3>2, RestAppend
  <2>2. Joined(w, u, <<r>>)
    BY Zenon, <1>3, RequestsJoin
  <2>3. Joined(input, toServer, Request(r))
    BY Zenon, RequestIs, NumbersJoin DEF ProtocolTyped
  <2>4. Asks(u \o <<r>>) = Asks(u) \o Request(r)
    BY Zenon, <1>3, StreamsJoin
  <2>5. toServer' = toServer \o Request(r)
    BY DEF SendRequest
  <2> QED BY Zenon, <1>2, <2>1, <2>2, <2>3, <2>4, <2>5 DEF Carried, Joined
<1>5. Flowing'
  BY Zenon, <1>2, <1>3, <1>4 DEF Flowing, SendRequest
<1>6. ErrorsOnlyOfMishaps'
  BY Zenon DEF ErrorsOnlyOfMishaps, SendRequest
<1> QED BY <1>1, <1>5, <1>6

\* What arrives leaves the one stream and ends the other.
LEMMA ArriveKeeps ==
  ASSUME ProtocolInv, NEW n \in 1..Len(toClient), Arrive(n)
  PROVE  ProtocolInv'
<1> USE DEF ProtocolInv
<1>1. /\ arrived' = arrived \o SubSeq(toClient, 1, n)
      /\ toClient' = From(toClient, n)
      /\ mishaps' = IF n < Len(toClient) THEN mishaps \union {"answer cut"}
                                         ELSE mishaps
      /\ UNCHANGED <<asked, results, field, want, list, toServer, input, alive>>
  BY Zenon DEF Arrive, callerVars, serverVars, From
<1>2. Parted(arrived, toClient, n)
  BY Zenon, Parting DEF ProtocolTyped
<1>3. /\ arrived' \in Seq(Int) /\ toClient' \in Seq(Int)
      /\ arrived' \o toClient' = arrived \o toClient
      /\ Len(toClient') = Len(toClient) - n
  BY Zenon, <1>1, <1>2 DEF Parted
<1>4. mishaps \subseteq mishaps' /\ mishaps' \subseteq Mishap
  BY <1>1 DEF ProtocolTyped, Mishap
<1>5. ProtocolTyped'
  BY Zenon, <1>1, <1>3, <1>4 DEF ProtocolTyped
<1>6. PICK w \in Seq(Requests), u \in Seq(Requests) :
        /\ Carried(asked, Len(results), w, u, input, toServer)
        /\ field # "failed" =>
             Fetched(field, want, list, w, arrived, toClient, mishaps)
  BY Zenon DEF Flowing
<1>7. ASSUME field # "failed"
      PROVE  Fetched(field, want, list, w, arrived', toClient', mishaps')
  <2>1. Fetching(field, want, list, w, arrived' \o toClient')
    BY Zenon, <1>3, <1>6, <1>7 DEF Fetched
  <2>2. ASSUME "answer cut" \notin mishaps'
        PROVE  /\ w = w \o <<>> /\ toClient' = Answers(<<>>)
               /\ Fetching(field, want, list, w, arrived')
    <3>1. ~(n < Len(toClient))
      BY <1>1, <2>2
    <3>2. Len(toClient') = 0
      BY <1>3, <3>1 DEF ProtocolTyped
    <3>3. toClient' = <<>>
      BY <1>3, <3>2, EmptySeq
    <3>4. arrived' \o <<>> = arrived' /\ w \o <<>> = w
      BY <1>3, ConcatEmptySeq
    <3> QED BY Zenon, <2>1, <3>3, <3>4, NoStream
  <2>3. <<>> \in Seq(Requests)
    OBVIOUS
  <2> QED BY Zenon, <2>1, <2>2, <2>3 DEF Fetched
<1>8. Flowing'
  BY Zenon, <1>1, <1>6, <1>7 DEF Flowing
<1>9. ErrorsOnlyOfMishaps'
  BY Zenon, <1>1, <1>4 DEF ErrorsOnlyOfMishaps
<1> QED BY <1>5, <1>8, <1>9

\* A call of Occurrence begins with the answer to the first request.
LEMMA CallOccurrenceKeeps ==
  ASSUME ProtocolInv, CallOccurrence
  PROVE  ProtocolInv'
<1> USE DEF ProtocolInv
<1>1. /\ field = "none" /\ field' = "size" /\ want' = 2 /\ list' = <<>>
      /\ UNCHANGED <<asked, results, toServer, input, alive, toClient, arrived,
                     mishaps>>
  BY Zenon DEF CallOccurrence, ReadNext, serverVars
<1>2. ProtocolTyped'
  <2>1. 2 \in Nat
    OBVIOUS
  <2> QED BY Zenon, <1>1, <2>1 DEF ProtocolTyped
<1>3. PICK w \in Seq(Requests), u \in Seq(Requests) :
        /\ Carried(asked, Len(results), w, u, input, toServer)
        /\ field # "failed" =>
             Fetched(field, want, list, w, arrived, toClient, mishaps)
  BY Zenon DEF Flowing
<1>4. \A x, Z : Fetching("none", want, list, x, Z) =>
                Fetching("size", 2, <<>>, x, Z)
  <2>1. \A x, Z : Inside("none", want, list, x, Z) => FALSE
    BY Zenon DEF Inside, Within, ReadsSize, ReadsData, ReadsLength, ReadsNeedle
  <2> QED BY Zenon, <2>1 DEF Fetching
<1>5. Fetched("none", want, list, w, arrived, toClient, mishaps)
  BY Zenon, <1>1, <1>3
<1>6. Fetched("size", 2, <<>>, w, arrived, toClient, mishaps)
  BY Zenon, <1>4, <1>5 DEF Fetched
<1>7. Flowing'
  BY Zenon, <1>1, <1>3, <1>6 DEF Flowing
<1>8. ErrorsOnlyOfMishaps'
  BY Zenon, <1>1 DEF ErrorsOnlyOfMishaps
<1> QED BY <1>2, <1>7, <1>8

\* One more answer behind those on their way.
LEMMA FetchedMore ==
  ASSUME NEW f, NEW n, NEW value, NEW w \in Seq(Requests), NEW A \in Seq(Int),
         NEW B \in Seq(Int), NEW m, NEW o, Fetched(f, n, value, w, A, B, m),
         m \subseteq o, NEW r \in Requests
  PROVE  Fetched(f, n, value, w \o <<r>>, A, B \o FrameOf(r), o)
<1>1. <<r>> \in Seq(Requests)
  OBVIOUS
<1>2. Answers(<<r>>) = FrameOf(r) /\ FrameOf(r) \in Seq(Int)
  BY Zenon, <1>1, StreamsJoin
<1>3. A \o B \in Seq(Int)
  BY ConcatProperties
<1>4. Joined(A, B, FrameOf(r))
  BY Zenon, <1>2, NumbersJoin
<1>5. Fetching(f, n, value, w \o <<r>>, (A \o B) \o FrameOf(r))
  <2>1. Fetching(f, n, value, w, A \o B)
    BY Zenon DEF Fetched
  <2>2. Fetching(f, n, value, w \o <<r>>, (A \o B) \o Answers(<<r>>))
    BY Zenon, <1>1, <1>3, <2>1, FetchingMore
  <2> QED BY Zenon, <1>2, <2>2
<1>6. Fetching(f, n, value, w \o <<r>>, A \o (B \o FrameOf(r)))
  BY Zenon, <1>4, <1>5 DEF Joined
<1>7. ASSUME "answer cut" \notin o
      PROVE  \E x, y \in Seq(Requests) :
               /\ w \o <<r>> = x \o y /\ B \o FrameOf(r) = Answers(y)
               /\ Fetching(f, n, value, x, A)
  <2>1. PICK x \in Seq(Requests), y \in Seq(Requests) :
          w = x \o y /\ B = Answers(y) /\ Fetching(f, n, value, x, A)
    BY Zenon, <1>7 DEF Fetched
  <2>2. Joined(x, y, <<r>>) /\ y \o <<r>> \in Seq(Requests)
    BY Zenon, <1>1, RequestsJoin
  <2>3. B \o FrameOf(r) = Answers(y \o <<r>>)
    <3>1. Answers(y \o <<r>>) = Answers(y) \o Answers(<<r>>)
      BY Zenon, <1>1, StreamsJoin
    <3> QED BY Zenon, <1>2, <2>1, <3>1
  <2> QED BY Zenon, <2>1, <2>2, <2>3 DEF Joined
<1> QED BY Zenon, <1>6, <1>7 DEF Fetched

\* The handler takes the first request, and its answer goes on its way.
LEMMA AnswerFirstKeeps ==
  ASSUME ProtocolInv, NEW n \in 1..Len(toServer), Receive(n),
         Whole(input \o SubSeq(toServer, 1, n)),
         AnswerFirst(input \o SubSeq(toServer, 1, n)), UNCHANGED alive
  PROVE  ProtocolInv'
<1> USE DEF ProtocolInv
<1> PICK buffer : buffer = input \o SubSeq(toServer, 1, n)
  OBVIOUS
<1>1. /\ toServer' = From(toServer, n) /\ mishaps \subseteq mishaps'
      /\ mishaps' \subseteq mishaps \union {"request cut", "requests joined"}
      /\ UNCHANGED <<asked, results, field, want, list, arrived, alive>>
  BY Zenon DEF Receive, callerVars, From
<1>2. /\ buffer \in Seq(Int) /\ toServer' \in Seq(Int)
      /\ buffer \o toServer' = input \o toServer
  BY Zenon, <1>1, Parting DEF Parted, ProtocolTyped
<1>3. PICK w \in Seq(Requests), u \in Seq(Requests) :
        /\ Carried(asked, Len(results), w, u, input, toServer)
        /\ field # "failed" =>
             Fetched(field, want, list, w, arrived, toClient, mishaps)
  BY Zenon DEF Flowing
<1>4. Takes(buffer, toServer', u)
  <2>1. buffer \o toServer' = Asks(u)
    BY Zenon, <1>2, <1>3 DEF Carried
  <2> QED BY Zenon, <1>2, <2>1, WholeRequest
<1>5. PICK r \in Requests, v \in Seq(Requests) :
        /\ u = <<r>> \o v /\ buffer[1] = r.mode
        /\ SubSeq(buffer, 4, 3 + buffer[2]) = r.text
        /\ SubSeq(buffer, 3 + buffer[2] + 1, Len(buffer)) \in Seq(Int)
        /\ SubSeq(buffer, 3 + buffer[2] + 1, Len(buffer)) \o toServer' = Asks(v)
  BY Zenon, <1>4 DEF Takes
<1>6. /\ input' = SubSeq(buffer, 3 + buffer[2] + 1, Len(buffer))
      /\ toClient' = toClient \o
           Frame(buffer[1], Search(buffer[1], SubSeq(buffer, 4, 3 + buffer[2])))
  BY Zenon DEF AnswerFirst
<1>7. toClient' = toClient \o FrameOf(r)
  BY Zenon, <1>5, <1>6 DEF FrameOf, Answer
<1>8. <<r>> \in Seq(Requests) /\ w \o <<r>> \in Seq(Requests)
  OBVIOUS
<1>9. toClient' \in Seq(Int) /\ input' \in Seq(Int)
  <2>1. FrameOf(r) \in Seq(Int)
    BY Zenon, RequestsType, FrameLayout
  <2>2. toClient \o FrameOf(r) \in Seq(Int)
    BY <2>1, ConcatProperties DEF ProtocolTyped
  <2> QED BY Zenon, <1>5, <1>6, <1>7, <2>2
<1>10. Carried(asked', Len(results'), w \o <<r>>, v, input', toServer')
  <2>1. Joined(w, <<r>>, v)
    BY Zenon, <1>8, RequestsJoin
  <2> QED BY Zenon, <1>1, <1>3, <1>5, <1>6, <2>1 DEF Carried, Joined
<1>11. ASSUME field # "failed"
       PROVE  Fetched(field, want, list, w \o <<r>>, arrived, toClient',
                      mishaps')
  <2>1. Fetched(field, want, list, w, arrived, toClient, mishaps)
    BY Zenon, <1>3, <1>11
  <2> QED BY Zenon, <1>1, <1>7, <2>1, FetchedMore DEF ProtocolTyped
<1>12. Flowing'
  BY Zenon, <1>1, <1>8, <1>10, <1>11 DEF Flowing
<1>13. ProtocolTyped'
  <2>1. mishaps' \subseteq Mishap
    BY <1>1 DEF ProtocolTyped, Mishap
  <2> QED BY Zenon, <1>1, <1>2, <1>9, <2>1 DEF ProtocolTyped
<1>14. ErrorsOnlyOfMishaps'
  <2>1. /\ "request cut" \in mishaps => "request cut" \in mishaps'
        /\ "answer cut" \in mishaps => "answer cut" \in mishaps'
    BY <1>1
  <2>2. alive' = alive /\ field' = field /\ ErrorsOnlyOfMishaps
    BY <1>1
  <2> QED BY ONLY Zenon, <2>1, <2>2 DEF ErrorsOnlyOfMishaps
<1> QED BY <1>12, <1>13, <1>14

\* The server dies of a short read only when a request was cut.
LEMMA DieKeeps ==
  ASSUME ProtocolInv, NEW n \in 1..Len(toServer), Receive(n),
         ~Whole(input \o SubSeq(toServer, 1, n)),
         DieOfShortRead(input \o SubSeq(toServer, 1, n))
  PROVE  ProtocolInv'
<1> USE DEF ProtocolInv
<1>1. /\ toServer' = From(toServer, n) /\ mishaps \subseteq mishaps'
      /\ mishaps' \subseteq mishaps \union {"request cut", "requests joined"}
      /\ input' = input \o SubSeq(toServer, 1, n) /\ alive' = FALSE
      /\ UNCHANGED <<asked, results, field, want, list, arrived, toClient>>
  BY Zenon DEF Receive, DieOfShortRead, callerVars, From
<1>2. /\ input' \in Seq(Int) /\ toServer' \in Seq(Int)
      /\ input' \o toServer' = input \o toServer
  BY Zenon, <1>1, Parting DEF Parted, ProtocolTyped
<1>3. PICK w \in Seq(Requests), u \in Seq(Requests) :
        /\ Carried(asked, Len(results), w, u, input, toServer)
        /\ field # "failed" =>
             Fetched(field, want, list, w, arrived, toClient, mishaps)
  BY Zenon DEF Flowing
<1>4. Carried(asked', Len(results'), w, u, input', toServer')
  BY Zenon, <1>1, <1>2, <1>3 DEF Carried
<1>5. ASSUME field # "failed"
      PROVE  Fetched(field, want, list, w, arrived, toClient, mishaps')
  BY Zenon, <1>1, <1>3, <1>5 DEF Fetched
<1>6. Flowing'
  BY Zenon, <1>1, <1>4, <1>5 DEF Flowing
<1>7. ProtocolTyped'
  <2>1. mishaps' \subseteq Mishap /\ FALSE \in BOOLEAN
    BY <1>1 DEF ProtocolTyped, Mishap
  <2> QED BY Zenon, <1>1, <1>2, <2>1 DEF ProtocolTyped
<1>8. ~EndsWith(n)
  <2> SUFFICES ASSUME EndsWith(n) PROVE FALSE
    OBVIOUS
  <2>1. Len(results) \in 0..Len(asked) /\ asked \in Seq(Requests)
        /\ input \in Seq(Int) /\ toServer \in Seq(Int)
    BY DEF ProtocolTyped
  <2> QED BY Zenon, <1>3, <2>1, EndBringsWhole DEF Carried
<1>9. "request cut" \in mishaps'
  BY <1>8 DEF Receive
<1>10. ErrorsOnlyOfMishaps'
  BY Zenon, <1>1, <1>9 DEF ErrorsOnlyOfMishaps
<1> QED BY <1>6, <1>7, <1>10

\* A read of the server, with its handler.
LEMMA ReceiveKeeps ==
  ASSUME ProtocolInv, NEW n \in 1..Len(toServer), Receive(n)
  PROVE  ProtocolInv'
<1>1. \/ /\ Whole(input \o SubSeq(toServer, 1, n))
         /\ AnswerFirst(input \o SubSeq(toServer, 1, n)) /\ UNCHANGED alive
      \/ /\ ~Whole(input \o SubSeq(toServer, 1, n))
         /\ DieOfShortRead(input \o SubSeq(toServer, 1, n))
  BY Zenon DEF Receive
<1> QED BY Zenon, <1>1, AnswerFirstKeeps, DieKeeps

\* The caller stops; nothing is fetched any more.
LEMMA FailKeeps ==
  ASSUME ProtocolInv, Fail, arrived' \in Seq(Int),
         UNCHANGED <<asked, toServer, input, alive, toClient, mishaps>>,
         "answer cut" \in mishaps \/ ~alive
  PROVE  ProtocolInv'
<1> USE DEF ProtocolInv
<1>1. field' = "failed" /\ want' = 0 /\ results' = results
  BY Zenon DEF Fail, ReadNext
<1>2. ProtocolTyped'
  <2>1. 0 \in Nat
    OBVIOUS
  <2> QED BY Zenon, <1>1, <2>1 DEF ProtocolTyped
<1>3. Flowing'
  BY Zenon, <1>1 DEF Flowing
<1>4. ErrorsOnlyOfMishaps'
  BY Zenon DEF ErrorsOnlyOfMishaps
<1> QED BY <1>2, <1>3, <1>4

\* A read of a client whose server is gone.
LEMMA ReadFailsKeeps ==
  ASSUME ProtocolInv, ReadFails
  PROVE  ProtocolInv'
<1>1. /\ ~alive /\ Fail
      /\ UNCHANGED <<asked, toServer, input, alive, toClient, arrived, mishaps>>
  BY Zenon DEF ReadFails, serverVars
<1>2. arrived' \in Seq(Int)
  BY Zenon, <1>1 DEF ProtocolInv, ProtocolTyped
<1> QED BY Zenon, <1>1, <1>2, FailKeeps

\* Two sequences that are the same have the same first element and rest.
BeginAlike(x, s, y, t) == <<x>> \o s = <<y>> \o t
AreAlike(x, s, y, t) == x = y /\ s = t

\* First elements can be compared.
LEMMA SameFirst ==
  ASSUME NEW S, NEW s \in Seq(S), NEW t \in Seq(S), NEW x \in S, NEW y \in S,
         BeginAlike(x, s, y, t)
  PROVE  AreAlike(x, s, y, t)
<1>1. /\ Len(<<x>> \o s) = 1 + Len(s) /\ Len(<<y>> \o t) = 1 + Len(t)
      /\ (<<x>> \o s)[1] = x /\ (<<y>> \o t)[1] = y
      /\ \A i \in 1..Len(s) : (<<x>> \o s)[i + 1] = s[i]
      /\ \A i \in 1..Len(t) : (<<y>> \o t)[i + 1] = t[i]
      /\ Len(s) \in Nat /\ Len(t) \in Nat
  <2>1. PutFirst(x, s, <<x>> \o s)
    BY Zenon, ElementsOf
  <2>2. PutFirst(y, t, <<y>> \o t)
    BY Zenon, ElementsOf
  <2> QED BY ONLY Zenon, <2>1, <2>2 DEF PutFirst
<1> USE DEF BeginAlike
<1>2. Len(s) = Len(t)
  BY <1>1
<1>3. \A i \in 1..Len(s) : s[i] = t[i]
  BY <1>1, <1>2
<1> QED BY <1>1, <1>2, <1>3, SeqEqual DEF AreAlike

\* The first of the requests that have no answer yet.
FirstIs(r, v, u) ==
  /\ Len(results) < Len(asked) /\ r = asked[Len(results) + 1]
  /\ From(asked, Len(results) + 1) = v \o u

\* The first of w is the first request that has no answer yet.
LEMMA FirstUnanswered ==
  ASSUME ProtocolTyped, NEW w \in Seq(Requests), NEW u \in Seq(Requests),
         From(asked, Len(results)) = w \o u, NEW r \in Requests,
         NEW v \in Seq(Requests), w = <<r>> \o v
  PROVE  FirstIs(r, v, u)
<1>1. asked \in Seq(Requests) /\ Len(results) \in 0..Len(asked)
      /\ Len(results) \in Nat /\ Len(asked) \in Nat
  BY DEF ProtocolTyped
<1>2. RestIs(asked, Len(results), w, u)
  BY Zenon, <1>1, RestOfRest
<1>3. <<r>> \in Seq(Requests) /\ v \o u \in Seq(Requests)
  BY ConcatProperties
<1>4. Joined(<<r>>, v, u)
  BY Zenon, <1>3, RequestsJoin
<1>5. Len(w \o u) >= 1
  <2>1. Len(w) = 1 + Len(v) /\ Len(v) \in Nat
    OBVIOUS
  <2>2. Len(w \o u) = Len(w) + Len(u) /\ Len(u) \in Nat
    OBVIOUS
  <2> QED BY ONLY SMT, <2>1, <2>2
<1>6. Len(results) < Len(asked)
  <2>1. Len(asked) - Len(results) >= 1
    BY Zenon, <1>2, <1>5 DEF RestIs
  <2> QED BY ONLY SMT, <1>1, <2>1
<1>7. /\ From(asked, Len(results))
           = <<asked[Len(results) + 1]>> \o From(asked, Len(results) + 1)
      /\ From(asked, Len(results) + 1) \in Seq(Requests)
      /\ asked[Len(results) + 1] \in Requests
  BY ONLY <1>1, <1>6, FromNext
<1>8. <<r>> \o (v \o u)
        = <<asked[Len(results) + 1]>> \o From(asked, Len(results) + 1)
  BY Zenon, <1>4, <1>7 DEF Joined
<1>9. r = asked[Len(results) + 1] /\ v \o u = From(asked, Len(results) + 1)
  <2>1. BeginAlike(r, v \o u, asked[Len(results) + 1],
                   From(asked, Len(results) + 1))
    BY Zenon, <1>8 DEF BeginAlike
  <2>2. AreAlike(r, v \o u, asked[Len(results) + 1],
                 From(asked, Len(results) + 1))
    BY Zenon, <1>3, <1>7, <2>1, SameFirst
  <2> QED BY Zenon, <2>2 DEF AreAlike
<1> QED BY Zenon, <1>6, <1>9 DEF FirstIs

\* What a read of Occurrence does when enough has arrived.
LEMMA EnoughIsRead ==
  ASSUME ProtocolTyped, arrived # <<>>, field # "none",
         NEW w \in Seq(Requests), NEW u \in Seq(Requests), NEW B \in Seq(Int),
         From(asked, Len(results)) = w \o u,
         Fetching(field, want, list, w, arrived \o B)
  PROVE  \/ Len(arrived) < want /\ B # <<>>
         \/ /\ ~(Len(arrived) < want) /\ From(arrived, want) \in Seq(Int)
            /\ Use(SubSeq(arrived, 1, want)) =>
                 GoesOn(w, From(arrived, want) \o B)
<1>1. arrived \in Seq(Int) /\ Len(arrived) \in Nat /\ want \in Nat
  BY DEF ProtocolTyped
<1>2. arrived \o B \in Seq(Int) /\ arrived \o B # <<>>
  <2>1. Len(arrived) # 0
    BY <1>1, EmptySeq
  <2>2. Len(arrived \o B) = Len(arrived) + Len(B) /\ Len(B) \in Nat
    BY <1>1
  <2>3. Len(arrived \o B) # 0
    BY ONLY SMT, <1>1, <2>1, <2>2
  <2>4. Len(<<>>) = 0
    OBVIOUS
  <2> QED BY <1>1, <2>3, <2>4, ConcatProperties
<1>3. \A r \in Requests, v \in Seq(Requests) : w = <<r>> \o v => Mode = r.mode
  BY Zenon, FirstUnanswered DEF FirstIs, Mode
<1>4. Ahead(w, arrived \o B)
  BY Zenon, <1>2, <1>3, FetchingReads
<1>5. PICK got \in Seq(Int), T \in Seq(Int) :
        /\ arrived \o B = got \o T /\ Len(got) = want
        /\ Use(got) => GoesOn(w, T)
  BY Zenon, <1>4 DEF Ahead
<1>6. CASE Len(arrived) < want
  <2> SUFFICES ASSUME B = <<>> PROVE FALSE
    BY <1>6
  <2>1. arrived \o B = arrived
    BY <1>1, ConcatEmptySeq
  <2>2. Len(arrived) = Len(got) + Len(T) /\ Len(T) \in Nat
    <3>1. Len(got \o T) = Len(got) + Len(T) /\ Len(T) \in Nat
      OBVIOUS
    <3> QED BY Zenon, <1>5, <2>1, <3>1
  <2> QED BY ONLY SMT, <1>1, <1>5, <1>6, <2>2
<1>7. CASE ~(Len(arrived) < want)
  <2>1. Len(got) <= Len(arrived)
    BY <1>1, <1>5, <1>7
  <2>2. Cut(arrived, B, got, T)
    BY Zenon, <1>1, <1>5, <2>1, LongerBeginning
  <2> QED BY Zenon, <1>5, <1>7, <2>2 DEF Cut
<1> QED BY <1>6, <1>7

\* The results grow only with an answer.
LEMMA NoResultIsNothing ==
  ASSUME ProtocolTyped
  PROVE  \A r \in Requests : Append(results, Answer(r)) # results
<1> SUFFICES ASSUME NEW r \in Requests
             PROVE  Append(results, Answer(r)) # results
  OBVIOUS
<1>1. results \in Seq(Seq(Occurrences)) /\ Answer(r) \in Seq(Occurrences)
  BY RequestsType, AnswerType DEF ProtocolTyped
<1>2. Len(Append(results, Answer(r))) = Len(results) + 1 /\ Len(results) \in Nat
  BY <1>1
<1> QED BY <1>2

\* A read that gets what it asks for.
LEMMA UseKeeps ==
  ASSUME ProtocolInv, ReadBytes, ~(Len(arrived) < want)
  PROVE  /\ ProtocolInv' /\ field' # "failed"
         /\ \/ results' = results
            \/ /\ Len(results) < Len(asked)
               /\ results' = Append(results, Answer(asked[Len(results) + 1]))
<1> USE DEF ProtocolInv
<1> PICK A : A = From(arrived, want)
  OBVIOUS
<1>1. /\ field # "none" /\ field # "failed" /\ arrived # <<>>
      /\ arrived' = A /\ Use(SubSeq(arrived, 1, want))
      /\ UNCHANGED <<asked, toServer, input, alive, toClient, mishaps>>
  BY DEF ReadBytes, serverVars, From
<1>2. PICK w \in Seq(Requests), u \in Seq(Requests) :
        /\ Carried(asked, Len(results), w, u, input, toServer)
        /\ field # "failed" =>
             Fetched(field, want, list, w, arrived, toClient, mishaps)
  BY Zenon DEF Flowing
<1>3. /\ From(asked, Len(results)) = w \o u /\ Asks(u) = input \o toServer
      /\ Fetched(field, want, list, w, arrived, toClient, mishaps)
  BY Zenon, <1>1, <1>2 DEF Carried
<1>4. A \in Seq(Int) /\ GoesOn(w, A \o toClient)
  <2>1. Fetching(field, want, list, w, arrived \o toClient)
        /\ toClient \in Seq(Int)
    BY Zenon, <1>3 DEF Fetched, ProtocolTyped
  <2> QED BY Zenon, <1>1, <1>3, <2>1, EnoughIsRead
<1>5. ASSUME "answer cut" \notin mishaps
      PROVE  \E x, y \in Seq(Requests) :
               w = x \o y /\ toClient = Answers(y) /\ GoesOn(x, A)
  <2>1. PICK x \in Seq(Requests), y \in Seq(Requests) :
          /\ w = x \o y /\ toClient = Answers(y)
          /\ Fetching(field, want, list, x, arrived)
    BY Zenon, <1>3, <1>5 DEF Fetched
  <2>2. arrived \o <<>> = arrived /\ A \o <<>> = A /\ <<>> \in Seq(Int)
    BY <1>4, ConcatEmptySeq DEF ProtocolTyped
  <2>3. From(asked, Len(results)) = x \o (y \o u) /\ y \o u \in Seq(Requests)
    <3>1. Joined(x, y, u) /\ y \o u \in Seq(Requests)
      BY Zenon, RequestsJoin
    <3> QED BY Zenon, <1>3, <2>1, <3>1 DEF Joined
  <2>4. GoesOn(x, A \o <<>>)
    BY Zenon, <1>1, <2>1, <2>2, <2>3, EnoughIsRead
  <2> QED BY Zenon, <2>1, <2>2, <2>4
<1>6. ErrorsOnlyOfMishaps' \/ field' = "failed"
  BY Zenon, <1>1 DEF ErrorsOnlyOfMishaps
<1>7. CASE results' = results /\ Inside(field', want', list', w, A \o toClient)
  <2>1. \A x : GoesOn(x, A) => Inside(field', want', list', x, A)
    BY Zenon, <1>7, NoResultIsNothing DEF GoesOn
  <2>2. Fetched(field', want', list', w, A, toClient, mishaps)
    BY Zenon, <1>5, <1>7, <2>1 DEF Fetched, Fetching
  <2>3. Flowing'
    BY Zenon, <1>1, <1>2, <1>7, <2>2 DEF Flowing
  <2>4. field' \in {"size", "data", "length", "needle"} /\ want' \in Nat
        /\ field' # "failed"
    <3>1. field' \in {"size", "data", "length", "needle"} /\ want' \in Nat
      BY Zenon, <1>7, InsideType
    <3>2. field' # "failed"
      BY <3>1
    <3> QED BY Zenon, <3>1, <3>2
  <2> QED BY Zenon, <1>1, <1>4, <1>6, <1>7, <2>3, <2>4 DEF ProtocolTyped
<1>8. ASSUME NEW r \in Requests, NEW v \in Seq(Requests),
             w = <<r>> \o v, A \o toClient = Answers(v),
             results' = Append(results, Answer(r)),
             field' = "none", want' = 0
      PROVE  /\ ProtocolInv' /\ Len(results) < Len(asked)
             /\ results' = Append(results, Answer(asked[Len(results) + 1]))
  <2>1. FirstIs(r, v, u)
    BY Zenon, <1>3, <1>8, FirstUnanswered
  <2>2. /\ results' \in Seq(Seq(Occurrences))
        /\ Len(results') = Len(results) + 1
        /\ Len(results) \in Nat /\ Len(asked) \in Nat
    <3>1. Answer(r) \in Seq(Occurrences)
      BY RequestsType, AnswerType
    <3>2. results \in Seq(Seq(Occurrences)) /\ asked \in Seq(Requests)
      BY Zenon DEF ProtocolTyped
    <3> QED BY ONLY <1>8, <3>1, <3>2
  <2>3. Len(results') <= Len(asked) /\ Len(asked) <= Len(results') + MaxAhead
    <3>1. Len(asked) <= Len(results) + MaxAhead /\ MaxAhead \in Nat
      BY Zenon, ProtocolAssumption DEF ProtocolTyped
    <3>2. Len(results) < Len(asked)
      BY Zenon, <2>1 DEF FirstIs
    <3> QED BY ONLY SMT, <2>2, <3>1, <3>2
  <2>4. ProtocolTyped'
    <3>1. 0 \in Nat
      OBVIOUS
    <3> QED BY Zenon, <1>1, <1>4, <1>8, <2>2, <2>3, <3>1 DEF ProtocolTyped
  <2>5. Carried(asked', Len(results'), v, u, input', toServer')
    BY Zenon, <1>1, <1>3, <2>1, <2>2 DEF Carried, FirstIs
  <2>6. ASSUME "answer cut" \notin mishaps
        PROVE  \E x, y \in Seq(Requests) :
                 v = x \o y /\ toClient = Answers(y) /\ A = Answers(x)
    <3>1. PICK x \in Seq(Requests), y \in Seq(Requests) :
            w = x \o y /\ toClient = Answers(y) /\ GoesOn(x, A)
      BY Zenon, <1>5, <2>6
    <3>2. PICK q \in Requests, z \in Seq(Requests) :
            x = <<q>> \o z /\ A = Answers(z)
      BY Zenon, <1>8, <3>1, NoResultIsNothing DEF GoesOn
    <3>3. <<q>> \in Seq(Requests) /\ z \o y \in Seq(Requests)
      BY ConcatProperties
    <3>4. <<r>> \o v = <<q>> \o (z \o y)
      <4>1. Joined(<<q>>, z, y)
        BY Zenon, <3>3, RequestsJoin
      <4> QED BY Zenon, <1>8, <3>1, <3>2, <4>1 DEF Joined
    <3>5. v = z \o y
      <4>1. BeginAlike(r, v, q, z \o y)
        BY Zenon, <3>4 DEF BeginAlike
      <4> QED BY Zenon, <3>3, <4>1, SameFirst DEF AreAlike
    <3> QED BY Zenon, <3>1, <3>2, <3>5
  <2>7. Fetched(field', want', list', v, A, toClient, mishaps)
    BY Zenon, <1>8, <2>6 DEF Fetched, Fetching
  <2>8. Flowing'
    BY Zenon, <1>1, <1>8, <2>5, <2>7 DEF Flowing
  <2>9. ErrorsOnlyOfMishaps'
    BY <1>6, <1>8
  <2> QED BY Zenon, <1>8, <2>1, <2>4, <2>8, <2>9 DEF FirstIs
<1> QED
  <2>1. CASE \E r \in Requests, v \in Seq(Requests) :
               /\ w = <<r>> \o v /\ A \o toClient = Answers(v)
               /\ results' = Append(results, Answer(r))
               /\ field' = "none" /\ want' = 0
    <3>1. field' # "failed"
      BY <2>1
    <3> QED BY Zenon, <1>8, <2>1, <3>1
  <2> QED BY Zenon, <1>4, <1>7, <2>1 DEF GoesOn

\* A read of the client: what it asks for, or less when an answer was cut.
LEMMA ReadBytesKeeps ==
  ASSUME ProtocolInv, ReadBytes
  PROVE  ProtocolInv'
<1> USE DEF ProtocolInv
<1>1. /\ field # "none" /\ field # "failed" /\ arrived # <<>>
      /\ arrived' = From(arrived, want)
      /\ UNCHANGED <<asked, toServer, input, alive, toClient, mishaps>>
  BY DEF ReadBytes, serverVars, From
<1>2. CASE ~(Len(arrived) < want)
  BY Zenon, <1>2, UseKeeps
<1>3. CASE Len(arrived) < want
  <2>1. Fail
    BY Zenon, <1>3 DEF ReadBytes
  <2>2. "answer cut" \in mishaps
    <3> SUFFICES ASSUME "answer cut" \notin mishaps PROVE FALSE
      OBVIOUS
    <3>1. PICK w \in Seq(Requests), u \in Seq(Requests) :
            /\ Carried(asked, Len(results), w, u, input, toServer)
            /\ Fetched(field, want, list, w, arrived, toClient, mishaps)
      BY Zenon, <1>1 DEF Flowing
    <3>2. PICK x \in Seq(Requests), y \in Seq(Requests) :
            /\ w = x \o y /\ toClient = Answers(y)
            /\ Fetching(field, want, list, x, arrived)
      BY Zenon, <3>1 DEF Fetched
    <3>3. arrived \o <<>> = arrived /\ <<>> \in Seq(Int)
      <4>1. arrived \in Seq(Int)
        BY Zenon DEF ProtocolTyped
      <4>2. <<>> \in Seq(Int)
        BY ONLY SMT
      <4> QED BY ONLY <4>1, <4>2, ConcatEmptySeq
    <3>4. From(asked, Len(results)) = x \o (y \o u)
          /\ y \o u \in Seq(Requests)
      <4>1. Joined(x, y, u) /\ y \o u \in Seq(Requests)
        BY Zenon, RequestsJoin
      <4> QED BY Zenon, <3>1, <3>2, <4>1 DEF Joined, Carried
    <3> QED BY Zenon, <1>1, <1>3, <3>2, <3>3, <3>4, EnoughIsRead
  <2>3. arrived' \in Seq(Int)
    <3>1. From(arrived, want) = <<>>
      BY <1>3, SubSeqEmpty DEF ProtocolTyped, From
    <3>2. <<>> \in Seq(Int)
      OBVIOUS
    <3> QED BY Zenon, <1>1, <3>1, <3>2
  <2> QED BY Zenon, <1>1, <2>1, <2>2, <2>3, FailKeeps
<1> QED BY <1>2, <1>3

\* Every step keeps the invariant.
LEMMA StepKeepsProtocol ==
  ASSUME ProtocolInv, [ProtocolNext]_protocolVars
  PROVE  ProtocolInv'
<1>1. CASE UNCHANGED protocolVars
  <2>1. UNCHANGED <<asked, results, field, want, list, toServer, input, alive,
                    toClient, arrived, mishaps>>
    BY Zenon, <1>1 DEF protocolVars, callerVars, serverVars
  <2> QED BY Zenon, <2>1 DEF ProtocolInv, ProtocolTyped, Flowing,
       ErrorsOnlyOfMishaps
<1>2. CASE ProtocolNext
  BY Zenon, <1>2, SendRequestKeeps, ReceiveKeeps, ArriveKeeps,
     CallOccurrenceKeeps, ReadBytesKeeps, ReadFailsKeeps
     DEF ProtocolNext, Network, Occurrence
<1> QED BY <1>1, <1>2

\* What the server has not read begins with a request, and what the client
\* has not read continues the answer it is at, whatever was cut or joined.
THEOREM ProtocolInvariance ==
  ProtocolSpec => []ProtocolInv
<1>1. ProtocolInit => ProtocolInv
  BY InitProtocol
<1>2. ProtocolInv /\ [ProtocolNext]_protocolVars => ProtocolInv'
  BY StepKeepsProtocol
<1> QED BY <1>1, <1>2, PTL DEF ProtocolSpec

\* The variables of Protocol have their types.
THEOREM ProtocolTypes ==
  ProtocolSpec => []ProtocolTypeOK
<1>1. ProtocolInv => ProtocolTypeOK
  <2> SUFFICES ASSUME ProtocolInv PROVE ProtocolTypeOK
    OBVIOUS
  <2>1. asked \in BoundedSeq(Requests, MaxRequests)
    <3>1. asked \in Seq(Requests) /\ Len(asked) <= MaxRequests
          /\ Len(asked) \in Nat /\ MaxRequests \in Nat
      BY ProtocolAssumption DEF ProtocolInv, ProtocolTyped
    <3>2. asked \in [1..Len(asked) -> Requests] /\ Len(asked) \in 0..MaxRequests
      BY <3>1
    <3> QED BY Zenon, <3>2 DEF BoundedSeq, SeqOf
  <2> QED BY Zenon, <2>1 DEF ProtocolInv, ProtocolTyped, ProtocolTypeOK
<1> QED BY <1>1, ProtocolInvariance, PTL

\* The server dies only when a request comes in pieces, and a call of
\* Occurrence fails only when the server is dead or an answer came in pieces.
THEOREM FailsOnlyOfMishaps ==
  ProtocolSpec => []ErrorsOnlyOfMishaps
<1>1. ProtocolInv => ErrorsOnlyOfMishaps
  BY DEF ProtocolInv
<1> QED BY <1>1, ProtocolInvariance, PTL

\* A step of the protocol is one of the dialogue, or none.
LEMMA StepIsDialogue ==
  ASSUME ProtocolInv, [ProtocolNext]_protocolVars
  PROVE  [Promised!Ask \/ Promised!Reply \/ Promised!Fail]_
           <<asked, results, field = "failed">>
<1> USE DEF Promised!Ask, Promised!Reply, Promised!Fail
<1>1. CASE UNCHANGED protocolVars
  BY <1>1 DEF protocolVars, callerVars
<1>2. ASSUME NEW r \in Requests, SendRequest(r) PROVE Promised!Ask
  BY <1>2 DEF SendRequest
<1>3. ASSUME NEW n, Receive(n) \/ Arrive(n)
      PROVE  UNCHANGED <<asked, results, field>>
  BY <1>3 DEF Receive, Arrive, callerVars
<1>4. CASE CallOccurrence
  BY <1>4 DEF CallOccurrence, ReadNext
<1>5. CASE ReadFails
  BY <1>5 DEF ReadFails, Fail, ReadNext
<1>6. CASE ReadBytes
  <2>1. asked' = asked /\ field # "failed"
    BY <1>6 DEF ReadBytes
  <2>2. CASE Len(arrived) < want
    BY <1>6, <2>1, <2>2 DEF ReadBytes, Fail, ReadNext
  <2>3. CASE ~(Len(arrived) < want)
    <3>1. /\ field' # "failed"
          /\ \/ results' = results
             \/ /\ Len(results) < Len(asked)
                /\ results' = Append(results, Answer(asked[Len(results) + 1]))
      BY Zenon, <1>6, <2>3, UseKeeps
    <3> QED BY <2>1, <3>1
  <2> QED BY <2>2, <2>3
<1> QED BY <1>1, <1>2, <1>3, <1>4, <1>5, <1>6
        DEF ProtocolNext, Network, Occurrence

\* Protocol implements Dialogue.
THEOREM ProtocolIsDialogue ==
  ProtocolSpec => ImplementsDialogue
<1>1. ProtocolInit => Promised!Init
  BY DEF ProtocolInit, Promised!Init
<1>2. ProtocolInv /\ [ProtocolNext]_protocolVars
      => [Promised!Ask \/ Promised!Reply \/ Promised!Fail]_
           <<asked, results, field = "failed">>
  BY StepIsDialogue
<1> QED BY <1>1, <1>2, ProtocolInvariance, PTL
        DEF ProtocolSpec, ImplementsDialogue, Promised!Spec

=============================================================================
