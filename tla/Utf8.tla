---------------------------------- MODULE Utf8 ----------------------------------
(***************************************************************************)
(* UTF-8 (src/needle.c): the conversions of single characters, and the     *)
(* encoding of RFC 3629 that they are compared with.                       *)
(***************************************************************************)
EXTENDS Integers, SequencesExt

(* The masks are of low bits, so that & with one is % and & with its *)
(* complement tells the rest; what | joins does not overlap.         *)

\* utf8MaskMap: one more than the mask, and the lead, of the first byte of a
\* character of 1 to 4 bytes; a byte that continues one has 64 and 128.
MaskOf == <<128, 32, 16, 8>>
LeadOf == <<0, 192, 224, 240>>

LastCharacter == 17 * 65536 - 1    \* U+10FFFF

\* unicodeMaskMap
FirstOf == <<0, 128, 2048, 65536>>
LastOf == <<127, 2047, 65535, LastCharacter>>

\* 1 << 6 * i
Unit == [i \in 0..3 |-> IF i = 0 THEN 1 ELSE IF i = 1 THEN 64
                        ELSE IF i = 2 THEN 4096 ELSE 64 * 4096]

\* Faulty variant: the last character of each length is left out.
UnicodeLengthBelow(unicode) ==
  IF \E n \in 1..4 : FirstOf[n] <= unicode /\ unicode < LastOf[n]
  THEN CHOOSE n \in 1..4 : FirstOf[n] <= unicode /\ unicode < LastOf[n]
  ELSE 0

\* unicodeLength: 0 behind U+10FFFF.
UnicodeLength(unicode) ==
  IF \E n \in 1..4 : FirstOf[n] <= unicode /\ unicode <= LastOf[n]
  THEN CHOOSE n \in 1..4 : FirstOf[n] <= unicode /\ unicode <= LastOf[n]
  ELSE 0

\* utf8Length: 0 for a byte that starts no character.
Utf8Length(byte) ==
  LET Leads(n) == byte - (byte % MaskOf[n]) = LeadOf[n]
  IN  IF \E n \in 1..4 : Leads(n) THEN CHOOSE n \in 1..4 : Leads(n) ELSE 0

\* unicodeToUtf8, with utf8Fill
UnicodeToUtf8(unicode, n) ==
  [c \in 1..n |->
     IF c = 1 THEN LeadOf[n] + ((unicode \div Unit[n - 1]) % MaskOf[n])
     ELSE 128 + ((unicode \div Unit[n - c]) % 64)]

\* Faulty variant: the continuing bytes are not validated.
Utf8ToUnicodeUnchecked(bytes, n) ==
  LET Fill(c) == IF c <= n THEN (bytes[c] % 64) * Unit[n - c] ELSE 0
  IN  (bytes[1] % MaskOf[n]) * Unit[n - 1] + Fill(2) + Fill(3) + Fill(4)

\* Faulty variant: unicodeFill takes five bits of a continuing byte for six.
Utf8ToUnicodeFiveBits(bytes, n) ==
  LET Fill(c) == IF c <= n THEN (bytes[c] % 32) * Unit[n - c] ELSE 0
  IN  IF \E c \in 2..n : bytes[c] - (bytes[c] % 64) # 128 THEN 0
      ELSE (bytes[1] % MaskOf[n]) * Unit[n - 1] + Fill(2) + Fill(3) + Fill(4)

\* utf8ToUnicode of the n bytes of a character, with utf8Validate and
\* unicodeFill: 0 if one does not continue it.
Utf8ToUnicode(bytes, n) ==
  LET Fill(c) == IF c <= n THEN (bytes[c] % 64) * Unit[n - c] ELSE 0
  IN  IF \E c \in 2..n : bytes[c] - (bytes[c] % 64) # 128 THEN 0
      ELSE (bytes[1] % MaskOf[n]) * Unit[n - 1] + Fill(2) + Fill(3) + Fill(4)

-----------------------------------------------------------------------------
\* UTF-8 as RFC 3629 defines it (section 3), the reference.
Rfc3629(u) ==
  IF u < 128 THEN <<u>>
  ELSE IF u < 2048 THEN <<192 + u \div 64, 128 + (u % 64)>>
  ELSE IF u < 65536
       THEN <<224 + u \div 4096, 128 + ((u \div 64) % 64), 128 + (u % 64)>>
  ELSE <<240 + u \div (64 * 4096), 128 + ((u \div 4096) % 64),
         128 + ((u \div 64) % 64), 128 + (u % 64)>>

Utf8(chars) == FlattenSeq([i \in 1..Len(chars) |-> Rfc3629(chars[i])])

=============================================================================
