------------------------------- MODULE Uint64 -------------------------------
(***************************************************************************)
(* lib/protocol/uint64_t.js: 64-bit unsigned arithmetic for a language     *)
(* whose integers have 53 bits.  A number is two words, each of two limbs; *)
(* a limb has LimbBits bits (16 in the code), and every sum, product and   *)
(* shift is made limb by limb with the carries written out.  The widths    *)
(* that the code fixes at 8, 16, 32 and 64 follow from LimbBits.           *)
(***************************************************************************)
EXTENDS Naturals, Sequences, SequencesExt

CONSTANTS LimbBits,     \* bits of a limb: a power of two, 16 in the code
          OctalLowBits  \* bits the octal constructor leaves in the low word: 9

ASSUME WidthAssumption ==
  /\ LimbBits \in {2, 4, 8, 16}
  /\ OctalLowBits \in 1..(2 * LimbBits)

Limb == 2^LimbBits
Half == 2^(2 * LimbBits)
Byte == 2^(LimbBits \div 2)

WordBits == 2 * LimbBits

uint64(hi, lo) == [hi |-> hi % Half, lo |-> lo % Half]

(* The limbs of a number from the lowest, and the number of four sums or   *)
(* differences, of which only the low bits are kept.                       *)
Limbs(a) == << a.lo % Limb, a.lo \div Limb, a.hi % Limb, a.hi \div Limb >>
OfLimbs(l) ==
  LET word(high, low) == (high % Limb) * Limb + (low % Limb)
  IN uint64(word(l[4], l[3]), word(l[2], l[1]))

(* The bit above a limb.                                                   *)
Carry(s) == (s \div Limb) % 2

(* Mutant of addq: no carry from the low word into the high one.           *)
addqHalves(a, b) ==
  LET x == Limbs(a)  y == Limbs(b)
      s0  == x[1] + y[1]
      s16 == x[2] + y[2] + Carry(s0)
      s32 == x[3] + y[3]
      s48 == x[4] + y[4] + Carry(s32)
  IN OfLimbs(<<s0, s16, s32, s48>>)

addq(a, b) ==
  LET x == Limbs(a)  y == Limbs(b)
      s0  == x[1] + y[1]
      s16 == x[2] + y[2] + Carry(s0)
      s32 == x[3] + y[3] + Carry(s16)
      s48 == x[4] + y[4] + Carry(s32)
  IN OfLimbs(<<s0, s16, s32, s48>>)

(* One is taken from limb k: a limb that is 0 takes it from the next one   *)
(* and becomes all ones, except the last, of which only the low bits will  *)
(* be kept.                                                                *)
Borrow(l, k) ==
  LET takes == { j \in k..4 : \A i \in k..j : i < j => l[i] = 0 }
  IN [j \in 1..4 |-> IF j \notin takes THEN l[j]
                     ELSE IF l[j] = 0 THEN Limb - 1 ELSE l[j] - 1]

(* Limb k made no less than what is subtracted from it.                    *)
Repay(l, y, k) == IF y[k] > l[k] THEN [Borrow(l, k + 1) EXCEPT ![k] = @ + Limb] ELSE l

(* The highest difference may be negative; its low bits are those of it    *)
(* plus two limbs.                                                         *)
subq(a, b) ==
  LET y == Limbs(b)
      x == Repay(Repay(Repay(Limbs(a), y, 1), y, 2), y, 3)
  IN OfLimbs([k \in 1..4 |-> x[k] + 2 * Limb - y[k]])

shlq(a, c) ==
  IF c >= 2 * WordBits THEN uint64(0, 0)
  ELSE IF c >= WordBits THEN uint64(a.lo * 2^(c - WordBits), 0)
  ELSE uint64(((a.hi * 2^c) % Half) + (a.lo \div 2^(WordBits - c)), a.lo * 2^c)

shrlq(a, c) ==
  IF c >= 2 * WordBits THEN uint64(0, 0)
  ELSE IF c >= WordBits THEN uint64(0, a.hi \div 2^(c - WordBits))
  ELSE uint64(a.hi \div 2^c, (a.lo \div 2^c) + ((a.hi * 2^(WordBits - c)) % Half))

(* The partial products fit in a word; those of equal weight are added     *)
(* before they are shifted into place.                                     *)
mulq(a, b) ==
  LET x == Limbs(a)  y == Limbs(b)
      p(i, j) == uint64(0, x[i] * y[j])
      p16 == addq(p(1, 2), p(2, 1))
      p32 == addq(addq(p(3, 1), p(2, 2)), p(1, 3))
      p48 == addq(addq(addq(p(4, 1), p(3, 2)), p(2, 3)), p(1, 4))
  IN addq(addq(addq(p(1, 1), shlq(p16, LimbBits)), shlq(p32, 2 * LimbBits)),
          shlq(p48, 3 * LimbBits))

tstq(a) == a.hi # 0 \/ a.lo # 0

cmpq(a, b) ==
  CASE a.hi > b.hi -> "greater"
    [] a.hi < b.hi -> "less"
    [] a.hi = b.hi /\ a.lo > b.lo -> "greater"
    [] a.hi = b.hi /\ a.lo < b.lo -> "less"
    [] OTHER -> "equal"

----------------------------------------------------------------------------
(* Eight tenths of a number, from below: a half and a quarter, and then    *)
(* what is missing by shifts of 4, 8, 16 and 32.                           *)
Refine(q, s) == addq(q, shrlq(q, s))
EightTenths(n) ==
  Refine(Refine(Refine(Refine(addq(shrlq(n, 1), shrlq(n, 2)), 4), 8), 16), 32)

(* Mutant of Tenth: the approximation is not corrected.                    *)
TenthUncorrected(n) ==
  LET q == shrlq(EightTenths(n), 3)
      r == subq(n, mulq(q, uint64(0, 10)))
  IN [quotient |-> q, digit |-> r.lo]

(* Division by ten: the quotient may be one too low, which shows in the    *)
(* remainder.                                                              *)
Tenth(n) ==
  LET q == shrlq(EightTenths(n), 3)
      r == subq(n, mulq(q, uint64(0, 10)))
      v == (r.lo + 6) \div 16
  IN [quotient |-> addq(q, uint64(0, v)), digit |-> r.lo - v * 10]

Words == [hi : 0..(Half - 1), lo : 0..(Half - 1)]

(* toString: the decimal digits.                                           *)
Digits[n \in Words] ==
  IF ~ tstq(n) THEN << >> ELSE Append(Digits[Tenth(n).quotient], Tenth(n).digit)

toString(n) == IF tstq(n) THEN Digits[n] ELSE <<0>>

(* The bytes of a word from the first that is not 0.                       *)
WordBytes[w \in 0..(Half - 1)] ==
  IF w = 0 THEN << >> ELSE Append(WordBytes[w \div Byte], w % Byte)

Zeros(k) == [i \in 1..k |-> 0]

(* Mutant of toOctets: the low word is not filled up to four bytes.        *)
toOctetsUnfilled(n) ==
  IF ~ tstq(n) THEN <<0>> ELSE WordBytes[n.hi] \o WordBytes[n.lo]

(* toOctets: no more bytes than it takes; four for the low word if there   *)
(* is anything above it.                                                   *)
toOctets(n) ==
  LET low == WordBytes[n.lo]
  IN CASE ~ tstq(n) -> <<0>>
       [] tstq(n) /\ n.hi = 0 -> low
       [] n.hi # 0 -> WordBytes[n.hi] \o Zeros(4 - Len(low)) \o low

----------------------------------------------------------------------------
(* The constructor given a string: decimal digits, ...                     *)
OfDecimal(digits) ==
  FoldLeft(LAMBDA a, d : addq(mulq(a, uint64(0, 10)), uint64(0, d)), uint64(0, 0), digits)

(* ... hexadecimal digits after '0x', of which each word has half, ...     *)
HexDigits == WordBits \div 4
HexTooLarge(digits) == Len(digits) > 2 * HexDigits
OfHex(digits) ==
  LET value(ds) == FoldLeft(LAMBDA a, d : 16 * a + d, 0, ds)
      low == IF Len(digits) > HexDigits THEN Len(digits) - HexDigits ELSE 0
  IN uint64(value(SubSeq(digits, 1, low)), value(SubSeq(digits, low + 1, Len(digits))))

(* ... or octal digits after '0', bit by bit: the bits from OctalLowBits   *)
(* on go to the high word, the first of them to its bit 1.  A shift in a   *)
(* word is by its count modulo the bits of a word.                         *)
OfOctal(digits) ==
  LET bit(i) == (digits[Len(digits) - (i \div 3)] \div 2^(i % 3)) % 2
      bits   == { i \in 0..(3 * Len(digits) - 1) : bit(i) = 1 }
      low    == { i \in bits : i < OctalLowBits }
      shifts == { (i + 1 - OctalLowBits) % WordBits : i \in bits \ low }
      word(S) == FoldLeft(LAMBDA w, i : w + 2^i, 0, SetToSeq(S))
  IN uint64(word(shifts), word(low))
=============================================================================
