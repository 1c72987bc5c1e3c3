----------------------------- MODULE Arithmetic -----------------------------
(***************************************************************************)
(* A program that computes with uint64_t: a number is made of a string and *)
(* goes through operation after operation, and what it ought to be is kept *)
(* beside it, as an integer modulo 2^64.                                   *)
(***************************************************************************)
EXTENDS Uint64

CONSTANTS Operands,  \* the numbers that are computed with
          Numerals,  \* strings of digits given to the constructor
          Counts,    \* numbers of bits to shift by
          NoNumber

ASSUME OperandsAssumption ==
  /\ Operands \subseteq Words
  /\ Counts \subseteq Nat
  /\ NoNumber \notin Words

ASSUME NumeralsAssumption ==
  /\ Numerals \subseteq [base : {8, 10, 16}, digits : Seq(Nat)]
  /\ \A numeral \in Numerals : Range(numeral.digits) \subseteq 0..(numeral.base - 1)

VARIABLES
  acc,   \* the uint64_t
  exact  \* history: what it should be

mvars == <<acc, exact>>

Modulus == Half * Half
Val(a) == a.hi * Half + a.lo

ArithmeticInit == acc = NoNumber /\ exact = 0

(* Mutant of New: a decimal string is taken for a hexadecimal one.         *)
NewHex(numeral) ==
  CASE numeral.base \in {10, 16} -> OfHex(numeral.digits)
    [] numeral.base = 8 -> OfOctal(numeral.digits)

(* new uint64_t(string)                                                    *)
New(numeral) ==
  CASE numeral.base = 10 -> OfDecimal(numeral.digits)
    [] numeral.base = 16 -> OfHex(numeral.digits)
    [] numeral.base = 8  -> OfOctal(numeral.digits)

Construct(numeral) ==
  /\ acc = NoNumber
  /\ ~ (numeral.base = 16 /\ HexTooLarge(numeral.digits))
  /\ acc' = New(numeral)
  /\ exact' = Val(acc')

(* The bound on what is reached: an operand is where an operation starts.  *)
Compute(result, integer) ==
  /\ acc \in Operands
  /\ acc' = result
  /\ exact' = integer % Modulus

Begin(b) == acc = NoNumber /\ acc' = b /\ exact' = Val(b)
Add(b) == Compute(addq(acc, b), exact + Val(b))
Subtract(b) == Compute(subq(acc, b), exact + Modulus - Val(b))

(* The product modulo 2^64, of numbers no greater than 2^64.               *)
Product(m, b) ==
  ((((m \div Half) * b.lo + (m % Half) * b.hi) % Half) * Half) + (m % Half) * b.lo
Multiply(b) == Compute(mulq(acc, b), Product(exact, b))

(* Two to the c, in factors no greater than 2^32.                          *)
Power(c) == IF c <= WordBits THEN 2^c ELSE Half * 2^(c - WordBits)
ShiftLeft(c) ==
  Compute(shlq(acc, c),
          IF c >= 2 * WordBits THEN 0 ELSE (exact % Power(2 * WordBits - c)) * Power(c))
ShiftRight(c) ==
  Compute(shrlq(acc, c), IF c >= 2 * WordBits THEN 0 ELSE exact \div Power(c))

ArithmeticNext ==
  \/ \E numeral \in Numerals : Construct(numeral)
  \/ \E b \in Operands : Begin(b) \/ Add(b) \/ Subtract(b) \/ Multiply(b)
  \/ \E c \in Counts : ShiftLeft(c) \/ ShiftRight(c)

ArithmeticSpec == ArithmeticInit /\ [][ArithmeticNext]_mvars

----------------------------------------------------------------------------
(* The number that digits make in a base.                                  *)
NumberOf(digits, base) == FoldLeft(LAMBDA v, d : base * v + d, 0, digits)

(***************************************************************************)
(* Every carry and borrow arrives: the operations compute modulo 2^64 and  *)
(* the comparison is that of integers.                                     *)
(***************************************************************************)
ArithmeticExact ==
  acc # NoNumber =>
    /\ acc \in Words /\ Val(acc) = exact
    /\ \A b \in Operands : cmpq(acc, b) = CASE exact > Val(b) -> "greater"
                                           [] exact < Val(b) -> "less"
                                           [] OTHER -> "equal"

(***************************************************************************)
(* A string makes the number it denotes, modulo 2^64, in every base; but   *)
(* an octal string of a number that has more bits than the constructor     *)
(* leaves in the low word makes another one, at least when it fits in a    *)
(* word: greater ones may come out right.                                  *)
(***************************************************************************)
StringsDenote ==
  [][\A numeral \in Numerals : Construct(numeral) =>
        LET number == NumberOf(numeral.digits, numeral.base)
            misplaced == numeral.base = 8 /\ number >= 2^OctalLowBits
        IN /\ ~ misplaced => Val(acc') = number % Modulus
           /\ misplaced /\ number < Half => Val(acc') # number]_mvars

(* The digits or octets of a number: none too many, and they make it.      *)
Shortest(digits, base) ==
  /\ NumberOf(digits, base) = exact
  /\ \A i \in DOMAIN digits : digits[i] \in 0..(base - 1)
  /\ Len(digits) > 1 => digits[1] # 0

(***************************************************************************)
(* toString gives the decimal digits, however far off the approximate      *)
(* division by ten is, and the constructor makes the same number of them;  *)
(* toOctets gives the bytes, never more than the eight that SnmpCounter64  *)
(* asserts.                                                                *)
(***************************************************************************)
ConvertsExactly ==
  acc # NoNumber =>
    /\ Shortest(toString(acc), 10)
    /\ OfDecimal(toString(acc)) = acc
    /\ Shortest(toOctets(acc), Byte)
    /\ Len(toOctets(acc)) <= 8
=============================================================================
