---------------------------- MODULE KeyEncodings ----------------------------
(***************************************************************************)
(* The encodings of numbers as keys (drive/src/common/encode.rs).  Keys    *)
(* are compared byte by byte from the left, which for numbers in big       *)
(* endian form is the order of the words they are: an encoding is a        *)
(* function from numbers to words, and should keep their order.            *)
(***************************************************************************)
EXTENDS Integers

CONSTANTS HalfWord, \* the sign bit: 2^63
          Infinity  \* the word of the largest float; those above it are no numbers

ASSUME WordAssumption == HalfWord \in Nat /\ Infinity \in 0 .. HalfWord - 2

Words == 0 .. 2 * HalfWord - 1
SignedIntegers == -HalfWord .. HalfWord - 1

FlipSignBit(word) == IF word < HalfWord THEN word + HalfWord ELSE word - HalfWord
FlipAllBits(word) == 2 * HalfWord - 1 - word

TwosComplement(val) == IF val < 0 THEN val + 2 * HalfWord ELSE val

encode_unsigned_integer(val) == FlipSignBit(val)
encode_signed_integer(val) == FlipSignBit(TwosComplement(val))

(* The word of a float is its sign bit and its magnitude, exponent before   *)
(* mantissa, so magnitudes are in the order of their words.                 *)
NegativeZero == HalfWord
Floats == (0 .. Infinity) \cup (HalfWord .. HalfWord + Infinity)
FloatValue(word) == IF word < HalfWord THEN word ELSE HalfWord - word

(* A negative zero is not less than zero.                                   *)
encode_float(word) ==
  IF FloatValue(word) < 0 THEN FlipAllBits(word) ELSE FlipSignBit(word)
=============================================================================
