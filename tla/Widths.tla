------------------------------- MODULE Widths -------------------------------
(***************************************************************************)
(* Machine integers and big-endian byte strings, for a byte of Base values *)
(* (256 in the program).  A byte string is its length and its value: what  *)
(* the decoders make of one depends on nothing else.                       *)
(***************************************************************************)
EXTENDS Integers

CONSTANT Base

ASSUME BaseAssumption == Base \in Nat \ {0} /\ Base % 2 = 0

\* How many values a word has.
U8 == Base
U16 == U8 * U8
U32 == U16 * U16
U64 == U32 * U32
U128 == U64 * U64

Bytes == {b \in [len : Nat, val : Nat] : b.val < Base ^ b.len}

\* `as i64`, and what a release build makes of an i64 operation that overflows.
AsI64(n) == ((n + U64 \div 2) % U64) - (U64 \div 2)

\* Flip the top bit of a 128-bit word; read one as signed.
FlipSign(n) == IF n < U128 \div 2 THEN n + (U128 \div 2) ELSE n - (U128 \div 2)
AsI128(n) == IF n < U128 \div 2 THEN n ELSE n - U128

saturating_mul(a, b) == IF a * b < U64 THEN a * b ELSE U64 - 1

\* Only the first eight bytes count.
be_uint(b) == IF b.len <= 8 THEN b.val ELSE b.val \div (Base ^ (b.len - 8))

\* What the bound of Bytes says of the words read from one.  It follows by arithmetic
\* on powers, of which the provers know nothing.
HasWordSizes(b) ==
  /\ be_uint(b) \in 0 .. U64 - 1
  /\ b.len = 4 => b.val < U32
  /\ b.len = 16 => b.val < U128
=============================================================================
