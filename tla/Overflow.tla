----------------------------- MODULE Overflow -----------------------------
(***************************************************************************)
(* The functions of Overflow.h, which tell from two operands whether an    *)
(* addition or multiplication of theirs would overflow.  They are for the  *)
(* ints of any width; a caller tries one pair of operands after another.   *)
(***************************************************************************)
EXTENDS Integers

CONSTANT IntMax              \* INT_MAX

ASSUME OverflowAssumption == IntMax \in Nat \ {0}

IntMin  == -IntMax - 1       \* INT_MIN
UintMax == 2 * IntMax + 1    \* UINT_MAX

Ints  == IntMin .. IntMax
Uints == 0 .. UintMax

VARIABLES a, b               \* the operands

Init == a = 0 /\ b = 0

Try(x, y) == a' = x /\ b' = y

Next == \E x, y \in Ints : Try(x, y)

Spec == Init /\ [][Next]_<<a, b>>

-----------------------------------------------------------------------------
(* The functions.  Their operands must not themselves overflow.            *)

\* is_overflow_add_for_unsigned_int
AddUnsigned(x, y) == UintMax - x < y

\* is_overflow_add_for_signed_int
AddSigned(x, y) == IF x >= 0 THEN IntMax - x < y ELSE IntMin - x > y

\* is_overflow_multiply_for_unsigned_int
MultiplyUnsigned(x, y) == x # 0 /\ UintMax \div x < y

\* The division of C rounds towards zero.
Quotient(x, y) ==
    LET Abs(n) == IF n < 0 THEN -n ELSE n
        q      == Abs(x) \div Abs(y)
    IN  IF x < 0 <=> y < 0 THEN q ELSE -q

\* Faulty: one bound for both signs.
MultiplySignedUpper(x, y) == x # 0 /\ Quotient(IntMax, x) < y

\* is_overflow_multiply_for_signed_int
MultiplySigned(x, y) ==
    /\ x # 0
    /\ IF (x > 0 /\ y > 0) \/ (x < 0 /\ y < 0)
       THEN Quotient(IntMax, x) < y
       ELSE Quotient(IntMin, x) > y

-----------------------------------------------------------------------------
(* Properties.                                                             *)

\* The operands as a call with unsigned parameters takes them.
Unsigned(x) == x % (UintMax + 1)

\* The additions are told right, for both kinds of int (Overflow.h:9-17), and
\* no intermediate result of the second overflows.
AddExact ==
    /\ AddUnsigned(Unsigned(a), Unsigned(b)) <=> Unsigned(a) + Unsigned(b) \notin Uints
    /\ AddSigned(a, b) <=> a + b \notin Ints
    /\ (IF a >= 0 THEN IntMax - a ELSE IntMin - a) \in Ints

\* The unsigned multiplication is told right (Overflow.h:19-22).
MultiplyUnsignedExact ==
    MultiplyUnsigned(Unsigned(a), Unsigned(b)) <=> Unsigned(a) * Unsigned(b) \notin Uints

\* So is the signed one, while the first operand is not negative.  For a
\* negative one line 27 compares the wrong way round, and for -1 it may divide
\* INT_MIN by -1.
MultiplyExactUpward == a >= 0 => (MultiplySigned(a, b) <=> a * b \notin Ints)

\* All of these together, for each pair of operands a caller may try.
TestsExact == AddExact /\ MultiplyUnsignedExact /\ MultiplyExactUpward
=============================================================================
