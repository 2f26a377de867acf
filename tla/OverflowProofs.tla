--------------------------- MODULE OverflowProofs ---------------------------
(***************************************************************************)
(* Proofs about the functions of Overflow, for ints of any width.          *)
(***************************************************************************)
EXTENDS Overflow, TLAPS

TypeOK == a \in Ints /\ b \in Ints

LEMMA TypeInvariant == Spec => []TypeOK
<1>1. Init => TypeOK
  BY OverflowAssumption DEF Init, TypeOK, Ints, IntMin
<1>2. TypeOK /\ [Next]_<<a, b>> => TypeOK'
  BY DEF Next, Try, TypeOK
<1> QED
  BY <1>1, <1>2, PTL DEF Spec

\* Taking an int for unsigned gives one that fits.
LEMMA UnsignedType == ASSUME NEW x \in Ints PROVE Unsigned(x) \in Uints
<1>1. UintMax \in Nat /\ UintMax + 1 \in Nat \ {0} /\ x \in Int
  BY OverflowAssumption DEF UintMax, Ints, IntMin
<1>2. \A m \in Nat \ {0}, n \in Int : n % m \in 0 .. m - 1
  OBVIOUS
<1>3. Unsigned(x) \in 0 .. (UintMax + 1) - 1
  BY <1>1, <1>2 DEF Unsigned
<1> QED
  BY <1>1, <1>3 DEF Uints

\* A divisor goes into n fewer than y times exactly when y of it exceed n.
LEMMA QuotientBelow ==
    ASSUME NEW n \in Nat, NEW x \in Nat \ {0}, NEW y \in Int
    PROVE  n \div x < y <=> n < x * y
<1> DEFINE q == n \div x
<1>1. q \in Int /\ x * q <= n /\ n < x * (q + 1)
  OBVIOUS
<1> HIDE DEF q
<1>2. ASSUME q < y PROVE n < x * y
  <2>1. q + 1 <= y
    BY <1>1, <1>2
  <2>2. x * (q + 1) <= x * y
    BY <1>1, <2>1
  <2> QED
    BY <1>1, <2>2
<1>3. ASSUME y <= q PROVE x * y <= n
  <2>1. x * y <= x * q
    BY <1>1, <1>3
  <2> QED
    BY <1>1, <2>1
<1>4. n \div x < y <=> q < y
  BY DEF q
<1> QED
  BY <1>1, <1>2, <1>3, <1>4

\* For ints of any width the two functions for additions tell exactly whether
\* the sum fits, and do not overflow themselves (Overflow.h:9-17).
THEOREM AdditionsTold == Spec => []AddExact
<1>1. TypeOK => AddExact
  <2> SUFFICES ASSUME TypeOK PROVE AddExact
    OBVIOUS
  <2> USE OverflowAssumption DEF IntMin, UintMax, Ints, Uints
  <2>1. Unsigned(a) \in Uints /\ Unsigned(b) \in Uints
    BY UnsignedType DEF TypeOK
  <2>2. AddUnsigned(Unsigned(a), Unsigned(b)) <=> Unsigned(a) + Unsigned(b) \notin Uints
    BY <2>1 DEF AddUnsigned
  <2>3. AddSigned(a, b) <=> a + b \notin Ints
    BY DEF AddSigned, TypeOK
  <2>4. (IF a >= 0 THEN IntMax - a ELSE IntMin - a) \in Ints
    BY DEF TypeOK
  <2> QED
    BY <2>2, <2>3, <2>4 DEF AddExact
<1> QED
  BY TypeInvariant, <1>1, PTL

\* So does the one for unsigned multiplications (Overflow.h:19-22).
THEOREM UnsignedProductsTold == Spec => []MultiplyUnsignedExact
<1>1. TypeOK => MultiplyUnsignedExact
  <2> SUFFICES ASSUME TypeOK,
                      NEW x \in Uints, NEW y \in Uints, x = Unsigned(a), y = Unsigned(b)
               PROVE  MultiplyUnsigned(x, y) <=> x * y \notin Uints
    BY UnsignedType DEF TypeOK, MultiplyUnsignedExact
  <2>1. UintMax \in Nat /\ x \in Nat /\ y \in Nat
    BY OverflowAssumption DEF UintMax, Uints
  <2>2. x * y \in Nat
    BY <2>1
  <2>3. CASE x = 0
    <3>1. x * y = 0
      BY <2>1, <2>3
    <3> QED
      BY <2>1, <2>3, <3>1 DEF MultiplyUnsigned, Uints
  <2>4. CASE x # 0
    <3>1. UintMax \div x < y <=> UintMax < x * y
      BY <2>1, <2>4, QuotientBelow
    <3> QED
      BY <2>1, <2>2, <2>4, <3>1 DEF MultiplyUnsigned, Uints
  <2> QED
    BY <2>3, <2>4
<1> QED
  BY TypeInvariant, <1>1, PTL

\* While its first operand is not negative, so does the one for signed
\* multiplications (Overflow.h:24-28).
THEOREM UpwardProductsTold == Spec => []MultiplyExactUpward
<1>1. TypeOK => MultiplyExactUpward
  <2> SUFFICES ASSUME TypeOK, a >= 0
               PROVE  MultiplySigned(a, b) <=> a * b \notin Ints
    BY DEF MultiplyExactUpward
  <2>1. /\ a \in Nat /\ b \in Int /\ IntMax \in Nat /\ a * b \in Int
        /\ IntMin = -(IntMax + 1) /\ IntMin < 0
    BY OverflowAssumption DEF TypeOK, Ints, IntMin
  <2>2. CASE a = 0
    <3>1. a * b = 0
      BY <2>1, <2>2
    <3> QED
      BY <2>1, <2>2, <3>1 DEF MultiplySigned, Ints
  <2>3. CASE a > 0 /\ b > 0
    <3>1. Quotient(IntMax, a) = IntMax \div a
      BY <2>1, <2>3 DEF Quotient
    <3>2. IntMax \div a < b <=> IntMax < a * b
      BY <2>1, <2>3, QuotientBelow
    <3>3. a * b >= 0
      BY <2>1, <2>3
    <3>4. MultiplySigned(a, b) <=> IntMax < a * b
      BY <2>1, <2>3, <3>1, <3>2 DEF MultiplySigned
    <3> QED
      BY <2>1, <3>3, <3>4 DEF Ints
  <2>4. CASE a > 0 /\ b <= 0
    <3>1. Quotient(IntMin, a) = -((IntMax + 1) \div a)
      BY <2>1, <2>4 DEF Quotient
    <3>2. (IntMax + 1) \div a < -b <=> IntMax + 1 < a * (-b)
      BY <2>1, <2>4, QuotientBelow
    <3>3. a * (-b) = -(a * b) /\ a * b <= 0
      BY <2>1, <2>4
    <3>4. (IntMax + 1) \div a \in Int
      BY <2>1, <2>4
    <3>5. MultiplySigned(a, b) <=> a * b < IntMin
      BY <2>1, <2>4, <3>1, <3>2, <3>3, <3>4 DEF MultiplySigned
    <3> QED
      BY <2>1, <3>3, <3>5 DEF Ints
  <2> QED
    BY <2>1, <2>2, <2>3, <2>4
<1> QED
  BY TypeInvariant, <1>1, PTL

\* The functions of Overflow.h tell overflow exactly for ints of any width, but
\* for signed multiplications only while the first operand is not negative.
THEOREM TestsTold == Spec => []TestsExact
BY AdditionsTold, UnsignedProductsTold, UpwardProductsTold, PTL DEF TestsExact
=============================================================================
