--------------------------- MODULE LogRatio_proofs ---------------------------
(***************************************************************************)
(* The long division of ngx_http_zstd_ratio.h is exact at every width.     *)
(***************************************************************************)
EXTENDS LogRatio, TLAPS

(* Division with remainder of naturals. *)
LEMMA DivMod ==
  ASSUME NEW a \in Nat, NEW b \in Nat, b > 0
  PROVE  /\ a \div b \in Nat
         /\ a % b \in Nat
         /\ a % b < b
         /\ a = (a \div b) * b + (a % b)
  BY SMT

(* A value below the modulus is its own residue. *)
LEMMA ModSmall ==
  ASSUME NEW a \in Nat, NEW b \in Nat, a < b
  PROVE  a % b = a
  BY SMT

(* A product by ten that the code's test admits does not wrap. *)
LEMMA FitsIsSafe ==
  ASSUME rem \in Nat, Fits
  PROVE  rem * 10 \in Nat /\ rem * 10 < Modulus
  BY ModulusAssumption, SMT DEF Fits, UintMax

(* One more digit: what is left over scales with it.  D is the divisor, q  *)
(* the digits so far, r their remainder, x and y the digit and the         *)
(* remainder it leaves of ten times r.                                     *)
LEMMA NextDigit ==
  ASSUME NEW n \in Nat, NEW D \in Nat, NEW q \in Nat, NEW r \in Nat,
         NEW s \in Nat, NEW x \in Nat, NEW y \in Nat,
         n * s = q * D + r,
         r * 10 = x * D + y
  PROVE  n * (s * 10) = (q * 10 + x) * D + y
<1>1. n * (s * 10) = (n * s) * 10
  OBVIOUS
<1>2. (q * D + r) * 10 = (q * 10) * D + r * 10
  OBVIOUS
<1>3. (q * 10 + x) * D = (q * 10) * D + x * D
  OBVIOUS
<1> QED  BY <1>1, <1>2, <1>3

(* A digit is below ten: ten times a remainder is below ten divisors. *)
LEMMA DigitBound ==
  ASSUME NEW D \in Nat, NEW r \in Nat, NEW x \in Nat, NEW y \in Nat,
         r < D, r * 10 = x * D + y
  PROVE  x < 10
<1> SUFFICES ASSUME x >= 10 PROVE FALSE
  OBVIOUS
<1>1. x * D >= 10 * D
  OBVIOUS
<1> QED  BY <1>1

(* The scale of one digit more. *)
LEMMA ScaleStep ==
  ASSUME i \in 0 .. 3, i < 3, i' = i + 1
  PROVE  Scale \in Nat /\ Scale' = Scale * 10
  BY SMT DEF Scale

LEMMA InitInv == Init => IInv
  BY ModulusAssumption
  DEF Init, IInv, TypeOK, DigitsExact, PeelExact, Uint, UintMax

(* A digit taken by division, of a product that fits. *)
LEMMA ShortDigitInv == IInv /\ ShortDigit => IInv'
<1> SUFFICES ASSUME IInv, ShortDigit PROVE IInv'
  OBVIOUS
<1> DEFINE x == (rem * 10) \div bytesOut
<1> DEFINE y == (rem * 10) % bytesOut
<1> USE ModulusAssumption
<1>1. /\ rem \in Nat /\ rem < bytesOut /\ bytesOut \in Nat /\ bytesOut > 0
      /\ bytesIn \in Nat /\ int \in Nat /\ frac \in Nat
      /\ bytesOut < Modulus
      /\ i \in 0 .. 3 /\ i < 3 /\ i' = i + 1
      /\ pc = "digit" /\ Fits
  BY DEF IInv, TypeOK, DigitsExact, ShortDigit, Uint, UintMax
<1>2. rem * 10 \in Nat /\ rem * 10 < Modulus
  BY <1>1, FitsIsSafe
<1>3. (rem * 10) % Modulus = rem * 10
  BY <1>2, ModSmall
<1>4. x \in Nat /\ y \in Nat /\ y < bytesOut /\ rem * 10 = x * bytesOut + y
  BY <1>1, <1>2, DivMod
<1>5. frac' = frac * 10 + x /\ rem' = y
  BY <1>3 DEF ShortDigit
<1>6. Scale \in Nat /\ Scale' = Scale * 10
  BY <1>1, ScaleStep
<1> HIDE DEF x, y
<1>7. x < 10
  BY <1>1, <1>4, DigitBound
<1>8. frac < Scale /\ bytesIn * Scale = (int * Scale + frac) * bytesOut + rem
  BY <1>1 DEF IInv, DigitsExact
<1>9. int * Scale + frac \in Nat
  BY <1>1, <1>6
<1>10. bytesIn * (Scale * 10)
         = ((int * Scale + frac) * 10 + x) * bytesOut + y
  BY <1>1, <1>4, <1>6, <1>8, <1>9, NextDigit
<1>11. (int * Scale + frac) * 10 + x = int * (Scale * 10) + (frac * 10 + x)
  BY <1>1, <1>4, <1>6
<1>12. UNCHANGED <<bytesIn, bytesOut, complete, pc, int, acc, digit, k>>
  BY DEF ShortDigit, input
<1>13. TypeOK'
  BY <1>1, <1>4, <1>5, <1>12 DEF IInv, TypeOK, Uint, UintMax
<1>14. DigitsExact'
  <2>1. bytesIn' * Scale' = (int' * Scale' + frac') * bytesOut' + rem'
    BY <1>5, <1>6, <1>10, <1>11, <1>12
  <2>2. frac' < Scale'
    BY <1>1, <1>4, <1>5, <1>6, <1>7, <1>8
  <2> QED  BY <2>1, <2>2, <1>1, <1>4, <1>5, <1>12 DEF DigitsExact
<1> QED  BY <1>1, <1>12, <1>13, <1>14 DEF IInv, PeelExact

(* One addition of the inner loop: a wrapped sum is a whole divisor past. *)
LEMMA PeelInv == IInv /\ Peel => IInv'
<1> SUFFICES ASSUME IInv, Peel PROVE IInv'
  OBVIOUS
<1> USE ModulusAssumption
<1>1. /\ rem \in Nat /\ rem < bytesOut /\ bytesOut \in Nat /\ bytesOut > 0
      /\ bytesOut < Modulus
      /\ acc \in Nat /\ acc < bytesOut /\ digit \in Nat /\ digit <= k
      /\ k \in 0 .. 9 /\ k < 9 /\ i < 3 /\ k' = k + 1
      /\ pc = "peel"
      /\ digit * bytesOut + acc = rem * (k + 1)
  BY DEF IInv, TypeOK, DigitsExact, PeelExact, Peel, Uint, UintMax
<1>2. UNCHANGED <<bytesIn, bytesOut, complete, pc, int, frac, rem, i>>
  BY DEF Peel, input
<1>3. \/ acc' = acc + rem - bytesOut /\ digit' = digit + 1 /\ acc' >= 0
      \/ acc' = acc + rem /\ digit' = digit /\ acc' < bytesOut
  BY <1>1 DEF Peel, Wrap, UintMax
<1>4. acc' \in Nat /\ acc' < bytesOut /\ digit' \in Nat /\ digit' <= k'
  BY <1>1, <1>3
<1>5. digit' * bytesOut + acc' = rem * (k' + 1)
  <2>1. rem * (k' + 1) = rem * (k + 1) + rem
    BY <1>1
  <2>2. (digit + 1) * bytesOut = digit * bytesOut + bytesOut
    BY <1>1
  <2>3. CASE acc' = acc + rem - bytesOut /\ digit' = digit + 1
    <3>1. digit' * bytesOut = digit * bytesOut + bytesOut
      BY <2>2, <2>3
    <3>2. digit * bytesOut \in Nat /\ rem * (k + 1) \in Nat
      BY <1>1
    <3> QED  BY <2>1, <2>3, <3>1, <3>2, <1>1
  <2>4. CASE acc' = acc + rem /\ digit' = digit
    <3>1. digit * bytesOut \in Nat /\ rem * (k + 1) \in Nat
      BY <1>1
    <3> QED  BY <2>1, <2>4, <3>1, <1>1
  <2> QED  BY <2>3, <2>4, <1>3
<1>6. TypeOK'
  BY <1>1, <1>2, <1>4 DEF IInv, TypeOK, Uint, UintMax
<1>7. DigitsExact'
  BY <1>2 DEF IInv, DigitsExact, Scale
<1> QED  BY <1>1, <1>2, <1>4, <1>5, <1>6, <1>7 DEF IInv, PeelExact

(* The digit the inner loop counted. *)
LEMMA EndPeelInv == IInv /\ EndPeel => IInv'
<1> SUFFICES ASSUME IInv, EndPeel PROVE IInv'
  OBVIOUS
<1> USE ModulusAssumption
<1>1. /\ rem \in Nat /\ rem < bytesOut /\ bytesOut \in Nat /\ bytesOut > 0
      /\ bytesIn \in Nat /\ int \in Nat /\ frac \in Nat
      /\ acc \in Nat /\ acc < bytesOut /\ digit \in Nat
      /\ i \in 0 .. 3 /\ i < 3 /\ i' = i + 1
      /\ pc = "peel" /\ k = 9
      /\ digit * bytesOut + acc = rem * (k + 1)
  BY DEF IInv, TypeOK, DigitsExact, PeelExact, EndPeel, Uint, UintMax
<1>2. rem * 10 = digit * bytesOut + acc
  BY <1>1
<1>3. digit < 10
  BY <1>1, <1>2, DigitBound
<1>4. Scale \in Nat /\ Scale' = Scale * 10
  BY <1>1, ScaleStep
<1>5. frac < Scale /\ bytesIn * Scale = (int * Scale + frac) * bytesOut + rem
  BY <1>1 DEF IInv, DigitsExact
<1>6. int * Scale + frac \in Nat
  BY <1>1, <1>4
<1>7. bytesIn * (Scale * 10)
        = ((int * Scale + frac) * 10 + digit) * bytesOut + acc
  BY <1>1, <1>2, <1>4, <1>5, <1>6, NextDigit
<1>8. (int * Scale + frac) * 10 + digit
        = int * (Scale * 10) + (frac * 10 + digit)
  BY <1>1, <1>4
<1>9. /\ UNCHANGED <<bytesIn, bytesOut, complete, int, acc, digit, k>>
      /\ frac' = frac * 10 + digit /\ rem' = acc /\ pc' = "digit"
  BY DEF EndPeel, input
<1>10. TypeOK'
  BY <1>1, <1>9 DEF IInv, TypeOK
<1>11. DigitsExact'
  <2>1. bytesIn' * Scale' = (int' * Scale' + frac') * bytesOut' + rem'
    BY <1>4, <1>7, <1>8, <1>9
  <2>2. frac' < Scale'
    BY <1>1, <1>3, <1>4, <1>5, <1>9
  <2> QED  BY <2>1, <2>2, <1>1, <1>9 DEF DigitsExact
<1> QED  BY <1>9, <1>10, <1>11 DEF IInv, PeelExact

(* Every other step. *)
LEMMA NextInv == IInv /\ [Next]_vars => IInv'
<1> SUFFICES ASSUME IInv, [Next]_vars PROVE IInv'
  OBVIOUS
<1> USE ModulusAssumption
<1>1. CASE NotFound
  BY <1>1 DEF NotFound, IInv, TypeOK, DigitsExact, PeelExact, input
<1>2. CASE Integer
  <2>1. bytesIn \in Nat /\ bytesOut \in Nat /\ bytesOut > 0
        /\ bytesOut < Modulus /\ i = 0 /\ i' = 0 /\ frac = 0 /\ frac' = 0
    BY <1>2 DEF Integer, IInv, TypeOK, Uint, UintMax
  <2>2. /\ int' \in Nat /\ rem' \in Nat /\ rem' < bytesOut
        /\ bytesIn = int' * bytesOut + rem'
    BY <1>2, <2>1, DivMod DEF Integer
  <2>3. UNCHANGED <<bytesIn, bytesOut, complete, acc, digit, k>>
        /\ pc' = "digit"
    BY <1>2 DEF Integer, input
  <2>4. TypeOK'
    <3>1. rem' \in Uint /\ i' \in 0 .. 3 /\ frac' \in Nat
      BY <2>1, <2>2 DEF Uint, UintMax
    <3> QED  BY <2>2, <2>3, <3>1 DEF IInv, TypeOK, Uint
  <2>5. Scale' = 1
    BY <2>1 DEF Scale
  <2>6. DigitsExact'
    BY <2>1, <2>2, <2>3, <2>5 DEF DigitsExact
  <2> QED  BY <2>3, <2>4, <2>6 DEF IInv, PeelExact
<1>3. CASE ShortDigit
  BY <1>3, ShortDigitInv
<1>4. CASE BeginPeel
  <2>1. /\ UNCHANGED <<bytesIn, bytesOut, complete, int, frac, rem, i>>
        /\ acc' = rem /\ digit' = 0 /\ k' = 0 /\ pc' = "peel"
        /\ pc = "digit" /\ i < 3
    BY <1>4 DEF BeginPeel, input
  <2>2. rem \in Nat /\ rem < bytesOut /\ bytesOut \in Nat
    BY <2>1 DEF IInv, TypeOK, DigitsExact, Uint, UintMax
  <2>3. TypeOK'
    BY <2>1 DEF IInv, TypeOK
  <2>4. DigitsExact'
    BY <2>1 DEF IInv, DigitsExact, Scale
  <2>5. PeelExact'
    BY <2>1, <2>2 DEF PeelExact
  <2> QED  BY <2>1, <2>3, <2>4, <2>5 DEF IInv
<1>5. CASE Peel
  BY <1>5, PeelInv
<1>6. CASE EndPeel
  BY <1>6, EndPeelInv
<1>7. CASE Finish
  BY <1>7 DEF Finish, IInv, TypeOK, DigitsExact, PeelExact, Scale, input
<1>8. CASE UNCHANGED vars
  BY <1>8 DEF vars, IInv, TypeOK, DigitsExact, PeelExact, Scale
<1> QED
  BY <1>1, <1>2, <1>3, <1>4, <1>5, <1>6, <1>7, <1>8 DEF Next

(* The inductive invariant of the long division, at every width: what the  *)
(* digits taken so far leave over is the remainder (ratio.h:47-105).       *)
THEOREM RatioInvariant == Spec => []IInv
<1>1. Init => IInv
  BY InitInv
<1>2. IInv /\ [Next]_vars => IInv'
  BY NextInv
<1> QED  BY <1>1, <1>2, PTL DEF Spec

(* $zstd_ratio shows the exact quotient's three decimals, whatever the     *)
(* width of the counters and their values (ratio.h:47-53).                 *)
THEOREM RatioIsExact == Spec => []RatioExact
<1>1. IInv => RatioExact
  <2> SUFFICES ASSUME IInv, pc = "done" PROVE RatioExact
    BY DEF RatioExact
  <2>1. /\ bytesOut \in Nat /\ rem \in Nat /\ rem < bytesOut
        /\ int \in Nat /\ frac \in Nat /\ i = 3 /\ bytesIn \in Nat
    BY ModulusAssumption DEF IInv, TypeOK, DigitsExact, Uint, UintMax
  <2>2. Scale = 1000
    BY <2>1 DEF Scale
  <2>3. frac < 1000 /\ bytesIn * 1000 = (int * 1000 + frac) * bytesOut + rem
    BY <2>2 DEF IInv, DigitsExact
  <2>4. (int * 1000 + frac + 1) * bytesOut
          = (int * 1000 + frac) * bytesOut + bytesOut
    BY <2>1
  <2>5. (int * 1000 + frac) * bytesOut \in Nat
    BY <2>1
  <2> QED  BY <2>1, <2>3, <2>4, <2>5 DEF RatioExact
<1> QED  BY <1>1, RatioInvariant, PTL
==============================================================================
