------------------------------ MODULE LogRatio ------------------------------
(***************************************************************************)
(* $zstd_ratio: ngx_http_zstd_ratio_variable() and the long division of    *)
(* ngx_http_zstd_ratio.h, which takes three decimals from two 64-bit       *)
(* counters without a wider type.  uint64_t is scaled to 0 .. Modulus - 1. *)
(* A step is one digit, or one addition within a digit whose product would *)
(* not fit.                                                                *)
(***************************************************************************)
EXTENDS Integers

CONSTANT Modulus   \* 2^64

ASSUME ModulusAssumption == Modulus \in Nat /\ Modulus > 10

UintMax == Modulus - 1
Uint    == 0 .. UintMax

VARIABLES
  bytesIn, bytesOut,   \* ctx->bytes_in, ctx->bytes_out
  complete,            \* ctx != NULL && !ctx->aborted && ctx->done
  pc,                  \* "start", "digit", "peel", "done", "not_found"
  int, frac,           \* *ratio_int, frac
  rem,                 \* remainder
  i,                   \* digits taken
  acc, digit, k        \* the inner loop's

vars == <<bytesIn, bytesOut, complete, pc, int, frac, rem, i, acc, digit, k>>
input == <<bytesIn, bytesOut, complete>>

\* The sum or difference of two values, as uint64_t arithmetic leaves it.
Wrap(x) == IF x > UintMax THEN x - Modulus
           ELSE IF x < 0 THEN x + Modulus ELSE x

Init ==
  /\ bytesIn \in Uint
  /\ bytesOut \in Uint
  /\ complete \in BOOLEAN
  /\ pc = "start"
  /\ int = 0 /\ frac = 0 /\ rem = 0 /\ i = 0
  /\ acc = 0 /\ digit = 0 /\ k = 0

\* No context, an aborted or unfinished response, or no output.
NotFound ==
  /\ pc = "start"
  /\ ~ complete \/ bytesOut = 0
  /\ pc' = "not_found"
  /\ UNCHANGED <<input, int, frac, rem, i, acc, digit, k>>

Integer ==
  /\ pc = "start"
  /\ complete /\ bytesOut # 0
  /\ int' = bytesIn \div bytesOut
  /\ rem' = bytesIn % bytesOut
  /\ pc' = "digit"
  /\ UNCHANGED <<input, frac, i, acc, digit, k>>

\* Mutant: the bound is tested after rounding up.
FitsLate == rem <= UintMax \div 10 + 1

\* Does the remainder times ten fit?
Fits == rem <= UintMax \div 10

\* The product fits: divide.
ShortDigit ==
  /\ pc = "digit"
  /\ i < 3
  /\ Fits
  /\ frac' = frac * 10 + ((rem * 10) % Modulus) \div bytesOut
  /\ rem' = ((rem * 10) % Modulus) % bytesOut
  /\ i' = i + 1
  /\ UNCHANGED <<input, pc, int, acc, digit, k>>

\* It does not: add the remainder up ten times instead.
BeginPeel ==
  /\ pc = "digit"
  /\ i < 3
  /\ ~ Fits
  /\ acc' = rem
  /\ digit' = 0
  /\ k' = 0
  /\ pc' = "peel"
  /\ UNCHANGED <<input, int, frac, rem, i>>

\* The sum reached, or wrapped past, one whole divisor: peel it off.
Peel ==
  LET sum == Wrap(acc + rem) IN
  /\ pc = "peel"
  /\ k < 9
  /\ IF sum >= bytesOut \/ sum < rem
     THEN acc' = Wrap(sum - bytesOut) /\ digit' = digit + 1
     ELSE acc' = sum /\ UNCHANGED digit
  /\ k' = k + 1
  /\ UNCHANGED <<input, pc, int, frac, rem, i>>

EndPeel ==
  /\ pc = "peel"
  /\ k = 9
  /\ frac' = frac * 10 + digit
  /\ rem' = acc
  /\ i' = i + 1
  /\ pc' = "digit"
  /\ UNCHANGED <<input, int, acc, digit, k>>

Finish ==
  /\ pc = "digit"
  /\ i = 3
  /\ pc' = "done"
  /\ UNCHANGED <<input, int, frac, rem, i, acc, digit, k>>

Next ==
  \/ NotFound
  \/ Integer
  \/ ShortDigit
  \/ BeginPeel
  \/ Peel
  \/ EndPeel
  \/ Finish

Spec == Init /\ [][Next]_vars

-----------------------------------------------------------------------------
(* Properties *)

\* The three decimals are those of the exact quotient, for every pair of
\* counters: no intermediate sum or product loses anything, although the
\* exact value times 1000 does not fit the type (ratio.h:47-53).
RatioExact ==
  pc = "done" =>
    /\ frac \in 0 .. 999
    /\ (int * 1000 + frac) * bytesOut <= bytesIn * 1000
    /\ bytesIn * 1000 < (int * 1000 + frac + 1) * bytesOut

-----------------------------------------------------------------------------
(* The inductive invariant *)

TypeOK ==
  /\ bytesIn \in Uint /\ bytesOut \in Uint /\ complete \in BOOLEAN
  /\ pc \in {"start", "digit", "peel", "done", "not_found"}
  /\ int \in Nat /\ frac \in Nat /\ rem \in Uint
  /\ i \in 0 .. 3 /\ k \in 0 .. 9
  /\ acc \in Uint /\ digit \in Nat

Scale == IF i = 0 THEN 1 ELSE IF i = 1 THEN 10 ELSE IF i = 2 THEN 100 ELSE 1000

\* What the digits taken so far leave over.
DigitsExact ==
  pc \in {"digit", "peel", "done"} =>
    /\ bytesOut # 0
    /\ rem < bytesOut
    /\ frac < Scale
    /\ bytesIn * Scale = (int * Scale + frac) * bytesOut + rem

\* What the inner loop has peeled off the remainder's multiple.
PeelExact ==
  pc = "peel" =>
    /\ i < 3
    /\ acc < bytesOut
    /\ digit <= k
    /\ digit * bytesOut + acc = rem * (k + 1)

IInv ==
  /\ TypeOK
  /\ DigitsExact
  /\ PeelExact
  /\ pc = "start" => i = 0 /\ frac = 0
  /\ pc = "done" => i = 3
=============================================================================
