------------------------------ MODULE MathRound ------------------------------
(***************************************************************************)
(* Rounding to an integral type (nstl/nstl/math.hpp, math.cpp).  A         *)
(* floating-point value is a number of quarters, or not finite; the widths *)
(* of long long and of the target are constants.                           *)
(***************************************************************************)
EXTENDS Integers

CONSTANTS
  LongBits,           \* bits of long long
  TargetBits,         \* widths of target types, at most LongBits
  MaxValue,           \* quarters a value is away from zero, at most
  NotFinite,          \* an infinity or NaN
  Threw               \* the call ended with an exception

RoundAssumption ==
  /\ LongBits \in Nat \ {0}
  /\ TargetBits \subseteq 1..LongBits
  /\ MaxValue \in Nat

VARIABLES
  value, rounding, target,
  errexcept           \* math_errhandling has MATH_ERREXCEPT

vars == <<value, rounding, target, errexcept>>

Roundings == {"val", "floor", "ceil"}

Init ==
  /\ value \in {-MaxValue, NotFinite}
  /\ rounding \in Roundings
  /\ target \in [bits : TargetBits, signed : BOOLEAN]
  /\ errexcept \in BOOLEAN

\* The next value there is.
Next ==
  /\ value # NotFinite /\ value < MaxValue
  /\ value' = value + 1
  /\ UNCHANGED <<rounding, target, errexcept>>

Spec == Init /\ [][Next]_vars
-----------------------------------------------------------------------------
LongMax == 2^(LongBits - 1) - 1
LongMin == -(2^(LongBits - 1))

TargetMax(t) == IF t.signed THEN 2^(t.bits - 1) - 1 ELSE 2^t.bits - 1
TargetMin(t) == IF t.signed THEN -(2^(t.bits - 1)) ELSE 0

Magnitude(v) == IF v < 0 THEN -v ELSE v

Signed(v, n) == IF v < 0 THEN -n ELSE n

\* std::llround(): halves away from zero.
LlRound(v) == Signed(v, (Magnitude(v) + 2) \div 4)

\* The outcomes there may be.  FE_INVALID is raised for what no long long holds; where it
\* is not asked for, only what is not finite is refused, and llround() of a finite value
\* beyond long long is any long long.
SafeLlRound(v) ==
  IF v = NotFinite THEN {Threw}
  ELSE IF LlRound(v) \in LongMin..LongMax THEN {LlRound(v)}
  ELSE IF errexcept THEN {Threw}
  ELSE LongMin..LongMax

\* round_floor() goes towards zero, round_ceil() away from it.
Func(r, v) ==
  IF v = NotFinite THEN NotFinite
  ELSE CASE r = "val" -> v
         [] r = "floor" -> Signed(v, 4 * (Magnitude(v) \div 4))
         [] r = "ceil" -> Signed(v, 4 * ((Magnitude(v) + 3) \div 4))

\* Mutant: the largest value is refused too.
RoundValFuncStrict(t, r, v) ==
  {IF n = Threw \/ n < TargetMin(t) \/ TargetMax(t) <= n THEN Threw ELSE n :
     n \in SafeLlRound(Func(r, v))}

RoundValFunc(t, r, v) ==
  {IF n = Threw \/ n < TargetMin(t) \/ TargetMax(t) < n THEN Threw ELSE n :
     n \in SafeLlRound(Func(r, v))}
-----------------------------------------------------------------------------
(* Properties.                                                             *)

\* n is the value rounded: to the next integer, halves away from zero, towards zero, or
\* away from it.
Rounded(n) ==
  /\ n * value >= 0
  /\ 4 * Magnitude(n) - Magnitude(value) \in
       CASE rounding = "val" -> -1..2
         [] rounding = "floor" -> -3..0
         [] rounding = "ceil" -> 0..3

Fits(n) == n \in TargetMin(target)..TargetMax(target) /\ n \in LongMin..LongMax

(***************************************************************************)
(* The result is the value rounded as it was asked for, of the value's     *)
(* sign, and the call throws exactly if the target does not hold it or the *)
(* value is not finite.  Left out is a finite value beyond long long where *)
(* math_errhandling has no MATH_ERREXCEPT, which is not refused although   *)
(* README.md:69 says "throwing if the value can't be represented".         *)
(***************************************************************************)
RoundIsNearest ==
  \A n \in RoundValFunc(target, rounding, value) :
    IF n = Threw
    THEN value # NotFinite => ~\E m \in TargetMin(target)..TargetMax(target) : Rounded(m) /\ Fits(m)
    ELSE /\ value # NotFinite /\ Fits(n)
         /\ errexcept \/ LlRound(Func(rounding, value)) \in LongMin..LongMax => Rounded(n)
=============================================================================
