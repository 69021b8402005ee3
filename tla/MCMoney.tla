------------------------------ MODULE MCMoney ------------------------------
(***************************************************************************)
(* The money operators exercised as a calculator: an accumulator that is   *)
(* added to or negated, and an operand.  Every pair of small values, valid *)
(* or not, is reached, so an invariant over the two registers checks an    *)
(* operator on every bounded input.                                        *)
(***************************************************************************)
EXTENDS Money

CONSTANT MaxUnits   \* bound on the units of both registers

ASSUME UnitsAreBounded == MaxUnits \in Nat

VARIABLES left, right

registers == <<left, right>>

Operands ==
    [currency : Currencies,
     units    : -MaxUnits .. MaxUnits,
     nanos    : -(NanosMod + 1) .. (NanosMod + 1)]

TurnOn == left \in Operands /\ right \in Operands

Enter == right' \in Operands /\ UNCHANGED left

Add == /\ SumError(left, right) = NoError
       /\ Sum(left, right).units \in -MaxUnits .. MaxUnits
       /\ left' = Sum(left, right)
       /\ UNCHANGED right

Flip == left' = Negate(left) /\ UNCHANGED right

Press == Enter \/ Add \/ Flip

Calculating == TurnOn /\ [][Press]_registers

-----------------------------------------------------------------------------

\* Sum is exact: it adds the amounts without losing or creating a nano.  The
\* one exception is a borrow that leaves int32: opposite units that cancel
\* under a nanos sum below NanosMod - HalfInt32 (money.go, line 101).
SumIsExact ==
    SumError(left, right) = NoError =>
        \/ Amount(Sum(left, right)) = Amount(left) + Amount(right)
        \/ /\ left.units + right.units = 0
           /\ left.nanos + right.nanos < NanosMod - HalfInt32

\* Sum returns a representable money value, with matching signs and nanos
\* below a unit, exactly when the units do not cancel under a nanos sum that
\* is non-zero and below one unit.
SumIsValidExactly ==
    SumError(left, right) = NoError =>
        (IsValid(Sum(left, right)) <=>
            \/ left.units + right.units # 0
            \/ left.nanos + right.nanos = 0
            \/ left.nanos + right.nanos >= NanosMod)

\* demo.proto:195-197 and IsValid: a money value with positive units has
\* nanos that are positive or zero, and conversely.  Stated of sums of valid
\* values.
SumSignsMatch ==
    SumError(left, right) = NoError => SignMatches(Sum(left, right))

=============================================================================
