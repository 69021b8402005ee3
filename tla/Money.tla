------------------------------- MODULE Money -------------------------------
(***************************************************************************)
(* The money arithmetic of the checkout service (src/checkout/money).      *)
(*                                                                         *)
(* A money value is a signed amount split in whole units and nanos, where  *)
(* NanosMod nanos make a unit.  Units are int64 in the code and unbounded  *)
(* here; nanos are int32 and the borrow of Sum can leave that range, so    *)
(* every computed nanos value wraps at HalfInt32.  The two constants are   *)
(* 10^9 and 2^31 in the program.                                           *)
(***************************************************************************)
EXTENDS Integers

CONSTANTS NanosMod,   \* nanos in a unit (nanosMod)
          HalfInt32,  \* an int32 lies in -HalfInt32 .. HalfInt32-1
          Currencies  \* currency codes

\* Two valid nanos can be added without wrapping; a third cannot.
ASSUME MoneyAssumption ==
    /\ NanosMod \in Nat /\ NanosMod > 1
    /\ HalfInt32 \in Nat
    /\ 2 * NanosMod <= HalfInt32
    /\ HalfInt32 < 3 * NanosMod

MoneyValue == [currency : Currencies, units : Int, nanos : Int]

ErrInvalidValue        == "ErrInvalidValue"
ErrMismatchingCurrency == "ErrMismatchingCurrency"
NoError                == "nil"

Int32(n) == ((n + HalfInt32) % (2 * HalfInt32)) - HalfInt32

\* Go's integer division and remainder truncate toward zero.
Quotient(a, b)  == IF a >= 0 THEN a \div b ELSE -((-a) \div b)
Remainder(a, b) == a - b * Quotient(a, b)

-----------------------------------------------------------------------------

SignMatches(m) ==
    m.nanos = 0 \/ m.units = 0 \/ ((m.nanos < 0) <=> (m.units < 0))

ValidNanos(n) == -(NanosMod - 1) <= n /\ n <= NanosMod - 1

IsValid(m) == SignMatches(m) /\ ValidNanos(m.nanos)

\* && binds tighter than || in Go: validity guards the first disjunct only.
IsPositive(m) ==
    (IsValid(m) /\ m.units > 0) \/ (m.units = 0 /\ m.nanos > 0)

IsNegative(m) ==
    (IsValid(m) /\ m.units < 0) \/ (m.units = 0 /\ m.nanos < 0)

Negate(m) ==
    [m EXCEPT !.units = -m.units, !.nanos = Int32(-m.nanos)]

\* The sign test of Sum on the added, not yet normalised, components.
SameSign(units, nanos) ==
    \/ units = 0 /\ nanos = 0
    \/ units > 0 /\ nanos >= 0
    \/ units < 0 /\ nanos <= 0

\* Mutant: the carry is dropped, nanos are only reduced.
Normalise_NoCarry(units, nanos, currency) ==
    IF SameSign(units, nanos)
    THEN [currency |-> currency, units |-> units,
          nanos |-> Remainder(nanos, NanosMod)]
    ELSE [currency |-> currency, units |-> units - 1,
          nanos |-> Int32(nanos + NanosMod)]

\* Mutant: the carry test is off by one, a full unit of nanos stays.
Normalise_LateCarry(units, nanos, currency) ==
    IF SameSign(units, nanos) /\ nanos > NanosMod
    THEN [currency |-> currency, units |-> units + 1, nanos |-> nanos - NanosMod]
    ELSE [currency |-> currency, units |-> units, nanos |-> nanos]

\* Sum after its checks: carry when the signs agree, else borrow one unit.
Normalise(units, nanos, currency) ==
    IF SameSign(units, nanos)
    THEN [currency |-> currency,
          units    |-> units + Quotient(nanos, NanosMod),
          nanos    |-> Remainder(nanos, NanosMod)]
    ELSE IF units > 0
    THEN [currency |-> currency, units |-> units - 1,
          nanos |-> Int32(nanos + NanosMod)]
    ELSE [currency |-> currency, units |-> units + 1,
          nanos |-> Int32(nanos - NanosMod)]

\* The error Sum returns, NoError when its checks pass.
SumError(l, r) ==
    IF ~IsValid(l) \/ ~IsValid(r) THEN ErrInvalidValue
    ELSE IF l.currency # r.currency THEN ErrMismatchingCurrency
    ELSE NoError

Sum(l, r) ==
    Normalise(l.units + r.units, l.nanos + r.nanos, l.currency)

-----------------------------------------------------------------------------

\* The amount a money value stands for, in nanos.
Amount(m) == m.units * NanosMod + m.nanos

=============================================================================
