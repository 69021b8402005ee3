------------------------------ MODULE CardCheck ------------------------------
(***************************************************************************)
(* The payment service's checks of a card (charge.js).  The current month  *)
(* and the current year are read from the clock one after the other, in    *)
(* local time, and put together to one number of months.  Charges share    *)
(* nothing but the clock: the model has one.                               *)
(***************************************************************************)
EXTENDS Naturals

CONSTANTS
  LastMonth,     \* bound on the clock, counted in months
  Expirations    \* the months in which cards expire, counted alike

VARIABLES
  clock,
  charge         \* a charge: its step, its card, what it has read of
                 \* the clock, and the clock when the reading began and ended
vars == <<clock, charge>>

Months == 12
Month(t)  == (t % Months) + 1
YearOf(t) == t \div Months

Card == [valid : BOOLEAN, accepted : BOOLEAN, expiration : Expirations]

Charges == [step : {"flag"}, card : Card, month : {0}, year : {0},
            began : {0}, ended : {0}]

Init ==
  /\ clock = 0
  /\ charge \in Charges

Tick ==
  /\ clock < LastMonth
  /\ clock' = clock + 1
  /\ UNCHANGED charge

At(s) == charge.step = s

(* paymentFailure refuses a share of the charges.                          *)
CheckFlag ==
  /\ At("flag")
  /\ \E next \in {"month", "failed"} : charge' = [charge EXCEPT !.step = next]
  /\ UNCHANGED clock

(* A mutant: the year is read before the month.                            *)
ReadClock_YearFirst ==
  /\ \/ /\ At("month")
        /\ charge' = [charge EXCEPT !.step = "year", !.began = clock,
                                    !.year = YearOf(clock)]
     \/ /\ At("year")
        /\ charge' = [charge EXCEPT !.step = "check", !.ended = clock,
                                    !.month = Month(clock)]
  /\ UNCHANGED clock

ReadClock ==
  /\ \/ /\ At("month")
        /\ charge' = [charge EXCEPT !.step = "year", !.began = clock,
                                    !.month = Month(clock)]
     \/ /\ At("year")
        /\ charge' = [charge EXCEPT !.step = "check", !.ended = clock,
                                    !.year = YearOf(clock)]
  /\ UNCHANGED clock

(* The number must be valid, of an accepted kind, and the card in date.    *)
Passes ==
  LET card == charge.card IN
  /\ card.valid /\ card.accepted
  /\ charge.year * Months + charge.month
        <= YearOf(card.expiration) * Months + Month(card.expiration)

Check ==
  /\ At("check")
  /\ charge' = [charge EXCEPT !.step = IF Passes THEN "charged" ELSE "refused"]
  /\ UNCHANGED clock

Next == Tick \/ CheckFlag \/ ReadClock \/ Check

Spec == Init /\ [][Next]_vars

-----------------------------------------------------------------------------
(* Although the clock may move between the two readings, a card that had   *)
(* expired when they began is never charged, and an accepted one that is   *)
(* in date is never refused but over New Year, when the old month goes     *)
(* with the new year.                                                      *)
OnlyCardsInDateAreCharged ==
  LET card == charge.card IN
    /\ At("charged") =>
         card.valid /\ card.accepted /\ charge.began <= card.expiration
    /\ At("refused") /\ card.valid /\ card.accepted
         /\ charge.ended <= card.expiration =>
           YearOf(charge.began) # YearOf(charge.ended)

-----------------------------------------------------------------------------
(* What the proofs add: where a charge is, what it has read of the clock.  *)
TypeOK ==
  /\ clock \in Nat
  /\ charge \in [step : {"flag", "month", "year", "check", "charged", "refused", "failed"},
                  card : Card, month : Nat, year : Nat, began : Nat, ended : Nat]

ReadSoFar ==
  /\ ~(charge.step \in {"flag", "month", "failed"}) =>
       charge.began <= clock /\ charge.month = Month(charge.began)
  /\ charge.step \in {"check", "charged", "refused"} =>
       charge.began <= charge.ended /\ charge.year = YearOf(charge.ended)

IInv == TypeOK /\ ReadSoFar /\ OnlyCardsInDateAreCharged
=============================================================================
