------------------------------- MODULE Services -------------------------------
(***************************************************************************)
(* The services that keep something of their own between requests, side by *)
(* side: ad (module CpuLoad, whose names are used as they are),            *)
(* recommendation, currency, payment, flagd-ui, and the two consumers of   *)
(* orders.  They share no variable and no step; what is true of each alone *)
(* is true of it here.                                                     *)
(***************************************************************************)
EXTENDS CpuLoad

CONSTANTS
  Items, MaxResponses,                        \* Recommendation
  Conversions, Known, Unknown, Rate,          \* Currency
  NanosMod, Precision, Amounts,
  LastMonth, Expirations,                     \* CardCheck
  Flags, Variants, Shipped, Editors,          \* FlagStorage
  MaxCasts, MaxCrashes, NoFlags, Text, Partial,
  MaxOrders, MaxDeaths, MaxStarts             \* Accounting, FraudDetection

VARIABLES
  first_run, cached_ids, request,
  currency_conversion, touching, raced, conversion,
  clock, charge,
  file, state, mailbox, doing, content, casts, crashes, stale, due,
  log, position, committed, inHand, booked, deaths, excused,
  topic, end, next, saved, up, starts, counted, passed

loadVars   == vars
listVars   == <<first_run, cached_ids, request>>
moneyVars  == <<currency_conversion, touching, raced, conversion>>
cardVars   == <<clock, charge>>
flagVars   == <<file, state, mailbox, doing, content, casts, crashes, stale, due>>
bookVars   == <<log, position, committed, inHand, booked, deaths, excused>>
fraudVars  == <<topic, end, next, saved, up, starts, counted, passed>>

Recommending == INSTANCE Recommendation WITH call <- request
Converting   == INSTANCE Currency WITH call <- conversion, Calls <- Conversions
Charging     == INSTANCE CardCheck
Flagging     == INSTANCE FlagStorage
Booking      == INSTANCE Accounting WITH orders <- log
Watching     == INSTANCE FraudDetection WITH orders <- topic, position <- end,
                                             committed <- saved, excused <- passed

ASSUME NoneIsApart          == None \notin Calls /\ None \notin Nat
ASSUME ExpirationsAreMonths == Expirations \subseteq Nat
ASSUME MoneyIsSound         == Converting!Sound
ASSUME FilesAreApart        == Flagging!Apart

-----------------------------------------------------------------------------
(* The properties of the services, each stated in the module of its own.   *)

\* Module Recommendation: answers are full but for those from a cold cache.
RecommendationsAreFull == Recommending!RecommendationsAreFull

\* Module Currency: what is close, what is too high, and what a race may do.
ConversionIsClose == Converting!ConversionIsClose

\* Module CardCheck: no expired card is charged, nor a good one refused.
OnlyCardsInDateAreCharged == Charging!OnlyCardsInDateAreCharged

\* Module FlagStorage: writes last, across restarts, but for stale editors.
HandledWritesLast == Flagging!HandledWritesLast

\* Module Accounting: which orders may be missing from the books.
OrdersAreBooked == Booking!OrdersAreBooked

\* Module FraudDetection: which orders are never looked at.
OrdersAreCounted == Watching!OrdersAreCounted
=============================================================================
