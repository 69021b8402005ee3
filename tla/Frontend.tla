------------------------------- MODULE Frontend -------------------------------
(***************************************************************************)
(* The parts of the shop's two frontends side by side: the browser's       *)
(* session (module Session, whose names are used as they are), the cart    *)
(* page, the page of a product, its reviews, and the mobile app.  They     *)
(* share no variable and no step; what is true of each alone is true here. *)
(***************************************************************************)
EXTENDS Session

CONSTANTS
  Changes, Orders, ShopCurrencies, Retries,   \* Shop
  Products, Questions, Quantities, One,       \* ProductPage
  Scores, MaxReviews,                         \* Reviews
  Requests, Addresses, Default,               \* Mobile
  MaxStarts, MaxChanges

VARIABLES
  cart, paid, request, answer, unsettled, selected, shown, fetch, failures,
  overtaken, unnoticed,
  product, effects, about, observed, reply, latest, quantity, chosen, added,
  productReviews, normalizedPercents,
  start, session, calls, users, address, storing, stored, changes, waiting,
  tracer, source, query, failed, early

sessionVars == vars
shopVars    == <<cart, paid, request, answer, unsettled, selected, shown,
                 fetch, failures, overtaken, unnoticed>>
pageVars    == <<product, effects, about, observed, reply, latest, quantity,
                 chosen, added>>
reviewVars  == <<productReviews, normalizedPercents>>
mobileVars  == <<start, session, calls, users, address, storing, stored,
                 changes, waiting, tracer, source, query, failed, early>>

Shopping == INSTANCE Shop WITH Currencies <- ShopCurrencies
Page     == INSTANCE ProductPage
Rating   == INSTANCE Reviews
App      == INSTANCE Mobile

ASSUME ShopIsSound == Shopping!Sound
ASSUME AppIsSound  == App!Sound
ASSUME ScoresAreSound == Rating!Sound

-----------------------------------------------------------------------------
(* The properties of the parts: each is stated in the module of its part.  *)

\* Module Shop: at rest the cart on display is the cart, up to three cases.
CartOnDisplayIsCurrent == Shopping!CartOnDisplayIsCurrent

\* Module Shop: whoever waits for the confirmation pays once.
PaidOnce == Shopping!PaidOnce

\* Module ProductPage: the answer on display is about the product on display.
AnswerIsForThisProduct == Page!AnswerIsForThisProduct

\* Module ProductPage: quantities are chosen for the product that is added.
QuantityWasChosenHere == Page!QuantityWasChosenHere

\* Module Reviews: the percentages of the scores add up and are ordered.
PercentsAddUp == Rating!PercentsAddUp

\* Module Mobile: one installation goes by one user.
OneUser == App!OneUser

\* Module Mobile: spans and queries follow a change of the address.
AddressTakesEffect == App!AddressTakesEffect
=============================================================================
