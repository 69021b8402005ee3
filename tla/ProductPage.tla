----------------------------- MODULE ProductPage -----------------------------
(***************************************************************************)
(* The page of a product (src/frontend/pages/product/[productId]) when the *)
(* shopper goes from one product to another: React keeps the page and its  *)
(* state, and only effects, which run after the new product is on display, *)
(* reset the quantity and the answer of the assistant.                     *)
(*                                                                         *)
(* A question is a mutation of react-query: the page observes the mutation *)
(* it started last, until it is reset; answers to others are not shown.    *)
(* Questions may be asked while one is pending, by the quick prompts.      *)
(***************************************************************************)
CONSTANTS
  Products,
  Questions,    \* questions asked, each once
  Quantities,   \* quantities to choose from, with One
  One, None

VARIABLES
  product,      \* the product in the page's address, on display
  effects,      \* the product for which the effects have run
  about,        \* the product that each question was asked about, or None
  observed,     \* the question whose mutation the page observes, or None
  reply,        \* the question whose answer, or error, is on display, or None
  latest,       \* the question asked last, or None
  quantity,     \* the quantity on display
  chosen,       \* whether the shopper chose it, and for which product
  added         \* what was last added to the cart, or None
assistantVars == <<about, observed, reply, latest>>
quantityVars  == <<quantity, chosen>>
vars == <<product, effects, assistantVars, quantityVars, added>>

Init ==
  /\ product \in Products
  /\ effects = product
  /\ about = [q \in Questions |-> None]
  /\ observed = None /\ reply = None /\ latest = None
  /\ quantity = One /\ chosen = None
  /\ added = None

(* The effects of a display have run before there is another one.          *)
Navigate(p) ==
  /\ effects = product /\ p # product
  /\ product' = p
  /\ UNCHANGED <<effects, assistantVars, quantityVars, added>>

(* A mutant: the mutation of the last product is kept.                     *)
RunEffects_NoReset ==
  /\ effects # product
  /\ effects' = product
  /\ quantity' = One /\ chosen' = None
  /\ UNCHANGED <<product, assistantVars, added>>

(* A mutant: the quantity is not reset.                                    *)
RunEffects_Quantity ==
  /\ effects # product
  /\ effects' = product
  /\ observed' = None /\ reply' = None
  /\ UNCHANGED <<product, about, latest, quantityVars, added>>

(* The effects: questions are from now on about the product on display,    *)
(* the mutation is reset, and so is the quantity.                          *)
RunEffects ==
  /\ effects # product
  /\ effects' = product
  /\ observed' = None /\ reply' = None
  /\ quantity' = One /\ chosen' = None
  /\ UNCHANGED <<product, about, latest, added>>

(* handleAskAI and the quick prompts: reset, then ask about the product of *)
(* the last effects.                                                       *)
Ask(q) ==
  /\ about[q] = None
  /\ about' = [about EXCEPT ![q] = effects]
  /\ observed' = q /\ reply' = None
  /\ latest' = q
  /\ UNCHANGED <<product, effects, quantityVars, added>>

(* The assistant answers, or the request fails.                            *)
Answer(q) ==
  /\ observed = q
  /\ reply' = q
  /\ UNCHANGED <<product, effects, about, observed, latest, quantityVars, added>>

Choose(n) ==
  /\ quantity' = n /\ chosen' = product
  /\ UNCHANGED <<product, effects, assistantVars, added>>

(* onAddItem adds what is on display; then the cart page is opened.        *)
AddItem ==
  /\ added' = [product |-> product, quantity |-> quantity,
               chosen  |-> chosen,  early    |-> effects # product]
  /\ UNCHANGED <<product, effects, assistantVars, quantityVars>>

Next == \/ \E p \in Products : Navigate(p)
        \/ RunEffects
        \/ \E q \in Questions : Ask(q) \/ Answer(q)
        \/ \E n \in Quantities : Choose(n)
        \/ AddItem

Spec == Init /\ [][Next]_vars

-----------------------------------------------------------------------------
(* Once the effects have run, an answer on display is the answer to the    *)
(* question asked last, asked about the product on display, however many   *)
(* questions are pending and whatever pages they were asked on.  (Until    *)
(* then the old answer stands under the new product.)                      *)
AnswerIsForThisProduct ==
  effects = product /\ reply # None =>
    reply = latest /\ about[reply] = product

(* More than one of a product is added only if the shopper chose so for    *)
(* that product, unless the item was added before the effects had run.     *)
QuantityWasChosenHere ==
  added # None /\ added.quantity # One /\ ~added.early =>
    added.chosen = added.product

-----------------------------------------------------------------------------
(* The inductive invariant of the proofs.                                  *)
TypeOK ==
  /\ product \in Products /\ effects \in Products
  /\ about \in [Questions -> Products \cup {None}]
  /\ {observed, reply, latest} \subseteq Questions \cup {None}

(* Only the question asked last is observed, and it was asked about the    *)
(* product of the last effects; a quantity chosen is for the product on    *)
(* display from when the effects have run.                                 *)
Consistent ==
  /\ observed # None => observed = latest /\ about[observed] = effects
  /\ reply # None => reply = observed
  /\ quantity # One /\ effects = product => chosen = product

IInv == TypeOK /\ Consistent /\ QuantityWasChosenHere
=============================================================================
