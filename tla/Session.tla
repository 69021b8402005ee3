------------------------------- MODULE Session -------------------------------
(***************************************************************************)
(* Who the shopper is: the session that the pages of one browser share     *)
(* through its local storage (src/frontend/gateways/Session.gateway.ts),   *)
(* and the copies of it that modules keep from the moment they are loaded. *)
(*                                                                         *)
(* A tab is one load of the application.  Its script runs in steps that    *)
(* other tabs see only through the storage, which no tab can lock, so a    *)
(* read and the write that follows it are two steps.  The cart on display  *)
(* is that of Api.gateway's copy of the user, the cart that is ordered     *)
(* that of CartDetail's, taken when the cart page is first opened.         *)
(***************************************************************************)
CONSTANTS
  Tabs,         \* loads of the application in one browser
  Currencies,
  USD,          \* the currency of a new session, one of Currencies
  None

VARIABLES
  storage,      \* the stored session, or None if there is no valid one
  stage,        \* how far each tab's script has come
  call,         \* the tab's call of the gateway under way, or None
  user,         \* the user each module of the tab keeps, or None
  currency,     \* the currency selected in the tab, or None
  disturbed     \* storage lost its session, or one was written over another
vars == <<storage, stage, call, user, currency, disturbed>>

-----------------------------------------------------------------------------
(* Every load draws a user at random, named here after its tab.            *)
defaultSession(t) == [userId |-> t, currencyCode |-> USD]
Sessions == [userId : Tabs, currencyCode : Currencies]

(* The modules that call getSession when they are loaded.  Api.gateway and *)
(* Currency.provider are loaded with every page, CartDetail with the cart. *)
Modules == {"Api", "CartDetail"}
Purposes == {"Api", "Currency", "CartDetail"} \cup Currencies
Calls == [purpose : Purposes, step : {"read", "create", "write"}, session : Sessions]

(* None is apart from everything else, and no currency has the name of a   *)
(* purpose.                                                                *)
ASSUME NamesAreApart ==
  /\ None \notin Tabs /\ None \notin Sessions /\ None \notin Calls
  /\ USD \in Currencies
  /\ {"Api", "Currency", "CartDetail"} \cap Currencies = {}

Init ==
  /\ storage = None
  /\ stage = [t \in Tabs |-> "start"]
  /\ call = [t \in Tabs |-> None]
  /\ user = [t \in Tabs |-> [m \in Modules |-> None]]
  /\ currency = [t \in Tabs |-> None]
  /\ disturbed = FALSE

Call(t, purpose, step) ==
  call' = [call EXCEPT ![t] = [purpose |-> purpose, step |-> step,
                               session |-> defaultSession(t)]]

(* A module is loaded, in the order of the imports.                        *)
Load(t, module, from, to) ==
  /\ call[t] = None /\ stage[t] = from
  /\ Call(t, module, "read")
  /\ stage' = [stage EXCEPT ![t] = to]
  /\ UNCHANGED <<storage, user, currency, disturbed>>

(* The shopper selects a currency; setSessionValue reads the session again.*)
onSelectCurrency(t, c) ==
  /\ call[t] = None /\ stage[t] \in {"open", "cart"}
  /\ currency' = [currency EXCEPT ![t] = c]
  /\ Call(t, c, "read")
  /\ UNCHANGED <<storage, stage, user, disturbed>>

(* What the caller of getSession does with the session it returns.         *)
Return(t, session) ==
  LET purpose == call[t].purpose IN
  IF purpose \in Currencies
  THEN /\ call' = [call EXCEPT ![t].step = "write", ![t].session = session]
       /\ UNCHANGED <<user, currency>>
  ELSE /\ call' = [call EXCEPT ![t] = None]
       /\ user' = IF purpose \in Modules
                  THEN [user EXCEPT ![t][purpose] = session.userId] ELSE user
       /\ currency' = IF purpose = "Currency"
                      THEN [currency EXCEPT ![t] = session.currencyCode]
                      ELSE currency

(* getSession: the stored session, or else the default, which is stored.   *)
Read(t) ==
  /\ call[t] # None /\ call[t].step = "read"
  /\ IF storage # None THEN Return(t, storage)
     ELSE /\ call' = [call EXCEPT ![t].step = "create"]
          /\ UNCHANGED <<user, currency>>
  /\ UNCHANGED <<storage, stage, disturbed>>

Create(t) ==
  /\ call[t] # None /\ call[t].step = "create"
  /\ storage' = defaultSession(t)
  /\ disturbed' = (disturbed \/ storage # None)
  /\ Return(t, defaultSession(t))
  /\ UNCHANGED stage

(* A mutant: only the value that is set is kept of the session, which is   *)
(* then not a valid one.                                                   *)
Updated_ValueOnly(t) == None

Updated(t) == [call[t].session EXCEPT !.currencyCode = call[t].purpose]

Write(t) ==
  /\ call[t] # None /\ call[t].step = "write"
  /\ storage' = Updated(t)
  /\ call' = [call EXCEPT ![t] = None]
  /\ UNCHANGED <<stage, user, currency, disturbed>>

(* The shopper clears the browser's data, or the session is overwritten    *)
(* with text that is not a session.                                        *)
Clear ==
  /\ storage # None
  /\ storage' = None
  /\ disturbed' = TRUE
  /\ UNCHANGED <<stage, call, user, currency>>

Step(t) == \/ Load(t, "Api", "start", "imports")
           \/ Load(t, "Currency", "imports", "open")
           \/ Load(t, "CartDetail", "open", "cart")
           \/ \E c \in Currencies : onSelectCurrency(t, c)
           \/ Read(t) \/ Create(t) \/ Write(t)

Next == (\E t \in Tabs : Step(t)) \/ Clear

Spec == Init /\ [][Next]_vars

-----------------------------------------------------------------------------
(* The shopper of each tab sees and orders the cart of the stored user:    *)
(* in whatever order tabs load, open the cart and change the currency, all *)
(* the copies of the user agree with the storage, unless its data was      *)
(* cleared or two first visits overlapped.  (Then they may not: a tab goes *)
(* on showing the cart of one user and orders that of another.)            *)
OneShopper ==
  ~disturbed =>
    \A t \in Tabs, m \in Modules :
      user[t][m] # None => storage # None /\ user[t][m] = storage.userId

-----------------------------------------------------------------------------
(* The inductive invariant of the proofs.                                  *)
TypeOK ==
  /\ storage \in Sessions \cup {None}
  /\ stage \in [Tabs -> {"start", "imports", "open", "cart"}]
  /\ call \in [Tabs -> Calls \cup {None}]
  /\ user \in [Tabs -> [Modules -> Tabs \cup {None}]]
  /\ currency \in [Tabs -> Currencies \cup {None}]
  /\ disturbed \in BOOLEAN
  /\ \A t \in Tabs : call[t] # None /\ call[t].step = "write" =>
                       call[t].purpose \in Currencies

(* A call about to write has the stored user in hand.                      *)
WritersAgree ==
  ~disturbed =>
    \A t \in Tabs : call[t] # None /\ call[t].step = "write" =>
      storage # None /\ call[t].session.userId = storage.userId

IInv == TypeOK /\ OneShopper /\ WritersAgree
=============================================================================
