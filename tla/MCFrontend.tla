----------------------------- MODULE MCFrontend -----------------------------
(***************************************************************************)
(* A small instance of the frontends.  A behaviour is one of one part, and *)
(* the variables of the others keep their initial values: together they    *)
(* would only multiply their states.  The cart page is taken in two ways:  *)
(* two orders in one currency, and one order while currencies are switched.*)
(***************************************************************************)
EXTENDS Frontend, Naturals, FiniteSets, Sequences, TLC

VARIABLE part   \* the one that moves, for ever

FrontendInit ==
  /\ part \in {"session", "buying", "browsing", "page", "stars", "app"}
  /\ Init /\ Shopping!Init /\ Page!Init /\ Rating!Init /\ App!Init

Ordered == {o \in Orders : request[o] # Shopping!Idle}

FrontendNext ==
  /\ UNCHANGED part
  /\ \/ /\ part = "session" /\ Next
        /\ UNCHANGED <<shopVars, pageVars, reviewVars, mobileVars>>
     \/ /\ part = "buying" /\ Shopping!Next
        /\ selected' = selected
        /\ UNCHANGED <<sessionVars, pageVars, reviewVars, mobileVars>>
     \/ /\ part = "browsing" /\ Shopping!Next
        /\ Cardinality(Ordered') <= 1
        /\ UNCHANGED <<sessionVars, pageVars, reviewVars, mobileVars>>
     \/ /\ part = "page" /\ Page!Next
        /\ UNCHANGED <<sessionVars, shopVars, reviewVars, mobileVars>>
     \/ /\ part = "stars" /\ Rating!Next
        /\ UNCHANGED <<sessionVars, shopVars, pageVars, mobileVars>>
     \/ /\ part = "app" /\ App!Next
        /\ UNCHANGED <<sessionVars, shopVars, pageVars, reviewVars>>

FrontendSpec == FrontendInit /\ [][FrontendNext]_<<part, sessionVars, shopVars,
                                   pageVars, reviewVars, mobileVars>>

Symmetry == Permutations(Orders) \cup Permutations(ShopCurrencies)
=============================================================================
