------------------------------ MODULE MCServices ------------------------------
(***************************************************************************)
(* A small instance of the services.  A behaviour is one of one service,   *)
(* and the variables of the others keep their initial values: together     *)
(* they would only multiply their states.                                  *)
(***************************************************************************)
EXTENDS Services, Sequences, TLC

CONSTANTS eur, usd, off

VARIABLE service   \* the one that moves, for ever

Rates         == eur :> 10000 @@ usd :> 11305
SampleAmounts == {[units |-> 2, nanos |-> n] : n \in {8, 51}}
AllOff        == [f \in Flags |-> off]

(* A bound: each code is converted from one amount, of euros the one that  *)
(* loses a leading zero.                                                   *)
SampleConversions ==
  \A c \in Conversions :
    conversion[c].from # None => (conversion[c].amount.nanos = 8 <=> conversion[c].from = eur)

ServicesInit ==
  /\ service \in {"load", "list", "money", "card", "flag", "book", "fraud"}
  /\ Init /\ Converting!Init /\ Flagging!Init /\ Booking!Init /\ Watching!Init
  /\ Recommending!Init
  /\ Charging!Init
  /\ service # "list" => request = CHOOSE r \in Recommending!Requests : TRUE
  /\ service # "card" => charge = CHOOSE c \in Charging!Charges : TRUE

ServicesNext ==
  /\ UNCHANGED service
  /\ \/ /\ service = "load" /\ Next
        /\ UNCHANGED <<listVars, moneyVars, cardVars, flagVars, bookVars, fraudVars>>
     \/ /\ service = "list" /\ Recommending!Next
        /\ UNCHANGED <<loadVars, moneyVars, cardVars, flagVars, bookVars, fraudVars>>
     \/ /\ service = "money" /\ Converting!Next /\ SampleConversions'
        /\ UNCHANGED <<loadVars, listVars, cardVars, flagVars, bookVars, fraudVars>>
     \/ /\ service = "card" /\ Charging!Next
        /\ UNCHANGED <<loadVars, listVars, moneyVars, flagVars, bookVars, fraudVars>>
     \/ /\ service = "flag" /\ Flagging!Next
        /\ UNCHANGED <<loadVars, listVars, moneyVars, cardVars, bookVars, fraudVars>>
     \/ /\ service = "book" /\ Booking!Next
        /\ UNCHANGED <<loadVars, listVars, moneyVars, cardVars, flagVars, fraudVars>>
     \/ /\ service = "fraud" /\ Watching!Next
        /\ UNCHANGED <<loadVars, listVars, moneyVars, cardVars, flagVars, bookVars>>

ServicesSpec == ServicesInit /\ [][ServicesNext]_<<service, loadVars, listVars,
                  moneyVars, cardVars, flagVars, bookVars, fraudVars>>

Symmetry == Permutations(Editors) \cup Permutations(Flags)
=============================================================================
