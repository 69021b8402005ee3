------------------------------- MODULE Order -------------------------------
(***************************************************************************)
(* What placing an order promises, whatever fails on the way: goods are    *)
(* sent only for money that was taken, and for exactly the same items; the *)
(* customer is told of goods only when they were sent; and a confirmed     *)
(* order was paid and sent.  A refused order promises nothing: the card    *)
(* may have been charged, and a call that was on its way may still be      *)
(* carried out after the refusal.                                          *)
(***************************************************************************)
CONSTANTS Requests, Products, None

VARIABLES paid,    \* the items a request's charge was for
          sent,    \* the items shipped for a request
          told,    \* requests announced by mail or as an event
          answer   \* "none", "ok" or "failed"

vars == <<paid, sent, told, answer>>

Init ==
    /\ paid = [r \in Requests |-> None]
    /\ sent = [r \in Requests |-> None]
    /\ told = {}
    /\ answer = [r \in Requests |-> "none"]

Pay(r) ==
    /\ paid[r] = None
    /\ \E items \in SUBSET Products : paid' = [paid EXCEPT ![r] = items]
    /\ UNCHANGED <<sent, told, answer>>

Send(r) ==
    /\ paid[r] # None /\ sent[r] = None
    /\ sent' = [sent EXCEPT ![r] = paid[r]]
    /\ UNCHANGED <<paid, told, answer>>

Tell(r) ==
    /\ sent[r] # None
    /\ told' = told \cup {r}
    /\ UNCHANGED <<paid, sent, answer>>

Confirm(r) ==
    /\ answer[r] = "none" /\ paid[r] # None /\ sent[r] # None
    /\ answer' = [answer EXCEPT ![r] = "ok"]
    /\ UNCHANGED <<paid, sent, told>>

\* One refused call, or every call in progress when the service goes down.
Refuse(R) ==
    /\ \A r \in R : answer[r] = "none"
    /\ answer' = [r \in Requests |-> IF r \in R THEN "failed" ELSE answer[r]]
    /\ UNCHANGED <<paid, sent, told>>

Next ==
    \/ \E r \in Requests : Pay(r) \/ Send(r) \/ Tell(r) \/ Confirm(r)
    \/ \E R \in SUBSET Requests : Refuse(R)

Spec == Init /\ [][Next]_vars

=============================================================================
