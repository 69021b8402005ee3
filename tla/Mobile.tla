-------------------------------- MODULE Mobile --------------------------------
(***************************************************************************)
(* The mobile app (src/react-native-app): its user, kept in storage that   *)
(* is read and written asynchronously before every request, and the        *)
(* address of the shop, which the settings screen changes while requests   *)
(* are under way.  The app may be killed and started again.                *)
(*                                                                         *)
(* The storage carries out its calls in the order they were made.  The     *)
(* queries for the products and the cart are taken as one; as in module    *)
(* Shop, invalidation renews a fetch under way unless it is the first.     *)
(***************************************************************************)
EXTENDS Naturals, Sequences

CONSTANTS
  Requests,     \* requests that carry the user: each made once in a start
  Addresses,
  Default,      \* the address in use when none is stored, one of Addresses
  MaxStarts,    \* bound on the starts of the app
  MaxChanges,   \* bound on the changes of the address in one start
  None

VARIABLES
  start,        \* which start of the app this is
  session,      \* the stored user, or None
  calls,        \* for each request, its step, and the user it goes by
  users,        \* users that requests were ever sent for
  address,      \* the stored address
  storing,      \* addresses being stored, in order
  stored,       \* addresses stored, whose changes go on from there
  changes,      \* changes of the address since the start
  waiting,      \* the last change that waits for the queries, or None
  tracer,       \* where spans are exported to
  source,       \* where the data on display comes from, or None
  query,        \* None, "asked", or the address the query is sent to
  failed,       \* whether the last fetch failed
  early         \* the first fetch was under way when the address changed
userVars    == <<session, calls, users>>
changeVars  == <<address, storing, stored, changes>>
queryVars   == <<waiting, tracer, source, query, failed, early>>
vars == <<start, userVars, changeVars, queryVars>>

(* What the values of the constants must be.                               *)
Sound ==
  /\ MaxStarts \in Nat \ {0} /\ \A k \in 1 .. MaxStarts : None # <<k, None>>
  /\ Default \in Addresses
  /\ None \notin Addresses /\ "asked" \notin Addresses /\ None # "asked"

-----------------------------------------------------------------------------
(* A mutant: every call of getSession makes up a user of its own.          *)
defaultSession_PerCall(r) == <<start, r>>

(* Each start draws a user, once.                                          *)
defaultSession(r) == <<start, None>>

Ready == [step |-> "ready", user |-> None]

(* useTracer has read the address before anything is on display.           *)
Started == /\ calls' = [r \in Requests |-> Ready]
           /\ storing' = <<>> /\ stored' = <<>> /\ changes' = 0
           /\ waiting' = None /\ tracer' = address
           /\ source' = None /\ query' = "asked"
           /\ failed' = FALSE /\ early' = FALSE

Init ==
  /\ start = 1
  /\ session = None /\ users = {}
  /\ calls = [r \in Requests |-> Ready]
  /\ address = Default
  /\ storing = <<>> /\ stored = <<>> /\ changes = 0
  /\ waiting = None /\ tracer = Default
  /\ source = None /\ query = "asked"
  /\ failed = FALSE /\ early = FALSE

(* The app is killed and started again.                                    *)
Restart ==
  /\ start < MaxStarts
  /\ start' = start + 1
  /\ Started
  /\ UNCHANGED <<session, users, address>>

-----------------------------------------------------------------------------
GoOn(r, step, user) == calls' = [calls EXCEPT ![r] = [step |-> step, user |-> user]]

(* getSession, which the gateway calls for the baggage and again for the   *)
(* request itself: read the session, and store the default if there is     *)
(* none, before going on with it.                                          *)
ReadSession(r) ==
  /\ calls[r].step \in {"ready", "again"}
  /\ GoOn(r, IF session = None THEN "store"
             ELSE IF calls[r].step = "ready" THEN "again" ELSE "send",
             IF session = None THEN defaultSession(r) ELSE session)
  /\ UNCHANGED <<start, session, users, changeVars, queryVars>>

StoreSession(r) ==
  /\ calls[r].step = "store"
  /\ session' = calls[r].user
  /\ GoOn(r, "again", calls[r].user)
  /\ UNCHANGED <<start, users, changeVars, queryVars>>

(* The baggage that goes with a request has the user of the first reading. *)
Send(r) ==
  /\ calls[r].step = "send"
  /\ GoOn(r, "sent", calls[r].user)
  /\ users' = users \cup {calls[r].user}
  /\ UNCHANGED <<start, session, changeVars, queryVars>>

-----------------------------------------------------------------------------
(* onSetFrontendProxyURL: store the address, invalidate all queries, wait  *)
(* for them, and export to the new address.                                *)
Change(a) ==
  /\ changes < MaxChanges
  /\ changes' = changes + 1
  /\ storing' = Append(storing, a)
  /\ UNCHANGED <<start, userVars, address, stored, queryVars>>

Store ==
  /\ storing # <<>>
  /\ address' = Head(storing)
  /\ storing' = Tail(storing)
  /\ stored' = Append(stored, Head(storing))
  /\ UNCHANGED <<start, userVars, changes, queryVars>>

(* A mutant: a fetch under way is taken to be as good as a new one.        *)
Invalidate_Deduplicated ==
  /\ stored # <<>>
  /\ stored' = Tail(stored)
  /\ waiting' = Head(stored)
  /\ early' = (source = None /\ query # None)
  /\ query' = IF query = None THEN "asked" ELSE query
  /\ UNCHANGED <<start, userVars, address, storing, changes, source, failed,
                 tracer>>

(* A fetch that is dropped ends the wait of the change before.             *)
Invalidate ==
  /\ stored # <<>>
  /\ stored' = Tail(stored)
  /\ waiting' = Head(stored)
  /\ IF source = None /\ query # None
     THEN early' = TRUE /\ UNCHANGED <<tracer, query>>
     ELSE /\ early' = FALSE
          /\ query' = "asked"
          /\ tracer' = IF waiting # None THEN waiting ELSE tracer
  /\ UNCHANGED <<start, userVars, address, storing, changes, source, failed>>

(* Request.ts reads the address for each request; a query that fails is    *)
(* tried again, and reads it again.                                        *)
Fetch ==
  /\ query # None
  /\ query' = address
  /\ UNCHANGED <<start, userVars, changeVars, waiting, tracer, source, failed,
                 early>>

EndFetch ==
  /\ query' = None
  /\ waiting' = None
  /\ tracer' = IF waiting # None THEN waiting ELSE tracer
  /\ UNCHANGED <<start, userVars, changeVars>>

Answer ==
  /\ query \in Addresses
  /\ source' = query /\ failed' = FALSE
  /\ EndFetch
  /\ UNCHANGED early

Fail ==
  /\ query # None
  /\ failed' = TRUE /\ early' = FALSE
  /\ EndFetch
  /\ UNCHANGED source

Next == \/ Restart
        \/ \E r \in Requests : ReadSession(r) \/ StoreSession(r) \/ Send(r)
        \/ \E a \in Addresses : Change(a)
        \/ Store \/ Invalidate \/ Fetch \/ Answer \/ Fail

Spec == Init /\ [][Next]_vars

-----------------------------------------------------------------------------
(* All requests of one installation go by the same user, although the      *)
(* first ones overlap and each start, which may come while the user is     *)
(* being stored, makes up another.                                         *)
OneUser == \A u, v \in users : u = v

(* When no change is under way and the queries are done, the spans go to   *)
(* the stored address, and the data on display came from there unless the  *)
(* last fetch failed, or was the first and under way when the address was  *)
(* changed.  Changes overlap each other and the fetches in any order.      *)
AddressTakesEffect ==
  storing = <<>> /\ stored = <<>> /\ query = None =>
    /\ tracer = address
    /\ ~failed /\ ~early => source = address

-----------------------------------------------------------------------------
(* The inductive invariants of the proofs.                                 *)

(* A user is made up only while none is stored, the same by all calls of a *)
(* start; from when one is stored it is the user of every call going on.   *)
Drawn == {<<k, None>> : k \in 1 .. MaxStarts}
UsersAgree ==
  /\ start \in 1 .. MaxStarts /\ session \in Drawn \cup {None}
  /\ calls \in [Requests -> [step : {"ready", "store", "again", "send", "sent"},
                              user : Drawn \cup {None}]]
  /\ \A r \in Requests :
       /\ calls[r].step = "store" => /\ calls[r].user = <<start, None>>
                                     /\ session \in {None, <<start, None>>}
       /\ calls[r].step \in {"again", "send"} =>
            session # None /\ calls[r].user = session
  /\ users \subseteq {session} /\ (session = None => users = {})

AddressTypeOK ==
  /\ address \in Addresses /\ tracer \in Addresses
  /\ storing \in Seq(Addresses) /\ stored \in Seq(Addresses)
  /\ waiting \in Addresses \cup {None}
  /\ query \in Addresses \cup {None, "asked"}
  /\ failed \in BOOLEAN /\ early \in BOOLEAN

(* The newest of the changes whose address is stored is on its way to the  *)
(* tracer, and the queries that it waits for see that address.             *)
ChangeIsUnderWay ==
  /\ address = IF stored # <<>> THEN stored[Len(stored)]
               ELSE IF waiting # None THEN waiting ELSE tracer
  /\ waiting # None => query # None
  /\ stored = <<>> /\ ~early =>
       /\ query \in Addresses => query = address
       /\ query = None /\ ~failed => source = address

IInv == UsersAgree /\ AddressTypeOK /\ ChangeIsUnderWay
=============================================================================
