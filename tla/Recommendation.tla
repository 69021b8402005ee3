---------------------------- MODULE Recommendation ----------------------------
(***************************************************************************)
(* The recommendation service: requests on the threads of a pool answer    *)
(* with products of the catalogue other than those asked about.  With the  *)
(* flag recommendationCacheFailure the products come from a global list    *)
(* that only grows; of the list the model keeps the set of its members.    *)
(***************************************************************************)
EXTENDS Naturals, FiniteSets, FiniteSetsExt

CONSTANTS
  Items,         \* the products of the catalogue
  Calls,         \* requests
  MaxResponses   \* how many products an answer has at most

VARIABLES
  first_run,
  cached_ids,
  call           \* for each request, its step, and what it has read so far
vars == <<first_run, cached_ids, call>>

(* A request asks about at most one product.                               *)
About == {{}} \cup {{p} : p \in Items}

Requests ==
  [Calls -> {[step |-> "start", about |-> a, ids |-> {}, cold |-> FALSE] : a \in About}]

Init ==
  /\ first_run = TRUE
  /\ cached_ids = {}
  /\ call \in Requests

At(c, s)           == call[c].step = s
GoTo(c, s, ids)    == call' = [call EXCEPT ![c].step = s, ![c].ids = ids]

(* The flag is off: ask the catalogue.                                     *)
Uncached(c) ==
  /\ At(c, "start")
  /\ GoTo(c, "list", {})
  /\ UNCHANGED <<first_run, cached_ids>>

(* The flag is on, and a coin, or its being the first request, has the     *)
(* catalogue asked.                                                        *)
Miss(c) ==
  /\ At(c, "start")
  /\ GoTo(c, "fill", {})
  /\ first_run' = FALSE
  /\ UNCHANGED cached_ids

Hit(c) ==
  /\ At(c, "start") /\ ~first_run
  /\ call' = [call EXCEPT ![c].step = "sample", ![c].ids = cached_ids,
                          ![c].cold = (cached_ids = {})]
  /\ UNCHANGED <<first_run, cached_ids>>

(* The catalogue answers, or fails, and with it the request.               *)
List(c) ==
  /\ \/ At(c, "list") /\ GoTo(c, "sample", Items)
     \/ At(c, "fill") /\ GoTo(c, "read", Items)
     \/ call[c].step \in {"list", "fill"} /\ GoTo(c, "failed", {})
  /\ UNCHANGED <<first_run, cached_ids>>

(* The list is read and, in a later step, assigned; twice over, the second *)
(* time to add its own first quarter.  Any part of the list may be that.   *)
ReadCache(c) ==
  /\ At(c, "read")
  /\ GoTo(c, "assign", cached_ids \cup call[c].ids)
  /\ UNCHANGED <<first_run, cached_ids>>

(* A mutant: the list is cut down to its first quarter.                    *)
AssignCache_Quarter(c) ==
  /\ At(c, "assign")
  /\ \E quarter \in SUBSET call[c].ids :
       /\ Cardinality(quarter) = Cardinality(call[c].ids) \div 4
       /\ cached_ids' = quarter
  /\ GoTo(c, "reread", {})
  /\ UNCHANGED first_run

AssignCache(c) ==
  /\ At(c, "assign")
  /\ cached_ids' = call[c].ids
  /\ GoTo(c, "reread", {})
  /\ UNCHANGED first_run

Reread(c) ==
  /\ At(c, "reread")
  /\ GoTo(c, "lengthen", cached_ids)
  /\ UNCHANGED <<first_run, cached_ids>>

Lengthen(c) ==
  /\ At(c, "lengthen")
  /\ \E quarter \in SUBSET cached_ids : cached_ids' = call[c].ids \cup quarter
  /\ GoTo(c, "use", {})
  /\ UNCHANGED first_run

UseCache(c) ==
  /\ At(c, "use")
  /\ GoTo(c, "sample", cached_ids)
  /\ UNCHANGED <<first_run, cached_ids>>

(* Any products will do, as many as there are up to the most.              *)
Sample(c) ==
  /\ At(c, "sample")
  /\ LET filtered == call[c].ids \ call[c].about
         most     == Min({MaxResponses, Cardinality(filtered)})
     IN  \E prod_list \in kSubset(most, filtered) : GoTo(c, "answered", prod_list)
  /\ UNCHANGED <<first_run, cached_ids>>

Next == \E c \in Calls :
          \/ Uncached(c) \/ Miss(c) \/ Hit(c) \/ List(c)
          \/ ReadCache(c) \/ AssignCache(c) \/ Reread(c) \/ Lengthen(c) \/ UseCache(c)
          \/ Sample(c)

Spec == Init /\ [][Next]_vars

-----------------------------------------------------------------------------
(* However requests overlap around the cache and whichever listings fail,  *)
(* an answer has other products than the one asked about, and as many as   *)
(* the catalogue and the maximum allow; except that requests that hit the  *)
(* cache before the first listing was stored recommend nothing.            *)
RecommendationsAreFull ==
  \A c \in Calls : At(c, "answered") =>
    LET others == Items \ call[c].about IN
    IF call[c].cold
    THEN call[c].ids = {}
    ELSE /\ call[c].ids \subseteq others
         /\ Cardinality(call[c].ids) = Min({MaxResponses, Cardinality(others)})

-----------------------------------------------------------------------------
(* What the proofs add: the list is empty until it is first stored, and    *)
(* has all of the catalogue from then on, in whatever order its two parts  *)
(* are read and assigned by whichever request.                             *)
TypeOK ==
  /\ first_run \in BOOLEAN
  /\ cached_ids \in {{}, Items}
  /\ call \in [Calls -> [step : {"start", "list", "fill", "read", "assign", "reread",
                                "lengthen", "use", "sample", "answered", "failed"},
                         about : About, ids : SUBSET Items, cold : BOOLEAN]]

FilledFrom ==
  \A c \in Calls :
    /\ call[c].step \in {"read", "assign", "lengthen"} => call[c].ids = Items
    /\ call[c].step \in {"reread", "lengthen", "use"} => cached_ids = Items
    /\ At(c, "sample") => call[c].ids = IF call[c].cold THEN {} ELSE Items
    /\ call[c].cold => call[c].step \in {"sample", "answered"}

IInv == TypeOK /\ FilledFrom /\ RecommendationsAreFull
=============================================================================
