------------------------------- MODULE CpuLoad -------------------------------
(***************************************************************************)
(* The ad service's load generator (CPULoad.java), which every request for *)
(* ads switches on or off as the flag adHighCpu says at the time.          *)
(* Requests run on several threads.  Only the list of workers is locked:   *)
(* the one instance, and whether it is running, are read and written       *)
(* without a lock.                                                         *)
(***************************************************************************)
EXTENDS Naturals

CONSTANTS
  Calls,        \* requests for ads, each of which asks for the load once
  None

VARIABLES
  instance,     \* the instance, named after the call that made it, or None
  running,      \* for each instance, its flag
  batches,      \* for each instance, how often its workers were started
  step,         \* for each call, where it is
  own           \* for each call, the instance it works on
vars == <<instance, running, batches, step, own>>

Steps == {"start", "create", "return", "execute", "enable", "mark", "stop", "end"}

TypeOK ==
  /\ instance \in Calls \cup {None}
  /\ running \in [Calls -> BOOLEAN]
  /\ batches \in [Calls -> Nat]
  /\ step \in [Calls -> Steps]
  /\ own \in [Calls -> Calls \cup {None}]

Init ==
  /\ instance = None
  /\ running = [i \in Calls |-> FALSE]
  /\ batches = [i \in Calls |-> 0]
  /\ step = [c \in Calls |-> "start"]
  /\ own = [c \in Calls |-> None]

At(c, s)      == step[c] = s
GoTo(c, s)    == step' = [step EXCEPT ![c] = s]
Running(c, b) == running' = [running EXCEPT ![own[c]] = b]

(* getInstance: the check, the assignment, and the field read again.       *)
CheckInstance(c) ==
  /\ At(c, "start")
  /\ GoTo(c, IF instance = None THEN "create" ELSE "return")
  /\ UNCHANGED <<instance, running, batches, own>>

CreateInstance(c) ==
  /\ At(c, "create")
  /\ instance' = c
  /\ GoTo(c, "return")
  /\ UNCHANGED <<running, batches, own>>

ReturnInstance(c) ==
  /\ At(c, "return")
  /\ own' = [own EXCEPT ![c] = instance]
  /\ GoTo(c, "execute")
  /\ UNCHANGED <<instance, running, batches>>

-----------------------------------------------------------------------------
(* execute, with the flag off: the flag is cleared, then, under the lock,  *)
(* the workers are told to stop and forgotten.                             *)
Disable(c) ==
  /\ At(c, "execute")
  /\ Running(c, FALSE)
  /\ GoTo(c, "stop")
  /\ UNCHANGED <<instance, batches, own>>

(* A mutant: the workers are looked up through the one instance.           *)
StopWorkers_OfTheInstance(c) ==
  /\ At(c, "stop")
  /\ batches' = [batches EXCEPT ![instance] = 0]
  /\ GoTo(c, "end")
  /\ UNCHANGED <<instance, running, own>>

StopWorkers(c) ==
  /\ At(c, "stop")
  /\ batches' = [batches EXCEPT ![own[c]] = 0]
  /\ GoTo(c, "end")
  /\ UNCHANGED <<instance, running, own>>

(* With the flag on: the flag is tested, the workers are started under the *)
(* lock, and the flag is set.  Beside another call on the instance the     *)
(* unlocked field may be read as either value.                             *)
Enable(c) ==
  /\ At(c, "execute")
  /\ \E seen \in BOOLEAN :
       /\ seen = running[own[c]]
            \/ \E d \in Calls \ {c} : own[d] = own[c] /\ ~At(d, "end")
       /\ GoTo(c, IF seen THEN "end" ELSE "enable")
  /\ UNCHANGED <<instance, running, batches, own>>

SpawnLoadWorkers(c) ==
  /\ At(c, "enable")
  /\ batches' = [batches EXCEPT ![own[c]] = @ + 1]
  /\ GoTo(c, "mark")
  /\ UNCHANGED <<instance, running, own>>

Mark(c) ==
  /\ At(c, "mark")
  /\ Running(c, TRUE)
  /\ GoTo(c, "end")
  /\ UNCHANGED <<instance, batches, own>>

Call(c) == \/ CheckInstance(c) \/ CreateInstance(c) \/ ReturnInstance(c)
           \/ Disable(c) \/ StopWorkers(c)
           \/ Enable(c) \/ SpawnLoadWorkers(c) \/ Mark(c)

Next == \E c \in Calls : Call(c)

Spec == Init /\ [][Next]_vars

-----------------------------------------------------------------------------
(* Workers that no call is about to stop or to own up to run under a flag  *)
(* that says so, in every instance there ever was.                         *)
Accounted ==
  \A i \in Calls : batches[i] # 0 =>
    running[i] \/ \E c \in Calls : own[c] = i /\ step[c] \in {"mark", "stop"}

(* A call has an instance from getInstance on.                             *)
Placed ==
  /\ \A c \in Calls : step[c] = "return" => instance # None
  /\ \A c \in Calls : step[c] \notin {"start", "create", "return"} => own[c] # None

IInv == TypeOK /\ Placed /\ Accounted

(* When no call is under way, an instance that is not running has no       *)
(* workers: the flag never leaves the load switched on by mistake, however *)
(* calls overlap, so that the next call with the flag on starts it once.   *)
StoppedIsStopped ==
  (\A c \in Calls : step[c] \in {"start", "end"}) =>
    \A i \in Calls : ~running[i] => batches[i] = 0
=============================================================================
