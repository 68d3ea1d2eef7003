----------------------------- MODULE Services ------------------------------
(***************************************************************************)
(* The processes of one machine: standalone programs, hubs and workers in  *)
(* the foreground or as services, the commands that start and stop the     *)
(* services, and the system's service manager.  What keeps them apart are  *)
(* file locks, which end with their process, and the mark of an enabled    *)
(* service, which does not.                                                *)
(*                                                                         *)
(* Every process is [kind, role, pc, stopping].  Its pc is the last thing  *)
(* it did; "stopping" is the flag of its control endpoint.                 *)
(***************************************************************************)
EXTENDS Naturals, FiniteSets, FiniteSetsExt, TLC

CONSTANTS Processes, NoProcess,
    ServiceBounds   \* bounds to choose from: each [kinds, roles, starts, crashes]

VARIABLES
    process,    \* process -> what it is and does
    locks,      \* file lock -> the processes that hold it
    enabled,    \* <role>.enabled
    unit,       \* the service manager's state of each role
    workerDb,   \* worker.db exists
    starts, kills, scope

serviceVars == <<process, locks, enabled, unit, workerDb, starts, kills, scope>>

Roles == {"hub", "worker"}
RoleLock(role) == IF role = "hub" THEN "hub.lock" ELSE "collector.lock"
ActionLock(role) == IF role = "hub" THEN "service-hub.lock" ELSE "service-worker.lock"
LockNames == {"mode-switch", "distributed", "standalone", "hub.lock", "collector.lock"}
             \cup {ActionLock(role) : role \in Roles}

Programs == {"standalone", "json", "hub", "worker"}
Commands == {"start", "stop"}
Is(p, kinds) == process[p] # NoProcess /\ process[p].kind \in kinds
At(p, kinds, pc) == Is(p, kinds) /\ process[p].pc = pc
Serves(p, role) == Is(p, {"hub", "worker", "service"}) /\ process[p].role = role
Distributed(p) == ~Is(p, {"standalone", "json"})

Step(p, pc) == process' = [process EXCEPT ![p].pc = pc]
Take(p, names) == locks' = [n \in LockNames |-> IF n \in names THEN locks[n] \cup {p} ELSE locks[n]]
Released(p) == [n \in LockNames |-> locks[n] \ {p}]
Unlock(p, name) == locks' = [locks EXCEPT ![name] = @ \ {p}]
Free(name) == locks[name] = {}
Daemons(role) == {p \in Processes : Is(p, {"service"}) /\ process[p].role = role}

(* How a process ends: after a failure the manager starts a service again, *)
(* unless it was asked to stop.                                            *)
Ended(p, failed) ==
    /\ process' = [process EXCEPT ![p] = NoProcess] /\ locks' = Released(p)
    /\ unit' = IF process[p].kind # "service" \/ unit[process[p].role] = "stopping" THEN unit
               ELSE [unit EXCEPT ![process[p].role] = IF failed THEN "waiting" ELSE "inactive"]
Fails(p) == Ended(p, ~process[p].stopping)
Kept == UNCHANGED <<starts, kills, scope>>

----------------------------------------------------------------------------
(* A program's way to its work.                                            *)

(* Processes have no names: the next one is any that is free.              *)
Spare == CHOOSE p \in Processes : (\E q \in Processes : process[q] = NoProcess)
                                  => process[p] = NoProcess
New(kind, role) == [kind |-> kind, role |-> role, pc |-> "new", stopping |-> FALSE]
Run(p, kind, role) ==
    /\ p = Spare /\ process[p] = NoProcess /\ kind \in scope.kinds /\ role \in scope.roles
    /\ kind \in {"hub", "worker"} => kind = role
    /\ kind \in {"standalone", "json"} => role = "hub"
    /\ starts < scope.starts /\ starts' = starts + 1
    /\ process' = [process EXCEPT ![p] = New(kind, role)]
    /\ UNCHANGED <<locks, enabled, unit, workerDb, kills, scope>>

(* boot: the control endpoint is there before any lock.                    *)
Boot(p) ==
    /\ At(p, {"service"}, "new") /\ Step(p, "booted")
    /\ UNCHANGED <<locks, enabled, unit, workerDb>> /\ Kept

(* mode_lock, under the lock mode-switch, which it waits for: first it      *)
(* looks for enabled services, then it tries the other mode's lock.  The   *)
(* mark of an enabled service is written without mode-switch.              *)
ModeSwitch(p) ==
    /\ At(p, Programs, "new") \/ At(p, {"service"}, "booted") \/ At(p, {"start"}, "asked")
    /\ Free("mode-switch")
    /\ IF Distributed(p) \/ enabled = {}
       THEN Take(p, {"mode-switch"}) /\ Step(p, "checked") /\ UNCHANGED unit
       ELSE Fails(p)
    /\ UNCHANGED <<enabled, workerDb>> /\ Kept
ModeLock(p) ==
    /\ At(p, Programs \cup {"service", "start"}, "checked")
    /\ LET own == IF Distributed(p) THEN "distributed" ELSE "standalone"
           other == IF Distributed(p) THEN "standalone" ELSE "distributed"
       IN  IF Free(other)
           THEN /\ locks' = [locks EXCEPT ![own] = @ \cup {p}, !["mode-switch"] = {}]
                /\ Step(p, "mode") /\ UNCHANGED unit
           ELSE Fails(p)
    /\ UNCHANGED <<enabled, workerDb>> /\ Kept

(* run: the locks of its role.                                             *)
(* Mutant of RoleLocks: --json reads the sessions without the lock.        *)
RoleLocksOfServers(p) ==
    (IF Is(p, {"standalone"}) \/ Serves(p, "hub") THEN {"hub.lock"} ELSE {})
    \cup (IF Is(p, {"standalone"}) \/ Serves(p, "worker") THEN {"collector.lock"} ELSE {})
RoleLocks(p) ==
    (IF Is(p, {"standalone"}) \/ Serves(p, "hub") THEN {"hub.lock"} ELSE {})
    \cup (IF Is(p, {"standalone"}) \/ Serves(p, "worker") THEN {"collector.lock"} ELSE {})
    \cup (IF Is(p, {"json"}) /\ workerDb THEN {"collector.lock"} ELSE {})
TakeRole(p) ==
    /\ At(p, Programs \cup {"service"}, "mode")
    /\ IF \A n \in RoleLocks(p) : Free(n)
       THEN /\ Take(p, RoleLocks(p)) /\ Step(p, "work") /\ UNCHANGED unit
            /\ workerDb' = (workerDb \/ Serves(p, "worker"))
       ELSE Fails(p) /\ UNCHANGED workerDb
    /\ UNCHANGED enabled /\ Kept

(* It ends on a signal, when its control was asked to, or with its output. *)
Finish(p) ==
    /\ At(p, Programs, "work") \/ (At(p, {"service"}, "work") /\ process[p].stopping)
    /\ Ended(p, FALSE)
    /\ UNCHANGED <<enabled, workerDb>> /\ Kept

(* It crashes, or an error ends it.                                        *)
Die(p) ==
    /\ process[p] # NoProcess /\ kills < scope.crashes /\ kills' = kills + 1
    /\ Ended(p, TRUE)
    /\ UNCHANGED <<enabled, workerDb, starts, scope>>

----------------------------------------------------------------------------
(* start_or_stop.                                                          *)

(* request: the control of a running service answers.                      *)
Answers(role) == \E p \in Daemons(role) : process[p].pc # "new"

ActionStart(p) ==
    /\ At(p, Commands, "new")
    /\ IF Free(ActionLock(process[p].role))
       THEN Take(p, {ActionLock(process[p].role)}) /\ Step(p, "action") /\ UNCHANGED unit
       ELSE Fails(p)
    /\ UNCHANGED <<enabled, workerDb>> /\ Kept

AskStatus(p) ==
    /\ At(p, {"start"}, "action")
    /\ IF Answers(process[p].role) THEN Ended(p, FALSE)
       ELSE Step(p, "asked") /\ UNCHANGED <<locks, unit>>
    /\ UNCHANGED <<enabled, workerDb>> /\ Kept

(* start_service: it holds the role's lock while it configures, and gives  *)
(* it back for the service to take.                                        *)
Configure(p) ==
    /\ At(p, {"start"}, "mode")
    /\ IF Free(RoleLock(process[p].role))
       THEN Take(p, {RoleLock(process[p].role)}) /\ Step(p, "configured") /\ UNCHANGED unit
       ELSE Fails(p)
    /\ UNCHANGED <<enabled, workerDb>> /\ Kept

NativeStart(p, d) ==
    /\ At(p, {"start"}, "configured")
    /\ LET role == process[p].role
           started == [process EXCEPT ![p].pc = "started"]
       IN  IF unit[role] = "active" THEN process' = started /\ UNCHANGED unit
           ELSE /\ d = Spare /\ process[d] = NoProcess
                /\ process' = [started EXCEPT ![d] = New("service", role)]
                /\ unit' = [unit EXCEPT ![role] = "active"]
    /\ Unlock(p, RoleLock(process[p].role))
    /\ UNCHANGED <<enabled, workerDb>> /\ Kept

(* The mark is written under the lock of its mode alone, which the command *)
(* holds until it has watched the service for ten seconds at most.         *)
Enable(p) ==
    /\ At(p, {"start"}, "started") /\ Step(p, "enabled")
    /\ enabled' = enabled \cup {process[p].role}
    /\ UNCHANGED <<locks, unit, workerDb>> /\ Kept
EndStart(p) ==
    /\ At(p, {"start"}, "enabled") /\ Ended(p, FALSE)
    /\ UNCHANGED <<enabled, workerDb>> /\ Kept

(* stop_service: ask, and wait 30 seconds for the end.                     *)
AskStop(p) ==
    /\ At(p, {"stop"}, "action")
    /\ process' = [d \in Processes |->
           IF d = p THEN [process[p] EXCEPT !.pc = IF Answers(@) THEN "waiting" ELSE "waited"]
           ELSE IF d \in Daemons(process[p].role) /\ process[d].pc # "new"
           THEN [process[d] EXCEPT !.stopping = TRUE] ELSE process[d]]
    /\ UNCHANGED <<locks, enabled, unit, workerDb>> /\ Kept
Waited(p) ==
    /\ At(p, {"stop"}, "waiting")
    /\ \/ ~Answers(process[p].role) /\ Step(p, "waited") /\ UNCHANGED <<locks, unit>>
       \/ Answers(process[p].role) /\ Fails(p)
    /\ UNCHANGED <<enabled, workerDb>> /\ Kept

(* native::stop: the manager signals the service and waits for its end.    *)
(* Mutant of ManagerStops: a manager that waits to start it again does so. *)
ManagerStopsRunning(role) ==
    [unit EXCEPT ![role] = IF @ = "waiting" THEN @ ELSE "stopping"]
ManagerStops(role) == [unit EXCEPT ![role] = "stopping"]
NativeStop(p) ==
    /\ At(p, {"stop"}, "waited")
    /\ unit' = ManagerStops(process[p].role)
    /\ process' = [d \in Processes |->
           IF d = p THEN [process[p] EXCEPT !.pc = "stopping"]
           ELSE IF d \in Daemons(process[p].role) THEN [process[d] EXCEPT !.stopping = TRUE]
           ELSE process[d]]
    /\ UNCHANGED <<locks, enabled, workerDb>> /\ Kept
Terminate(p) ==
    /\ Is(p, {"service"}) /\ unit[process[p].role] = "stopping" /\ Ended(p, FALSE)
    /\ UNCHANGED <<enabled, workerDb>> /\ Kept
Disable(p) ==
    /\ At(p, {"stop"}, "stopping") /\ Daemons(process[p].role) = {}
    /\ LET role == process[p].role
           inactive == IF unit[role] = "stopping" THEN [unit EXCEPT ![role] = "inactive"] ELSE unit
       IN  /\ enabled' = IF Free(RoleLock(role)) THEN enabled \ {role} ELSE enabled
           /\ process' = [process EXCEPT ![p] = NoProcess] /\ locks' = Released(p)
           /\ unit' = inactive
    /\ UNCHANGED workerDb /\ Kept

(* The manager starts a failed service again, after 30 seconds.            *)
ManagerRestart(role, d) ==
    /\ unit[role] = "waiting" /\ d = Spare /\ process[d] = NoProcess
    /\ unit' = [unit EXCEPT ![role] = "active"]
    /\ process' = [process EXCEPT ![d] = New("service", role)]
    /\ UNCHANGED <<locks, enabled, workerDb>> /\ Kept

ServicesInit ==
    /\ process = [p \in Processes |-> NoProcess] /\ locks = [n \in LockNames |-> {}]
    /\ enabled = {} /\ unit = [role \in Roles |-> "inactive"] /\ workerDb \in BOOLEAN
    /\ starts = 0 /\ kills = 0 /\ scope \in ServiceBounds

OwnSteps(p) ==
    \/ Boot(p) \/ ModeSwitch(p) \/ ModeLock(p) \/ TakeRole(p) \/ ActionStart(p) \/ AskStatus(p)
    \/ Configure(p) \/ (\E d \in Processes : NativeStart(p, d)) \/ Enable(p) \/ EndStart(p)
    \/ AskStop(p) \/ Waited(p) \/ NativeStop(p) \/ Disable(p) \/ Terminate(p)
ServicesNext ==
    \/ \E p \in Processes : \/ OwnSteps(p) \/ Finish(p) \/ Die(p)
                            \/ \E kind \in Programs \cup Commands, role \in Roles : Run(p, kind, role)
                            \/ \E role \in Roles : ManagerRestart(role, p)
(* A program in the foreground ends when its user wishes, or never.        *)
FairStep(p) == OwnSteps(p) \/ (Is(p, {"service", "json"}) /\ Finish(p))
ServicesFairness ==
    /\ \A p \in Processes : WF_serviceVars(FairStep(p))
    /\ \A role \in Roles : WF_serviceVars(\E d \in Processes : ManagerRestart(role, d))
ServicesSpec == ServicesInit /\ [][ServicesNext]_serviceVars /\ ServicesFairness

----------------------------------------------------------------------------

Working == {p \in Processes : process[p] # NoProcess /\ process[p].pc = "work"}
Standalone == {p \in Working : Is(p, {"standalone", "json"})}
Collects(p) == ~Serves(p, "hub")

(* Standalone and distributed programs never work at the same time,        *)
(* however their checks and locks interleave (node_identity.rs:59).        *)
ModesExclusive == Standalone # {} => Working = Standalone

(* No service is enabled beside a standalone program at work: only one     *)
(* that had passed the check before may still come to it (service.rs:308). *)
NoneEnabledBeside ==
    [][enabled' \subseteq enabled \/ Standalone = {}]_serviceVars

(* Once worker.db exists the machine's sessions have one collector at a    *)
(* time, whatever kinds of programs run (main.rs:111).                     *)
OneCollector ==
    workerDb => Cardinality({p \in Working : Collects(p)}) <= 1

(* A service whose stop was confirmed is gone and stays so: nothing of it  *)
(* runs, and the manager will not start it again (service.rs:263).         *)
StopIsFinal ==
    [][\A role \in enabled \ enabled' : unit'[role] = "inactive" /\ Daemons(role) = {}
                                        /\ Free(RoleLock(role))]_serviceVars

(* An enabled service that nobody stops works again after any failure,     *)
(* once no program in the foreground holds its place (native.rs:238).      *)
ServiceRecovers ==
    \A role \in Roles : ("stop" \notin scope.kinds /\ role \in enabled) ~>
        \E p \in Processes : Is(p, Programs) \/ (p \in Working /\ p \in Daemons(role))
=============================================================================
