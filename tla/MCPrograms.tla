----------------------------- MODULE MCPrograms -----------------------------
(***************************************************************************)
(* Programs and their end, on small instances: a runtime with two agents   *)
(* that may be shut down at any time (Runtime), or the programs of one     *)
(* machine that start, stop and fail beside each other (Services).  A      *)
(* behaviour is of one of the two; the variables of the other stay as they *)
(* are.  `scope' is the runtime's, or Elsewhere.                           *)
(***************************************************************************)
EXTENDS MCRuntime

CONSTANTS NoProcess, p1, p2, p3

VARIABLES process, locks, enabled, unit, workerDb, starts, kills, serviceScope

servicesOnly == <<process, locks, enabled, unit, workerDb, starts, kills, serviceScope>>
programVars == <<mcVars, servicesOnly>>

Elsewhere == Scope({}, {}, 0, 0, 0, 0, 0, 0)
ProgramScopes == SharedScopes \cup {Elsewhere}
Running == scope # Elsewhere

(* A machine that is switched to and fro; one with both services; one of a *)
(* Worker; one on which programs crash twice.                              *)
ServiceScope(kinds, roles, crashes) ==
    [kinds |-> kinds, roles |-> roles, starts |-> 3, crashes |-> crashes]
ServiceScopes == {
    ServiceScope({"standalone", "json", "start", "stop"}, {"hub"}, 1),
    ServiceScope({"start", "json"}, {"hub", "worker"}, 0),
    ServiceScope({"worker", "start", "json"}, {"worker"}, 1),
    ServiceScope({"start", "hub"}, {"hub"}, 2)}
Services == INSTANCE Services WITH Processes <- {p1, p2, p3}, ServiceBounds <- ServiceScopes,
    scope <- serviceScope

ProgramsInit ==
    /\ Init
    /\ serviceScope \in ServiceScopes /\ Services!ServicesInit
    /\ Running => workerDb /\ serviceScope = CHOOSE b \in ServiceScopes : TRUE
ProgramsNext ==
    \/ Running /\ Next /\ UNCHANGED servicesOnly
    \/ ~Running /\ Services!ServicesNext /\ UNCHANGED mcVars

(* The fairness of each, as its module justifies it: the runtime's asks    *)
(* nothing Elsewhere, where no task is fair.                               *)
OwnStep(p) == ~Running /\ Services!FairStep(p)
ManagerRestarts(role) ==
    ~Running /\ \E p \in {p1, p2, p3} : Services!ManagerRestart(role, p)
ProgramsFairness ==
    /\ Fairness /\ \A p \in {p1, p2, p3} : WF_servicesOnly(OwnStep(p))
    /\ \A role \in {"hub", "worker"} : WF_servicesOnly(ManagerRestarts(role))
ProgramsSpec == ProgramsInit /\ [][ProgramsNext]_programVars /\ ProgramsFairness

(* One mode at a time, and one collector per directory; a service that is  *)
(* told to stop stays stopped, and one that fails comes back.              *)
ModesSafe == ~Running => Services!ModesExclusive /\ Services!OneCollector
ModesCorrect == []ModesSafe /\ Services!NoneEnabledBeside
StopsAndRecovers == Services!StopIsFinal /\ Services!ServiceRecovers
ServicesCorrect == ModesCorrect /\ StopsAndRecovers
=============================================================================
