------------------------------ MODULE MCRuntime ------------------------------
(***************************************************************************)
(* The runtime with the files, the watcher, the price table, failures and  *)
(* restarts around it, each a bounded number of times.                     *)
(***************************************************************************)
EXTENDS Runtime

CONSTANTS a1, a2, s1, s2, s3,
          Scopes   \* bounds to choose from

VARIABLES
    scope,    \* the bounds chosen
    spent,    \* how much of each bound is used up
    spared,   \* files that went away with their directory while their agent was at rest
    ignored   \* agents that were told to look at everything in mid-plan

ghosts == <<spared, ignored>>
mcVars == <<vars, scope, spent, ghosts>>

Three == (s1 :> a1) @@ (s2 :> a1) @@ (s3 :> a1)
Two == (s1 :> a1) @@ (s2 :> a1)
Shared == (s1 :> a1) @@ (s2 :> a1) @@ (s3 :> a2)

(* Who may be edited or deleted, what there is at the start, and how often *)
(* sessions change, source directories go away, notifications name no      *)
(* file, price tables come out, reads and transactions fail and the        *)
(* process ends; whether it may be shut down; whether its tasks are fair.  *)
Scope(sessions, existing, edits, vanish, overflows, prices, faults, restarts) ==
    [sessions |-> sessions, existing |-> existing, edits |-> edits, vanish |-> vanish,
     overflows |-> overflows, prices |-> prices, faults |-> faults, restarts |-> restarts,
     stops |-> FALSE, fair |-> FALSE]
(* Three sessions with an edit, an overflow, a failure and a restart; two  *)
(* with new prices beside an edit, or while their directory goes away; one *)
(* that comes and changes; one that is read when everything is shut down.  *)
AloneScopes ==
    {Scope({s1, s2, s3}, {s1, s2, s3}, 1, 0, 1, 0, 1, 1),
     Scope({s1, s2}, {s1, s2}, 1, 0, 0, 1, 0, 0), Scope({s1, s2}, {s1, s2}, 0, 1, 0, 1, 0, 0),
     [Scope({s1}, {}, 2, 0, 0, 0, 1, 0) EXCEPT !.fair = TRUE],
     [Scope({}, {s1}, 0, 0, 0, 0, 0, 0) EXCEPT !.stops = TRUE]}
(* Two agents, a failure, and a shutdown at any time.                      *)
SharedScopes ==
    {[Scope({}, {s1, s2, s3}, 0, 0, 0, 0, 1, 0) EXCEPT !.stops = TRUE, !.fair = TRUE]}
RefreshScopes == {Scope({}, {s1, s2}, 0, 0, 0, 1, 0, 0)}
RescanScopes == {Scope({s1, s2}, {s1, s2}, 1, 0, 1, 0, 0, 0)}
(* A transaction that fails, a reading that fails, and a new price table.  *)
AheadScopes == {Scope({}, {s1, s2, s3}, 0, 0, 0, 1, 2, 0)}

Ages == (s1 :> 1) @@ (s2 :> 2) @@ (s3 :> 3)
Initially == [s \in Sessions |-> IF s \in scope.existing THEN Ages[s] ELSE 0]

Init ==
    /\ scope \in Scopes
    /\ RuntimeInit(Initially)
    /\ spent = [edits |-> 0, vanish |-> 0, overflows |-> 0, prices |-> 0, faults |-> 0,
                restarts |-> 0]
    /\ spared = {} /\ ignored = {}

Spend(kind) == spent[kind] < scope[kind] /\ spent' = [spent EXCEPT ![kind] = @ + 1]
Free == UNCHANGED <<scope, spent, ghosts>>

Resting(a) == At(a, "wait") /\ memory[a].plan = None /\ cache[a].check = None
Here(a) == {s \in SessionsOf(a) : files[s] # 0}

EditAny == \E s \in scope.sessions :
    /\ Spend("edits") /\ Edit(s)
    /\ spared' = spared \ {s} /\ UNCHANGED <<scope, ignored>>
DeleteAny == \E s \in scope.sessions :
    Spend("edits") /\ Delete(s) /\ UNCHANGED <<scope, ghosts>>
VanishAny == \E a \in Agents :
    /\ Spend("vanish") /\ Vanish(a)
    /\ spared' = IF Resting(a) THEN spared \cup Here(a) ELSE spared
    /\ UNCHANGED <<scope, ignored>>
WatchAny == (\E a \in Agents : Watched(a)) /\ Free
Overflow == \E a \in Agents :
    Spend("overflows") /\ Overflowed(a) /\ UNCHANGED <<scope, ghosts>>
Publishes == Spend("prices") /\ NewPrices /\ UNCHANGED <<scope, ghosts>>
Fault ==
    /\ Spend("faults") /\ UNCHANGED <<scope, ghosts>>
    /\ \/ PublishFails \/ CommittedThenFails \/ RepriceFails
       \/ \E a \in Agents : BeginFails(a) \/ RefreshFails(a)
Crash == Spend("restarts") /\ Restart /\ UNCHANGED <<scope, ghosts>>
Close == scope.stops /\ Shutdown /\ Free

Blind(a) == loop[a].pc \in {"begin", "retake"} /\ loop[a].paths = None /\ memory[a].plan # None
LoopOf(a) ==
    /\ Round(a) /\ UNCHANGED <<scope, spent, spared>>
    /\ ignored' = IF Blind(a) THEN ignored \cup {a} ELSE ignored
Loops == \E a \in Agents : LoopOf(a)
Scans == (\E a \in Agents : Refresh(a)) /\ Free
Writes == Write /\ Free
Prices == Pricing /\ Free
Closes == AskStop /\ Free

Next == EditAny \/ DeleteAny \/ VanishAny \/ WatchAny \/ Overflow \/ Publishes \/ Fault \/ Crash
        \/ Close \/ Loops \/ Scans \/ Writes \/ Prices \/ Closes

(* Tasks and threads that can go on do; the environment owes nothing.      *)
Fairly(A) == scope.fair /\ A
Fairness ==
    /\ \A a \in Agents : WF_mcVars(Fairly(LoopOf(a))) /\ WF_mcVars(Fairly(Refresh(a) /\ Free))
    /\ WF_mcVars(Fairly(Writes)) /\ WF_mcVars(Fairly(Prices)) /\ WF_mcVars(Fairly(Closes))
    /\ WF_mcVars(Fairly(WatchAny))
Spec == Init /\ [][Next]_mcVars /\ Fairness

(* A change told of as a path is read in the end, also when it comes while *)
(* a plan is half done: QuietMeansStored, for the agents whose request to  *)
(* look at everything did not fall into a plan.                            *)
HintsArrive ==
    Quiet =>
      \A a \in Agents \ ignored :
        (a \in DOMAIN status.phases /\ status.phases[a] = "complete") => AllStored(a)

(* What is in a source directory that goes away while its agent is at     *)
(* rest stays in the database until it is back, whatever is told, listed   *)
(* and read meanwhile.                                                     *)
RestingSourceKept ==
    [][\A s \in spared :
         ~root[AgentOf[s]] /\ cache[AgentOf[s]].stored[s] # 0 =>
            cache'[AgentOf[s]].stored[s] # 0]_mcVars

(* QuietMeansDone, as long as the price table stays the same.              *)
QuietMeansDoneAtOnePrice == scope.prices = 0 => QuietMeansDone

(* At rest, what was told of has been read and what was begun is done.     *)
NewsIsRead == QuietMeansDoneAtOnePrice /\ HintsArrive

(* Settles and ShutdownEnds, where the tasks are fair.                     *)
ComesToRest == scope.fair => Settles
StopsInTheEnd == scope.fair => ShutdownEnds

(* It comes to rest, and at rest a missing directory loses nothing.        *)
RestsInTheEnd == RestingSourceKept /\ ComesToRest
============================================================================
