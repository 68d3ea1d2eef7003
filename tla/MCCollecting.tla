---------------------------- MODULE MCCollecting ----------------------------
(***************************************************************************)
(* The Worker without a Hub: its store under every sequence of calls       *)
(* (MCWorkerStore), and collection with every interleaving (MCScanning).   *)
(* A behaviour is of one of the two, `part'.                               *)
(***************************************************************************)
EXTENDS MCWorkerStore

CONSTANTS Parts, s2, s3, task2

VARIABLES part, source, changed, again, round, scan, cursor, paused, edits, events

scanOnly == <<source, changed, again, round, scan, cursor, paused, edits, events>>
collectVars == <<part, workerVars, scanOnly>>

(* Two agents with three sessions that change three times, and one event.  *)
NoAgents == {}
Files == {s1, s2, s3}
Owners == (s1 :> a1) @@ (s2 :> a1) @@ (s3 :> a2)
Grown == {[messages |-> <<x>>, title |-> t1], [messages |-> <<x, y>>, title |-> t1]}
OneTitle == {t1}
OneChunk == {1}
TwoTasks == {task1, task2}
InTurn == <<a1, a2>>
Scans == INSTANCE MCScanning WITH
    Outdated <- NoAgents, Sessions <- Files, AgentOf <- Owners, Titles <- OneTitle,
    LargeTitles <- NoAgents, Captures <- Grown, Fingerprints <- Grown, ChunkCounts <- OneChunk,
    TaskIds <- TwoTasks, AdoptedStates <- NoAgents, SourceList <- InTurn, Watching <- FALSE,
    MaxEdits <- 3, MaxEvents <- 1

CollectInit ==
    /\ part \in Parts
    /\ Scans!ScanInit /\ edits = 0 /\ events = 0
    /\ \/ part = "scan" /\ Scans!WorkerInit(0)
       \/ part = "store" /\ WorkerInit(0)
CollectNext ==
    \/ part = "scan" /\ Scans!Next /\ UNCHANGED part
    \/ part = "store" /\ MCNext /\ UNCHANGED <<part, scanOnly>>
(* The fairness of MCScanning.                                             *)
Work == part = "scan" /\ Scans!Work /\ UNCHANGED part
Resume == part = "scan" /\ Scans!Resume /\ UNCHANGED part
CollectSpec ==
    CollectInit /\ [][CollectNext]_collectVars
    /\ WF_collectVars(Work) /\ WF_collectVars(Resume)

(* The types of the store, and those of collection.                        *)
CollectTypeOK == IF part = "store" THEN WorkerTypeOK ELSE Scans!ScanTypeOK

(* What a round records is queued, and no round ends early.                *)
RoundsAreHonest == part = "scan" => Scans!RoundsAreHonest

(* Everything is collected in the end, and a rescan that was begun ends.   *)
EverythingCollected == part = "scan" => Scans!EverythingCollected
RescanEnds == part = "scan" => Scans!RescanEnds
CollectionCompletes == EverythingCollected /\ RescanEnds
=============================================================================
