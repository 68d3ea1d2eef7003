------------------------------ MODULE Scanning ------------------------------
(***************************************************************************)
(* Collection on a Worker: codesesh-cli/src/worker/scanning.rs and what it *)
(* drives, AgentScanner::refresh_with_checkpoint in page mode.  One scan   *)
(* at a time runs on a blocking thread; the Worker's loop starts it and,   *)
(* in a later tick, saves its page in worker.db.  Files change meanwhile.  *)
(*                                                                         *)
(* A page reads at most PageSize sessions that differ from what was last   *)
(* read.  The first page of a round lists the source (the inventory); the  *)
(* following ones go through that list, and only the last one is complete. *)
(* A file's fingerprint is modelled by the content it was taken of.        *)
(***************************************************************************)
EXTENDS WorkerStore

CONSTANTS
    SourceList,  \* the enabled agents, in the order ticks visit them
    Watching     \* whether the file watcher could be started

ASSUME SourceListAssumption ==
    /\ SourceList \in Seq(Agents)
    /\ {SourceList[i] : i \in DOMAIN SourceList} = Enabled
    /\ Watching \in BOOLEAN
    /\ Fingerprints = Captures
ASSUME NoPageIsNone ==
    None \notin [session : Sessions, capture : Captures, fingerprint : Captures]

VARIABLES
    source,   \* what each session's file holds now
    changed,  \* the watcher's mark on each agent
    again,    \* schedule.unfinished or schedule.failed
    round,    \* the scanner's inventory: what is left to read of it, or None
    scan,     \* the scan on the blocking thread, or None
    cursor,   \* position in SourceList of the next agent to consider
    paused    \* the loop's own flag: no upload, no scan

scanVars == <<source, changed, again, round, scan, cursor, paused>>

SessionsOf(a) == {s \in Sessions : AgentOf[s] = a}

----------------------------------------------------------------------------
(* A coding agent appends to a session, rewrites it or creates it.         *)
Edit(s, c) ==
    /\ source[s] # c
    /\ source' = [source EXCEPT ![s] = c]
    /\ changed' = [changed EXCEPT ![AgentOf[s]] = TRUE]
    /\ UNCHANGED <<workerVars, again, round, scan, cursor, paused>>

(* inventory: the sessions whose fingerprint is not the one last recorded. *)
Inventory(a) ==
    LET stale == {s \in SessionsOf(a) : source[s] # None /\ source[s] # Known(sources[a], s)}
    IN  [s \in stale |-> source[s]]

Left(a) == IF round[a] = None THEN Inventory(a) ELSE round[a]

Due(a) == again[a] \/ changed[a] \/ ~Watching

(* The first due agent from the cursor on.                                 *)
Position(k) == ((cursor + k - 1) % Len(SourceList)) + 1
NextDue(i) ==
    \E k \in 0 .. Len(SourceList) - 1 :
        /\ i = Position(k) /\ Due(SourceList[i])
        /\ \A j \in 0 .. k - 1 : ~Due(SourceList[Position(j)])

(* The mark is cleared before the scan reads, so a change during the scan  *)
(* marks the agent again.  A page read late has the content of now and the *)
(* fingerprint of the inventory.                                           *)
StartScan(i) ==
    /\ ~paused /\ scan = None
    /\ NextDue(i)
    /\ LET a == SourceList[i]
       IN  /\ changed' = [changed EXCEPT ![a] = FALSE]
           /\ \/ /\ Left(a) = <<>>
                 /\ scan' = [index |-> i, page |-> None, left |-> <<>>, current |-> TRUE]
              \/ \E s \in DOMAIN Left(a) :
                   scan' = [index |-> i,
                            page |-> [session |-> s, capture |-> source[s],
                                      fingerprint |-> Left(a)[s]],
                            left |-> [r \in DOMAIN Left(a) \ {s} |-> Left(a)[r]],
                            current |-> TRUE]
    /\ UNCHANGED <<workerVars, source, again, round, cursor, paused>>

(* Mutant of Finish: the position never advances.                          *)
FinishInPlace(i) == scan' = None /\ UNCHANGED cursor

Finish(i) ==
    /\ scan' = None
    /\ cursor' = (i % Len(SourceList)) + 1

(* A finished page of the current generation is saved.                     *)
SavePage ==
    /\ scan # None /\ scan.current /\ ~paused
    /\ LET a == SourceList[scan.index]
           complete == scan.left = <<>>
       IN  /\ \E n \in ChunkCounts : SaveBatch(a, scan.page, n, complete)
           /\ round' = [round EXCEPT ![a] = IF complete THEN None ELSE scan.left]
           /\ again' = [again EXCEPT ![a] = ~complete]
    /\ Finish(scan.index)
    /\ UNCHANGED <<source, changed, paused>>

(* The scan or the save failed: the scanner is rebuilt and tried again.    *)
FailPage ==
    /\ scan # None /\ scan.current /\ ~paused
    /\ LET a == SourceList[scan.index]
       IN  /\ round' = [round EXCEPT ![a] = None]
           /\ again' = [again EXCEPT ![a] = TRUE]
    /\ Finish(scan.index)
    /\ UNCHANGED <<workerVars, source, changed, paused>>

(* A page of an earlier generation is dropped.                             *)
DropPage ==
    /\ scan # None /\ ~scan.current
    /\ scan' = None
    /\ UNCHANGED <<workerVars, source, changed, again, round, cursor, paused>>


(* reset: a new generation, every scanner rebuilt, every agent due.        *)
ResetScanning ==
    /\ scan' = IF scan = None THEN None ELSE [scan EXCEPT !.current = FALSE]
    /\ round' = [a \in Agents |-> None]
    /\ changed' = [a \in Agents |-> TRUE]
    /\ again' = [a \in Agents |-> FALSE]
    /\ cursor' = 1

(* tick while paused: give up the page in progress.                        *)
TickPaused ==
    /\ paused /\ scan # None /\ scan.current
    /\ ResetScanning
    /\ UNCHANGED <<workerVars, source, paused>>

Tick == (\E i \in DOMAIN SourceList : StartScan(i)) \/ SavePage \/ DropPage \/ TickPaused

(* The process dies and starts again: memory is gone, worker.db is not.    *)
(* With a recovery pending the loop's first act is to post it, and it      *)
(* pauses before it ticks whatever the answer.                             *)
RestartScanning ==
    /\ scan' = None
    /\ round' = [a \in Agents |-> None]
    /\ changed' = [a \in Agents |-> TRUE]
    /\ again' = [a \in Agents |-> FALSE]
    /\ cursor' = 1
    /\ paused' = (pauseSaved \/ recovery # None)
    /\ UNCHANGED source

ScanInit ==
    /\ source = [s \in Sessions |-> None]
    /\ changed = [a \in Agents |-> TRUE]
    /\ again = [a \in Agents |-> FALSE]
    /\ round = [a \in Agents |-> None]
    /\ scan = None
    /\ cursor = 1
    /\ paused = FALSE

----------------------------------------------------------------------------
(* Collection alone, with the Hub's instructions arriving at any moment.   *)

Instructed(id, agents) ==
    /\ BeginRescan(id, agents)
    /\ IF Unavailable(agents) = {} THEN ResetScanning
       ELSE UNCHANGED <<changed, again, round, scan, cursor>>
    /\ UNCHANGED <<source, paused>>

Recovered(e) ==
    /\ recovery = None /\ e # binding
    /\ PrepareRecovery(e)
    /\ ResetScanning
    /\ paused' = TRUE
    /\ UNCHANGED source
EndRecovery == FinishRecovery /\ UNCHANGED scanVars

Paused == ~paused /\ SetPause(TRUE) /\ paused' = TRUE
          /\ UNCHANGED <<source, changed, again, round, scan, cursor>>
Resumed == paused /\ recovery = None /\ SetPause(FALSE) /\ paused' = FALSE
           /\ UNCHANGED <<source, changed, again, round, scan, cursor>>
Restarted == RestartScanning /\ UNCHANGED workerVars

ScanNext ==
    \/ Tick \/ FailPage \/ EndRecovery \/ Paused \/ Resumed \/ Restarted
    \/ \E s \in Sessions, c \in Captures : Edit(s, c)
    \/ \E id \in TaskIds, agents \in SUBSET Agents : Instructed(id, agents)
    \/ \E e \in Epochs : Recovered(e)
ScanSpec == WorkerInit(0) /\ ScanInit /\ [][ScanNext]_<<workerVars, scanVars>>

----------------------------------------------------------------------------
ScanTypeOK ==
    /\ source \in [Sessions -> Captures \cup {None}]
    /\ changed \in [Agents -> BOOLEAN] /\ again \in [Agents -> BOOLEAN]
    /\ \A a \in Agents : round[a] # None =>
         round[a] \in UNION {[S -> Captures] : S \in SUBSET SessionsOf(a)}
    /\ cursor \in DOMAIN SourceList
    /\ paused \in BOOLEAN
    /\ scan # None =>
         /\ scan.index \in DOMAIN SourceList /\ scan.current \in BOOLEAN
         /\ scan.page \in Pages(SourceList[scan.index]) \cup {None}

(* A rescan never ends early: while a session still awaits being sent      *)
(* again in full, its agent is not recorded as completely collected, so    *)
(* no completion target can have been set for it.  A page read before the  *)
(* rescan began and saved after it would break this.                       *)
ClearedMeansUnfinished ==
    \A s \in Sessions : sent[s] = Cleared => ~sources[AgentOf[s]].complete

(* What worker.db remembers as read was also queued: a fingerprint is      *)
(* recorded in the transaction that queues the content, never before.      *)
KnownMeansSent ==
    \A s \in Sessions : Known(sources[AgentOf[s]], s) # None => sent[s] \in Captures

(* What a round records of a session, it has queued, and it records no     *)
(* agent as complete that still owes one.                                  *)
RoundsAreHonest == ClearedMeansUnfinished /\ KnownMeansSent

(* Once the files stop changing, the newest content of every session is    *)
(* queued (and stays the last thing queued for it).                        *)
EverythingCollected ==
    <>[](\A s \in Sessions : AgentOf[s] \in Enabled /\ source[s] # None => sent[s] = source[s])

(* A rescan that was begun ends: a completion target or a refusal.         *)
RescanEnds ==
    (rescan # None) ~> (rescan = None \/ rescan.failed \/ rescan.target # None)
============================================================================
