------------------------------ MODULE HubStore ------------------------------
(***************************************************************************)
(* The Hub's side of synchronization for one source node: the tables that  *)
(* codesesh-core/src/storage/hub/{receive,tasks,control}.rs keep in        *)
(* codesesh.db.  Each request is one SQLite transaction, hence one action. *)
(* A request that fails an ensure! rolls back and changes nothing; what it *)
(* answers is given by the operators named ...Refusal.                     *)
(***************************************************************************)
EXTENDS Protocol

VARIABLES
    epoch,         \* hub_meta.epoch, the data epoch
    node,          \* hub_nodes: stream, watermark, last digest, recovery epoch
    hubChunks,     \* hub_chunks: how many chunks of a transfer are held
    hubSessions,   \* sessions: the archived content, or None
    messageBases,  \* hub_message_bases: state a delta may extend, or None
    orphans,       \* hub_orphans
    rescans,       \* hub_rescans, in rowid order
    backup         \* the database file a restore would bring back

contentVars == <<hubChunks, hubSessions, messageBases, orphans>>
databaseVars == <<node, contentVars, rescans>>
hubVars == <<epoch, databaseVars, backup>>

NodeRow(stream, confirmed, last, recoveryEpoch) ==
    [stream |-> stream, confirmed |-> confirmed, last |-> last,
     recoveryEpoch |-> recoveryEpoch]

(* The error codes a request can be refused with by these transactions.    *)
Refusals == {"HUB_EPOCH_CHANGED", "UPLOAD_STREAM_MISMATCH", "SEQUENCE_CONFLICT",
             "UPLOAD_SEQUENCE_GAP", "SNAPSHOT_CHUNK_GAP", "SNAPSHOT_INCOMPLETE",
             "SNAPSHOT_REQUIRED"}
ASSUME RefusalAssumption == None \notin Refusals

Without(f, k) == [x \in DOMAIN f \ {k} |-> f[x]]
With(f, k, v) == [x \in DOMAIN f \cup {k} |-> IF x = k THEN v ELSE f[x]]

----------------------------------------------------------------------------
(* Rescan tasks.                                                           *)

ActiveStatus == {"waiting", "dispatched", "running", "paused", "uploading"}
EndStatus == {"completed", "partial", "failed", "cancelled", "superseded"}

Active(task) == task.status \in ActiveStatus
RescanTasks ==
    [id : Int \X Nat, agents : SUBSET Agents, reason : {"manual", "mismatch", "hub-recovery"},
     status : ActiveStatus \cup EndStatus]
Task(id, agents, reason) ==
    [id |-> id, agents |-> agents, reason |-> reason, status |-> "waiting"]

(* Random UUIDs: a task's identity is fresh across restored databases too. *)
FreshTask(queue) == <<epoch, Len(queue) + 1>>
RecoveryTask(stream) == <<-1, stream>>

(* queue_rescan: reuse the active task of the same scope and reason.       *)
QueueRescan(queue, agents, reason) ==
    IF \E i \in DOMAIN queue : /\ Active(queue[i])
                               /\ queue[i].agents = agents /\ queue[i].reason = reason
    THEN queue
    ELSE Append(queue, Task(FreshTask(queue), agents, reason))

ActiveIn(queue) == {i \in DOMAIN queue : Active(queue[i])}

WithStatus(queue, chosen, status) ==
    [i \in DOMAIN queue |-> IF i \in chosen
                            THEN [queue[i] EXCEPT !.status = status] ELSE queue[i]]

(* end_active_rescans *)
EndActive(queue, status) == WithStatus(queue, ActiveIn(queue), status)

OldestActive(queue) ==
    IF ActiveIn(queue) = {} THEN None
    ELSE queue[CHOOSE i \in ActiveIn(queue) : \A j \in ActiveIn(queue) : i <= j]

----------------------------------------------------------------------------
(* receive_upload.  An upload is [epoch, stream, sequence, op].            *)

Held(stream, t) == IF <<stream, t>> \in DOMAIN hubChunks THEN hubChunks[<<stream, t>>] ELSE 0

(* extend_from_base: the stored copy is the state the delta was made from. *)
BaseHeld(op) ==
    op.base # None =>
        /\ messageBases[op.session] = op.base.previous
        /\ op.base.keep <= Len(op.base.previous)
        /\ hubSessions[op.session] # None
        /\ Len(hubSessions[op.session].messages) = Len(op.base.previous)

(* Mutant of Received: what the delta does not keep is not cut off.        *)
ReceivedUncut(op) ==
    [messages |-> IF op.base = None THEN CarriedMessages(op)
                  ELSE hubSessions[op.session].messages \o CarriedMessages(op),
     title |-> op.capture.title]

(* What the commit's payload amounts to on this Hub.                       *)
Received(op) ==
    [messages |-> IF op.base = None THEN CarriedMessages(op)
                  ELSE SubSeq(hubSessions[op.session].messages, 1, op.base.keep)
                       \o CarriedMessages(op),
     title |-> op.capture.title]

OperationRefusal(stream, op) ==
    CASE op.kind = "chunk" ->
           IF op.index # Held(stream, op.transfer) THEN "SNAPSHOT_CHUNK_GAP" ELSE None
      [] op.kind = "commit" ->
           IF op.chunks # Held(stream, op.transfer) THEN "SNAPSHOT_INCOMPLETE" ELSE None
      [] op.kind = "metadata" ->
           IF hubSessions[op.session] = None /\ node.recoveryEpoch = None
           THEN "SNAPSHOT_REQUIRED" ELSE None

(* Mutant of Replayed: a repeated operation is not recognized.             *)
ReplayedNever(u) == FALSE
Replayed(u) == u.sequence = node.confirmed


UploadRefusal(u) ==
    CASE u.epoch # epoch -> "HUB_EPOCH_CHANGED"
      [] u.epoch = epoch /\ u.stream # node.stream -> "UPLOAD_STREAM_MISMATCH"
      [] OTHER ->
           IF Replayed(u)
           THEN IF node.last = u.op THEN None ELSE "SEQUENCE_CONFLICT"
           ELSE IF u.sequence = node.confirmed + 1
                THEN OperationRefusal(u.stream, u.op)
                ELSE "UPLOAD_SEQUENCE_GAP"

ApplyChunk(stream, op) ==
    /\ op.kind = "chunk"
    /\ hubChunks' = With(hubChunks, <<stream, op.transfer>>, op.index + 1)
    /\ UNCHANGED <<hubSessions, messageBases, orphans, rescans>>

ApplyCommit(stream, op) ==
    /\ op.kind = "commit" /\ BaseHeld(op)
    /\ hubSessions' = [hubSessions EXCEPT ![op.session] = Received(op)]
    /\ messageBases' = [messageBases EXCEPT ![op.session] = op.capture.messages]
    /\ orphans' = orphans \ {op.session}
    /\ hubChunks' = Without(hubChunks, <<stream, op.transfer>>)
    /\ UNCHANGED rescans

(* Mutant of OrphanCommit: the base is recorded although the delta was not *)
(* applied.                                                                *)
OrphanCommitKeepsBase(stream, op) ==
    /\ op.kind = "commit" /\ ~BaseHeld(op)
    /\ rescans' = QueueRescan(rescans, {AgentOf[op.session]}, "mismatch")
    /\ orphans' = orphans \cup {op.session}
    /\ hubChunks' = Without(hubChunks, <<stream, op.transfer>>)
    /\ messageBases' = [messageBases EXCEPT ![op.session] = op.capture.messages]
    /\ UNCHANGED hubSessions

(* A delta this Hub cannot extend: keep a note and ask for the agent again.*)
OrphanCommit(stream, op) ==
    /\ op.kind = "commit" /\ ~BaseHeld(op)
    /\ rescans' = QueueRescan(rescans, {AgentOf[op.session]}, "mismatch")
    /\ orphans' = orphans \cup {op.session}
    /\ hubChunks' = Without(hubChunks, <<stream, op.transfer>>)
    /\ UNCHANGED <<hubSessions, messageBases>>

ApplyMetadata(op) ==
    /\ op.kind = "metadata" /\ hubSessions[op.session] # None
    /\ hubSessions' = [hubSessions EXCEPT ![op.session].title = op.title]
    /\ UNCHANGED <<hubChunks, messageBases, orphans, rescans>>

OrphanMetadata(op) ==
    /\ op.kind = "metadata" /\ hubSessions[op.session] = None
    /\ orphans' = orphans \cup {op.session}
    /\ UNCHANGED <<hubChunks, hubSessions, messageBases, rescans>>

(* The content and the watermark are written in one transaction; the same  *)
(* operation again is answered with the stored receipt.                    *)
ReceiveUpload(u) ==
    /\ UploadRefusal(u) = None
    /\ IF Replayed(u)
       THEN UNCHANGED databaseVars
       ELSE /\ \/ ApplyChunk(u.stream, u.op)
               \/ ApplyCommit(u.stream, u.op)
               \/ OrphanCommit(u.stream, u.op)
               \/ ApplyMetadata(u.op)
               \/ OrphanMetadata(u.op)
            /\ node' = NodeRow(node.stream, u.sequence, u.op, node.recoveryEpoch)
    /\ UNCHANGED <<epoch, backup>>

----------------------------------------------------------------------------
(* recover_worker.  A recovery is [epoch, previousStream, newStream].      *)

RecoverRefusal(r) ==
    IF r.epoch # epoch THEN "HUB_EPOCH_CHANGED"
    ELSE IF \/ node.stream = r.newStream
            \/ node.stream = r.previousStream
            \/ node.recoveryEpoch # epoch
         THEN None ELSE "UPLOAD_STREAM_MISMATCH"

(* Mutants of RecoverWorker: no task is queued; the watermark is kept; a   *)
(* repeated request is not recognized.                                     *)
RecoverWorkerNoTask(r) ==
    /\ RecoverRefusal(r) = None
    /\ IF node.stream = r.newStream
       THEN UNCHANGED databaseVars
       ELSE /\ node' = NodeRow(r.newStream, 0, None, epoch)
            /\ hubChunks' = [t \in {} |-> 0]
            /\ rescans' = EndActive(rescans, "superseded")
            /\ UNCHANGED <<hubSessions, messageBases, orphans>>
    /\ UNCHANGED <<epoch, backup>>
RecoverWorkerKeepsWatermark(r) ==
    /\ RecoverRefusal(r) = None
    /\ IF node.stream = r.newStream
       THEN UNCHANGED databaseVars
       ELSE /\ node' = NodeRow(r.newStream, node.confirmed, node.last, epoch)
            /\ hubChunks' = [t \in {} |-> 0]
            /\ rescans' = Append(EndActive(rescans, "superseded"),
                                 Task(RecoveryTask(r.newStream), {}, "hub-recovery"))
            /\ UNCHANGED <<hubSessions, messageBases, orphans>>
    /\ UNCHANGED <<epoch, backup>>
RecoverWorkerAgain(r) ==
    /\ RecoverRefusal(r) = None
    /\ node' = NodeRow(r.newStream, 0, None, epoch)
    /\ hubChunks' = [t \in {} |-> 0]
    /\ rescans' = Append(EndActive(rescans, "superseded"),
                         Task(RecoveryTask(r.newStream), {}, "hub-recovery"))
    /\ UNCHANGED <<hubSessions, messageBases, orphans, epoch, backup>>

RecoverWorker(r) ==
    /\ RecoverRefusal(r) = None
    /\ IF node.stream = r.newStream
       THEN UNCHANGED databaseVars
       ELSE /\ node' = NodeRow(r.newStream, 0, None, epoch)
            /\ hubChunks' = [t \in {} |-> 0]
            /\ rescans' = Append(EndActive(rescans, "superseded"),
                                 Task(RecoveryTask(r.newStream), {}, "hub-recovery"))
            /\ UNCHANGED <<hubSessions, messageBases, orphans>>
    /\ UNCHANGED <<epoch, backup>>

----------------------------------------------------------------------------
(* worker_hello.  A hello is [epoch, stream, rescan]; `compatible' is what *)
(* check_compatibility says of the two versions.                           *)

HelloRefusal(h) ==
    IF h.epoch # epoch \/ h.stream = node.stream THEN None ELSE "UPLOAD_STREAM_MISMATCH"

(* Mutant of ProgressStatus: the target must be passed, not reached.       *)
ProgressStatusPassed(p, compatible) ==
    CASE p.failed -> "failed"
      [] ~p.failed /\ ~compatible -> "paused"
      [] OTHER ->
           IF p.target = None THEN "running"
           ELSE IF p.target >= node.confirmed THEN "uploading"
                ELSE IF orphans = {} THEN "completed" ELSE "partial"

ProgressStatus(p, compatible) ==
    CASE p.failed -> "failed"
      [] ~p.failed /\ ~compatible -> "paused"
      [] OTHER ->
           IF p.target = None THEN "running"
           ELSE IF p.target > node.confirmed THEN "uploading"
                ELSE IF orphans = {} THEN "completed" ELSE "partial"

(* Mutant of Reported: a report also counts for a task that has ended.     *)
ReportedAlways(h, compatible) ==
    IF h.epoch = epoch /\ h.rescan # None
    THEN WithStatus(rescans, {i \in DOMAIN rescans : rescans[i].id = h.rescan.id},
                    ProgressStatus(h.rescan, compatible))
    ELSE rescans

(* Progress counts only for an active task of the current epoch.           *)
Reported(h, compatible) ==
    IF h.epoch = epoch /\ h.rescan # None
    THEN WithStatus(rescans, {i \in ActiveIn(rescans) : rescans[i].id = h.rescan.id},
                    ProgressStatus(h.rescan, compatible))
    ELSE rescans

(* The oldest active task is handed out, and marked when first handed out. *)
HandedOut(h, compatible) ==
    IF compatible THEN OldestActive(Reported(h, compatible)) ELSE None

WorkerHello(h, compatible) ==
    /\ HelloRefusal(h) = None
    /\ LET task == HandedOut(h, compatible)
           queue == Reported(h, compatible)
           first == {i \in DOMAIN queue : /\ task # None /\ queue[i].id = task.id
                                          /\ queue[i].status = "waiting"}
       IN  rescans' = WithStatus(queue, first, "dispatched")
    /\ UNCHANGED <<epoch, node, contentVars, backup>>

HelloReply(h, compatible) ==
    [epoch |-> epoch, confirmed |-> node.confirmed, compatible |-> compatible,
     task |-> LET task == HandedOut(h, compatible)
              IN  IF task = None THEN None ELSE [id |-> task.id, agents |-> task.agents]]

----------------------------------------------------------------------------
(* The Hub's users and its operator.                                       *)

RequestRescan(agents) ==
    /\ rescans' = QueueRescan(rescans, agents, "manual")
    /\ UNCHANGED <<epoch, node, contentVars, backup>>

CancelRescan(id) ==
    /\ LET chosen == {i \in ActiveIn(rescans) : rescans[i].id = id}
       IN  chosen # {} /\ rescans' = WithStatus(rescans, chosen, "cancelled")
    /\ UNCHANGED <<epoch, node, contentVars, backup>>

Database == [node |-> node, chunks |-> hubChunks, sessions |-> hubSessions,
             bases |-> messageBases, orphans |-> orphans, rescans |-> rescans]

TakeBackup ==
    /\ backup' = Database
    /\ UNCHANGED <<epoch, databaseVars>>

(* Stop, restore the files, start once with --recover-data: the old tables *)
(* under a new epoch.  With the first backup, taken right after pairing,   *)
(* this is also the rebuilt database of initialize_hub, whose node row     *)
(* comes back from hub_control with the stream it was paired with.         *)
RestoreBackup ==
    /\ node' = backup.node /\ hubChunks' = backup.chunks
    /\ hubSessions' = backup.sessions /\ messageBases' = backup.bases
    /\ orphans' = backup.orphans /\ rescans' = backup.rescans
    /\ epoch' = epoch + 1
    /\ UNCHANGED backup

(* pair_worker for a new node, whose Worker has the stream given.          *)
HubInit(stream) ==
    /\ epoch = 0
    /\ node = NodeRow(stream, 0, None, None)
    /\ hubChunks = [t \in {} |-> 0]
    /\ hubSessions = [s \in Sessions |-> None]
    /\ messageBases = [s \in Sessions |-> None]
    /\ orphans = {}
    /\ rescans = <<>>
    /\ backup = Database
----------------------------------------------------------------------------
HubTypeOK ==
    /\ epoch \in Nat
    /\ node \in [stream : Nat, confirmed : Nat, last : Operations \cup {None},
                 recoveryEpoch : Nat \cup {None}]
    /\ \A t \in DOMAIN hubChunks : t \in Nat \X Transfers /\ hubChunks[t] \in Nat \ {0}
    /\ hubSessions \in [Sessions -> Contents \cup {None}]
    /\ messageBases \in [Sessions -> Seq(Messages) \cup {None}]
    /\ orphans \subseteq Sessions
    /\ rescans \in Seq(RescanTasks)
============================================================================
