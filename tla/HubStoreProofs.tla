--------------------------- MODULE HubStoreProofs ---------------------------
(***************************************************************************)
(* What the Hub's operations do to its tables, whatever they hold: the     *)
(* task queue stays a queue of tasks, and a delta that is accepted         *)
(* rebuilds exactly what the Worker parsed.                                *)
(***************************************************************************)
EXTENDS HubStore, FiniteSetTheorems, SequenceTheorems, TLAPS

----------------------------------------------------------------------------
(* The task queue.                                                         *)

(* Setting the status of some tasks.                                       *)
LEMMA WithStatusType ==
    ASSUME NEW queue \in Seq(RescanTasks), NEW chosen, NEW status \in ActiveStatus \cup EndStatus
    PROVE  LET new == WithStatus(queue, chosen, status)
           IN  /\ new \in Seq(RescanTasks) /\ Len(new) = Len(queue)
               /\ \A i \in 1 .. Len(queue) :
                    /\ new[i].id = queue[i].id /\ new[i].agents = queue[i].agents
                    /\ new[i].reason = queue[i].reason
                    /\ i \in chosen => new[i].status = status
                    /\ i \notin chosen => new[i] = queue[i]
<1> DEFINE n == Len(queue)
           new == WithStatus(queue, chosen, status)
<1>1. n \in Nat /\ DOMAIN queue = 1 .. n
  BY LenProperties
<1>2. \A i \in 1 .. n : queue[i] \in RescanTasks
  BY <1>1, ElementOfSeq
<1>3. ASSUME NEW i \in 1 .. n
      PROVE  /\ new[i] \in RescanTasks
             /\ new[i].id = queue[i].id /\ new[i].agents = queue[i].agents
             /\ new[i].reason = queue[i].reason
             /\ i \in chosen => new[i].status = status
             /\ i \notin chosen => new[i] = queue[i]
  BY <1>1, <1>2 DEF WithStatus, RescanTasks
<1>4. DOMAIN new = 1 .. n /\ new = [i \in 1 .. n |-> new[i]]
  BY <1>1 DEF WithStatus
<1> HIDE DEF new
<1>5. new \in [1 .. n -> RescanTasks]
  BY <1>3, <1>4
<1>6. new \in Seq(RescanTasks) /\ Len(new) = n
  BY <1>1, <1>5
<1> QED
  BY <1>3, <1>6 DEF new

(* A task more, or the same queue.                                         *)
LEMMA QueueRescanType ==
    ASSUME NEW queue \in Seq(RescanTasks), NEW agents \in SUBSET Agents, epoch \in Nat,
           NEW reason \in {"manual", "mismatch"}
    PROVE  LET task == Task(FreshTask(queue), agents, reason)
           IN  /\ task \in RescanTasks
               /\ QueueRescan(queue, agents, reason) \in {queue, Append(queue, task)}
<1>1. Len(queue) + 1 \in Nat
  BY LenProperties
<1> QED
  BY <1>1 DEF QueueRescan, Task, FreshTask, RescanTasks, ActiveStatus

(* A longer queue holds what it held.                                      *)
LEMMA AppendTask ==
    ASSUME NEW queue \in Seq(RescanTasks), NEW task \in RescanTasks
    PROVE  LET new == Append(queue, task)
           IN  /\ new \in Seq(RescanTasks) /\ Len(new) = Len(queue) + 1
               /\ \A i \in 1 .. Len(queue) : new[i] = queue[i]
               /\ new[Len(queue) + 1] = task
BY AppendProperties

(* A report is about tasks of that identity and changes their status only. *)
LEMMA ProgressStatusType ==
    ASSUME NEW p, NEW compatible
    PROVE  ProgressStatus(p, compatible) \in ActiveStatus \cup EndStatus
BY DEF ProgressStatus, ActiveStatus, EndStatus

----------------------------------------------------------------------------
(* Deltas.                                                                 *)

(* A sequence is a prefix of it and the rest.                              *)
LEMMA PrefixAndRest ==
    ASSUME NEW old \in Seq(Messages), NEW new \in Seq(Messages), NEW k \in Nat,
           k <= Len(old), k <= Len(new), \A i \in 1 .. k : old[i] = new[i]
    PROVE  SubSeq(old, 1, k) \o SubSeq(new, k + 1, Len(new)) = new
<1>1. SubSeq(old, 1, k) = SubSeq(new, 1, k)
  <2>1. /\ SubSeq(old, 1, k) \in Seq(Messages) /\ SubSeq(new, 1, k) \in Seq(Messages)
        /\ Len(SubSeq(old, 1, k)) = k /\ Len(SubSeq(new, 1, k)) = k
        /\ \A i \in 1 .. k : SubSeq(old, 1, k)[i] = old[i] /\ SubSeq(new, 1, k)[i] = new[i]
    BY SubSeqProperties
  <2> QED
    BY <2>1, SeqEqual
<1>2. SubSeq(new, 1, k) \o SubSeq(new, k + 1, Len(new)) = SubSeq(new, 1, Len(new))
  <2>1. /\ 1 \in 1 .. Len(new) + 1 /\ k \in 1 - 1 .. Len(new)
        /\ Len(new) \in k .. Len(new)
    BY LenProperties
  <2> QED
    BY <2>1, ConcatAdjacentSubSeq
<1> QED
  BY <1>1, <1>2, SubSeqFull

(* What extend_from_base leaves is what the Worker parsed.                 *)
LEMMA DeltaRebuilds ==
    ASSUME NEW op \in SoundOperations, op.kind = "commit", BaseHeld(op),
           \A s \in Sessions : messageBases[s] # None =>
               hubSessions[s].messages = messageBases[s]
    PROVE  /\ op.session \in Sessions /\ op.capture \in Captures /\ Received(op) = op.capture
<1>1. /\ op.session \in Sessions /\ op.capture \in Captures /\ op.base \in Bases \cup {None}
      /\ op.base # None => Extends(op)
  BY DEF SoundOperations, Operations
<1>2. /\ op.capture \in Contents /\ op.capture.messages \in Seq(Messages)
  BY <1>1, CaptureAssumption DEF Contents
<1>3. CASE op.base = None
  BY <1>1, <1>2, <1>3 DEF Received, CarriedMessages, Contents
<1>4. CASE op.base # None
  <2>1. /\ op.base.previous \in Seq(Messages) /\ op.base.keep \in Nat
    BY <1>1, <1>4 DEF Bases
  <2>2. hubSessions[op.session].messages = op.base.previous
    BY <1>1, <1>4, <2>1, NoneAssumption DEF BaseHeld
  <2>3. SubSeq(op.base.previous, 1, op.base.keep)
          \o SubSeq(op.capture.messages, op.base.keep + 1, Len(op.capture.messages))
          = op.capture.messages
    BY <1>1, <1>2, <1>4, <2>1, PrefixAndRest DEF Extends
  <2> QED
    BY <1>1, <1>2, <1>4, <2>2, <2>3 DEF Received, CarriedMessages, Contents
<1> QED
  BY <1>1, <1>3, <1>4

----------------------------------------------------------------------------
(* What holds of the tables, served or in a backup.                        *)

RowOK(row) ==
    row \in [stream : Nat, confirmed : Nat, last : Operations \cup {None},
             recoveryEpoch : Nat \cup {None}]

ContentOK(chunks, sessions, bases, missing) ==
    /\ \A t \in DOMAIN chunks : t \in Nat \X Transfers /\ chunks[t] \in Nat \ {0}
    /\ sessions \in [Sessions -> Contents \cup {None}]
    /\ bases \in [Sessions -> Seq(Messages) \cup {None}]
    /\ missing \subseteq Sessions
    /\ \A s \in Sessions : bases[s] # None =>
          sessions[s] # None /\ sessions[s].messages = bases[s]

(* Identities of tasks: a recovery's is that of a stream the node has had, *)
(* any other was numbered in an epoch up to this one.                      *)
Numbered(id, stream, e, n) ==
    \/ id[1] = -1 /\ id[2] <= stream
    \/ id[1] \in Nat /\ id[1] <= e /\ (id[1] = e => id[2] <= n)
TasksOK(queue, stream, e) ==
    /\ queue \in Seq(RescanTasks)
    /\ \A i \in 1 .. Len(queue) : Numbered(queue[i].id, stream, e, Len(queue))
    /\ \A i, j \in 1 .. Len(queue) : queue[i].id = queue[j].id => i = j

DatabaseOK(db, e) ==
    /\ RowOK(db.node) /\ ContentOK(db.chunks, db.sessions, db.bases, db.orphans)
    /\ TasksOK(db.rescans, db.node.stream, e)
TablesHold ==
    /\ RowOK(node) /\ ContentOK(hubChunks, hubSessions, messageBases, orphans)
    /\ TasksOK(rescans, node.stream, epoch)
HubOK == epoch \in Nat /\ TablesHold /\ DatabaseOK(backup, epoch)

(* A queue changes, but no task that has ended.                            *)
Onward(old, new) ==
    /\ Len(new) >= Len(old)
    /\ \A i \in 1 .. Len(old) : ~Active(old[i]) => new[i] = old[i]

----------------------------------------------------------------------------
(* Tasks.                                                                  *)

(* A task has an identity.                                                 *)
LEMMA TaskId ==
    ASSUME NEW queue \in Seq(RescanTasks), NEW i \in 1 .. Len(queue)
    PROVE  /\ queue[i] \in RescanTasks /\ queue[i].id \in Int \X Nat
           /\ queue[i].id[1] \in Int /\ queue[i].id[2] \in Nat
<1>1. queue[i] \in RescanTasks
  BY ElementOfSeq
<1>2. queue[i].id \in Int \X Nat
  BY <1>1 DEF RescanTasks
<1> QED
  BY <1>1, <1>2

(* Identities stay in use when streams and epochs go on.                   *)
LEMMA TasksLater ==
    ASSUME NEW queue, NEW stream \in Nat, NEW later \in Nat, NEW e \in Nat, NEW next \in Nat,
           TasksOK(queue, stream, e), stream <= later, e <= next
    PROVE  TasksOK(queue, later, next)
<1>1. queue \in Seq(RescanTasks)
  BY DEF TasksOK
<1>2. ASSUME NEW i \in 1 .. Len(queue)
      PROVE  Numbered(queue[i].id, later, next, Len(queue))
  <2>1. Numbered(queue[i].id, stream, e, Len(queue))
    BY DEF TasksOK
  <2>2. queue[i].id[1] \in Int /\ queue[i].id[2] \in Nat
    BY <1>1, TaskId
  <2> QED
    BY <2>1, <2>2 DEF Numbered
<1> QED
  BY <1>2 DEF TasksOK

(* Setting a status.                                                       *)
LEMMA StatusKeepsTasks ==
    ASSUME NEW queue, NEW stream, NEW e, TasksOK(queue, stream, e),
           NEW chosen, NEW status \in ActiveStatus \cup EndStatus
    PROVE  /\ TasksOK(WithStatus(queue, chosen, status), stream, e)
           /\ Len(WithStatus(queue, chosen, status)) = Len(queue)
           /\ chosen \subseteq ActiveIn(queue) =>
                Onward(queue, WithStatus(queue, chosen, status))
<1> DEFINE new == WithStatus(queue, chosen, status)
<1>1. queue \in Seq(RescanTasks)
  BY DEF TasksOK
<1>2. /\ new \in Seq(RescanTasks) /\ Len(new) = Len(queue)
      /\ \A i \in 1 .. Len(queue) :
           /\ new[i].id = queue[i].id
           /\ i \notin chosen => new[i] = queue[i]
  BY <1>1, WithStatusType
<1> HIDE DEF new
<1>3. TasksOK(new, stream, e)
  BY <1>2 DEF TasksOK
<1>4. ASSUME chosen \subseteq ActiveIn(queue)
      PROVE  Onward(queue, new)
  BY <1>1, <1>2, <1>4, LenProperties DEF Onward, ActiveIn
<1> QED
  BY <1>2, <1>3, <1>4 DEF new

(* Queueing a task the users or a refused delta ask for.                   *)
LEMMA FreshKeepsTasks ==
    ASSUME NEW queue, NEW stream, TasksOK(queue, stream, epoch), epoch \in Nat,
           NEW agents \in SUBSET Agents, NEW reason \in {"manual", "mismatch"}
    PROVE  LET new == QueueRescan(queue, agents, reason)
           IN  TasksOK(new, stream, epoch) /\ Onward(queue, new)
<1> DEFINE task == Task(FreshTask(queue), agents, reason)
           new == Append(queue, task)
<1>1. queue \in Seq(RescanTasks) /\ Len(queue) \in Nat
  BY LenProperties DEF TasksOK
<1>2. task \in RescanTasks /\ QueueRescan(queue, agents, reason) \in {queue, new}
  BY <1>1, QueueRescanType
<1>3. task.id = <<epoch, Len(queue) + 1>>
  BY DEF Task, FreshTask
<1> HIDE DEF task
<1>4. /\ new \in Seq(RescanTasks) /\ Len(new) = Len(queue) + 1
      /\ \A i \in 1 .. Len(queue) : new[i] = queue[i]
      /\ new[Len(queue) + 1] = task
  BY <1>1, <1>2, AppendTask
<1> HIDE DEF new
<1>5. ASSUME NEW i \in 1 .. Len(queue)
      PROVE  /\ Numbered(new[i].id, stream, epoch, Len(new))
             /\ new[i].id # task.id
  <2>1. Numbered(queue[i].id, stream, epoch, Len(queue))
    BY DEF TasksOK
  <2>2. queue[i].id[1] \in Int /\ queue[i].id[2] \in Nat
    BY <1>1, TaskId
  <2> QED
    BY <1>1, <1>3, <1>4, <2>1, <2>2 DEF Numbered
<1>6. Numbered(task.id, stream, epoch, Len(new))
  BY <1>1, <1>3, <1>4 DEF Numbered
<1>7. TasksOK(new, stream, epoch)
  <2>1. \A i \in 1 .. Len(new) : i \in 1 .. Len(queue) \/ i = Len(queue) + 1
    BY <1>1, <1>4
  <2>2. \A i \in 1 .. Len(new) : Numbered(new[i].id, stream, epoch, Len(new))
    BY <1>4, <1>5, <1>6, <2>1
  <2>3. \A i, j \in 1 .. Len(queue) : queue[i].id = queue[j].id => i = j
    BY DEF TasksOK
  <2>4. \A i, j \in 1 .. Len(new) : new[i].id = new[j].id => i = j
    BY <1>4, <1>5, <2>1, <2>3
  <2> QED
    BY <1>4, <2>2, <2>4 DEF TasksOK
<1>8. Onward(queue, new) /\ Onward(queue, queue)
  BY <1>1, <1>4 DEF Onward
<1> QED
  BY <1>2, <1>7, <1>8

(* Queueing a recovery, into a stream the node never had.                  *)
LEMMA RecoveryKeepsTasks ==
    ASSUME NEW queue, NEW stream \in Nat, NEW new \in Nat, NEW e \in Nat,
           TasksOK(queue, stream, e), stream < new
    PROVE  LET longer == Append(queue, Task(RecoveryTask(new), {}, "hub-recovery"))
           IN  TasksOK(longer, new, e) /\ Onward(queue, longer)
<1> DEFINE task == Task(RecoveryTask(new), {}, "hub-recovery")
           longer == Append(queue, task)
<1>1. queue \in Seq(RescanTasks) /\ Len(queue) \in Nat
  BY LenProperties DEF TasksOK
<1>2. task \in RescanTasks /\ task.id = <<-1, new>>
  BY DEF Task, RecoveryTask, RescanTasks, ActiveStatus
<1> HIDE DEF task
<1>3. /\ longer \in Seq(RescanTasks) /\ Len(longer) = Len(queue) + 1
      /\ \A i \in 1 .. Len(queue) : longer[i] = queue[i]
      /\ longer[Len(queue) + 1] = task
  BY <1>1, <1>2, AppendTask
<1> HIDE DEF longer
<1>4. ASSUME NEW i \in 1 .. Len(queue)
      PROVE  /\ Numbered(longer[i].id, new, e, Len(longer))
             /\ longer[i].id # task.id
  <2>1. Numbered(queue[i].id, stream, e, Len(queue))
    BY DEF TasksOK
  <2>2. queue[i].id[1] \in Int /\ queue[i].id[2] \in Nat
    BY <1>1, TaskId
  <2> QED
    BY SMTT(30), <1>1, <1>2, <1>3, <2>1, <2>2 DEF Numbered
<1>5. Numbered(task.id, new, e, Len(longer))
  BY <1>2 DEF Numbered
<1>6. TasksOK(longer, new, e)
  <2>1. \A i \in 1 .. Len(longer) : i \in 1 .. Len(queue) \/ i = Len(queue) + 1
    BY <1>1, <1>3
  <2>2. \A i \in 1 .. Len(longer) : Numbered(longer[i].id, new, e, Len(longer))
    BY <1>3, <1>4, <1>5, <2>1
  <2>3. \A i, j \in 1 .. Len(queue) : queue[i].id = queue[j].id => i = j
    BY DEF TasksOK
  <2>4. \A i, j \in 1 .. Len(longer) : longer[i].id = longer[j].id => i = j
    BY <1>3, <1>4, <2>1, <2>3
  <2> QED
    BY <1>3, <2>2, <2>4 DEF TasksOK
<1>7. Onward(queue, longer)
  BY <1>1, <1>3 DEF Onward
<1> QED
  BY <1>6, <1>7 DEF longer, task

(* One change after another.                                               *)
LEMMA OnwardOnward ==
    ASSUME NEW old, NEW mid, NEW new, Len(old) \in Nat, Len(mid) \in Nat, Len(new) \in Nat,
           Onward(old, mid), Onward(mid, new)
    PROVE  Onward(old, new)
BY DEF Onward

----------------------------------------------------------------------------
(* Each request is a transaction that keeps the tables well formed.        *)

(* A chunk, or the end of its transfer, in hub_chunks.                     *)
LEMMA ChunkKeepsContent ==
    ASSUME TablesHold, NEW u, u.stream \in Nat, u.op \in Operations, ApplyChunk(u.stream, u.op)
    PROVE  ContentOK(hubChunks', hubSessions', messageBases', orphans')
<1>1. /\ u.op.transfer \in Transfers /\ u.op.index \in Nat
  BY DEF ApplyChunk, Operations
<1>2. /\ hubChunks' = With(hubChunks, <<u.stream, u.op.transfer>>, u.op.index + 1)
      /\ UNCHANGED <<hubSessions, messageBases, orphans>>
  BY DEF ApplyChunk
<1>3. \A t \in DOMAIN hubChunks' : t \in Nat \X Transfers /\ hubChunks'[t] \in Nat \ {0}
  BY <1>1, <1>2 DEF With, TablesHold, ContentOK
<1> QED
  BY <1>2, <1>3 DEF TablesHold, ContentOK

LEMMA CommitKeepsContent ==
    ASSUME TablesHold, NEW u, u.op \in SoundOperations, ApplyCommit(u.stream, u.op)
    PROVE  /\ ContentOK(hubChunks', hubSessions', messageBases', orphans')
           /\ hubSessions' = [hubSessions EXCEPT ![u.op.session] = u.op.capture]
<1>1. u.op.kind = "commit" /\ BaseHeld(u.op)
  BY DEF ApplyCommit
<1>2. /\ u.op.session \in Sessions /\ u.op.capture \in Captures
      /\ Received(u.op) = u.op.capture
  BY <1>1, DeltaRebuilds DEF TablesHold, ContentOK
<1>3. /\ hubSessions' = [hubSessions EXCEPT ![u.op.session] = u.op.capture]
      /\ messageBases' = [messageBases EXCEPT ![u.op.session] = u.op.capture.messages]
      /\ orphans' \subseteq orphans
      /\ hubChunks' = Without(hubChunks, <<u.stream, u.op.transfer>>)
  BY <1>2 DEF ApplyCommit
<1>4. /\ u.op.capture \in Contents /\ u.op.capture # None
      /\ u.op.capture.messages \in Seq(Messages)
  BY <1>2, CaptureAssumption DEF Contents
<1>5. \A t \in DOMAIN hubChunks' : t \in Nat \X Transfers /\ hubChunks'[t] \in Nat \ {0}
  BY <1>3 DEF Without, TablesHold, ContentOK
<1>6. ASSUME NEW s \in Sessions, messageBases'[s] # None
      PROVE  hubSessions'[s] # None /\ hubSessions'[s].messages = messageBases'[s]
  BY <1>2, <1>3, <1>4, <1>6 DEF TablesHold, ContentOK
<1> QED
  BY <1>2, <1>3, <1>4, <1>5, <1>6 DEF TablesHold, ContentOK

LEMMA MetadataKeepsContent ==
    ASSUME TablesHold, NEW u, u.op \in Operations, ApplyMetadata(u.op)
    PROVE  ContentOK(hubChunks', hubSessions', messageBases', orphans')
<1> DEFINE s == u.op.session
<1>1. s \in Sessions /\ u.op.title \in Titles
  BY DEF ApplyMetadata, Operations
<1>2. /\ hubSessions[s] # None
      /\ hubSessions' = [hubSessions EXCEPT ![s].title = u.op.title]
      /\ UNCHANGED <<hubChunks, messageBases, orphans>>
  BY DEF ApplyMetadata
<1>3. hubSessions[s] \in Contents
  BY <1>1, <1>2 DEF TablesHold, ContentOK
<1> DEFINE new == [hubSessions[s] EXCEPT !.title = u.op.title]
<1>4. /\ new \in Contents /\ new # None /\ new.messages = hubSessions[s].messages
      /\ hubSessions' = [hubSessions EXCEPT ![s] = new]
  BY <1>1, <1>2, <1>3, CaptureAssumption DEF Contents
<1> HIDE DEF new, s
<1> QED
  BY <1>1, <1>2, <1>4 DEF TablesHold, ContentOK

LEMMA OrphanKeepsContent ==
    ASSUME TablesHold, NEW u, u.op \in Operations,
           OrphanCommit(u.stream, u.op) \/ OrphanMetadata(u.op)
    PROVE  ContentOK(hubChunks', hubSessions', messageBases', orphans')
<1>1. /\ u.op.session \in Sessions /\ orphans' = orphans \cup {u.op.session}
      /\ UNCHANGED <<hubSessions, messageBases>>
  BY DEF OrphanCommit, OrphanMetadata, Operations
<1>2. \A t \in DOMAIN hubChunks' : t \in Nat \X Transfers /\ hubChunks'[t] \in Nat \ {0}
  BY DEF OrphanCommit, OrphanMetadata, Without, TablesHold, ContentOK
<1> QED
  BY <1>1, <1>2 DEF TablesHold, ContentOK

(* receive_upload.                                                         *)
LEMMA UploadKeepsTables ==
    ASSUME HubOK, NEW u, u.op \in SoundOperations, u.sequence \in Nat, ReceiveUpload(u)
    PROVE  HubOK' /\ Onward(rescans, rescans')
<1>1. /\ epoch \in Nat /\ TablesHold /\ UNCHANGED <<epoch, backup>>
      /\ u.op \in Operations
      /\ rescans \in Seq(RescanTasks)
  BY DEF HubOK, ReceiveUpload, SoundOperations, TablesHold, TasksOK
<1>2. CASE Replayed(u)
  <2>1. UNCHANGED databaseVars
    BY <1>2 DEF ReceiveUpload
  <2> QED
    BY <1>1, <2>1, LenProperties DEF HubOK, TablesHold, databaseVars, contentVars, Onward
<1>3. CASE ~Replayed(u)
  <2>1. /\ node' = NodeRow(node.stream, u.sequence, u.op, node.recoveryEpoch)
        /\ \/ ApplyChunk(u.stream, u.op) \/ ApplyCommit(u.stream, u.op)
           \/ OrphanCommit(u.stream, u.op) \/ ApplyMetadata(u.op) \/ OrphanMetadata(u.op)
    BY <1>3 DEF ReceiveUpload
  <2>2. RowOK(node') /\ node'.stream = node.stream /\ node.stream \in Nat
    BY <1>1, <2>1 DEF TablesHold, RowOK, NodeRow
  <2>3. u.stream = node.stream
    BY RefusalAssumption DEF ReceiveUpload, UploadRefusal, Refusals
  <2>4. ContentOK(hubChunks', hubSessions', messageBases', orphans')
    BY <1>1, <2>1, <2>2, <2>3, ChunkKeepsContent, CommitKeepsContent, MetadataKeepsContent,
       OrphanKeepsContent
  <2>5. TasksOK(rescans', node.stream, epoch) /\ Onward(rescans, rescans')
    <3>1. CASE OrphanCommit(u.stream, u.op)
      <4>1. u.op.session \in Sessions /\ {AgentOf[u.op.session]} \in SUBSET Agents
        BY <1>1, <3>1, AgentAssumption DEF OrphanCommit, Operations
      <4>2. rescans' = QueueRescan(rescans, {AgentOf[u.op.session]}, "mismatch")
        BY <3>1 DEF OrphanCommit
      <4> QED
        BY <1>1, <4>1, <4>2, FreshKeepsTasks DEF TablesHold
    <3>2. CASE ~OrphanCommit(u.stream, u.op)
      <4>1. UNCHANGED rescans
        BY <2>1, <3>2 DEF ApplyChunk, ApplyCommit, ApplyMetadata, OrphanMetadata
      <4> QED
        BY <1>1, <4>1, LenProperties DEF TablesHold, Onward
    <3> QED
      BY <3>1, <3>2
  <2> QED
    BY <1>1, <2>2, <2>4, <2>5 DEF HubOK, TablesHold
<1> QED
  BY <1>2, <1>3

(* recover_worker, into a stream the node's row has not passed.            *)
LEMMA RecoverKeepsTables ==
    ASSUME HubOK, NEW r, r.newStream \in Nat, node.stream <= r.newStream, RecoverWorker(r)
    PROVE  HubOK' /\ Onward(rescans, rescans')
<1>1. /\ epoch \in Nat /\ TablesHold /\ UNCHANGED <<epoch, backup>>
      /\ rescans \in Seq(RescanTasks) /\ node.stream \in Nat
  BY DEF HubOK, RecoverWorker, TablesHold, TasksOK, RowOK
<1>2. CASE node.stream = r.newStream
  <2>1. UNCHANGED databaseVars
    BY <1>2 DEF RecoverWorker
  <2> QED
    BY <1>1, <2>1, LenProperties DEF HubOK, TablesHold, databaseVars, contentVars, Onward
<1>3. CASE node.stream # r.newStream
  <2> DEFINE mid == EndActive(rescans, "superseded")
  <2>1. /\ node' = NodeRow(r.newStream, 0, None, epoch)
        /\ hubChunks' = [t \in {} |-> 0]
        /\ rescans' = Append(mid, Task(RecoveryTask(r.newStream), {}, "hub-recovery"))
        /\ UNCHANGED <<hubSessions, messageBases, orphans>>
    BY <1>3 DEF RecoverWorker
  <2>2. RowOK(node') /\ node'.stream = r.newStream /\ node.stream < r.newStream
    BY <1>1, <1>3, <2>1 DEF RowOK, NodeRow
  <2>3. ContentOK(hubChunks', hubSessions', messageBases', orphans')
    BY <1>1, <2>1 DEF TablesHold, ContentOK
  <2>4. TasksOK(mid, node.stream, epoch) /\ Onward(rescans, mid)
    BY <1>1, StatusKeepsTasks DEF TablesHold, EndActive, EndStatus
  <2> HIDE DEF mid
  <2>5. TasksOK(rescans', r.newStream, epoch) /\ Onward(mid, rescans')
    BY <1>1, <2>1, <2>2, <2>4, RecoveryKeepsTasks
  <2>6. Len(rescans) \in Nat /\ Len(mid) \in Nat /\ Len(rescans') \in Nat
    BY <1>1, <2>4, <2>5, LenProperties DEF TasksOK
  <2>7. Onward(rescans, rescans')
    BY <2>4, <2>5, <2>6, OnwardOnward
  <2> QED
    BY <1>1, <2>2, <2>3, <2>5, <2>7 DEF HubOK, TablesHold
<1> QED
  BY <1>2, <1>3

(* A change of the queue of tasks only.                                    *)
LEMMA TaskStepKeepsTables ==
    ASSUME HubOK, UNCHANGED <<epoch, node, contentVars, backup>>,
           TasksOK(rescans', node.stream, epoch)
    PROVE  HubOK'
BY DEF HubOK, TablesHold, contentVars

(* worker_hello.                                                           *)
LEMMA HelloKeepsTables ==
    ASSUME HubOK, NEW h, NEW compatible, WorkerHello(h, compatible)
    PROVE  HubOK' /\ Onward(rescans, rescans')
<1> DEFINE mid == Reported(h, compatible)
           task == HandedOut(h, compatible)
           first == {i \in DOMAIN mid : /\ task # None /\ mid[i].id = task.id
                                        /\ mid[i].status = "waiting"}
<1>1. TasksOK(rescans, node.stream, epoch) /\ rescans \in Seq(RescanTasks)
  BY DEF HubOK, TablesHold, TasksOK
<1>2. TasksOK(mid, node.stream, epoch) /\ Onward(rescans, mid)
  <2>1. CASE h.epoch = epoch /\ h.rescan # None
    <3> DEFINE chosen == {i \in ActiveIn(rescans) : rescans[i].id = h.rescan.id}
    <3>1. mid = WithStatus(rescans, chosen, ProgressStatus(h.rescan, compatible))
      BY <2>1 DEF Reported
    <3>2. ProgressStatus(h.rescan, compatible) \in ActiveStatus \cup EndStatus
      BY ProgressStatusType
    <3> HIDE DEF mid
    <3> QED
      BY <1>1, <3>1, <3>2, StatusKeepsTasks
  <2>2. CASE ~(h.epoch = epoch /\ h.rescan # None)
    <3>1. mid = rescans
      BY <2>2 DEF Reported
    <3> QED
      BY <1>1, <3>1, LenProperties DEF Onward
  <2> QED
    BY <2>1, <2>2
<1>3. rescans' = WithStatus(mid, first, "dispatched")
  BY DEF WorkerHello
<1>4. first \subseteq ActiveIn(mid) /\ "dispatched" \in ActiveStatus \cup EndStatus
  BY DEF ActiveIn, Active, ActiveStatus
<1> HIDE DEF mid, first, task
<1>5. TasksOK(rescans', node.stream, epoch) /\ Onward(mid, rescans')
  BY <1>2, <1>3, <1>4, StatusKeepsTasks
<1>6. Len(rescans) \in Nat /\ Len(mid) \in Nat /\ Len(rescans') \in Nat
  BY <1>1, <1>2, <1>5, LenProperties DEF TasksOK
<1>7. Onward(rescans, rescans')
  BY <1>2, <1>5, <1>6, OnwardOnward
<1>8. UNCHANGED <<epoch, node, contentVars, backup>>
  BY DEF WorkerHello
<1> QED
  BY <1>5, <1>7, <1>8, TaskStepKeepsTables

(* request_rescan and cancel_rescan.                                       *)
LEMMA UserKeepsTables ==
    ASSUME HubOK,
           \/ \E agents \in SUBSET Agents : RequestRescan(agents)
           \/ \E id : CancelRescan(id)
    PROVE  HubOK' /\ Onward(rescans, rescans')
<1>1. TasksOK(rescans, node.stream, epoch) /\ epoch \in Nat
  BY DEF HubOK, TablesHold
<1>2. CASE \E agents \in SUBSET Agents : RequestRescan(agents)
  <2>1. PICK agents \in SUBSET Agents : RequestRescan(agents)
    BY <1>2
  <2>2. TasksOK(rescans', node.stream, epoch) /\ Onward(rescans, rescans')
    BY <1>1, <2>1, FreshKeepsTasks DEF RequestRescan
  <2> QED
    BY <2>1, <2>2, TaskStepKeepsTables DEF RequestRescan
<1>3. CASE \E id : CancelRescan(id)
  <2>1. PICK id : CancelRescan(id)
    BY <1>3
  <2> DEFINE chosen == {i \in ActiveIn(rescans) : rescans[i].id = id}
  <2>2. rescans' = WithStatus(rescans, chosen, "cancelled")
    BY <2>1 DEF CancelRescan
  <2>3. TasksOK(rescans', node.stream, epoch) /\ Onward(rescans, rescans')
    BY <1>1, <2>2, StatusKeepsTasks DEF EndStatus
  <2> QED
    BY <2>1, <2>3, TaskStepKeepsTables DEF CancelRescan
<1> QED
  BY <1>2, <1>3

(* A copy is taken, or comes back under a new epoch.                       *)
LEMMA OperatorKeepsTables ==
    ASSUME HubOK, TakeBackup \/ RestoreBackup
    PROVE  HubOK' /\ (epoch' = epoch => UNCHANGED rescans)
<1>1. CASE TakeBackup
  BY <1>1 DEF TakeBackup, HubOK, TablesHold, DatabaseOK, Database, databaseVars, contentVars
<1>2. CASE RestoreBackup
  <2>1. /\ epoch' = epoch + 1 /\ backup' = backup
        /\ node' = backup.node /\ hubChunks' = backup.chunks
        /\ hubSessions' = backup.sessions /\ messageBases' = backup.bases
        /\ orphans' = backup.orphans /\ rescans' = backup.rescans
    BY <1>2 DEF RestoreBackup
  <2>2. /\ epoch \in Nat /\ epoch + 1 \in Nat /\ epoch <= epoch + 1 /\ epoch + 1 # epoch
        /\ RowOK(backup.node) /\ backup.node.stream \in Nat
    BY DEF HubOK, DatabaseOK, RowOK
  <2>3. TasksOK(backup.rescans, backup.node.stream, epoch + 1)
    BY <2>2, TasksLater DEF HubOK, DatabaseOK
  <2> QED
    BY <2>1, <2>2, <2>3 DEF HubOK, TablesHold, DatabaseOK
<1> QED
  BY <1>1, <1>2

(* A node just paired.                                                     *)
LEMMA HubBegins ==
    ASSUME NEW stream \in Nat, HubInit(stream)
    PROVE  HubOK
<1>1. TablesHold
  BY DEF HubInit, TablesHold, RowOK, NodeRow, ContentOK, TasksOK
<1> QED
  BY <1>1 DEF HubInit, HubOK, TablesHold, DatabaseOK, Database
=============================================================================
