--------------------------- MODULE DeliveryProofs ---------------------------
(***************************************************************************)
(* What reaches the Hub: no upload the Worker waits for is refused, the    *)
(* Hub's tables stay well formed, synchronization implements Delivery,     *)
(* divergence heals and completed tasks are delivered.                     *)
(***************************************************************************)
EXTENDS SyncProofs, HubStoreProofs, WellFoundedInduction

(* An upload that may still be served carries the operation of its row, or *)
(* was confirmed before.                                                   *)
Matches(r) ==
    r.kind = "upload" =>
        /\ r.body.op \in SoundOperations
        /\ r.body.stream = streamId /\ r.body.sequence > confirmedSequence =>
             /\ r.body.sequence <= lastSequence
             /\ r.body.op = outbox[r.body.sequence]
RequestsMatch ==
    /\ \A r \in late : Matches(r)
    /\ ~Idle => Matches(awaited)

(* hub_chunks, served or in a backup, has nothing of a stream the Worker   *)
(* has not begun or is still recovering into.                              *)
Behind(chunks) ==
    \A t \in DOMAIN chunks :
        /\ t[1] <= streamId
        /\ recovery # None => t[1] # streamId
(* A row of hub_nodes in any but its first stream was put there by a       *)
(* recovery.                                                               *)
RowRecovered(row) == row.stream > 0 => row.recoveryEpoch # None
StreamsBegin ==
    /\ Behind(hubChunks) /\ Behind(backup.chunks)
    /\ RowRecovered(node) /\ RowRecovered(backup.node)
    /\ streamId = 0 => recovery = None /\ binding = 0

(* Where both sides agree, the Hub holds of the transfer in the middle of  *)
(* which the Worker is what was uploaded of it, of no other transfer       *)
(* anything, and remembers the operation whose receipt is not read yet.    *)
InTransfer(t) ==
    /\ node.confirmed \in Rows /\ outbox[node.confirmed].kind = "chunk"
    /\ outbox[node.confirmed].transfer = t
HeldExact ==
    Bound =>
        /\ \A t \in DOMAIN hubChunks : t[1] = streamId => InTransfer(t[2])
        /\ node.confirmed \in Rows /\ outbox[node.confirmed].kind = "chunk" =>
             Held(streamId, outbox[node.confirmed].transfer) = outbox[node.confirmed].index + 1
LastExact ==
    Bound /\ node.confirmed = confirmedSequence + 1 =>
        node.confirmed <= lastSequence /\ node.last = outbox[node.confirmed]

(* Before any recovery, metadata and deltas follow a snapshot of their     *)
(* session, applied already or further ahead in the queue.                 *)
Ahead(s, q) == \E p \in CommitsOf(s) : node.confirmed < p /\ p < q
NeedsCopy(op) == op.kind = "commit" => op.base # None
SnapshotsFirst ==
    epoch = 0 /\ streamId = 0 =>
        \A s \in Sessions :
            /\ sent[s] \in Captures => hubSessions[s] # None \/ Ahead(s, lastSequence + 1)
            /\ \A q \in OpsOf(s) : q > node.confirmed /\ NeedsCopy(outbox[q]) =>
                 hubSessions[s] # None \/ Ahead(s, q)

FollowInv ==
    RequestsMatch /\ StreamsBegin /\ HeldExact /\ LastExact /\ SnapshotsFirst

DeliveryInv == WorkerInv /\ NumbersInv /\ HubOK /\ DeltasExtend /\ FollowInv

----------------------------------------------------------------------------
(* The queue.                                                              *)

(* Collection saves a session, or leaves the queue and what was sent.      *)
LEMMA CollectSaves ==
    ASSUME WorkerInv, Collect
    PROVE  /\ UNCHANGED <<streamId, confirmedSequence, trimmed, recovery, binding>>
           /\ \/ UNCHANGED <<lastSequence, outbox, sent>>
              \/ \E s \in Sessions, c \in Captures, n \in ChunkCounts : SaveSession(s, c, n)
<1>1. /\ Tick /\ LoopTypeOK /\ RoundsAreOwn
  BY DEF Collect, WorkerInv, ScanInv
<1>2. CASE SavePage
  <2> DEFINE a == SourceList[scan.index]
  <2>1. scan \in Scans /\ a \in Agents
    BY <1>1, <1>2, SourceListAssumption DEF SavePage, LoopTypeOK, Scans
  <2>2. scan.page \in Pages(a) \cup {None}
    BY <1>1, <1>2, <2>1, SourceListAssumption DEF SavePage, Scans, Pages, RoundsAreOwn
  <2>3. PICK n \in ChunkCounts : SaveBatch(a, scan.page, n, scan.left = <<>>)
    BY <1>2 DEF SavePage
  <2> HIDE DEF a
  <2> QED
    BY <2>2, <2>3 DEF SaveBatch, Pages
<1>3. CASE ~SavePage
  <2>1. UNCHANGED workerVars
    BY <1>1, <1>3 DEF Tick, StartScan, DropPage, TickPaused
  <2> QED
    BY <2>1 DEF workerVars, queueVars, sessionVars
<1> QED
  BY <1>2, <1>3

(* Rows stay where they are when others are added.                         *)
LEMMA SavedGrows ==
    ASSUME QueueOK, TablesOK, NEW s \in Sessions, NEW c \in Captures, NEW n \in ChunkCounts,
           SaveSession(s, c, n), UNCHANGED trimmed
    PROVE  /\ lastSequence' \in Nat /\ lastSequence' >= lastSequence
           /\ \A q \in Rows : q \in Rows' /\ outbox'[q] = outbox[q]
<1>1. trimmed \in Nat /\ lastSequence \in Nat
  BY DEF QueueOK
<1>2. CASE UNCHANGED <<lastSequence, outbox, sent>>
  BY <1>1, <1>2 DEF Rows
<1>3. CASE \E m \in Nat \ {0} : \E ops : Enqueue(m, ops)
  BY <1>1, <1>3 DEF Rows, Enqueue
<1> QED
  BY <1>2, <1>3, SavedBrings

(* What is unconfirmed stays: rows are only added at the end and confirmed *)
(* at the front.                                                           *)
QueueKept ==
    /\ UNCHANGED <<streamId, recovery, binding>>
    /\ confirmedSequence' >= confirmedSequence /\ lastSequence' >= lastSequence
    /\ lastSequence' \in Nat /\ confirmedSequence' \in Nat /\ trimmed' \in Nat
    /\ \A q \in Unconfirmed : q > confirmedSequence' => outbox'[q] = outbox[q]

LEMMA CollectKeeps ==
    ASSUME WorkerInv, Collect
    PROVE  /\ QueueKept /\ UNCHANGED <<confirmedSequence, trimmed>>
           /\ \A q \in Rows : q \in Rows' /\ outbox'[q] = outbox[q]
<1>1. /\ QueueOK /\ TablesOK /\ streamId \in Nat /\ confirmedSequence \in Nat
      /\ trimmed \in Nat /\ lastSequence \in Nat /\ trimmed <= confirmedSequence
  BY DEF WorkerInv, ScanInv, IInv, QueueOK, WatermarkInQueue
<1>2. UNCHANGED <<streamId, confirmedSequence, trimmed, recovery, binding>>
  BY CollectSaves
<1>3. /\ lastSequence' \in Nat /\ lastSequence' >= lastSequence
      /\ \A q \in Rows : q \in Rows' /\ outbox'[q] = outbox[q]
  <2>1. CASE UNCHANGED <<lastSequence, outbox, sent>>
    BY <1>1, <1>2, <2>1 DEF Rows
  <2>2. CASE \E s \in Sessions, c \in Captures, n \in ChunkCounts : SaveSession(s, c, n)
    BY <1>1, <1>2, <2>2, SavedGrows
  <2> QED
    BY <2>1, <2>2, CollectSaves
<1>4. \A q \in Unconfirmed : q \in Rows
  BY <1>1 DEF Unconfirmed, Rows
<1> QED
  BY <1>1, <1>2, <1>3, <1>4 DEF QueueKept

LEMMA UploadDoneKeeps ==
    ASSUME WorkerInv, NumbersInv, UploadDone
    PROVE  LET q == confirmedSequence + 1
           IN  /\ QueueKept /\ UNCHANGED lastSequence /\ confirmedSequence' = q
               /\ q \in Unconfirmed /\ Acknowledge(streamId, q, outbox[q])
               /\ IF outbox[q].kind = "chunk" THEN UNCHANGED <<trimmed, outbox>>
                  ELSE trimmed' = q /\ \A r \in Rows' : outbox'[r] = outbox[r]
<1>1. /\ trimmed \in Nat /\ lastSequence \in Nat /\ confirmedSequence \in Nat
      /\ trimmed <= confirmedSequence /\ streamId \in Nat
  BY DEF WorkerInv, ScanInv, IInv, QueueOK, WatermarkInQueue
<1> DEFINE q == confirmedSequence + 1
<1>2. answer.body.sequence = q
  BY DEF UploadDone, Got, NumbersInv, AnswerCurrent, AwaitedCurrent
<1>3. /\ Acknowledge(answer.body.stream, q, answer.body.op)
      /\ answer.body.stream = streamId /\ answer.body.op = outbox[q] /\ q = NextUpload
  BY <1>2 DEF UploadDone, Acknowledge
<1>4. q \in Nat /\ q \in Unconfirmed
  BY <1>1, <1>3, NoneAssumption DEF NextUpload, Unconfirmed
<1> HIDE DEF q
<1>5. /\ Acknowledge(streamId, q, outbox[q]) /\ UNCHANGED lastSequence /\ confirmedSequence' = q
      /\ UNCHANGED <<streamId, recovery, binding>>
      /\ IF outbox[q].kind = "chunk" THEN UNCHANGED <<trimmed, outbox>>
         ELSE trimmed' = q /\ \A r \in Rows' : outbox'[r] = outbox[r]
  BY <1>1, <1>3 DEF Acknowledge, Rows
<1>6. \A r \in Unconfirmed : r > q => outbox'[r] = outbox[r]
  BY <1>1, <1>3, <1>4 DEF Acknowledge, Unconfirmed
<1> QED
  BY <1>1, <1>4, <1>5, <1>6 DEF QueueKept, q

(* Every step of the loop is a call of the store, or leaves the queue.     *)
LEMMA ExtendStays ==
    ASSUME WorkerInv, NumbersInv, DeltasExtend, [Next]_vars
    PROVE  DeltasExtend'
<1>1. QueueOK /\ TablesOK
  BY DEF WorkerInv, ScanInv, IInv
<1>2. CASE UNCHANGED <<trimmed, lastSequence, outbox>>
  BY <1>1, <1>2, KeptExtend
<1>3. CASE UploadDone
  BY <1>1, <1>3, UploadDoneKeeps, KeptExtend
<1>4. CASE HelloStartsRecovery
  BY <1>1, <1>2, <1>4, KeptExtend
  DEF HelloStartsRecovery, PrepareRecovery, workerVars, queueVars
<1>5. CASE Collect
  <2>1. CASE UNCHANGED <<lastSequence, outbox, sent>>
    BY <1>2, <1>5, <2>1, CollectSaves
  <2>2. CASE \E s \in Sessions, c \in Captures, n \in ChunkCounts : SaveSession(s, c, n)
    BY <1>1, <1>5, <2>2, CollectSaves, SavedExtends
  <2> QED
    BY <1>5, <2>1, <2>2, CollectSaves
<1>6. CASE \/ SendRecover \/ SendHello \/ SendUpload \/ HubServe \/ HubBusy \/ HubLeased
           \/ HubServeLate \/ Lose \/ Crash \/ Change \/ ScanFails \/ HubUser \/ HubOperator
           \/ UNCHANGED vars
  <2>1. UNCHANGED workerVars
    BY <1>6
    DEF SendRecover, SendHello, SendUpload, Send, HubServe, HubBusy, HubLeased, HubServeLate,
        Lose, Crash, Fault, Change, Edit, ScanFails, FailPage, HubUser, HubOperator, vars
  <2> QED
    BY <1>2, <2>1 DEF workerVars, queueVars
<1>7. CASE RecoverDone \/ RecoverRefused \/ HelloStartsRescan \/ HelloOk \/ HelloRefused
           \/ HelloBusy \/ UploadRefused \/ UploadBusy
  <2>1. UNCHANGED queueVars
    BY <1>7
    DEF RecoverDone, FinishRecovery, RecoverRefused, HelloStartsRescan, HelloOk, HelloRefused,
        HelloBusy, UploadRefused, UploadBusy, SetPause, workerVars
  <2> QED
    BY <1>2, <2>1 DEF queueVars
<1> QED
  BY <1>3, <1>4, <1>5, <1>6, <1>7 DEF Next, ReadAnswer

----------------------------------------------------------------------------
(* The Hub's tables.                                                       *)

(* What the Hub does for a request, at once or late.                       *)
ServedAs(r) ==
    \/ r.kind = "recover" /\ RecoverWorker(r.body)
    \/ r.kind = "upload" /\ ReceiveUpload(r.body)
    \/ r.kind = "hello" /\ \E c : WorkerHello(r.body, c)
    \/ UNCHANGED hubVars

LEMMA ServeIsServed == HubServe => ServedAs(awaited)
BY DEF HubServe, Serve, ServedAs

LEMMA LateIsServed ==
    ASSUME RequestsTimely, HubServeLate
    PROVE  \E r \in late : ServedAs(r) /\ late' = late \ {r}
<1>1. PICK r \in late : Discarded(r) /\ late' = late \ {r}
  BY DEF HubServeLate
<1>2. Timely(r)
  BY <1>1 DEF RequestsTimely
<1>3. ServedAs(r)
  BY <1>1, <1>2 DEF Discarded, ServedAs, Timely
<1> QED
  BY <1>1, <1>3

LEMMA ServedKeepsTables ==
    ASSUME HubOK, NumbersInv, NEW r, Timely(r), Matches(r), ServedAs(r)
    PROVE  HubOK' /\ Onward(rescans, rescans') /\ UNCHANGED <<epoch, backup>>
<1>1. CASE r.kind = "recover" /\ RecoverWorker(r.body)
  <2>1. /\ r.body \in Recoveries /\ r.body.epoch <= Goal
        /\ r.body.epoch = Goal => r.body.newStream = streamId
    BY <1>1 DEF Timely
  <2>2. r.body.epoch = epoch
    BY <1>1, RefusalAssumption DEF RecoverWorker, RecoverRefusal, Refusals
  <2>3. r.body.newStream = streamId /\ streamId \in Nat /\ node.stream <= streamId
    BY <2>1, <2>2 DEF NumbersInv, HubNumbers, WorkerNumbers, RowBehind, Goal, Recoveries
  <2> QED
    BY <1>1, <2>3, RecoverKeepsTables DEF RecoverWorker
<1>2. CASE r.kind = "upload" /\ ReceiveUpload(r.body)
  BY <1>2, UploadKeepsTables DEF Timely, Matches, ReceiveUpload
<1>3. CASE \E c : WorkerHello(r.body, c)
  BY <1>3, HelloKeepsTables DEF WorkerHello
<1>4. CASE UNCHANGED hubVars
  <2>1. rescans \in Seq(RescanTasks)
    BY DEF HubOK, TablesHold, TasksOK
  <2>2. Onward(rescans, rescans)
    BY <2>1, LenProperties DEF Onward
  <2> QED
    BY <1>4, <2>2 DEF HubOK, TablesHold, hubVars, databaseVars, contentVars
<1> QED
  BY <1>1, <1>2, <1>3, <1>4 DEF ServedAs

(* Every step keeps the tables; ended tasks stay, but for a restore.       *)
LEMMA TablesStay ==
    ASSUME HubOK, NumbersInv, RequestsMatch, [Next]_vars
    PROVE  HubOK' /\ (epoch' = epoch => Onward(rescans, rescans'))
<1>1. rescans \in Seq(RescanTasks)
  BY DEF HubOK, TablesHold, TasksOK
<1>2. Onward(rescans, rescans)
  BY <1>1, LenProperties DEF Onward
<1>3. CASE UNCHANGED hubVars
  BY <1>2, <1>3 DEF HubOK, TablesHold, hubVars, databaseVars, contentVars
<1>4. CASE HubServe
  BY <1>4, ServeIsServed, ServedKeepsTables
  DEF HubServe, NumbersInv, RequestsTimely, RequestsMatch
<1>5. CASE HubServeLate
  <2>1. PICK r \in late : ServedAs(r)
    BY <1>5, LateIsServed DEF NumbersInv
  <2> QED
    BY <2>1, ServedKeepsTables DEF NumbersInv, RequestsTimely, RequestsMatch
<1>6. CASE HubUser
  <2>1. \/ \E agents \in SUBSET Agents : RequestRescan(agents)
        \/ \E id : CancelRescan(id)
    BY <1>6 DEF HubUser
  <2> QED
    BY <2>1, UserKeepsTables
<1>7. CASE HubOperator
  BY <1>2, <1>7, OperatorKeepsTables DEF HubOperator
<1>8. CASE \/ SendRecover \/ SendHello \/ SendUpload \/ HubBusy \/ HubLeased \/ Lose \/ Crash
           \/ Change \/ Collect \/ ScanFails \/ UNCHANGED vars
  BY <1>3, <1>8
  DEF SendRecover, SendHello, SendUpload, Send, HubBusy, HubLeased, Lose, Crash, Fault, Change,
      Collect, ScanFails, vars
<1>9. CASE ReadAnswer
  BY <1>3, <1>9
  DEF ReadAnswer, RecoverDone, RecoverRefused, HelloStartsRecovery, HelloStartsRescan, HelloOk,
      HelloRefused, HelloBusy, UploadDone, UploadRefused, UploadBusy
<1> QED
  BY <1>4, <1>5, <1>6, <1>7, <1>8, <1>9 DEF Next

----------------------------------------------------------------------------
(* Requests carry what their rows hold.                                    *)

(* The queue as far as a request can tell.                                 *)
LEMMA MatchesKept ==
    ASSUME QueueKept, QueueOK, NEW r, Timely(r), Matches(r)
    PROVE  Matches(r)'
<1>1. /\ confirmedSequence \in Nat /\ lastSequence \in Nat
      /\ UNCHANGED streamId /\ confirmedSequence' >= confirmedSequence
      /\ lastSequence' >= lastSequence /\ lastSequence' \in Nat /\ confirmedSequence' \in Nat
  BY DEF QueueOK, QueueKept
<1>2. ASSUME r.kind = "upload"
      PROVE  /\ r.body.op \in SoundOperations
             /\ r.body.stream = streamId' /\ r.body.sequence > confirmedSequence' =>
                  /\ r.body.sequence <= lastSequence'
                  /\ r.body.op = outbox'[r.body.sequence]
  <2>1. r.body.sequence \in Nat
    BY <1>2 DEF Timely
  <2>2. ASSUME r.body.stream = streamId, r.body.sequence > confirmedSequence'
        PROVE  /\ r.body.sequence <= lastSequence'
               /\ r.body.op = outbox'[r.body.sequence]
    <3>1. r.body.sequence > confirmedSequence
      BY <1>1, <2>1, <2>2
    <3>2. r.body.sequence <= lastSequence /\ r.body.op = outbox[r.body.sequence]
      BY <1>2, <2>2, <3>1 DEF Matches
    <3>3. r.body.sequence \in Unconfirmed
      BY <1>1, <2>1, <3>1, <3>2 DEF Unconfirmed
    <3> QED
      BY <1>1, <2>1, <2>2, <3>2, <3>3 DEF QueueKept
  <2> QED
    BY <1>1, <1>2, <2>2 DEF Matches
<1> QED
  BY <1>2 DEF Matches

LEMMA MatchesStay ==
    ASSUME WorkerInv, NumbersInv, DeltasExtend, RequestsMatch, [Next]_vars
    PROVE  RequestsMatch'
<1>1. /\ QueueOK /\ confirmedSequence \in Nat /\ lastSequence \in Nat /\ trimmed \in Nat
      /\ trimmed <= confirmedSequence /\ streamId \in Nat
      /\ \A q \in Rows : outbox[q] \in SoundOperations
  BY DEF WorkerInv, ScanInv, IInv, QueueOK, WatermarkInQueue, DeltasExtend, SoundRow,
      SoundOperations
<1>2. ASSUME QueueKept, late' \subseteq late \/ (~Idle /\ late' \subseteq late \cup {awaited}),
             ~Idle' => ~Idle /\ awaited' = awaited
      PROVE  RequestsMatch'
  <2>1. ASSUME NEW r \in late PROVE Matches(r)'
    BY <1>1, <1>2, MatchesKept DEF RequestsMatch, NumbersInv, RequestsTimely
  <2>2. ASSUME ~Idle PROVE Matches(awaited) /\ Timely(awaited)
    BY <2>2 DEF RequestsMatch, NumbersInv, RequestsTimely
  <2>3. ASSUME ~Idle, NEW r, r = awaited PROVE Matches(r)'
    BY <1>1, <1>2, <2>2, <2>3, MatchesKept
  <2>4. \A r \in late' : Matches(r)'
    BY <1>2, <2>1, <2>3
  <2>5. ~Idle' => Matches(awaited)'
    BY <1>2, <2>3 DEF Matches
  <2> QED
    BY <2>4, <2>5 DEF RequestsMatch
<1>3. ASSUME UNCHANGED <<queueVars, recovery, binding>>
      PROVE  QueueKept
  BY <1>1, <1>3 DEF QueueKept, queueVars
<1>4. CASE SendRecover \/ SendHello
  <2>1. QueueKept /\ late' = late
    BY <1>3, <1>4 DEF SendRecover, SendHello, Send, workerVars
  <2>2. awaited'.kind \in {"recover", "hello"}
    BY <1>4 DEF SendRecover, SendHello, Send, Request
  <2>3. ASSUME NEW r \in late PROVE Matches(r)'
    BY <1>1, <2>1, MatchesKept DEF RequestsMatch, NumbersInv, RequestsTimely
  <2> QED
    BY <2>1, <2>2, <2>3 DEF RequestsMatch, Matches
<1>5. CASE SendUpload
  <2>1. /\ QueueKept /\ late' = late
        /\ UNCHANGED <<streamId, confirmedSequence, lastSequence, outbox>>
    BY <1>3, <1>5 DEF SendUpload, Send, workerVars, queueVars
  <2>2. /\ confirmedSequence + 1 \in Unconfirmed /\ NextUpload = confirmedSequence + 1
        /\ awaited' = Request("upload", Upload(binding, streamId, NextUpload,
                                              outbox[NextUpload]))
    BY <1>1, <1>5 DEF SendUpload, Send, NextUpload, Unconfirmed
  <2>3. /\ awaited'.kind = "upload" /\ awaited'.body.op = outbox[confirmedSequence + 1]
        /\ awaited'.body.sequence = confirmedSequence + 1
    BY <2>2 DEF Request, Upload
  <2>4. /\ confirmedSequence + 1 \in Rows /\ confirmedSequence + 1 <= lastSequence
    BY <1>1, <2>2 DEF Unconfirmed, Rows
  <2>5. Matches(awaited)'
    BY <1>1, <2>1, <2>3, <2>4 DEF Matches
  <2>6. ASSUME NEW r \in late PROVE Matches(r)'
    BY <1>1, <2>1, MatchesKept DEF RequestsMatch, NumbersInv, RequestsTimely
  <2> QED
    BY <2>1, <2>5, <2>6 DEF RequestsMatch
<1>6. CASE HubServe \/ HubBusy \/ HubLeased \/ HubServeLate \/ Change \/ ScanFails \/ HubUser
           \/ HubOperator \/ UNCHANGED vars
  <2>1. UNCHANGED <<queueVars, recovery, binding, awaited>> /\ late' \subseteq late
    BY <1>6
    DEF HubServe, HubBusy, HubLeased, HubServeLate, Change, Edit, ScanFails, Fault, FailPage,
        HubUser, HubOperator, loopVars, vars, workerVars
  <2> QED
    BY <1>2, <1>3, <2>1 DEF Idle
<1>7. CASE Lose \/ Crash
  <2>1. /\ UNCHANGED <<queueVars, recovery, binding>> /\ awaited' = None
        /\ late' \subseteq late \/ (~Idle /\ late' \subseteq late \cup {awaited})
    BY <1>7 DEF Lose, Crash, Fault, Abandon, workerVars
  <2> QED
    BY <1>2, <1>3, <2>1 DEF Idle
<1>8. CASE Collect
  <2>1. QueueKept /\ UNCHANGED <<awaited, late>>
    BY <1>8, CollectKeeps DEF Collect, loopVars
  <2> QED
    BY <1>2, <2>1 DEF Idle
<1>9. CASE UploadDone
  <2>1. QueueKept /\ awaited' = None /\ late' = late
    BY <1>9, UploadDoneKeeps DEF UploadDone, Read
  <2> QED
    BY <1>2, <2>1 DEF Idle
<1>10. CASE RecoverDone
  <2>1. UNCHANGED queueVars /\ awaited' = None /\ late' = late
    BY <1>10 DEF RecoverDone, FinishRecovery, Read
  <2> QED
    BY <2>1 DEF RequestsMatch, Matches, Idle, queueVars
<1>11. CASE HelloStartsRecovery
  <2>1. PrepareRecovery(answer.body.epoch) /\ awaited' = None /\ late' = late
    BY <1>11 DEF HelloStartsRecovery, Read
  <2>2. CASE UNCHANGED workerVars
    BY <2>1, <2>2 DEF RequestsMatch, Matches, Idle, workerVars, queueVars
  <2>3. CASE streamId' = streamId + 1
    <3>1. ASSUME NEW r \in late PROVE Matches(r)'
      <4>1. Timely(r) /\ Matches(r)
        BY DEF NumbersInv, RequestsTimely, RequestsMatch
      <4>2. r.kind = "upload" => r.body.stream \in Nat /\ r.body.stream <= streamId
        BY <4>1 DEF Timely
      <4>3. r.kind = "upload" => r.body.stream # streamId'
        BY <1>1, <2>3, <4>2
      <4> QED
        BY <4>1, <4>3 DEF Matches
    <3> QED
      BY <2>1, <3>1 DEF RequestsMatch, Idle
  <2> QED
    BY <2>1, <2>2, <2>3 DEF PrepareRecovery, ResetQueue
<1>12. CASE RecoverRefused \/ HelloStartsRescan \/ HelloOk \/ HelloRefused \/ HelloBusy
            \/ UploadRefused \/ UploadBusy
  <2>1. UNCHANGED <<queueVars, recovery, binding>> /\ awaited' = None /\ late' = late
    BY <1>12
    DEF RecoverRefused, HelloStartsRescan, HelloOk, HelloRefused, HelloBusy, UploadRefused,
        UploadBusy, SetPause, Read, workerVars
  <2> QED
    BY <1>2, <1>3, <2>1 DEF Idle
<1> QED
  BY <1>4, <1>5, <1>6, <1>7, <1>8, <1>9, <1>10, <1>11, <1>12 DEF Next, ReadAnswer

----------------------------------------------------------------------------
(* The Hub follows the queue.                                              *)

(* The numbers all of it is about.                                         *)
LEMMA Ranges ==
    ASSUME WorkerInv, NumbersInv
    PROVE  /\ QueueOK /\ TablesOK
           /\ streamId \in Nat /\ confirmedSequence \in Nat /\ trimmed \in Nat
           /\ lastSequence \in Nat /\ trimmed <= confirmedSequence
           /\ confirmedSequence <= lastSequence
           /\ epoch \in Nat /\ node.confirmed \in Nat /\ node.stream \in Nat
           /\ node.stream <= streamId
           /\ Bound => /\ node.stream = streamId
                       /\ node.confirmed \in {confirmedSequence, confirmedSequence + 1}
BY DEF WorkerInv, ScanInv, IInv, QueueOK, WatermarkInQueue, NumbersInv, HubNumbers, RowBehind,
    Watermarks

(* An upload that is applied is the operation after the Hub's watermark.   *)
LEMMA NextApplied ==
    ASSUME WorkerInv, NumbersInv, NEW r, Timely(r), Matches(r), r.kind = "upload",
           ReceiveUpload(r.body), ~Replayed(r.body)
    PROVE  /\ Bound /\ r.body.stream = streamId /\ node.confirmed = confirmedSequence
           /\ r.body.sequence = confirmedSequence + 1
           /\ confirmedSequence + 1 \in Unconfirmed /\ confirmedSequence + 1 \in Rows
           /\ r.body.op = outbox[confirmedSequence + 1] /\ r.body.op \in SoundOperations
           /\ node' = NodeRow(node.stream, confirmedSequence + 1, r.body.op,
                              node.recoveryEpoch)
           /\ OperationRefusal(streamId, r.body.op) = None
<1>1. /\ r.body.epoch \in Nat /\ r.body.stream \in Nat /\ r.body.sequence \in Nat
      /\ r.body.epoch <= binding
      /\ r.body.stream = streamId => r.body.sequence <= confirmedSequence + 1
  BY DEF Timely
<1>2. /\ r.body.epoch = epoch /\ r.body.stream = node.stream
      /\ r.body.sequence = node.confirmed + 1
      /\ OperationRefusal(r.body.stream, r.body.op) = None
  BY RefusalAssumption DEF ReceiveUpload, UploadRefusal, Refusals, Replayed
<1>3. Bound
  BY <1>1, <1>2 DEF NumbersInv, HubNumbers, WorkerNumbers, Goal, Bound, Recoveries
<1>4. /\ r.body.stream = streamId /\ node.confirmed = confirmedSequence
      /\ r.body.sequence = confirmedSequence + 1
  BY <1>1, <1>2, <1>3, Ranges
<1>5. /\ confirmedSequence + 1 <= lastSequence /\ r.body.op = outbox[confirmedSequence + 1]
      /\ r.body.op \in SoundOperations
  BY <1>4, Ranges DEF Matches
<1>6. confirmedSequence + 1 \in Unconfirmed /\ confirmedSequence + 1 \in Rows
  BY <1>5, Ranges DEF Unconfirmed, Rows
<1>7. node' = NodeRow(node.stream, r.body.sequence, r.body.op, node.recoveryEpoch)
  BY DEF ReceiveUpload
<1> QED
  BY <1>2, <1>3, <1>4, <1>5, <1>6, <1>7

Follows == StreamsBegin /\ HeldExact /\ LastExact /\ SnapshotsFirst
queueNumbers == <<numbers, trimmed, lastSequence, outbox>>
hubNumbers == <<epoch, node, hubChunks, hubSessions, backup>>

(* Steps that touch neither the queue nor what the Hub made of it.         *)
LEMMA FollowsSame ==
    ASSUME Follows, UNCHANGED <<queueNumbers, hubNumbers>>,
           \A s \in Sessions : sent'[s] \in Captures => sent'[s] = sent[s]
    PROVE  Follows'
<1>1. UNCHANGED <<streamId, confirmedSequence, binding, recovery, trimmed, lastSequence, outbox,
                  epoch, node, hubChunks, hubSessions, backup>>
  BY DEF queueNumbers, numbers, hubNumbers
<1>2. StreamsBegin'
  BY <1>1 DEF Follows, StreamsBegin, Behind, RowRecovered
<1>3. HeldExact' /\ LastExact'
  BY <1>1 DEF Follows, HeldExact, LastExact, Bound, InTransfer, Held, Rows
<1>4. SnapshotsFirst'
  <2>1. \A s \in Sessions : UNCHANGED <<OpsOf(s), CommitsOf(s)>>
    BY <1>1 DEF OpsOf, CommitsOf, Rows
  <2> QED
    BY <1>1, <2>1 DEF Follows, SnapshotsFirst, Ahead, NeedsCopy
<1> QED
  BY <1>2, <1>3, <1>4 DEF Follows

(* recover_worker, in a stream already in use or into a newer one.         *)
LEMMA RecoverFollows ==
    ASSUME WorkerInv, NumbersInv, Follows, NEW r \in Recoveries, r.epoch <= Goal,
           r.epoch = Goal => r.newStream = streamId, RecoverWorker(r),
           UNCHANGED <<queueNumbers, sent>>
    PROVE  Follows'
<1>1. r.epoch = epoch /\ r.newStream = streamId
  <2>1. r.epoch = epoch
    BY RefusalAssumption DEF RecoverWorker, RecoverRefusal, Refusals
  <2> QED
    BY <2>1 DEF NumbersInv, HubNumbers, WorkerNumbers, Goal, Recoveries
<1>2. CASE node.stream = streamId
  <2>1. UNCHANGED hubNumbers
    BY <1>1, <1>2 DEF RecoverWorker, hubNumbers, databaseVars, contentVars
  <2> QED
    BY <2>1, FollowsSame
<1>3. CASE node.stream # streamId
  <2>1. /\ node' = NodeRow(streamId, 0, None, epoch) /\ DOMAIN hubChunks' = {}
        /\ UNCHANGED <<epoch, backup, hubSessions, sent>>
        /\ UNCHANGED <<streamId, confirmedSequence, binding, recovery, trimmed, lastSequence,
                       outbox>>
    BY <1>1, <1>3 DEF RecoverWorker, queueNumbers, numbers
  <2>2. node'.stream = streamId /\ node'.recoveryEpoch = epoch /\ epoch # None
    BY <2>1, Ranges, NoneAssumption DEF NodeRow
  <2>3. StreamsBegin'
    BY <2>1, <2>2 DEF Follows, StreamsBegin, Behind, RowRecovered
  <2>4. ~Bound
    BY <1>3, Ranges
  <2>5. ~(epoch = 0 /\ streamId = 0)
    BY <2>4 DEF Follows, StreamsBegin, Bound
  <2>6. HeldExact' /\ LastExact' /\ SnapshotsFirst'
    BY <2>1, <2>4, <2>5 DEF HeldExact, LastExact, SnapshotsFirst, Bound
  <2> QED
    BY <2>3, <2>6 DEF Follows
<1> QED
  BY <1>2, <1>3

(* A chunk extends the transfer in the middle of which the Hub is, and a   *)
(* commit ends it.                                                         *)
LEMMA AppliedHeld ==
    ASSUME WorkerInv, NumbersInv, HubOK, Follows, NEW r, Timely(r), Matches(r), r.kind = "upload",
           ReceiveUpload(r.body), ~Replayed(r.body), UNCHANGED <<queueNumbers, sent>>
    PROVE  HeldExact' /\ LastExact'
<1> DEFINE k == confirmedSequence
           op == r.body.op
<1>1. /\ Bound /\ r.body.stream = streamId /\ node.confirmed = k
      /\ k + 1 \in Rows /\ op = outbox[k + 1] /\ op \in Operations
      /\ node'.confirmed = k + 1 /\ node'.last = op /\ node'.stream = node.stream
  BY NextApplied DEF NodeRow, SoundOperations
<1>2. /\ UNCHANGED <<streamId, confirmedSequence, binding, recovery, trimmed, lastSequence, outbox>>
      /\ UNCHANGED <<epoch, Rows>>
  BY DEF queueNumbers, numbers, ReceiveUpload, Rows
<1>3. k \in Nat /\ k <= lastSequence /\ trimmed \in Nat /\ lastSequence \in Nat /\ k + 1 <= lastSequence
  BY <1>1, Ranges DEF Rows
<1>4. k \in Rows /\ outbox[k].kind = "chunk" =>
        /\ op.kind \in {"chunk", "commit"} /\ op.transfer = outbox[k].transfer
        /\ op.kind = "chunk" => op.index = outbox[k].index + 1
  BY <1>1, <1>3, Ranges DEF QueueOK, WholeTransfers, Whole, ChunkFits, Rows
<1>5. \A t \in DOMAIN hubChunks : t[1] = streamId =>
        /\ k \in Rows /\ outbox[k].kind = "chunk" /\ outbox[k].transfer = t[2]
  BY <1>1 DEF Follows, HeldExact, InTransfer
<1>6. \A t \in DOMAIN hubChunks : t = <<t[1], t[2]>>
  BY DEF HubOK, TablesHold, ContentOK
<1>7. LastExact'
  BY <1>1, <1>2, <1>3 DEF LastExact
<1>8. CASE ApplyChunk(r.body.stream, op)
  <2>1. /\ op.kind = "chunk"
        /\ hubChunks' = With(hubChunks, <<streamId, op.transfer>>, op.index + 1)
    BY <1>1, <1>8 DEF ApplyChunk
  <2>2. ASSUME NEW t \in DOMAIN hubChunks', t[1] = streamId
        PROVE  op.transfer = t[2]
    BY <1>4, <1>5, <2>1, <2>2 DEF With
  <2>3. /\ <<streamId, op.transfer>> \in DOMAIN hubChunks'
        /\ hubChunks'[<<streamId, op.transfer>>] = op.index + 1
    BY <2>1 DEF With
  <2>4. HeldExact'
    BY <1>1, <1>2, <2>1, <2>2, <2>3 DEF HeldExact, InTransfer, Held
  <2> QED
    BY <1>7, <2>4
<1>9. CASE ApplyCommit(r.body.stream, op) \/ OrphanCommit(r.body.stream, op)
  <2>1. /\ op.kind = "commit"
        /\ hubChunks' = Without(hubChunks, <<streamId, op.transfer>>)
    BY <1>1, <1>9 DEF ApplyCommit, OrphanCommit
  <2>2. DOMAIN hubChunks' = DOMAIN hubChunks \ {<<streamId, op.transfer>>}
    BY <2>1 DEF Without
  <2>3. ASSUME NEW t \in DOMAIN hubChunks', t[1] = streamId
        PROVE  FALSE
    BY <1>4, <1>5, <1>6, <2>2, <2>3
  <2> QED
    BY <1>1, <1>2, <1>7, <2>1, <2>3 DEF HeldExact, InTransfer
<1>10. CASE ApplyMetadata(op) \/ OrphanMetadata(op)
  <2>1. op.kind = "metadata" /\ UNCHANGED hubChunks
    BY <1>10 DEF ApplyMetadata, OrphanMetadata
  <2> QED
    BY <1>1, <1>2, <1>4, <1>5, <1>7, <2>1 DEF HeldExact, InTransfer
<1> QED
  BY <1>8, <1>9, <1>10 DEF ReceiveUpload

(* The first operation of a session that is applied is a snapshot.         *)
LEMMA AppliedFirst ==
    ASSUME WorkerInv, NumbersInv, HubOK, Follows, NEW r, Timely(r), Matches(r),
           r.kind = "upload", ReceiveUpload(r.body), ~Replayed(r.body),
           UNCHANGED <<queueNumbers, sent>>
    PROVE  SnapshotsFirst'
<1> DEFINE k == confirmedSequence
           op == r.body.op
<1>1. /\ node.confirmed = k /\ k + 1 \in Rows /\ op = outbox[k + 1]
      /\ op \in SoundOperations /\ op \in Operations /\ node'.confirmed = k + 1
  BY NextApplied DEF NodeRow, SoundOperations
<1>2. UNCHANGED <<streamId, trimmed, lastSequence, outbox, epoch, sent>>
  BY DEF queueNumbers, numbers, ReceiveUpload
<1>3. k \in Nat /\ trimmed \in Nat /\ lastSequence \in Nat
  BY Ranges
<1>4. \A s \in Sessions : UNCHANGED <<OpsOf(s), CommitsOf(s)>>
  BY <1>2 DEF OpsOf, CommitsOf, Rows
<1> SUFFICES ASSUME epoch = 0, streamId = 0, NEW s \in Sessions
             PROVE  /\ sent[s] \in Captures =>
                         hubSessions'[s] # None \/ Ahead(s, lastSequence + 1)'
                    /\ \A q \in OpsOf(s) : q > k + 1 /\ NeedsCopy(outbox[q]) =>
                         hubSessions'[s] # None \/ Ahead(s, q)'
  BY <1>1, <1>2, <1>4 DEF SnapshotsFirst, NeedsCopy
<1>5. /\ sent[s] \in Captures => hubSessions[s] # None \/ Ahead(s, lastSequence + 1)
      /\ \A q \in OpsOf(s) : q > k /\ NeedsCopy(outbox[q]) =>
           hubSessions[s] # None \/ Ahead(s, q)
  BY <1>1 DEF Follows, SnapshotsFirst
<1>6. hubSessions[s] # None => hubSessions'[s] # None
  <2>1. CASE ApplyChunk(r.body.stream, op) \/ OrphanCommit(r.body.stream, op) \/ OrphanMetadata(op)
    BY <2>1 DEF ApplyChunk, OrphanCommit, OrphanMetadata
  <2>2. CASE ApplyCommit(r.body.stream, op)
    <3>1. hubSessions' = [hubSessions EXCEPT ![op.session] = op.capture]
      BY <1>1, <2>2, CommitKeepsContent DEF HubOK
    <3>2. op.capture # None
      BY <1>1, <2>2, CaptureAssumption DEF ApplyCommit, Operations
    <3>3. hubSessions \in [Sessions -> Contents \cup {None}]
      BY DEF HubOK, TablesHold, ContentOK
    <3> QED
      BY <3>1, <3>2, <3>3
  <2>3. CASE ApplyMetadata(op)
    <3>1. ContentOK(hubChunks', hubSessions', messageBases', orphans')
      BY <1>1, <2>3, MetadataKeepsContent DEF HubOK
    <3>2. /\ hubSessions \in [Sessions -> Contents \cup {None}]
          /\ hubSessions' = [hubSessions EXCEPT ![op.session].title = op.title]
          /\ hubSessions[op.session] # None
      BY <2>3 DEF HubOK, TablesHold, ContentOK, ApplyMetadata
    <3>3. CASE s # op.session
      BY <3>2, <3>3
    <3>4. CASE s = op.session
      <4>1. hubSessions[s] \in Contents /\ op.title \in Titles
        BY <1>1, <2>3, <3>2, <3>4 DEF ApplyMetadata, Operations
      <4>2. hubSessions'[s] = [hubSessions[s] EXCEPT !.title = op.title]
        BY <3>2, <3>4
      <4>3. hubSessions'[s] \in Contents
        BY <4>1, <4>2 DEF Contents
      <4> QED
        BY <4>3, CaptureAssumption
    <3> QED
      BY <3>3, <3>4
  <2> QED
    BY <2>1, <2>2, <2>3 DEF ReceiveUpload
<1>7. k + 1 \in CommitsOf(s) => hubSessions'[s] # None
  <2> SUFFICES ASSUME k + 1 \in CommitsOf(s)
               PROVE  hubSessions'[s] # None
    OBVIOUS
  <2>1. op.kind = "commit" /\ op.session = s /\ k + 1 \in OpsOf(s)
    BY <1>1 DEF CommitsOf, OpsOf
  <2>2. CASE op.base # None
    <3>1. ~Ahead(s, k + 1)
      BY <1>1, <1>3 DEF Ahead, CommitsOf, OpsOf, Rows
    <3>2. hubSessions[s] # None
      BY <1>1, <1>3, <1>5, <2>1, <2>2, <3>1 DEF NeedsCopy
    <3> QED
      BY <1>6, <3>2
  <2>3. CASE op.base = None
    <3>1. ApplyCommit(r.body.stream, op)
      BY <2>1, <2>3
      DEF ReceiveUpload, ApplyChunk, OrphanCommit, ApplyMetadata, OrphanMetadata, BaseHeld
    <3>2. hubSessions' = [hubSessions EXCEPT ![op.session] = op.capture]
      BY <1>1, <3>1, CommitKeepsContent DEF HubOK
    <3>3. op.capture # None
      BY <1>1, <2>1, CaptureAssumption DEF Operations
    <3>4. hubSessions \in [Sessions -> Contents \cup {None}]
      BY DEF HubOK, TablesHold, ContentOK
    <3> QED
      BY <2>1, <3>2, <3>3, <3>4
  <2> QED
    BY <2>2, <2>3
<1>8. ASSUME NEW q \in Nat, Ahead(s, q), hubSessions'[s] = None
      PROVE  Ahead(s, q)'
  <2>1. PICK p \in CommitsOf(s) : k < p /\ p < q
    BY <1>1, <1>8 DEF Ahead
  <2>2. p # k + 1 /\ p \in Nat
    BY <1>3, <1>7, <1>8, <2>1 DEF CommitsOf, OpsOf, Rows
  <2> QED
    BY <1>1, <1>3, <1>4, <2>1, <2>2 DEF Ahead
<1>9. \A q \in OpsOf(s) : q \in Nat /\ (q > k + 1 => q > k)
  BY <1>3 DEF OpsOf, Rows
<1> QED
  BY <1>2, <1>3, <1>5, <1>6, <1>8, <1>9

(* Chunks are held for streams that have begun.                            *)
LEMMA AppliedStreams ==
    ASSUME WorkerInv, NumbersInv, Follows, NEW r, Timely(r), Matches(r), r.kind = "upload",
           ReceiveUpload(r.body), ~Replayed(r.body), UNCHANGED <<queueNumbers, sent>>
    PROVE  StreamsBegin'
<1>1. /\ Bound /\ r.body.stream = streamId /\ streamId \in Nat
      /\ node'.stream = node.stream /\ node'.recoveryEpoch = node.recoveryEpoch
  BY NextApplied, Ranges DEF NodeRow
<1>2. UNCHANGED <<streamId, recovery, binding, backup>>
  BY DEF queueNumbers, numbers, ReceiveUpload
<1>3. DOMAIN hubChunks' \subseteq DOMAIN hubChunks \cup {<<streamId, r.body.op.transfer>>}
  BY <1>1 DEF ReceiveUpload, ApplyChunk, ApplyCommit, OrphanCommit, ApplyMetadata,
      OrphanMetadata, With, Without
<1> QED
  BY <1>1, <1>2, <1>3 DEF Follows, StreamsBegin, Behind, RowRecovered, Bound

(* Whatever the Hub is asked for.                                          *)
LEMMA ServedFollows ==
    ASSUME WorkerInv, NumbersInv, HubOK, Follows, NEW r, Timely(r), Matches(r), ServedAs(r),
           UNCHANGED <<queueNumbers, sent>>
    PROVE  Follows'
<1>1. CASE r.kind = "recover" /\ RecoverWorker(r.body)
  BY <1>1, RecoverFollows DEF Timely
<1>2. CASE r.kind = "upload" /\ ReceiveUpload(r.body)
  <2>1. CASE Replayed(r.body)
    <3>1. UNCHANGED hubNumbers
      BY <1>2, <2>1 DEF ReceiveUpload, hubNumbers, databaseVars, contentVars
    <3> QED
      BY <3>1, FollowsSame
  <2>2. CASE ~Replayed(r.body)
    BY <1>2, <2>2, AppliedHeld, AppliedFirst, AppliedStreams DEF Follows
  <2> QED
    BY <2>1, <2>2
<1>3. CASE (\E c : WorkerHello(r.body, c)) \/ UNCHANGED hubVars
  <2>1. UNCHANGED hubNumbers
    BY <1>3 DEF WorkerHello, hubNumbers, hubVars, databaseVars, contentVars
  <2> QED
    BY <2>1, FollowsSame
<1> QED
  BY <1>1, <1>2, <1>3 DEF ServedAs

(* A recovery has come to an end: the Hub is at the start of the stream.   *)
LEMMA RecoverDoneFollows ==
    ASSUME WorkerInv, NumbersInv, Follows, RecoverDone
    PROVE  Follows'
<1>1. /\ recovery # None /\ recovery' = None /\ binding' = recovery.epoch
      /\ UNCHANGED <<streamId, confirmedSequence, trimmed, lastSequence, outbox, sent>>
      /\ UNCHANGED <<epoch, node, hubChunks, hubSessions, backup>>
  BY DEF RecoverDone, FinishRecovery, queueVars, sessionVars, hubVars, databaseVars, contentVars
<1>2. confirmedSequence = 0 /\ trimmed \in Nat /\ streamId # 0
  BY <1>1, Ranges DEF NumbersInv, WorkerNumbers, Follows, StreamsBegin
<1>3. StreamsBegin'
  BY <1>1, <1>2 DEF Follows, StreamsBegin, Behind, RowRecovered
<1>4. SnapshotsFirst'
  BY <1>1, <1>2 DEF SnapshotsFirst
<1>5. recovery.epoch = epoch => node.confirmed = 0
  BY DEF RecoverDone, NumbersInv, AnswerCurrent
<1>6. \A t \in DOMAIN hubChunks : t[1] # streamId
  BY <1>1 DEF Follows, StreamsBegin, Behind
<1>7. HeldExact' /\ LastExact'
  BY <1>1, <1>2, <1>5, <1>6 DEF HeldExact, LastExact, Bound, Rows
<1> QED
  BY <1>3, <1>4, <1>7 DEF Follows

(* A recovery begins, in a stream of its own.                              *)
LEMMA StartRecoveryFollows ==
    ASSUME WorkerInv, NumbersInv, HubOK, Follows, HelloStartsRecovery
    PROVE  Follows'
<1> DEFINE e == answer.body.epoch
<1>1. /\ PrepareRecovery(e) /\ e \in Nat
      /\ UNCHANGED <<epoch, node, hubChunks, hubSessions, backup>>
  BY DEF HelloStartsRecovery, NumbersInv, AnswerCurrent, hubVars, databaseVars, contentVars
<1> HIDE DEF e
<1>2. CASE UNCHANGED workerVars
  BY <1>1, <1>2, FollowsSame
  DEF queueNumbers, numbers, hubNumbers, workerVars, queueVars, sessionVars
<1>3. CASE ~UNCHANGED workerVars
  <2>1. /\ streamId' = streamId + 1 /\ streamId \in Nat
        /\ recovery' = Recovery(e, IF recovery = None THEN streamId
                                   ELSE recovery.previousStream, streamId + 1)
    BY <1>1, <1>3, Ranges DEF PrepareRecovery, ResetQueue
  <2>2. recovery' # None
    <3>1. recovery' \in Recoveries
      BY <1>1, <2>1 DEF Recovery, Recoveries, NumbersInv, WorkerNumbers
    <3> QED
      BY <3>1, NoneAssumption DEF Recoveries
  <2>3. /\ \A t \in DOMAIN hubChunks : t[1] <= streamId
        /\ \A t \in DOMAIN backup.chunks : t[1] <= streamId
    BY DEF Follows, StreamsBegin, Behind
  <2>4. /\ \A t \in DOMAIN hubChunks : t[1] \in Nat
        /\ \A t \in DOMAIN backup.chunks : t[1] \in Nat
    BY DEF HubOK, TablesHold, DatabaseOK, ContentOK
  <2>5. Behind(hubChunks)' /\ Behind(backup.chunks)'
    BY <1>1, <2>1, <2>3, <2>4 DEF Behind
  <2>6. StreamsBegin'
    BY <1>1, <2>1, <2>5 DEF Follows, StreamsBegin, RowRecovered
  <2> QED
    BY <2>1, <2>2, <2>6 DEF Follows, HeldExact, LastExact, SnapshotsFirst, Bound
<1> QED
  BY <1>2, <1>3

(* A receipt is read: its row is confirmed, and deleted unless it is of a  *)
(* chunk.                                                                  *)
LEMMA UploadDoneFollows ==
    ASSUME WorkerInv, NumbersInv, Follows, UploadDone
    PROVE  Follows'
<1> DEFINE q == confirmedSequence + 1
<1>1. /\ UNCHANGED <<streamId, recovery, binding, lastSequence>> /\ confirmedSequence' = q
      /\ IF outbox[q].kind = "chunk" THEN UNCHANGED <<trimmed, outbox>>
         ELSE trimmed' = q /\ \A r \in Rows' : outbox'[r] = outbox[r]
  BY UploadDoneKeeps DEF QueueKept
<1>2. /\ UNCHANGED <<epoch, node, hubChunks, hubSessions, backup>> /\ UNCHANGED sent
  BY DEF UploadDone, Acknowledge, sessionVars, hubVars, databaseVars, contentVars
<1>3. /\ q \in Nat /\ q > confirmedSequence /\ trimmed \in Nat /\ trimmed < q /\ lastSequence \in Nat
  BY Ranges
<1>4. Bound => node.confirmed = q
  BY DEF UploadDone, NumbersInv, AnswerCurrent
<1> HIDE DEF q
<1>5. StreamsBegin'
  BY <1>1, <1>2 DEF Follows, StreamsBegin, Behind, RowRecovered
<1>6. LastExact'
  BY <1>1, <1>2, <1>3, <1>4 DEF LastExact, Bound
<1>7. HeldExact'
  <2>1. CASE outbox[q].kind = "chunk"
    BY <1>1, <1>2, <2>1 DEF Follows, HeldExact, Bound, InTransfer, Held, Rows
  <2>2. CASE outbox[q].kind # "chunk"
    <3>1. q \notin Rows'
      BY <1>1, <1>3, <2>2 DEF Rows
    <3>2. Bound => \A t \in DOMAIN hubChunks : t[1] # streamId
      BY <1>4, <2>2 DEF Follows, HeldExact, InTransfer
    <3> QED
      BY <1>1, <1>2, <1>4, <3>1, <3>2 DEF HeldExact, Bound
  <2> QED
    BY <2>1, <2>2
<1>8. SnapshotsFirst'
  <2> SUFFICES ASSUME epoch = 0, streamId = 0, NEW s \in Sessions
               PROVE  /\ sent[s] \in Captures =>
                           hubSessions[s] # None \/ Ahead(s, lastSequence + 1)'
                      /\ \A r \in OpsOf(s)' : r > node.confirmed /\ NeedsCopy(outbox'[r]) =>
                           hubSessions[s] # None \/ Ahead(s, r)'
    BY <1>1, <1>2 DEF SnapshotsFirst, NeedsCopy
  <2>1. /\ sent[s] \in Captures => hubSessions[s] # None \/ Ahead(s, lastSequence + 1)
        /\ \A r \in OpsOf(s) : r > node.confirmed /\ NeedsCopy(outbox[r]) =>
             hubSessions[s] # None \/ Ahead(s, r)
    BY DEF Follows, SnapshotsFirst
  <2>2. node.confirmed = q
    <3>1. Bound
      <4>1. recovery = None /\ binding = 0
        BY DEF Follows, StreamsBegin
      <4> QED
        BY <4>1 DEF Bound
    <3> QED
      BY <1>4, <3>1
  <2>3. \A r \in Rows' : r \in Rows /\ outbox'[r] = outbox[r]
    BY <1>1, <1>3 DEF Rows
  <2>4. \A r \in Rows : r > q => r \in Rows'
    BY <1>1, <1>3 DEF Rows
  <2>5. OpsOf(s)' \subseteq OpsOf(s) /\ \A r \in OpsOf(s)' : outbox'[r] = outbox[r]
    BY <2>3 DEF OpsOf
  <2>6. \A p \in CommitsOf(s) : p > q => p \in CommitsOf(s)'
    BY <2>3, <2>4 DEF CommitsOf, OpsOf
  <2>7. ASSUME NEW r, Ahead(s, r)
        PROVE  Ahead(s, r)'
    <3>1. PICK p \in CommitsOf(s) : node.confirmed < p /\ p < r
      BY <2>7 DEF Ahead
    <3>2. p > q
      BY <2>2, <3>1
    <3> QED
      BY <1>2, <2>6, <3>1, <3>2 DEF Ahead
  <2> QED
    BY <1>1, <2>1, <2>5, <2>7 DEF NeedsCopy
<1> QED
  BY <1>5, <1>6, <1>7, <1>8 DEF Follows

(* A session is saved: a delta or metadata only after what was sent.       *)
LEMMA SavedFirst ==
    ASSUME WorkerInv, NumbersInv, Follows, NEW m \in Nat \ {0}, NEW ops, Enqueue(m, ops),
           NEW s \in Sessions, NEW c \in Captures, Brings(ops[m], s, c),
           \A k \in 1 .. m : k < m => ops[k].kind = "chunk",
           sent' = [sent EXCEPT ![s] = c],
           UNCHANGED <<streamId, recovery, binding, confirmedSequence, trimmed>>,
           UNCHANGED <<epoch, node, hubSessions>>
    PROVE  SnapshotsFirst'
<1>1. /\ QueueOK /\ TablesOK /\ lastSequence \in Nat /\ confirmedSequence \in Nat
      /\ trimmed \in Nat /\ node.confirmed \in Nat
  BY Ranges
<1>2. PICK last :
      /\ last = lastSequence' /\ last \in Nat
      /\ \A q \in Rows : q \in Nat /\ q < last /\ outbox'[q] = outbox[q]
      /\ outbox'[last] = ops[m]
      /\ \A x \in Sessions :
           /\ OpsOf(x)' = OpsOf(x) \cup (IF x = s THEN {last} ELSE {})
           /\ CommitsOf(x)' = CommitsOf(x) \cup
                (IF x = s /\ ops[m].kind = "commit" THEN {last} ELSE {})
  BY <1>1, AppendedOps
<1>3. last > lastSequence
  BY <1>1, <1>2 DEF Enqueue
<1> SUFFICES ASSUME epoch = 0, streamId = 0, NEW x \in Sessions
             PROVE  /\ sent'[x] \in Captures => hubSessions[x] # None \/ Ahead(x, last + 1)'
                    /\ \A q \in OpsOf(x)' : q > node.confirmed /\ NeedsCopy(outbox'[q]) =>
                         hubSessions[x] # None \/ Ahead(x, q)'
  BY <1>2 DEF SnapshotsFirst, NeedsCopy
<1>4. /\ sent[x] \in Captures => hubSessions[x] # None \/ Ahead(x, lastSequence + 1)
      /\ \A q \in OpsOf(x) : q > node.confirmed /\ NeedsCopy(outbox[q]) =>
           hubSessions[x] # None \/ Ahead(x, q)
  BY DEF Follows, SnapshotsFirst
<1>5. node.confirmed <= lastSequence
  <2>1. Bound
    BY DEF Follows, StreamsBegin, Bound
  <2> QED
    BY <2>1, Ranges DEF Follows, LastExact
<1>6. ASSUME NEW q, Ahead(x, q)
      PROVE  Ahead(x, q)'
  BY <1>2, <1>6 DEF Ahead
<1>7. ASSUME Ahead(x, lastSequence + 1)
      PROVE  Ahead(x, last)' /\ Ahead(x, last + 1)'
  <2>1. PICK p \in CommitsOf(x) : node.confirmed < p
    BY <1>7 DEF Ahead
  <2>2. p \in CommitsOf(x)' /\ p \in Nat /\ p < last
    BY <1>2, <2>1 DEF CommitsOf, OpsOf
  <2>3. p < last + 1
    BY <1>2, <2>2
  <2> QED
    BY <2>1, <2>2, <2>3 DEF Ahead
<1>8. x = s /\ ops[m].kind = "commit" => Ahead(x, last + 1)'
  <2> SUFFICES ASSUME x = s, ops[m].kind = "commit"
               PROVE  Ahead(x, last + 1)'
    OBVIOUS
  <2>1. last \in CommitsOf(x)'
    BY <1>2
  <2>2. last \in Nat /\ node.confirmed \in Nat /\ lastSequence \in Nat
    BY <1>1, <1>2
  <2>3. node.confirmed < last /\ last < last + 1
    BY <1>3, <1>5, <2>2
  <2> QED
    BY <2>1, <2>3 DEF Ahead
<1>9. x = s /\ NeedsCopy(ops[m]) => sent[s] \in Captures
  BY DEF Brings, NeedsCopy
<1>10. sent'[x] \in Captures =>
         sent[x] \in Captures \/ (x = s /\ ops[m].kind = "commit")
  <2>1. CASE x = s
    BY <2>1 DEF Brings
  <2>2. CASE x # s
    BY <1>1, <2>2 DEF TablesOK
  <2> QED
    BY <2>1, <2>2
<1>11. ASSUME NEW q \in OpsOf(x)', q > node.confirmed, NeedsCopy(outbox'[q])
       PROVE  hubSessions[x] # None \/ Ahead(x, q)'
  <2>1. CASE q \in OpsOf(x)
    <3>1. outbox'[q] = outbox[q]
      BY <1>2, <2>1 DEF OpsOf
    <3> QED
      BY <1>4, <1>6, <1>11, <2>1, <3>1
  <2>2. CASE q \notin OpsOf(x)
    <3>1. x = s /\ q = last /\ NeedsCopy(ops[m])
      BY <1>2, <1>11, <2>2
    <3> QED
      BY <1>4, <1>7, <1>9, <3>1
  <2> QED
    BY <2>1, <2>2
<1> QED
  BY <1>4, <1>7, <1>8, <1>10, <1>11

(* Collection.                                                             *)
LEMMA CollectFollows ==
    ASSUME WorkerInv, NumbersInv, Follows, Collect
    PROVE  Follows'
<1>1. /\ UNCHANGED <<streamId, recovery, binding, confirmedSequence, trimmed>>
      /\ lastSequence' >= lastSequence /\ lastSequence' \in Nat
      /\ \A q \in Rows : q \in Rows' /\ outbox'[q] = outbox[q]
  BY CollectKeeps DEF QueueKept
<1>2. UNCHANGED <<epoch, node, hubChunks, hubSessions, backup>>
  BY DEF Collect, hubVars, databaseVars, contentVars
<1>3. StreamsBegin'
  BY <1>1, <1>2 DEF Follows, StreamsBegin, Behind, RowRecovered
<1>4. Bound => node.confirmed <= lastSequence
  BY Ranges DEF Follows, LastExact
<1>5. Bound => (node.confirmed \in Rows' <=> node.confirmed \in Rows)
  BY <1>1, <1>4, Ranges DEF Rows
<1>6. HeldExact'
  BY <1>1, <1>2, <1>5 DEF Follows, HeldExact, Bound, InTransfer, Held
<1>7. LastExact'
  <2>1. ASSUME Bound, node.confirmed = confirmedSequence + 1
        PROVE  /\ node.confirmed <= lastSequence' /\ node.last = outbox'[node.confirmed]
    <3>1. node.confirmed <= lastSequence /\ node.last = outbox[node.confirmed]
      BY <2>1 DEF Follows, LastExact
    <3>2. node.confirmed \in Rows
      BY <2>1, <3>1, Ranges DEF Rows
    <3> QED
      BY <1>1, <3>1, <3>2, Ranges
  <2> QED
    BY <1>1, <1>2, <2>1 DEF LastExact, Bound
<1>8. SnapshotsFirst'
  <2>1. CASE UNCHANGED <<lastSequence, outbox, sent>>
    <3>1. \A s \in Sessions : UNCHANGED <<OpsOf(s), CommitsOf(s)>>
      BY <1>1, <2>1 DEF OpsOf, CommitsOf, Rows
    <3> QED
      BY <1>1, <1>2, <2>1, <3>1 DEF Follows, SnapshotsFirst, Ahead, NeedsCopy
  <2>2. CASE \E s \in Sessions, c \in Captures, n \in ChunkCounts : SaveSession(s, c, n)
    <3>1. PICK s \in Sessions, c \in Captures, n \in ChunkCounts : SaveSession(s, c, n)
      BY <2>2
    <3>2. /\ sent' = [sent EXCEPT ![s] = c]
          /\ \/ UNCHANGED <<lastSequence, outbox, sent>>
             \/ \E m \in Nat \ {0} : \E ops :
                   /\ Enqueue(m, ops) /\ Brings(ops[m], s, c)
                   /\ \A k \in 1 .. m : k < m => ops[k].kind = "chunk"
      BY <3>1, Ranges, SavedBrings
    <3> QED
      BY <1>1, <1>2, <2>1, <3>2, SavedFirst
  <2> QED
    BY <2>1, <2>2, CollectSaves
<1> QED
  BY <1>3, <1>6, <1>7, <1>8 DEF Follows

(* A copy of the Hub's tables is taken, or served under a new epoch.       *)
LEMMA OperatorFollows ==
    ASSUME WorkerInv, NumbersInv, HubOK, Follows, HubOperator
    PROVE  Follows'
<1>1. UNCHANGED <<streamId, confirmedSequence, binding, recovery, trimmed, lastSequence, outbox,
                  sent>>
  BY DEF HubOperator, workerVars, queueVars, sessionVars
<1>2. CASE TakeBackup
  <2>1. /\ UNCHANGED <<epoch, node, hubChunks, hubSessions>>
        /\ backup'.node = node /\ backup'.chunks = hubChunks
    BY <1>2 DEF TakeBackup, databaseVars, contentVars, Database
  <2>2. StreamsBegin'
    BY <1>1, <2>1 DEF Follows, StreamsBegin, Behind, RowRecovered
  <2>3. HeldExact' /\ LastExact'
    BY <1>1, <2>1 DEF Follows, HeldExact, LastExact, Bound, InTransfer, Held, Rows
  <2>4. \A s \in Sessions : UNCHANGED <<OpsOf(s), CommitsOf(s)>>
    BY <1>1 DEF OpsOf, CommitsOf, Rows
  <2>5. SnapshotsFirst'
    BY <1>1, <2>1, <2>4 DEF Follows, SnapshotsFirst, Ahead, NeedsCopy
  <2> QED
    BY <2>2, <2>3, <2>5 DEF Follows
<1>3. CASE RestoreBackup
  <2>1. /\ epoch' = epoch + 1 /\ node' = backup.node /\ hubChunks' = backup.chunks
        /\ backup' = backup
    BY <1>3 DEF RestoreBackup
  <2>2. ~Bound' /\ epoch' # 0
    BY <1>1, <2>1, Ranges DEF NumbersInv, WorkerNumbers, HubNumbers, Goal, Bound
  <2>3. StreamsBegin'
    BY <1>1, <2>1 DEF Follows, StreamsBegin, Behind, RowRecovered
  <2> QED
    BY <2>2, <2>3 DEF Follows, HeldExact, LastExact, SnapshotsFirst
<1> QED
  BY <1>2, <1>3 DEF HubOperator

(* Every step keeps the Hub where the queue says it is.                    *)
LEMMA FollowsStay ==
    ASSUME WorkerInv, NumbersInv, HubOK, RequestsMatch, Follows, [Next]_vars
    PROVE  Follows'
<1>1. ASSUME UNCHANGED <<workerVars, hubVars>>
      PROVE  Follows'
  BY <1>1, FollowsSame
  DEF queueNumbers, numbers, hubNumbers, workerVars, queueVars, sessionVars, hubVars,
      databaseVars, contentVars
<1>2. CASE HubServe \/ HubServeLate
  <2>1. UNCHANGED <<queueNumbers, sent>>
    BY <1>2 DEF HubServe, HubServeLate, queueNumbers, numbers, workerVars, queueVars,
        sessionVars
  <2>2. PICK r : Timely(r) /\ Matches(r) /\ ServedAs(r)
    <3>1. CASE HubServe
      BY <3>1, ServeIsServed DEF HubServe, NumbersInv, RequestsTimely, RequestsMatch
    <3>2. CASE HubServeLate
      BY <3>2, LateIsServed DEF NumbersInv, RequestsTimely, RequestsMatch
    <3> QED
      BY <1>2, <3>1, <3>2
  <2> QED
    BY <2>1, <2>2, ServedFollows
<1>3. CASE HelloStartsRescan
  <2>1. /\ UNCHANGED <<queueNumbers, hubNumbers>> /\ Forget(answer.body.task.agents)
    BY <1>3 DEF HelloStartsRescan, queueNumbers, numbers, queueVars, hubVars, hubNumbers,
        databaseVars, contentVars
  <2>2. \A s \in Sessions : sent'[s] \in Captures => sent'[s] = sent[s]
    BY <2>1, ForgettingKeeps, Ranges
  <2> QED
    BY <2>1, <2>2, FollowsSame
<1>4. CASE HelloOk \/ HelloRefused \/ UploadRefused
  <2>1. UNCHANGED <<queueNumbers, hubNumbers, sent>>
    BY <1>4 DEF HelloOk, HelloRefused, UploadRefused, SetPause, queueNumbers, numbers,
        queueVars, sessionVars, hubVars, hubNumbers, databaseVars, contentVars
  <2> QED
    BY <2>1, FollowsSame
<1>5. CASE HubUser
  <2>1. UNCHANGED <<queueNumbers, hubNumbers, sent>>
    BY <1>5 DEF HubUser, RequestRescan, CancelRescan, queueNumbers, numbers, workerVars,
        queueVars, sessionVars, hubNumbers, contentVars
  <2> QED
    BY <2>1, FollowsSame
<1>6. CASE \/ SendRecover \/ SendHello \/ SendUpload \/ HubBusy \/ HubLeased \/ Lose \/ Crash
           \/ Change \/ ScanFails \/ RecoverRefused \/ HelloBusy \/ UploadBusy
           \/ UNCHANGED vars
  <2>1. UNCHANGED <<workerVars, hubVars>>
    BY <1>6 DEF SendRecover, SendHello, SendUpload, Send, HubBusy, HubLeased, Lose, Crash,
        Fault, Change, Edit, ScanFails, FailPage, RecoverRefused, HelloBusy, UploadBusy, vars
  <2> QED
    BY <1>1, <2>1
<1> QED
  BY <1>2, <1>3, <1>4, <1>5, <1>6, RecoverDoneFollows, StartRecoveryFollows,
     UploadDoneFollows, CollectFollows, OperatorFollows
  DEF Next, ReadAnswer

LEMMA DeliveryBegins == Init => DeliveryInv
<1> SUFFICES ASSUME Init PROVE DeliveryInv
  OBVIOUS
<1>1. /\ WorkerInit(0) /\ HubInit(0) /\ awaited = None /\ late = {}
  BY DEF Init
<1>2. WorkerInv /\ NumbersInv /\ HubOK
  BY <1>1, WorkerBegins, NumbersInit, HubBegins
<1>3. DeltasExtend
  BY <1>1 DEF WorkerInit, DeltasExtend, Rows
<1>4. RequestsMatch
  BY <1>1 DEF RequestsMatch, Idle
<1>5. StreamsBegin
  BY <1>1 DEF WorkerInit, HubInit, StreamsBegin, Behind, RowRecovered, NodeRow, Database
<1>6. HeldExact /\ LastExact
  BY <1>1 DEF WorkerInit, HubInit, HeldExact, LastExact, Rows, NodeRow
<1>7. SnapshotsFirst
  BY <1>1, CaptureAssumption
  DEF WorkerInit, SnapshotsFirst, OpsOf, Rows, Contents
<1> QED
  BY <1>2, <1>3, <1>4, <1>5, <1>6, <1>7 DEF DeliveryInv, FollowInv

LEMMA DeliveryStays ==
    ASSUME DeliveryInv, [Next]_vars
    PROVE  DeliveryInv'
<1>1. WorkerInv' /\ NumbersInv'
  BY StepKeepsWorker, NumbersStep DEF DeliveryInv
<1>2. HubOK' /\ DeltasExtend' /\ RequestsMatch'
  BY TablesStay, ExtendStays, MatchesStay DEF DeliveryInv, FollowInv
<1>3. Follows'
  BY FollowsStay DEF DeliveryInv, FollowInv, Follows
<1> QED
  BY <1>1, <1>2, <1>3 DEF DeliveryInv, FollowInv, Follows

(* The invariant that worker.rs, http/sync.rs and receive.rs keep between  *)
(* them, for any number of faults, restores and late requests.             *)
THEOREM DeliveryHolds == Spec => []DeliveryInv
BY DeliveryBegins, DeliveryStays, PTL DEF Spec

----------------------------------------------------------------------------
(* What it amounts to.                                                     *)

(* The Hub's tables stay well formed, and a stored copy is what a delta    *)
(* may extend (receive.rs).                                                *)
THEOREM HubStateHolds == Spec => []HubStateOK
<1>1. DeliveryInv => HubStateOK
  BY DEF DeliveryInv, HubOK, TablesHold, RowOK, ContentOK, TasksOK, HubStateOK, HubTypeOK,
      BasesExact
<1> QED
  BY <1>1, DeliveryHolds, PTL

(* No task identity is used twice, so recover_worker (control.rs) never    *)
(* fails on the key of hub_rescans.                                        *)
THEOREM TaskIdsStayUnique == Spec => []TaskIdsUnique
<1>1. DeliveryInv => TaskIdsUnique
  BY DEF DeliveryInv, HubOK, TablesHold, TasksOK, TaskIdsUnique
<1> QED
  BY <1>1, DeliveryHolds, PTL

(* No report, however late or repeated, brings back a task that has ended  *)
(* (tasks.rs).                                                             *)
THEOREM EndedTasksStayEnded == Spec => EndedStaysEnded
<1>1. DeliveryInv /\ [Next]_vars =>
        [epoch' = epoch =>
           \A i \in 1 .. Len(rescans) : ~Active(rescans[i]) => rescans'[i] = rescans[i]]_vars
  BY TablesStay DEF DeliveryInv, FollowInv, Onward
<1> QED
  BY <1>1, DeliveryHolds, PTL DEF Spec, EndedStaysEnded

(* What the Hub holds of the transfer an operation belongs to is what      *)
(* comes before it in the queue.                                           *)
LEMMA NextFits ==
    ASSUME DeliveryInv, Bound, node.confirmed = confirmedSequence,
           confirmedSequence + 1 <= lastSequence
    PROVE  OperationRefusal(streamId, outbox[confirmedSequence + 1]) = None
<1> DEFINE k == confirmedSequence
           op == outbox[k + 1]
<1>1. /\ WorkerInv /\ NumbersInv /\ HubOK /\ DeltasExtend
      /\ StreamsBegin /\ HeldExact /\ SnapshotsFirst
  BY DEF DeliveryInv, FollowInv
<1>2. /\ k \in Nat /\ trimmed \in Nat /\ lastSequence \in Nat /\ trimmed <= k
      /\ k + 1 \in Rows /\ op \in Operations /\ WholeTransfers
  BY <1>1, Ranges DEF QueueOK, Rows, DeltasExtend
<1>3. k \in Rows /\ outbox[k].kind = "chunk" =>
        /\ op.kind \in {"chunk", "commit"} /\ op.transfer = outbox[k].transfer
        /\ op.kind = "chunk" => op.index = outbox[k].index + 1
        /\ Held(streamId, op.transfer) = outbox[k].index + 1
        /\ outbox[k].index \in Nat
  BY <1>1, <1>2, Ranges DEF QueueOK, WholeTransfers, Whole, ChunkFits, Rows, HeldExact, Operations
<1>4. CASE op.kind = "chunk"
  <2>1. ChunkFits(outbox, trimmed + 1, lastSequence, k + 1)
    BY <1>2, <1>4 DEF WholeTransfers, Whole, Rows
  <2>2. op.index \in Nat
    BY <1>2, <1>4 DEF Operations
  <2>3. CASE k \in Rows /\ outbox[k].kind = "chunk"
    BY <1>3, <1>4, <2>3 DEF OperationRefusal
  <2>4. CASE ~(k \in Rows /\ outbox[k].kind = "chunk")
    <3>1. op.index = 0
      BY <1>2, <2>1, <2>2, <2>4 DEF ChunkFits, Rows
    <3>2. <<streamId, op.transfer>> \notin DOMAIN hubChunks
      BY <1>1, <2>4 DEF HeldExact, InTransfer
    <3> QED
      BY <1>4, <3>1, <3>2 DEF OperationRefusal, Held
  <2> QED
    BY <2>3, <2>4
<1>5. CASE op.kind = "commit"
  <2>1. CommitFits(outbox, trimmed + 1, k + 1)
    BY <1>2, <1>5 DEF WholeTransfers, Whole, Rows
  <2>2. k \in Rows /\ outbox[k].kind = "chunk" /\ op.chunks = outbox[k].index + 1
    BY <1>2, <2>1 DEF CommitFits, Rows
  <2> QED
    BY <1>3, <1>5, <2>2 DEF OperationRefusal
<1>6. CASE op.kind = "metadata"
  <2>1. ASSUME hubSessions[op.session] = None, node.recoveryEpoch = None
        PROVE  FALSE
    <3>1. node.stream = 0 /\ node.stream = streamId
      BY <1>1, <2>1, Ranges DEF StreamsBegin, RowRecovered
    <3>2. epoch = 0 /\ streamId = 0
      BY <1>1, <3>1 DEF StreamsBegin, Bound
    <3>3. op.session \in Sessions /\ k + 1 \in OpsOf(op.session)
      BY <1>2, <1>6 DEF Operations, OpsOf
    <3>4. k + 1 > node.confirmed /\ NeedsCopy(op)
      BY <1>2, <1>6 DEF NeedsCopy
    <3>5. Ahead(op.session, k + 1)
      BY <1>1, <2>1, <3>2, <3>3, <3>4 DEF SnapshotsFirst
    <3> QED
      BY <1>2, <3>5 DEF Ahead, CommitsOf, OpsOf, Rows
  <2> QED
    BY <1>6, <2>1 DEF OperationRefusal
<1> QED
  BY <1>2, <1>4, <1>5, <1>6 DEF Operations

(* An upload the loop waits for is accepted, whatever was lost, repeated,  *)
(* late or restarted before it (receive.rs), unless the Hub's data were    *)
(* replaced meanwhile.                                                     *)
THEOREM NothingRefused == Spec => []NoRefusal
<1>1. DeliveryInv => NoRefusal
  <2> SUFFICES ASSUME DeliveryInv, ~Idle, answer = None, awaited.kind = "upload",
                      awaited.body.epoch = epoch
               PROVE  UploadRefusal(awaited.body) = None
    BY DEF NoRefusal
  <2> DEFINE u == awaited.body
             k == confirmedSequence
  <2>1. /\ WorkerInv /\ NumbersInv /\ LastExact /\ Matches(awaited)
    BY DEF DeliveryInv, FollowInv, RequestsMatch
  <2>2. /\ Bound /\ u.epoch = epoch /\ u.stream = streamId /\ u.sequence = k + 1
    BY <2>1 DEF NumbersInv, AwaitedCurrent, Bound
  <2>3. /\ k \in Nat /\ node.stream = streamId /\ node.confirmed \in {k, k + 1}
    BY <2>1, <2>2, Ranges
  <2>4. /\ k + 1 <= lastSequence /\ u.op = outbox[k + 1]
    BY <2>1, <2>2, <2>3 DEF Matches
  <2> HIDE DEF u, k
  <2>5. CASE node.confirmed = k + 1
    <3>1. Replayed(u) /\ node.last = u.op
      BY <2>1, <2>2, <2>4, <2>5 DEF Replayed, LastExact, k
    <3> QED
      BY <2>2, <2>3, <3>1 DEF UploadRefusal, u
  <2>6. CASE node.confirmed = k
    <3>1. OperationRefusal(streamId, outbox[k + 1]) = None
      BY <2>2, <2>4, <2>6, NextFits DEF k
    <3>2. ~Replayed(u) /\ u.sequence = node.confirmed + 1
      BY <2>2, <2>3, <2>6 DEF Replayed
    <3> QED
      BY <2>2, <2>3, <2>4, <3>1, <3>2 DEF UploadRefusal, u
  <2> QED
    BY <2>3, <2>5, <2>6
<1> QED
  BY <1>1, DeliveryHolds, PTL

----------------------------------------------------------------------------
(* Synchronization implements Delivery: what the Hub has yet to apply is   *)
(* the queue of the abstract specification.                                *)

(* What is yet to be applied lies in the queue.                            *)
AppliedInQueue ==
    /\ Applied \in Nat /\ lastSequence \in Nat /\ Applied <= lastSequence
    /\ \A q \in Applied + 1 .. lastSequence : outbox[q] \in Operations
    /\ hubSessions \in D!Copies

LEMMA AppliedPlace ==
    ASSUME DeliveryInv
    PROVE  /\ AppliedInQueue
           /\ Applied \in {confirmedSequence, confirmedSequence + 1} /\ trimmed <= Applied
           /\ Bound => Applied = node.confirmed
           /\ ReceiptOnTheWay => Applied = confirmedSequence + 1
<1>1. WorkerInv /\ NumbersInv /\ HubOK /\ RequestsMatch /\ LastExact
  BY DEF DeliveryInv, FollowInv
<1>2. ReceiptOnTheWay /\ Bound => node.confirmed = confirmedSequence + 1
  BY <1>1 DEF ReceiptOnTheWay, NumbersInv, AnswerCurrent
<1>3. ReceiptOnTheWay => confirmedSequence + 1 <= lastSequence
  <2> SUFFICES ASSUME ReceiptOnTheWay PROVE confirmedSequence + 1 <= lastSequence
    OBVIOUS
  <2>1. awaited.body.stream = streamId /\ awaited.body.sequence = confirmedSequence + 1
    BY <1>1 DEF ReceiptOnTheWay, Got, NumbersInv, AwaitedCurrent
  <2> QED
    BY <1>1, <2>1, Ranges DEF ReceiptOnTheWay, Got, RequestsMatch, Matches
<1>4. Bound /\ node.confirmed = confirmedSequence + 1 => confirmedSequence + 1 <= lastSequence
  BY <1>1 DEF LastExact
<1>5. /\ Applied \in {confirmedSequence, confirmedSequence + 1} /\ Applied <= lastSequence
      /\ Bound => Applied = node.confirmed
      /\ ReceiptOnTheWay => Applied = confirmedSequence + 1
  BY <1>1, <1>2, <1>3, <1>4, Ranges DEF Applied
<1>6. Applied \in Nat /\ lastSequence \in Nat /\ trimmed <= Applied
  BY <1>1, <1>5, Ranges
<1>7. \A q \in Applied + 1 .. lastSequence : outbox[q] \in Operations
  BY <1>1, <1>6, Ranges DEF QueueOK, Rows
<1>8. hubSessions \in D!Copies
  BY <1>1 DEF HubOK, TablesHold, ContentOK, D!Copies, D!Contents, Contents
<1> QED
  BY <1>5, <1>6, <1>7, <1>8 DEF AppliedInQueue

(* A stretch of rows is a sequence of operations.                          *)
LEMMA RowsAreSeq ==
    ASSUME NEW row, NEW a \in Nat, NEW b \in Nat, a <= b,
           \A q \in a + 1 .. b : row[q] \in Operations,
           NEW u, u = [k \in 1 .. b - a |-> row[a + k]]
    PROVE  /\ u \in Seq(Operations) /\ Len(u) = b - a
           /\ \A k \in 1 .. b - a : u[k] = row[a + k]
<1>1. b - a \in Nat /\ \A k \in 1 .. b - a : a + k \in a + 1 .. b
  OBVIOUS
<1>2. \A k \in 1 .. b - a : u[k] = row[a + k] /\ u[k] \in Operations
  BY <1>1
<1>3. u \in [1 .. b - a -> Operations]
  BY <1>2
<1>4. u \in Seq(Operations)
  BY <1>1, <1>3
<1>5. Len(u) = b - a
  BY <1>1, <1>3, <1>4
<1> QED
  BY <1>2, <1>4, <1>5

(* Nothing is applied, queued or put back.                                 *)
LEMMA NothingDelivered ==
    ASSUME Applied' = Applied, lastSequence' = lastSequence, UNCHANGED hubSessions,
           Applied \in Nat, lastSequence \in Nat,
           \A q \in Applied + 1 .. lastSequence : outbox'[q] = outbox[q]
    PROVE  UNCHANGED <<Undelivered, hubSessions>>
<1>1. \A k \in 1 .. lastSequence - Applied :
        /\ Applied + k \in Applied + 1 .. lastSequence
        /\ outbox'[Applied + k] = outbox[Applied + k]
  OBVIOUS
<1>2. Undelivered' = Undelivered
  BY <1>1 DEF Undelivered
<1> QED
  BY <1>2

(* Rows added at the end of a stretch.                                     *)
LEMMA RowsAdded ==
    ASSUME NEW u \in Seq(Operations), NEW v \in Seq(Operations), Len(u) < Len(v),
           \A k \in 1 .. Len(u) : v[k] = u[k]
    PROVE  SubSeq(v, 1, Len(u)) = u
<1> DEFINE n == Len(u)
           first == SubSeq(v, 1, n)
<1>1. n \in Nat /\ Len(v) \in Nat /\ \A k \in 1 .. n : k \in 1 .. Len(v)
  BY LenProperties
<1>2. \A k \in 1 .. n : v[k] \in Operations
  BY <1>1, ElementOfSeq
<1> HIDE DEF n
<1>3. /\ first \in Seq(Operations)
      /\ Len(first) = IF 1 <= n THEN n - 1 + 1 ELSE 0
      /\ \A k \in 1 .. n - 1 + 1 : first[k] = v[1 + k - 1]
  BY <1>1, <1>2, SubSeqProperties
<1>4. Len(first) = n
  BY <1>1, <1>3
<1> HIDE DEF first
<1>5. \A k \in 1 .. n : first[k] = v[k]
  BY <1>1, <1>3
<1> QED
  BY <1>3, <1>4, <1>5, SeqEqual DEF n, first

(* Rows put back before a stretch.                                         *)
LEMMA RowsPutBack ==
    ASSUME NEW u \in Seq(Operations), NEW v \in Seq(Operations), NEW d \in Nat,
           Len(v) = Len(u) + d, \A k \in 1 .. Len(u) : v[d + k] = u[k]
    PROVE  SubSeq(v, d + 1, Len(v)) = u
<1> DEFINE n == Len(u)
           rest == SubSeq(v, d + 1, d + n)
<1>1. n \in Nat /\ Len(v) = d + n
  BY LenProperties
<1> HIDE DEF n
<1>2. \A k \in d + 1 .. d + n : k \in 1 .. Len(v)
  BY <1>1
<1>3. \A k \in d + 1 .. d + n : v[k] \in Operations
  BY <1>2, ElementOfSeq
<1>4. /\ rest \in Seq(Operations)
      /\ Len(rest) = IF d + 1 <= d + n THEN d + n - (d + 1) + 1 ELSE 0
      /\ \A k \in 1 .. d + n - (d + 1) + 1 : rest[k] = v[d + 1 + k - 1]
  BY <1>1, <1>3, SubSeqProperties
<1> HIDE DEF rest
<1>5. Len(rest) = n
  BY <1>1, <1>4
<1>6. \A k \in 1 .. n : d + 1 + k - 1 = d + k /\ k \in 1 .. d + n - (d + 1) + 1
  BY <1>1
<1>7. \A k \in 1 .. n : rest[k] = u[k]
  BY <1>4, <1>6 DEF n
<1>8. rest = u
  BY <1>4, <1>5, <1>7, SeqEqual DEF n
<1> QED
  BY <1>1, <1>8 DEF rest

(* The first row of a stretch taken away.                                  *)
LEMMA RowTaken ==
    ASSUME NEW u \in Seq(Operations), NEW v \in Seq(Operations), Len(u) = Len(v) + 1,
           \A k \in 1 .. Len(v) : v[k] = u[k + 1]
    PROVE  u # <<>> /\ Head(u) = u[1] /\ v = Tail(u)
<1>1. Len(v) \in Nat /\ u # <<>> /\ Head(u) = u[1]
  BY LenProperties
<1>2. /\ Tail(u) \in Seq(Operations) /\ Len(Tail(u)) = Len(u) - 1
      /\ \A k \in 1 .. Len(Tail(u)) : Tail(u)[k] = u[k + 1]
  BY <1>1, HeadTailProperties
<1>3. Len(Tail(u)) = Len(v)
  BY <1>1, <1>2
<1> QED
  BY <1>1, <1>2, <1>3, SeqEqual

(* What is undelivered, before and after a step.                           *)
LEMMA UndeliveredRows ==
    ASSUME AppliedInQueue, AppliedInQueue'
    PROVE  /\ Undelivered \in Seq(Operations) /\ Len(Undelivered) = lastSequence - Applied
           /\ \A k \in 1 .. lastSequence - Applied : Undelivered[k] = outbox[Applied + k]
           /\ Undelivered' \in Seq(Operations)
           /\ Len(Undelivered') = lastSequence' - Applied'
           /\ \A k \in 1 .. lastSequence' - Applied' : Undelivered'[k] = outbox'[Applied' + k]
<1>1. /\ Undelivered \in Seq(Operations) /\ Len(Undelivered) = lastSequence - Applied
      /\ \A k \in 1 .. lastSequence - Applied : Undelivered[k] = outbox[Applied + k]
  BY RowsAreSeq DEF AppliedInQueue, Undelivered
<1>2. /\ Undelivered' \in Seq(Operations)
      /\ Len(Undelivered') = lastSequence' - Applied'
      /\ \A k \in 1 .. lastSequence' - Applied' : Undelivered'[k] = outbox'[Applied' + k]
  <2>1. /\ Applied' \in Nat /\ lastSequence' \in Nat /\ Applied' <= lastSequence'
        /\ \A q \in Applied' + 1 .. lastSequence' : outbox'[q] \in Operations
    BY DEF AppliedInQueue
  <2>2. Undelivered' = [k \in 1 .. lastSequence' - Applied' |-> outbox'[Applied' + k]]
    BY DEF Undelivered
  <2>3. PICK row, a, b, u :
           row = outbox' /\ a = Applied' /\ b = lastSequence' /\ u = Undelivered'
    OBVIOUS
  <2>4. /\ a \in Nat /\ b \in Nat /\ a <= b /\ u = [k \in 1 .. b - a |-> row[a + k]]
        /\ \A q \in a + 1 .. b : row[q] \in Operations
    BY <2>1, <2>2, <2>3
  <2>5. u \in Seq(Operations) /\ Len(u) = b - a /\ \A k \in 1 .. b - a : u[k] = row[a + k]
    BY <2>4, RowsAreSeq
  <2> QED
    BY <2>3, <2>5
<1> QED
  BY <1>1, <1>2

(* Operations are added at the end.                                        *)
LEMMA SomethingSubmitted ==
    ASSUME AppliedInQueue, AppliedInQueue', Applied' = Applied, lastSequence' > lastSequence,
           UNCHANGED hubSessions, \A q \in Applied + 1 .. lastSequence : outbox'[q] = outbox[q]
    PROVE  D!Submit
<1> DEFINE a == Applied
           b == lastSequence
           c == lastSequence'
<1>1. a \in Nat /\ b \in Nat /\ c \in Nat /\ a <= b /\ b < c
  BY DEF AppliedInQueue
<1>2. /\ Undelivered \in Seq(Operations) /\ Len(Undelivered) = b - a
      /\ \A k \in 1 .. b - a : Undelivered[k] = outbox[a + k]
      /\ Undelivered' \in Seq(Operations) /\ Len(Undelivered') = c - a
      /\ \A k \in 1 .. c - a : Undelivered'[k] = outbox'[a + k]
  BY UndeliveredRows
<1>3. \A q \in a + 1 .. b : outbox'[q] = outbox[q]
  OBVIOUS
<1> HIDE DEF a, b, c
<1>4. \A k \in 1 .. b - a : k \in 1 .. c - a /\ a + k \in a + 1 .. b
  BY <1>1
<1>5. \A k \in 1 .. b - a : Undelivered'[k] = Undelivered[k]
  BY <1>2, <1>3, <1>4
<1>6. Len(Undelivered) < Len(Undelivered')
  BY <1>1, <1>2
<1>7. SubSeq(Undelivered', 1, Len(Undelivered)) = Undelivered
  BY <1>2, <1>5, <1>6, RowsAdded
<1> QED
  BY <1>6, <1>7 DEF D!Submit

(* Rows the Hub may have applied are again to be applied: chunks, and the  *)
(* operation applied last.                                                 *)
LEMMA SomethingRequeued ==
    ASSUME AppliedInQueue, AppliedInQueue', NEW d \in Nat,
           lastSequence' - Applied' = lastSequence - Applied + d,
           \A k \in 1 .. lastSequence - Applied :
              outbox'[Applied' + (d + k)] = outbox[Applied + k],
           \A k \in 1 .. d - 1 : outbox'[Applied' + k].kind = "chunk"
    PROVE  D!Replay \/ D!Restore
<1> DEFINE a == Applied'
           n == lastSequence - Applied
           m == lastSequence' - Applied'
<1>1. n \in Nat /\ m = n + d
  <2>1. Applied \in Nat /\ lastSequence \in Nat /\ Applied <= lastSequence
    BY DEF AppliedInQueue
  <2>2. n \in Nat
    BY <2>1
  <2>3. m = n + d
    OBVIOUS
  <2> QED
    BY <2>2, <2>3
<1>2. /\ Undelivered \in Seq(Operations) /\ Len(Undelivered) = n
      /\ \A k \in 1 .. n : Undelivered[k] = outbox[Applied + k]
      /\ Undelivered' \in Seq(Operations) /\ Len(Undelivered') = m
      /\ \A k \in 1 .. m : Undelivered'[k] = outbox'[a + k]
  BY UndeliveredRows
<1>3. /\ \A k \in 1 .. n : outbox'[a + (d + k)] = outbox[Applied + k]
      /\ \A k \in 1 .. d - 1 : outbox'[a + k].kind = "chunk"
  OBVIOUS
<1> HIDE DEF a, n, m
<1>4. /\ \A k \in 1 .. n : d + k \in 1 .. m
      /\ \A k \in 1 .. d - 1 : k \in 1 .. m
  BY <1>1
<1>5. \A k \in 1 .. n : Undelivered'[d + k] = Undelivered[k]
  BY <1>2, <1>3, <1>4
<1>6. \A k \in 1 .. d - 1 : Undelivered'[k].kind = "chunk"
  BY <1>2, <1>3, <1>4
<1>7. Len(Undelivered') = Len(Undelivered) + d /\ Len(Undelivered') - Len(Undelivered) = d
  BY <1>1, <1>2
<1>8. SubSeq(Undelivered', d + 1, Len(Undelivered')) = Undelivered
  BY <1>2, <1>5, <1>7, RowsPutBack
<1>9. D!Requeued
  BY <1>6, <1>7, <1>8 DEF D!Requeued
<1>10. hubSessions' \in D!Copies
  BY DEF AppliedInQueue, D!Copies, D!Contents
<1> QED
  BY <1>9, <1>10 DEF D!Replay, D!Restore

(* The oldest operation takes effect.                                      *)
LEMMA SomethingDelivered ==
    ASSUME AppliedInQueue, AppliedInQueue', Applied' = Applied + 1, UNCHANGED lastSequence,
           \A q \in Applied + 2 .. lastSequence : outbox'[q] = outbox[q],
           hubSessions' \in D!Effect(outbox[Applied + 1])
    PROVE  D!Deliver
<1> DEFINE a == Applied
           b == lastSequence
<1>1. a \in Nat /\ b \in Nat /\ a + 1 <= b
  BY DEF AppliedInQueue
<1>2. /\ Undelivered \in Seq(Operations) /\ Len(Undelivered) = b - a
      /\ \A k \in 1 .. b - a : Undelivered[k] = outbox[a + k]
      /\ Undelivered' \in Seq(Operations) /\ Len(Undelivered') = b - (a + 1)
      /\ \A k \in 1 .. b - (a + 1) : Undelivered'[k] = outbox'[a + 1 + k]
  BY UndeliveredRows
<1>3. \A q \in a + 2 .. b : outbox'[q] = outbox[q]
  OBVIOUS
<1>4. hubSessions' \in D!Effect(outbox[a + 1])
  OBVIOUS
<1> HIDE DEF a, b
<1>5. \A k \in 1 .. b - (a + 1) : /\ k + 1 \in 1 .. b - a /\ a + (k + 1) = a + 1 + k
                                  /\ a + 1 + k \in a + 2 .. b
  BY <1>1
<1>6. \A k \in 1 .. b - (a + 1) : Undelivered'[k] = Undelivered[k + 1]
  BY SMTT(30), <1>2, <1>3, <1>5
<1>7. Len(Undelivered) = Len(Undelivered') + 1 /\ 1 \in 1 .. b - a
  BY <1>1, <1>2
<1>8. /\ Undelivered # <<>> /\ Head(Undelivered) = Undelivered[1]
      /\ Undelivered' = Tail(Undelivered)
  BY <1>2, <1>6, <1>7, RowTaken
<1>9. Head(Undelivered) = outbox[a + 1]
  BY <1>2, <1>7, <1>8
<1> QED
  BY <1>4, <1>8, <1>9 DEF D!Deliver

(* A receipt is given up, or the Hub's copy is another.                    *)
LEMMA ReceiptForgotten ==
    ASSUME AppliedInQueue, AppliedInQueue', UNCHANGED <<lastSequence, outbox>>,
           Applied' = Applied \/ Applied = Applied' + 1
    PROVE  D!Replay \/ D!Restore
<1>1. /\ Applied \in Nat /\ Applied' \in Nat /\ lastSequence \in Nat
      /\ Applied <= lastSequence
  BY DEF AppliedInQueue
<1>2. PICK a \in Nat, b \in Nat, n \in Nat : a = Applied /\ b = Applied' /\ n = lastSequence
  BY <1>1
<1>3. /\ a <= n /\ (b = a \/ a = b + 1)
      /\ lastSequence' = n /\ outbox' = outbox
  BY <1>1, <1>2
<1>4. PICK d \in 0 .. 1 : b + d = a /\ n - b = n - a + d
  BY <1>3
<1>5. \A k \in 1 .. n - a : b + (d + k) = a + k
  BY <1>4
<1>6. \A k \in 1 .. n - a : outbox'[b + (d + k)] = outbox[a + k]
  BY <1>3, <1>5
<1>7. \A k \in 1 .. d - 1 : outbox'[b + k].kind = "chunk"
  BY <1>4
<1>8. d \in Nat /\ lastSequence' - Applied' = lastSequence - Applied + d
  <2>1. d \in Nat /\ lastSequence' = n /\ Applied' = b /\ lastSequence = n /\ Applied = a
    BY <1>2, <1>3
  <2> QED
    BY <1>4, <2>1
<1>9. /\ \A k \in 1 .. lastSequence - Applied :
           outbox'[Applied' + (d + k)] = outbox[Applied + k]
      /\ \A k \in 1 .. d - 1 : outbox'[Applied' + k].kind = "chunk"
  BY <1>2, <1>6, <1>7
<1> QED
  BY <1>8, <1>9, SomethingRequeued

Implements == [D!DeliveryNext]_<<Undelivered, hubSessions>>

(* What an upload that is applied does to the Hub's copy.                  *)
LEMMA EffectOfUpload ==
    ASSUME HubOK, NEW u, u.op \in SoundOperations, ReceiveUpload(u), ~Replayed(u)
    PROVE  hubSessions' \in D!Effect(u.op)
<1>1. CASE ApplyChunk(u.stream, u.op)
  BY <1>1 DEF ApplyChunk, D!Effect
<1>2. CASE ApplyCommit(u.stream, u.op)
  <2>1. /\ u.op.kind = "commit"
        /\ hubSessions' = [hubSessions EXCEPT ![u.op.session] = u.op.capture]
    BY <1>2, CommitKeepsContent DEF HubOK, ApplyCommit
  <2> QED
    BY <2>1 DEF D!Effect
<1>3. CASE OrphanCommit(u.stream, u.op)
  <2>1. u.op.kind = "commit" /\ u.op.base # None /\ UNCHANGED hubSessions
    BY <1>3 DEF OrphanCommit, BaseHeld
  <2> QED
    BY <2>1 DEF D!Effect
<1>4. CASE ApplyMetadata(u.op)
  BY <1>4 DEF ApplyMetadata, D!Effect
<1>5. CASE OrphanMetadata(u.op)
  BY <1>5 DEF OrphanMetadata, D!Effect
<1> QED
  BY <1>1, <1>2, <1>3, <1>4, <1>5 DEF ReceiveUpload

(* The Hub serves a request: the next operation takes effect, or nothing.  *)
LEMMA ServedImplements ==
    ASSUME DeliveryInv, AppliedInQueue, AppliedInQueue', NEW r, Timely(r), Matches(r),
           ServedAs(r), UNCHANGED queueNumbers, Bound \/ (ReceiptOnTheWay' <=> ReceiptOnTheWay)
    PROVE  Implements
<1>1. /\ WorkerInv /\ NumbersInv /\ HubOK
      /\ UNCHANGED <<streamId, confirmedSequence, binding, recovery, lastSequence, outbox>>
  BY DEF DeliveryInv, queueNumbers, numbers
<1>2. UNCHANGED epoch
  BY <1>1, ServedKeepsTables
<1>3. Bound' = Bound /\ (Bound => Applied' = node'.confirmed /\ Applied = node.confirmed)
  BY <1>1, <1>2 DEF Bound, Applied
<1>4. ASSUME UNCHANGED <<node, hubSessions>> \/ (~Bound /\ UNCHANGED hubSessions)
      PROVE  Implements
  <2>1. Applied' = Applied
    BY <1>1, <1>3, <1>4 DEF Applied
  <2> QED
    BY <1>1, <1>4, <2>1, NothingDelivered DEF AppliedInQueue, Implements
<1>5. CASE r.kind = "recover" /\ RecoverWorker(r.body)
  <2>1. /\ r.body.epoch = epoch /\ r.body.epoch <= Goal
        /\ r.body.epoch = Goal => r.body.newStream = streamId
    BY <1>5, RefusalAssumption DEF Timely, RecoverWorker, RecoverRefusal, Refusals
  <2>2. Bound => node.stream = r.body.newStream
    BY <1>1, <2>1, Ranges DEF Bound, Goal
  <2>3. UNCHANGED hubSessions
    BY <1>5 DEF RecoverWorker, databaseVars, contentVars
  <2>4. node.stream = r.body.newStream => UNCHANGED node
    BY <1>5 DEF RecoverWorker, databaseVars
  <2> QED
    BY <1>4, <2>2, <2>3, <2>4
<1>6. CASE r.kind = "upload" /\ ReceiveUpload(r.body) /\ Replayed(r.body)
  BY <1>4, <1>6 DEF ReceiveUpload, databaseVars, contentVars
<1>7. CASE r.kind = "upload" /\ ReceiveUpload(r.body) /\ ~Replayed(r.body)
  <2>1. /\ Bound /\ node.confirmed = confirmedSequence
        /\ r.body.op = outbox[confirmedSequence + 1] /\ r.body.op \in SoundOperations
        /\ node' = NodeRow(node.stream, confirmedSequence + 1, r.body.op, node.recoveryEpoch)
    BY <1>1, <1>7, NextApplied
  <2>2. Applied = confirmedSequence /\ Applied' = Applied + 1
    BY <1>3, <2>1 DEF NodeRow
  <2>3. hubSessions' \in D!Effect(r.body.op)
    BY <1>1, <1>7, <2>1, EffectOfUpload
  <2> QED
    BY <1>1, <2>1, <2>2, <2>3, SomethingDelivered DEF Implements, D!DeliveryNext
<1>8. CASE (\E c : WorkerHello(r.body, c)) \/ UNCHANGED hubVars
  BY <1>4, <1>8 DEF WorkerHello, contentVars, hubVars, databaseVars
<1> QED
  BY <1>5, <1>6, <1>7, <1>8 DEF ServedAs

(* Steps in which the Worker's queue and the Hub stay as they are, and     *)
(* that read no receipt.                                                   *)
LEMMA QuietImplements ==
    ASSUME DeliveryInv, AppliedInQueue, AppliedInQueue',
           UNCHANGED <<queueNumbers, epoch, node, hubSessions>>,
           ReceiptOnTheWay' => ReceiptOnTheWay
    PROVE  Implements
<1>1. UNCHANGED <<streamId, confirmedSequence, binding, recovery, lastSequence, outbox>>
  BY DEF queueNumbers, numbers
<1>2. confirmedSequence \in Nat
  BY Ranges DEF DeliveryInv
<1>3. Applied' = Applied \/ Applied = Applied' + 1
  BY <1>1, <1>2 DEF Applied, Bound
<1> QED
  BY <1>1, <1>3, ReceiptForgotten DEF Implements, D!DeliveryNext

(* A recovery begins: what was not acknowledged is queued again.           *)
LEMMA StartRecoveryImplements ==
    ASSUME DeliveryInv, AppliedInQueue, AppliedInQueue', HelloStartsRecovery
    PROVE  Implements
<1> DEFINE e == answer.body.epoch
<1>1. /\ PrepareRecovery(e) /\ e \in Nat /\ UNCHANGED <<epoch, node, hubSessions>>
      /\ ~ReceiptOnTheWay'
  BY DEF HelloStartsRecovery, DeliveryInv, NumbersInv, AnswerCurrent, hubVars, databaseVars,
      contentVars, Read, ReceiptOnTheWay, Got
<1> HIDE DEF e
<1>2. CASE UNCHANGED workerVars
  BY <1>1, <1>2, QuietImplements DEF queueNumbers, numbers, workerVars, queueVars
<1>3. CASE ~UNCHANGED workerVars
  <2>1. /\ confirmedSequence' = 0 /\ lastSequence' = lastSequence - trimmed
        /\ outbox' = [q \in 1 .. lastSequence - trimmed |-> outbox[trimmed + q]]
        /\ recovery' = Recovery(e, IF recovery = None THEN streamId
                                   ELSE recovery.previousStream, streamId + 1)
    BY <1>1, <1>3 DEF PrepareRecovery, ResetQueue
  <2>2. recovery' # None
    <3>1. recovery' \in Recoveries
      BY <1>1, <2>1, Ranges DEF Recovery, Recoveries, DeliveryInv, NumbersInv, WorkerNumbers
    <3> QED
      BY <3>1, NoneAssumption DEF Recoveries
  <2>3. Applied' = 0
    BY <1>1, <2>1, <2>2 DEF Applied, Bound
  <2>4. /\ Applied \in Nat /\ trimmed \in Nat /\ lastSequence \in Nat /\ confirmedSequence \in Nat
        /\ trimmed <= Applied /\ Applied <= lastSequence /\ Applied <= confirmedSequence + 1
    BY AppliedPlace, Ranges DEF AppliedInQueue, DeliveryInv
  <2> DEFINE d == Applied - trimmed
  <2>5. /\ d \in Nat /\ lastSequence' - Applied' = lastSequence - Applied + d
    BY <2>1, <2>3, <2>4
  <2>6. ASSUME NEW k \in 1 .. lastSequence - Applied
        PROVE  outbox'[Applied' + (d + k)] = outbox[Applied + k]
    <3>1. /\ d + k \in 1 .. lastSequence - trimmed /\ trimmed + (d + k) = Applied + k
          /\ Applied' + (d + k) = d + k
      BY <2>3, <2>4, <2>5
    <3> QED
      BY <2>1, <3>1
  <2>7. ASSUME NEW k \in 1 .. d - 1
        PROVE  outbox'[Applied' + k].kind = "chunk"
    <3>1. /\ k \in 1 .. lastSequence - trimmed /\ Applied' + k = k
          /\ trimmed + k \in Rows /\ trimmed + k <= confirmedSequence
      BY <2>3, <2>4, <2>5 DEF Rows
    <3>2. outbox[trimmed + k].kind = "chunk"
      BY <3>1, Ranges DEF DeliveryInv, QueueOK, WatermarkInQueue
    <3> QED
      BY <2>1, <3>1, <3>2
  <2> HIDE DEF d
  <2>8. D!Replay \/ D!Restore
    BY <2>5, <2>6, <2>7, SomethingRequeued
  <2> QED
    BY <2>8 DEF Implements, D!DeliveryNext
<1> QED
  BY <1>2, <1>3

(* A receipt is read: what it is of was applied before.                    *)
LEMMA UploadDoneImplements ==
    ASSUME DeliveryInv, AppliedInQueue, AppliedInQueue', UploadDone
    PROVE  Implements
<1> DEFINE q == confirmedSequence + 1
<1>1. /\ UNCHANGED <<streamId, recovery, binding, lastSequence>> /\ confirmedSequence' = q
      /\ IF outbox[q].kind = "chunk" THEN UNCHANGED <<trimmed, outbox>>
         ELSE trimmed' = q /\ \A r \in Rows' : outbox'[r] = outbox[r]
  BY UploadDoneKeeps DEF QueueKept, DeliveryInv
<1>2. UNCHANGED <<epoch, node, hubSessions>> /\ ReceiptOnTheWay /\ ~ReceiptOnTheWay'
  BY DEF UploadDone, Read, ReceiptOnTheWay, Got, hubVars, databaseVars, contentVars
<1>3. Applied = q /\ (Bound => node.confirmed = q) /\ q \in Nat /\ lastSequence \in Nat
  BY <1>2, AppliedPlace, Ranges DEF DeliveryInv
<1>4. Applied' = q
  BY <1>1, <1>2, <1>3 DEF Applied, Bound
<1>5. \A r \in q + 1 .. lastSequence : outbox'[r] = outbox[r]
  BY <1>1, <1>3 DEF Rows
<1> HIDE DEF q
<1> QED
  BY <1>1, <1>2, <1>3, <1>4, <1>5, NothingDelivered DEF Implements

(* Collection.                                                             *)
LEMMA CollectImplements ==
    ASSUME DeliveryInv, AppliedInQueue, AppliedInQueue', Collect
    PROVE  Implements
<1>1. /\ UNCHANGED <<streamId, recovery, binding, confirmedSequence, trimmed>>
      /\ lastSequence' >= lastSequence /\ lastSequence' \in Nat
      /\ \A q \in Rows : q \in Rows' /\ outbox'[q] = outbox[q]
  BY CollectKeeps DEF QueueKept, DeliveryInv
<1>2. UNCHANGED <<epoch, node, hubSessions, awaited, answer>>
  BY DEF Collect, loopVars, hubVars, databaseVars, contentVars
<1>3. Applied' = Applied
  BY <1>1, <1>2 DEF Applied, Bound, ReceiptOnTheWay, Got, Idle
<1>4. /\ Applied \in Nat /\ trimmed \in Nat /\ lastSequence \in Nat /\ trimmed <= Applied
  BY AppliedPlace, Ranges DEF AppliedInQueue, DeliveryInv
<1>5. \A q \in Applied + 1 .. lastSequence : outbox'[q] = outbox[q]
  BY <1>1, <1>4 DEF Rows
<1>6. CASE lastSequence' = lastSequence
  BY <1>2, <1>3, <1>4, <1>5, <1>6, NothingDelivered DEF Implements
<1>7. CASE lastSequence' > lastSequence
  BY <1>2, <1>3, <1>5, <1>7, SomethingSubmitted DEF Implements, D!DeliveryNext
<1> QED
  BY <1>1, <1>4, <1>6, <1>7

(* The Hub's files are restored: all but the queue may change.             *)
LEMMA RestoreImplements ==
    ASSUME DeliveryInv, AppliedInQueue, AppliedInQueue', RestoreBackup,
           UNCHANGED <<workerVars, awaited, answer>>
    PROVE  Implements
<1>1. /\ UNCHANGED <<streamId, confirmedSequence, binding, recovery, lastSequence, outbox>>
      /\ (ReceiptOnTheWay' <=> ReceiptOnTheWay)
  BY DEF workerVars, queueVars, ReceiptOnTheWay, Got, Idle
<1>2. epoch' = epoch + 1
  BY DEF RestoreBackup
<1>3. ~Bound'
  BY <1>1, <1>2, Ranges DEF DeliveryInv, NumbersInv, WorkerNumbers, HubNumbers, Goal, Bound
<1>4. /\ Applied \in {confirmedSequence, confirmedSequence + 1} /\ confirmedSequence \in Nat
      /\ ReceiptOnTheWay => Applied = confirmedSequence + 1
  BY AppliedPlace, Ranges DEF DeliveryInv
<1>5. Applied' = IF ReceiptOnTheWay THEN confirmedSequence + 1 ELSE confirmedSequence
  BY <1>1, <1>3 DEF Applied
<1> QED
  BY <1>1, <1>4, <1>5, ReceiptForgotten DEF Implements, D!DeliveryNext

(* A recovery ends with nothing applied of the new stream.                 *)
LEMMA RecoverDoneImplements ==
    ASSUME DeliveryInv, AppliedInQueue, AppliedInQueue', RecoverDone
    PROVE  Implements
<1>1. /\ recovery # None /\ recovery' = None /\ binding' = recovery.epoch
      /\ UNCHANGED <<confirmedSequence, lastSequence, outbox, epoch, node, hubSessions>>
      /\ awaited.kind = "recover" /\ awaited' = None
  BY DEF RecoverDone, FinishRecovery, Read, Got, queueVars, hubVars, databaseVars, contentVars
<1>2. confirmedSequence = 0 /\ lastSequence \in Nat
  BY <1>1, Ranges DEF DeliveryInv, NumbersInv, WorkerNumbers
<1>3. recovery.epoch = epoch => node.confirmed = 0
  BY DEF RecoverDone, DeliveryInv, NumbersInv, AnswerCurrent
<1>4. Applied = 0
  BY <1>1, <1>2 DEF Applied, Bound, ReceiptOnTheWay, Got
<1>5. Applied' = 0
  BY <1>1, <1>2, <1>3 DEF Applied, Bound, ReceiptOnTheWay, Got, Idle
<1> QED
  BY <1>1, <1>2, <1>4, <1>5, NothingDelivered DEF Implements

(* A request is served, with or without a reader.                          *)
LEMMA ServeImplements ==
    ASSUME DeliveryInv, AppliedInQueue, AppliedInQueue', HubServe \/ HubServeLate
    PROVE  Implements
<1>1. UNCHANGED <<queueNumbers, awaited>>
  BY DEF HubServe, HubServeLate, queueNumbers, numbers, workerVars, queueVars
<1>2. RequestsTimely /\ RequestsMatch /\ NumbersInv
  BY DEF DeliveryInv, FollowInv, NumbersInv
<1>3. CASE HubServe
  <2>1. ServedAs(awaited) /\ Timely(awaited) /\ Matches(awaited)
    BY <1>2, <1>3, ServeIsServed DEF HubServe, RequestsTimely, RequestsMatch
  <2>2. PICK reply : Serve(awaited, reply) /\ answer' = reply /\ answer = None
    BY <1>3 DEF HubServe
  <2>3. ~ReceiptOnTheWay
    BY <2>2 DEF ReceiptOnTheWay, Got
  <2>4. ReceiptOnTheWay' => awaited.kind = "upload" /\ reply.ok
    BY <1>1, <2>2 DEF ReceiptOnTheWay, Got
  <2>5. awaited.kind = "upload" /\ reply.ok => ReceiveUpload(awaited.body)
    <3> SUFFICES ASSUME awaited.kind = "upload", reply.ok
                 PROVE  ReceiveUpload(awaited.body)
      OBVIOUS
    <3>1. \/ \E code : reply = Refused(code)
          \/ ReceiveUpload(awaited.body)
      BY <2>2 DEF Serve
    <3>2. \A code : ~Refused(code).ok
      BY DEF Refused
    <3> QED
      BY <3>1, <3>2
  <2>6. awaited.kind = "upload" /\ ReceiveUpload(awaited.body) => Bound
    BY <1>1, <1>2, <2>1, UploadStays DEF Timely, queueNumbers
  <2>7. Bound \/ (ReceiptOnTheWay' <=> ReceiptOnTheWay)
    BY <2>3, <2>4, <2>5, <2>6
  <2> QED
    BY <1>1, <2>1, <2>7, ServedImplements
<1>4. CASE HubServeLate
  <2>1. PICK r \in late : ServedAs(r)
    BY <1>2, <1>4, LateIsServed
  <2>2. Timely(r) /\ Matches(r)
    BY <1>2 DEF RequestsTimely, RequestsMatch
  <2>3. ReceiptOnTheWay' <=> ReceiptOnTheWay
    BY <1>4 DEF HubServeLate, ReceiptOnTheWay, Got, Idle
  <2> QED
    BY <1>1, <2>1, <2>2, <2>3, ServedImplements
<1> QED
  BY <1>3, <1>4

(* Every step is one of Delivery's, or changes nothing it speaks of.       *)
LEMMA StepImplements ==
    ASSUME DeliveryInv, AppliedInQueue, AppliedInQueue', [Next]_vars
    PROVE  Implements
<1>1. Idle => answer = None
  BY DEF DeliveryInv, NumbersInv, AwaitedCurrent
<1>2. CASE SendRecover \/ SendHello \/ SendUpload
  <2>1. /\ UNCHANGED <<queueNumbers, epoch, node, hubSessions>> /\ answer' = None
    BY <1>1, <1>2 DEF SendRecover, SendHello, SendUpload, Send, queueNumbers, numbers,
        workerVars, queueVars, hubVars, databaseVars, contentVars
  <2> QED
    BY <2>1, QuietImplements DEF ReceiptOnTheWay, Got
<1>3. CASE HubBusy \/ HubLeased
  <2>1. /\ UNCHANGED <<queueNumbers, epoch, node, hubSessions>> /\ ~answer'.ok
    BY <1>3 DEF HubBusy, HubLeased, Fault, Busy, Refused, queueNumbers, numbers,
        workerVars, queueVars, hubVars, databaseVars, contentVars
  <2> QED
    BY <2>1, QuietImplements DEF ReceiptOnTheWay
<1>4. CASE Lose \/ Crash
  <2>1. /\ UNCHANGED <<queueNumbers, epoch, node, hubSessions>> /\ answer' = None
    BY <1>4 DEF Lose, Crash, queueNumbers, numbers, workerVars, queueVars, hubVars,
        databaseVars, contentVars
  <2> QED
    BY <2>1, QuietImplements DEF ReceiptOnTheWay, Got
<1>5. CASE \/ RecoverRefused \/ HelloStartsRescan \/ HelloOk \/ HelloRefused \/ HelloBusy
           \/ UploadRefused \/ UploadBusy
  <2>1. /\ UNCHANGED <<queueNumbers, epoch, node, hubSessions>> /\ answer' = None
    BY <1>5 DEF RecoverRefused, HelloStartsRescan, HelloOk, HelloRefused, HelloBusy,
        UploadRefused, UploadBusy, SetPause, Read, queueNumbers, numbers, workerVars,
        queueVars, hubVars, databaseVars, contentVars
  <2> QED
    BY <2>1, QuietImplements DEF ReceiptOnTheWay, Got
<1>6. CASE Change \/ ScanFails \/ HubUser \/ (HubOperator /\ TakeBackup) \/ UNCHANGED vars
  <2>1. UNCHANGED <<queueNumbers, epoch, node, hubSessions, awaited, answer>>
    <3>1. CASE Change \/ ScanFails \/ UNCHANGED vars
      BY <3>1 DEF Change, Edit, ScanFails, Fault, FailPage, vars, loopVars, queueNumbers,
          numbers, workerVars, queueVars, hubVars, databaseVars, contentVars
    <3>2. CASE HubUser
      BY <3>2 DEF HubUser, RequestRescan, CancelRescan, loopVars, queueNumbers, numbers,
          workerVars, queueVars, contentVars
    <3>3. CASE HubOperator /\ TakeBackup
      BY <3>3 DEF HubOperator, TakeBackup, loopVars, queueNumbers, numbers, workerVars,
          queueVars, databaseVars, contentVars
    <3> QED
      BY <1>6, <3>1, <3>2, <3>3
  <2> QED
    BY <2>1, QuietImplements DEF ReceiptOnTheWay, Got, Idle
<1>7. CASE HubOperator /\ RestoreBackup
  <2>1. UNCHANGED <<workerVars, awaited, answer>>
    BY <1>7 DEF HubOperator, loopVars
  <2> QED
    BY <1>7, <2>1, RestoreImplements
<1> QED
  BY <1>2, <1>3, <1>4, <1>5, <1>6, <1>7, ServeImplements, RecoverDoneImplements,
     StartRecoveryImplements, UploadDoneImplements, CollectImplements
  DEF Next, ReadAnswer, HubOperator

(* Synchronization implements Delivery: every operation worker_store.rs    *)
(* queues takes effect on the Hub, once and in order, whatever is lost,    *)
(* repeated, late or restarted; a restored Hub has the unfinished snapshot *)
(* and the last operation queued again at most.                            *)
THEOREM DeliveryImplemented == Spec => ImplementsDelivery
<1>1. Init => D!DeliveryInit
  <2> SUFFICES ASSUME Init PROVE D!DeliveryInit
    OBVIOUS
  <2>1. /\ Applied = 0 /\ lastSequence = 0 /\ hubSessions = [s \in Sessions |-> None]
    BY DEF Init, WorkerInit, HubInit, NodeRow, Applied, Bound
  <2>2. Undelivered = <<>>
    BY <2>1 DEF Undelivered
  <2> QED
    BY <2>1, <2>2 DEF D!DeliveryInit
<1>2. DeliveryInv => AppliedInQueue
  BY AppliedPlace
<1>3. DeliveryInv /\ AppliedInQueue /\ AppliedInQueue' /\ [Next]_vars
        => [D!DeliveryNext]_<<Undelivered, hubSessions>>
  BY StepImplements DEF Implements
<1> QED
  BY <1>1, <1>2, <1>3, DeliveryHolds, PTL DEF Spec, ImplementsDelivery, D!DeliverySpec

----------------------------------------------------------------------------
(* Divergence heals: NoSilentDivergence.  It is not inductive.  Healing    *)
(* says, of each session counted as delivered, that the queue brings the   *)
(* Hub to it (Comes) or that an open task not begun will have it sent      *)
(* again (Resent); and, so that this is kept, that a Hub which took up a   *)
(* recovery's stream has its task open, that the Worker reports only on    *)
(* tasks it has begun, that a task in an answer is in the table, and that  *)
(* what is begun can be collected.                                         *)

(* What divergence the protocol heals, and how: the requests that may      *)
(* still be served, and the tasks the Worker may report on with one.       *)
Pended == late \cup (IF Idle THEN {} ELSE {awaited})
Reports(r) == r.kind = "hello" /\ r.body.epoch = epoch /\ r.body.rescan # None
TaskBegun(id) == SameTask(id) \/ \E r \in Pended : Reports(r) /\ r.body.rescan.id = id

(* A task the Worker has not begun, and which will have s sent again.      *)
Covers(agents, s) == agents = {} \/ AgentOf[s] \in agents
Awaits(i, s) ==
    Active(rescans[i]) /\ ~TaskBegun(rescans[i].id) /\ Covers(rescans[i].agents, s)
Resent(s) == \E i \in 1 .. Len(rescans) : Awaits(i, s)

(* What is queued brings the Hub to what was sent: a snapshot is on its    *)
(* way, or the Hub has what the first delta extends; and when nothing is,  *)
(* it is there.                                                            *)
ToApply(S) == {q \in S : q > node.confirmed}
IsFirst(q, S) == q \in S /\ \A p \in S : q <= p
MessagesCome(s) ==
    LET commits == ToApply(CommitsOf(s))
    IN  \/ \E q \in commits : outbox[q].base = None
        \/ /\ \A q \in commits : IsFirst(q, commits) =>
                outbox[q].base.previous = messageBases[s]
           /\ commits = {} => messageBases[s] = sent[s].messages
TitleComes(s) ==
    ToApply(OpsOf(s)) = {} /\ hubSessions[s] # None => hubSessions[s].title = sent[s].title
Comes(s) == MessagesCome(s) /\ TitleComes(s)

(* Nobody cancels the tasks a replaced Hub asks for.                       *)
Uncancelled == limits.cancels => limits.epoch = 0
Delivers ==
    Bound => \A s \in Sessions : sent[s] \in Captures =>
        Comes(s) \/ (~limits.cancels /\ Resent(s))

(* A Hub that has the stream of a recovery has its task open.              *)
RecoveryQueued ==
    recovery # None /\ recovery.epoch = epoch /\ node.stream = streamId =>
        \E i \in 1 .. Len(rescans) : Active(rescans[i]) /\ rescans[i].agents = {}

(* A task is for all agents or for one.                                    *)
Narrow(agents) == \A a, b \in agents : a = b
NarrowAll(queue) == \A i \in 1 .. Len(queue) : Narrow(queue[i].agents)

(* Reports are made when both sides agree, and of this epoch's tasks.      *)
ReportsBound ==
    /\ recovery # None => rescan = None
    /\ \A r \in Pended : r.kind = "hello" =>
         /\ r.body.epoch \in Nat /\ r.body.epoch <= Goal
         /\ Reports(r) => Bound

(* The task an answer hands out is in the table.                           *)
Listed(task, queue) ==
    \E i \in 1 .. Len(queue) : queue[i].id = task.id /\ queue[i].agents = task.agents
TaskListed ==
    Got("hello") /\ answer.ok /\ answer.body.epoch = epoch /\ answer.body.task # None =>
        Listed(answer.body.task, rescans)

(* Only enabled agents are collected.                                      *)
SentEnabled == \A s \in Sessions : sent[s] # None => AgentOf[s] \in Enabled

Booked ==
    /\ NarrowAll(rescans) /\ NarrowAll(backup.rescans)
    /\ ReportsBound /\ TaskListed /\ SentEnabled
    /\ limits.epoch \in Nat /\ epoch <= limits.epoch
Healing == Booked /\ (Uncancelled => RecoveryQueued /\ Delivers)

(* A set of naturals has a least member.                                   *)
LEMMA LeastExists ==
    ASSUME NEW S \in SUBSET Nat, S # {}
    PROVE  \E i \in S : \A j \in S : i <= j
<1> DEFINE R == {p \in Nat \X Nat : p[1] < p[2]}
<1>1. IsWellFoundedOn(R, Nat)
  BY NatLessThanWellFounded DEF OpToRel
<1> HIDE DEF R
<1>2. PICK i \in S : \A j \in S : <<j, i>> \notin R
  BY <1>1, WFMin
<1>3. \A j \in S : ~(j < i)
  BY <1>2 DEF R
<1> QED
  BY <1>3

----------------------------------------------------------------------------
(* The task table.                                                         *)

(* Rows are added, and those there keep what they are about.               *)
Grown(old, new) ==
    /\ Len(new) >= Len(old)
    /\ \A i \in 1 .. Len(old) : new[i].id = old[i].id /\ new[i].agents = old[i].agents
(* A task that nobody reports on stays open.                               *)
StaysOpen ==
    \A i \in 1 .. Len(rescans) :
        Active(rescans[i]) /\ ~TaskBegun(rescans[i].id) => Active(rescans'[i])

(* Setting the status of rows closes at most those.                        *)
LEMMA StatusGrows ==
    ASSUME NEW queue \in Seq(RescanTasks), NEW chosen, NEW status \in ActiveStatus \cup EndStatus
    PROVE  LET new == WithStatus(queue, chosen, status)
           IN  /\ new \in Seq(RescanTasks) /\ Len(new) = Len(queue) /\ Grown(queue, new)
               /\ NarrowAll(queue) => NarrowAll(new)
               /\ \A i \in 1 .. Len(queue) :
                    i \notin chosen \/ status \in ActiveStatus =>
                        (Active(queue[i]) => Active(new[i]))
<1> DEFINE new == WithStatus(queue, chosen, status)
<1>1. /\ new \in Seq(RescanTasks) /\ Len(new) = Len(queue)
      /\ \A i \in 1 .. Len(queue) :
           /\ new[i].id = queue[i].id /\ new[i].agents = queue[i].agents
           /\ new[i].reason = queue[i].reason
           /\ i \in chosen => new[i].status = status
           /\ i \notin chosen => new[i] = queue[i]
  BY WithStatusType
<1> HIDE DEF new
<1>2. Len(queue) \in Nat
  BY LenProperties
<1>3. Grown(queue, new) /\ (NarrowAll(queue) => NarrowAll(new))
  BY <1>1, <1>2 DEF Grown, NarrowAll
<1>4. \A i \in 1 .. Len(queue) :
        i \notin chosen \/ status \in ActiveStatus => (Active(queue[i]) => Active(new[i]))
  BY <1>1 DEF Active
<1> QED
  BY <1>1, <1>3, <1>4 DEF new

(* A row more.                                                             *)
LEMMA AppendGrows ==
    ASSUME NEW queue \in Seq(RescanTasks), NEW task \in RescanTasks, Narrow(task.agents)
    PROVE  LET new == Append(queue, task)
           IN  /\ new \in Seq(RescanTasks) /\ Grown(queue, new)
               /\ NarrowAll(queue) => NarrowAll(new)
               /\ Len(new) = Len(queue) + 1 /\ new[Len(new)] = task
               /\ \A i \in 1 .. Len(queue) : new[i] = queue[i]
<1> DEFINE new == Append(queue, task)
<1>1. /\ new \in Seq(RescanTasks) /\ Len(new) = Len(queue) + 1
      /\ \A i \in 1 .. Len(queue) : new[i] = queue[i]
      /\ new[Len(queue) + 1] = task
  BY AppendTask
<1> HIDE DEF new
<1>2. Len(queue) \in Nat
  BY LenProperties
<1>3. \A i \in 1 .. Len(new) : i \in 1 .. Len(queue) \/ i = Len(queue) + 1
  BY <1>1, <1>2
<1> QED
  BY <1>1, <1>2, <1>3 DEF Grown, NarrowAll, new

(* queue_rescan: a row more, or one that is open already.                  *)
LEMMA RescanGrows ==
    ASSUME NEW queue \in Seq(RescanTasks), NEW agents \in SUBSET Agents, Narrow(agents),
           epoch \in Nat, NEW reason \in {"manual", "mismatch"}
    PROVE  LET new == QueueRescan(queue, agents, reason)
           IN  /\ new \in Seq(RescanTasks) /\ Grown(queue, new)
               /\ NarrowAll(queue) => NarrowAll(new)
               /\ \A i \in 1 .. Len(queue) : new[i] = queue[i]
<1> DEFINE task == Task(FreshTask(queue), agents, reason)
<1>1. /\ task \in RescanTasks
      /\ QueueRescan(queue, agents, reason) \in {queue, Append(queue, task)}
  BY QueueRescanType
<1>2. Narrow(task.agents)
  BY DEF Task
<1> HIDE DEF task
<1>3. Grown(queue, queue)
  BY LenProperties DEF Grown
<1>4. LET new == Append(queue, task)
      IN  /\ new \in Seq(RescanTasks) /\ Grown(queue, new)
          /\ NarrowAll(queue) => NarrowAll(new)
          /\ \A i \in 1 .. Len(queue) : new[i] = queue[i]
  BY <1>1, <1>2, AppendGrows
<1> QED
  BY <1>1, <1>3, <1>4

(* Tables that grow twice have grown.                                      *)
LEMMA GrownTwice ==
    ASSUME NEW old \in Seq(RescanTasks), NEW mid \in Seq(RescanTasks),
           NEW new \in Seq(RescanTasks), Grown(old, mid), Grown(mid, new)
    PROVE  Grown(old, new)
<1>1. Len(old) \in Nat /\ Len(mid) \in Nat /\ Len(new) \in Nat
  BY LenProperties
<1>2. Len(mid) >= Len(old) /\ Len(new) >= Len(mid)
  BY DEF Grown
<1>3. \A i \in 1 .. Len(old) : i \in 1 .. Len(mid)
  BY <1>1, <1>2
<1> QED
  BY <1>1, <1>2, <1>3 DEF Grown

(* worker_hello: a report is about a task that was begun, and a task that  *)
(* is handed out stays open.                                               *)
LEMMA HelloGrows ==
    ASSUME HubOK, NEW r \in Pended, r.kind = "hello", NEW c, WorkerHello(r.body, c)
    PROVE  Grown(rescans, rescans') /\ (NarrowAll(rescans) => NarrowAll(rescans')) /\ StaysOpen
<1> DEFINE mid == Reported(r.body, c)
           task == HandedOut(r.body, c)
           first == {i \in DOMAIN mid : /\ task # None /\ mid[i].id = task.id
                                        /\ mid[i].status = "waiting"}
<1>1. rescans \in Seq(RescanTasks)
  BY DEF HubOK, TablesHold, TasksOK
<1>2. /\ mid \in Seq(RescanTasks) /\ Len(mid) = Len(rescans) /\ Grown(rescans, mid)
      /\ NarrowAll(rescans) => NarrowAll(mid)
      /\ \A i \in 1 .. Len(rescans) :
            Active(rescans[i]) /\ ~TaskBegun(rescans[i].id) => Active(mid[i])
  <2>1. CASE Reports(r)
    <3> DEFINE chosen == {i \in ActiveIn(rescans) : rescans[i].id = r.body.rescan.id}
               status == ProgressStatus(r.body.rescan, c)
    <3>1. mid = WithStatus(rescans, chosen, status)
      BY <2>1 DEF Reported, Reports
    <3>2. status \in ActiveStatus \cup EndStatus
      BY ProgressStatusType
    <3>3. \A i \in 1 .. Len(rescans) : ~TaskBegun(rescans[i].id) => i \notin chosen
      BY <2>1 DEF TaskBegun
    <3> HIDE DEF chosen, status
    <3> QED
      BY <1>1, <3>1, <3>2, <3>3, StatusGrows
  <2>2. CASE ~Reports(r)
    <3>1. mid = rescans
      BY <2>2 DEF Reported, Reports
    <3> QED
      BY <1>1, <3>1, LenProperties DEF Grown
  <2> QED
    BY <2>1, <2>2
<1>3. rescans' = WithStatus(mid, first, "dispatched")
  BY DEF WorkerHello
<1>4. "dispatched" \in ActiveStatus
  BY DEF ActiveStatus
<1> HIDE DEF mid, first
<1>5. /\ rescans' \in Seq(RescanTasks) /\ Grown(mid, rescans')
      /\ NarrowAll(mid) => NarrowAll(rescans')
      /\ \A i \in 1 .. Len(mid) : Active(mid[i]) => Active(rescans'[i])
  BY <1>2, <1>3, <1>4, StatusGrows
<1>6. Grown(rescans, rescans')
  BY <1>1, <1>2, <1>5, GrownTwice
<1> QED
  BY <1>2, <1>5, <1>6 DEF StaysOpen
(* receive_upload: a task more at most.                                    *)
LEMMA UploadGrows ==
    ASSUME HubOK, NEW u, u.op \in SoundOperations, ReceiveUpload(u)
    PROVE  /\ Grown(rescans, rescans') /\ (NarrowAll(rescans) => NarrowAll(rescans'))
           /\ StaysOpen
<1>1. rescans \in Seq(RescanTasks) /\ epoch \in Nat /\ u.op \in Operations
  BY DEF HubOK, TablesHold, TasksOK, SoundOperations
<1>2. CASE UNCHANGED rescans
  BY <1>1, <1>2, LenProperties DEF Grown, StaysOpen
<1>3. CASE OrphanCommit(u.stream, u.op)
  <2>1. /\ {AgentOf[u.op.session]} \in SUBSET Agents /\ Narrow({AgentOf[u.op.session]})
        /\ rescans' = QueueRescan(rescans, {AgentOf[u.op.session]}, "mismatch")
    BY <1>1, <1>3, AgentAssumption DEF OrphanCommit, Operations, Narrow
  <2>2. /\ Grown(rescans, rescans') /\ (NarrowAll(rescans) => NarrowAll(rescans'))
        /\ \A i \in 1 .. Len(rescans) : rescans'[i] = rescans[i]
    BY <1>1, <2>1, RescanGrows
  <2> QED
    BY <2>2 DEF StaysOpen
<1> QED
  BY <1>2, <1>3 DEF ReceiveUpload, databaseVars, ApplyChunk, ApplyCommit, ApplyMetadata,
      OrphanMetadata

(* recover_worker: in a new stream all open tasks give way to its own.     *)
LEMMA RecoverGrows ==
    ASSUME HubOK, NEW r, r.newStream \in Nat, RecoverWorker(r)
    PROVE  /\ Grown(rescans, rescans') /\ (NarrowAll(rescans) => NarrowAll(rescans'))
           /\ node.stream = r.newStream => StaysOpen
           /\ node.stream # r.newStream =>
                \E i \in 1 .. Len(rescans)' : Active(rescans'[i]) /\ rescans'[i].agents = {}
<1>1. rescans \in Seq(RescanTasks)
  BY DEF HubOK, TablesHold, TasksOK
<1>2. CASE node.stream = r.newStream
  BY <1>1, <1>2, LenProperties DEF RecoverWorker, databaseVars, Grown, StaysOpen
<1>3. CASE node.stream # r.newStream
  <2> DEFINE mid == EndActive(rescans, "superseded")
             task == Task(RecoveryTask(r.newStream), {}, "hub-recovery")
  <2>1. rescans' = Append(mid, task)
    BY <1>3 DEF RecoverWorker
  <2>2. /\ mid \in Seq(RescanTasks) /\ Grown(rescans, mid)
        /\ NarrowAll(rescans) => NarrowAll(mid)
    <3>1. "superseded" \in EndStatus
      BY DEF EndStatus
    <3>2. mid = WithStatus(rescans, ActiveIn(rescans), "superseded")
      BY DEF EndActive
    <3> HIDE DEF mid
    <3> QED
      BY <1>1, <3>1, <3>2, StatusGrows
  <2>3. /\ task \in RescanTasks /\ Narrow(task.agents) /\ task.agents = {} /\ Active(task)
    BY DEF Task, RecoveryTask, RescanTasks, ActiveStatus, Active, Narrow
  <2> HIDE DEF mid, task
  <2>4. /\ rescans' \in Seq(RescanTasks) /\ Grown(mid, rescans')
        /\ NarrowAll(mid) => NarrowAll(rescans')
        /\ Len(rescans') = Len(mid) + 1 /\ rescans'[Len(rescans')] = task
    BY <2>1, <2>2, <2>3, AppendGrows
  <2>5. Grown(rescans, rescans')
    BY <1>1, <2>2, <2>4, GrownTwice
  <2>6. Len(rescans') \in 1 .. Len(rescans')
    BY <2>2, <2>4, LenProperties
  <2> QED
    BY <1>3, <2>2, <2>3, <2>4, <2>5, <2>6
<1> QED
  BY <1>2, <1>3

(* Whatever the Hub is asked for.                                          *)
LEMMA ServedGrows ==
    ASSUME HubOK, NumbersInv, NEW r \in Pended, Timely(r), Matches(r), ServedAs(r)
    PROVE  /\ Grown(rescans, rescans') /\ (NarrowAll(rescans) => NarrowAll(rescans'))
           /\ node'.stream = node.stream => StaysOpen
<1>1. CASE r.kind = "recover" /\ RecoverWorker(r.body)
  <2>1. r.body.newStream \in Nat
    BY <1>1 DEF Timely, Recoveries
  <2>2. node.stream # r.body.newStream => node'.stream = r.body.newStream
    BY <1>1 DEF RecoverWorker, NodeRow
  <2> QED
    BY <1>1, <2>1, <2>2, RecoverGrows
<1>2. CASE r.kind = "upload" /\ ReceiveUpload(r.body)
  BY <1>2, UploadGrows DEF Matches
<1>3. CASE r.kind = "hello" /\ \E c : WorkerHello(r.body, c)
  BY <1>3, HelloGrows
<1>4. CASE UNCHANGED hubVars
  BY <1>4, LenProperties DEF hubVars, databaseVars, Grown, StaysOpen, HubOK, TablesHold, TasksOK
<1> QED
  BY <1>1, <1>2, <1>3, <1>4 DEF ServedAs

(* What users ask for adds a row; only a cancellation closes one.          *)
LEMMA UserGrows ==
    ASSUME HubOK, HubUser
    PROVE  /\ Grown(rescans, rescans') /\ (NarrowAll(rescans) => NarrowAll(rescans'))
           /\ ~limits.cancels => StaysOpen
<1>1. rescans \in Seq(RescanTasks) /\ epoch \in Nat
  BY DEF HubOK, TablesHold, TasksOK
<1>2. CASE \E agents \in {{}} \cup {{a} : a \in Agents} : RequestRescan(agents)
  <2>1. PICK agents \in SUBSET Agents : Narrow(agents) /\ RequestRescan(agents)
    BY <1>2 DEF Narrow
  <2>2. rescans' = QueueRescan(rescans, agents, "manual")
    BY <2>1 DEF RequestRescan
  <2>3. /\ Grown(rescans, rescans') /\ (NarrowAll(rescans) => NarrowAll(rescans'))
        /\ \A i \in 1 .. Len(rescans) : rescans'[i] = rescans[i]
    BY <1>1, <2>1, <2>2, RescanGrows
  <2> QED
    BY <2>3 DEF StaysOpen
<1>3. CASE limits.cancels /\ \E i \in DOMAIN rescans : CancelRescan(rescans[i].id)
  <2>1. PICK chosen : rescans' = WithStatus(rescans, chosen, "cancelled")
    BY <1>3 DEF CancelRescan
  <2>2. "cancelled" \in EndStatus
    BY DEF EndStatus
  <2>3. Grown(rescans, rescans') /\ (NarrowAll(rescans) => NarrowAll(rescans'))
    BY <1>1, <2>1, <2>2, StatusGrows
  <2> QED
    BY <1>3, <2>3
<1> QED
  BY <1>2, <1>3 DEF HubUser

(* Every step but a restore adds tasks at most, and ends none that nobody  *)
(* reported on.                                                            *)
TableGoesOn ==
    /\ Grown(rescans, rescans')
    /\ node'.stream = node.stream /\ ~limits.cancels => StaysOpen

LEMMA TableStep ==
    ASSUME HubOK, NumbersInv, RequestsMatch, [Next]_vars,
           NarrowAll(rescans), NarrowAll(backup.rescans)
    PROVE  /\ NarrowAll(rescans)' /\ NarrowAll(backup.rescans)'
           /\ TableGoesOn \/ (epoch' = epoch + 1 /\ RestoreBackup)
<1>1. rescans \in Seq(RescanTasks)
  BY DEF HubOK, TablesHold, TasksOK
<1>2. CASE UNCHANGED hubVars
  BY <1>1, <1>2, LenProperties DEF hubVars, databaseVars, TableGoesOn, Grown, StaysOpen, NarrowAll
<1>3. CASE HubServe
  <2>1. /\ awaited \in Pended /\ Timely(awaited) /\ Matches(awaited) /\ ServedAs(awaited)
    BY <1>3, ServeIsServed DEF HubServe, NumbersInv, RequestsTimely, RequestsMatch, Pended
  <2>2. UNCHANGED backup
    BY <2>1, ServedKeepsTables
  <2> QED
    BY <2>1, <2>2, ServedGrows DEF TableGoesOn, NarrowAll
<1>4. CASE HubServeLate
  <2>1. PICK r \in late : ServedAs(r)
    BY <1>4, LateIsServed DEF NumbersInv
  <2>2. r \in Pended /\ Timely(r) /\ Matches(r)
    BY DEF NumbersInv, RequestsTimely, RequestsMatch, Pended
  <2>3. UNCHANGED backup
    BY <2>1, <2>2, ServedKeepsTables
  <2> QED
    BY <2>1, <2>2, <2>3, ServedGrows DEF TableGoesOn, NarrowAll
<1>5. CASE HubUser
  <2>1. UNCHANGED backup
    BY <1>5 DEF HubUser, RequestRescan, CancelRescan
  <2> QED
    BY <1>5, <2>1, UserGrows DEF TableGoesOn, NarrowAll
<1>6. CASE HubOperator
  <2>1. CASE TakeBackup
    BY <1>1, <2>1, LenProperties
    DEF TakeBackup, Database, databaseVars, TableGoesOn, Grown, StaysOpen, NarrowAll
  <2>2. CASE RestoreBackup
    BY <2>2 DEF RestoreBackup, NarrowAll
  <2> QED
    BY <1>6, <2>1, <2>2 DEF HubOperator
<1>7. CASE \/ SendRecover \/ SendHello \/ SendUpload \/ HubBusy \/ HubLeased \/ Lose \/ Crash
           \/ Change \/ Collect \/ ScanFails \/ UNCHANGED vars
  BY <1>2, <1>7
  DEF SendRecover, SendHello, SendUpload, Send, HubBusy, HubLeased, Lose, Crash, Fault, Change,
      Collect, ScanFails, vars
<1>8. CASE ReadAnswer
  BY <1>2, <1>8
  DEF ReadAnswer, RecoverDone, RecoverRefused, HelloStartsRecovery, HelloStartsRescan, HelloOk,
      HelloRefused, HelloBusy, UploadDone, UploadRefused, UploadBusy
<1> QED
  BY <1>3, <1>4, <1>5, <1>6, <1>7, <1>8 DEF Next

----------------------------------------------------------------------------
(* Who may report on what.                                                 *)

(* Requests are served, given up or read; none is new.                     *)
LEMMA ReportsSame ==
    ASSUME ReportsBound, Pended' \subseteq Pended, UNCHANGED <<epoch, binding, recovery>>,
           recovery # None => rescan' = rescan
    PROVE  ReportsBound'
BY DEF ReportsBound, Reports, Bound, Goal

(* A Worker that is bound to the Hub's epoch does not begin a recovery.    *)
LEMMA BoundIsNotReplaced ==
    ASSUME NumbersInv, Bound, Got("hello"), answer.ok
    PROVE  ~HubWasReplaced(answer.body)
<1>1. /\ answer.body.epoch \in Nat /\ answer.body.confirmed \in Nat
      /\ Goal <= answer.body.epoch /\ answer.body.epoch <= epoch
      /\ recovery = None /\ answer.body.epoch = binding =>
           answer.body.confirmed >= confirmedSequence
  BY DEF NumbersInv, AnswerCurrent
<1>2. confirmedSequence \in Nat /\ binding \in Nat
  BY DEF NumbersInv, WorkerNumbers
<1>3. answer.body.epoch = binding /\ recovery = None
  BY <1>1, <1>2 DEF Bound, Goal
<1>4. ~(answer.body.confirmed < confirmedSequence)
  BY <1>1, <1>2, <1>3
<1> QED
  BY <1>3, <1>4 DEF HubWasReplaced

(* Reports are made where both sides are bound, at every step.             *)
LEMMA ReportsStay ==
    ASSUME NumbersInv, WorkerInv, ReportsBound, [Next]_vars
    PROVE  ReportsBound'
<1>0. epoch \in Nat /\ Goal <= epoch /\ Goal \in Nat /\ binding \in Nat
  BY DEF NumbersInv, HubNumbers, WorkerNumbers, Goal, Recoveries
<1>1. CASE SendRecover \/ SendUpload
  <2>1. /\ UNCHANGED <<epoch, binding, recovery, rescan, late>>
        /\ awaited'.kind \in {"recover", "upload"}
    BY <1>1 DEF SendRecover, SendUpload, Send, Request, workerVars, hubVars
  <2>2. ASSUME NEW r \in Pended', r.kind = "hello"
        PROVE  r \in Pended
    BY <2>1, <2>2 DEF Pended
  <2> QED
    BY <2>1, <2>2 DEF ReportsBound, Reports, Bound, Goal
<1>2. CASE SendHello
  <2>1. /\ UNCHANGED <<epoch, binding, recovery, rescan, late>>
        /\ awaited' = Request("hello", Hello(IF recovery = None THEN binding ELSE recovery.epoch,
                                            streamId, rescan))
    BY <1>2 DEF SendHello, Send, workerVars, hubVars
  <2>2. awaited'.body.epoch = Goal /\ awaited'.body.rescan = rescan
    BY <2>1 DEF Request, Hello, Goal
  <2>3. Reports(awaited)' => Bound
    BY <2>1, <2>2 DEF Reports, Bound, Goal, ReportsBound
  <2>4. ASSUME NEW r \in Pended'
        PROVE  r \in Pended \/ r = awaited'
    BY <2>1 DEF Pended
  <2>5. /\ UNCHANGED Goal /\ Bound' = Bound
        /\ \A r \in Pended : Reports(r)' = Reports(r)
    BY <2>1 DEF Goal, Bound, Reports
  <2>6. \A r \in Pended' : r.kind = "hello" =>
          /\ r.body.epoch \in Nat /\ r.body.epoch <= Goal'
          /\ Reports(r)' => Bound'
    BY <1>0, <2>1, <2>2, <2>3, <2>4, <2>5 DEF ReportsBound, Reports
  <2> QED
    BY <2>1, <2>6 DEF ReportsBound, Reports
<1>3. CASE HubServe \/ HubServeLate \/ HubBusy \/ HubLeased \/ HubUser
  <2>1. UNCHANGED <<binding, recovery, rescan>> /\ Pended' \subseteq Pended
    BY <1>3 DEF HubServe, HubServeLate, HubBusy, HubLeased, Fault, HubUser, loopVars, workerVars,
       Pended, Idle
  <2>2. UNCHANGED epoch
    <3>1. CASE HubServe
      BY <3>1 DEF HubServe, Serve, RecoverWorker, WorkerHello, ReceiveUpload, hubVars
    <3>2. CASE HubServeLate
      <4>1. PICK r \in late : Discarded(r) /\ Timely(r)
        BY <3>2 DEF HubServeLate, NumbersInv, RequestsTimely
      <4> QED
        BY <4>1 DEF Discarded, Timely, RecoverWorker, WorkerHello, ReceiveUpload
    <3> QED
      BY <1>3, <3>1, <3>2 DEF HubBusy, HubLeased, Fault, HubUser, RequestRescan, CancelRescan,
         hubVars
  <2> QED
    BY <2>1, <2>2, ReportsSame
<1>4. CASE \/ RecoverRefused \/ HelloOk \/ HelloRefused \/ HelloBusy \/ UploadRefused
           \/ UploadBusy \/ UploadDone
  <2>1. UNCHANGED <<epoch, binding, recovery, rescan>> /\ Pended' \subseteq Pended
    BY <1>4 DEF RecoverRefused, HelloOk, HelloRefused, HelloBusy, UploadRefused, UploadBusy,
       UploadDone, Acknowledge, SetPause, Read, workerVars, hubVars, Pended, Idle
  <2> QED
    BY <2>1, ReportsSame
<1>5. CASE \/ Lose \/ Crash \/ Change \/ ScanFails \/ UNCHANGED vars
  <2>1. UNCHANGED <<epoch, binding, recovery, rescan>>
    BY <1>5 DEF Lose, Crash, Fault, Change, Edit, ScanFails, FailPage, vars, workerVars, hubVars
  <2>2. Pended' \subseteq Pended
    BY <1>5 DEF Lose, Crash, Fault, Abandon, Change, ScanFails, vars, loopVars, Pended, Idle
  <2> QED
    BY <2>1, <2>2, ReportsSame
<1>6. CASE Collect
  <2>1. /\ UNCHANGED <<epoch, binding, recovery>> /\ Pended' = Pended
        /\ rescan = None => rescan' = None
    BY <1>6, CollectSaves DEF Collect, hubVars, loopVars, Pended, Idle, Tick, StartScan, SavePage,
       SaveBatch, AgentComplete, DropPage, TickPaused, workerVars
  <2> QED
    BY <2>1, ReportsSame DEF ReportsBound
<1>7. CASE RecoverDone
  <2>1. /\ recovery # None /\ recovery' = None /\ binding' = recovery.epoch
        /\ UNCHANGED <<epoch, rescan>> /\ Pended' \subseteq Pended
    BY <1>7 DEF RecoverDone, FinishRecovery, Read, hubVars, Pended, Idle
  <2>2. Goal' = Goal /\ ~Bound
    BY <2>1 DEF Goal, Bound
  <2> QED
    BY <2>1, <2>2 DEF ReportsBound, Reports
<1>8. CASE HelloStartsRecovery
  <2>1. /\ PrepareRecovery(answer.body.epoch) /\ ~Bound
        /\ UNCHANGED epoch /\ Pended' \subseteq Pended
    BY <1>8, BoundIsNotReplaced DEF HelloStartsRecovery, Read, hubVars, Pended, Idle
  <2>2. answer.body.epoch \in Nat /\ Goal <= answer.body.epoch
    BY <1>8 DEF HelloStartsRecovery, NumbersInv, AnswerCurrent
  <2>3. CASE UNCHANGED workerVars
    BY <2>1, <2>3, ReportsSame DEF workerVars
  <2>4. CASE ~UNCHANGED workerVars
    <3>1. /\ recovery' = Recovery(answer.body.epoch, IF recovery = None THEN streamId
                                    ELSE recovery.previousStream, streamId + 1)
          /\ rescan' = None
      BY <2>1, <2>4 DEF PrepareRecovery
    <3>2. recovery' # None /\ recovery'.epoch = answer.body.epoch
      <4>1. streamId \in Nat /\ recovery \in Recoveries \cup {None}
        BY DEF NumbersInv, WorkerNumbers
      <4>2. recovery' \in Recoveries
        BY <2>2, <3>1, <4>1 DEF Recovery, Recoveries
      <4> QED
        BY <3>1, <4>2, NoneAssumption DEF Recovery, Recoveries
    <3>3. Goal <= Goal' /\ Goal' \in Nat
      BY <2>2, <3>2 DEF Goal
    <3> QED
      BY <1>0, <2>1, <3>1, <3>3 DEF ReportsBound, Reports
  <2> QED
    BY <2>3, <2>4
<1>9. CASE HelloStartsRescan
  <2>1. recovery = None /\ UNCHANGED <<epoch, binding, recovery>> /\ Pended' \subseteq Pended
    BY <1>9 DEF HelloStartsRescan, HubWasReplaced, NewTask, Read, hubVars, Pended, Idle
  <2> QED
    BY <2>1, ReportsSame
<1>10. CASE HubOperator
  <2>1. UNCHANGED <<binding, recovery, rescan>> /\ Pended' = Pended
    BY <1>10 DEF HubOperator, workerVars, loopVars, Pended, Idle
  <2>2. CASE epoch' = epoch
    BY <2>1, <2>2, ReportsSame
  <2>3. CASE epoch' = epoch + 1
    <3>1. \A r \in Pended' : ~Reports(r)'
      BY <1>0, <2>1, <2>3 DEF ReportsBound, Reports
    <3> QED
      BY <2>1, <3>1 DEF ReportsBound, Goal
  <2> QED
    BY <1>10, <2>2, <2>3 DEF HubOperator, TakeBackup, RestoreBackup
<1> QED
  BY <1>1, <1>2, <1>3, <1>4, <1>5, <1>6, <1>7, <1>8, <1>9, <1>10 DEF Next, ReadAnswer

(* The oldest open task is one of the table.                               *)
LEMMA OldestInTable ==
    ASSUME NEW queue \in Seq(RescanTasks), OldestActive(queue) # None
    PROVE  \E i \in 1 .. Len(queue) : OldestActive(queue) = queue[i]
<1>1. Len(queue) \in Nat /\ DOMAIN queue = 1 .. Len(queue)
  BY LenProperties
<1>2. ActiveIn(queue) # {} /\ ActiveIn(queue) \in SUBSET Nat
  BY <1>1 DEF OldestActive, ActiveIn
<1>3. \E i \in ActiveIn(queue) : \A j \in ActiveIn(queue) : i <= j
  BY <1>2, LeastExists
<1> DEFINE k == CHOOSE i \in ActiveIn(queue) : \A j \in ActiveIn(queue) : i <= j
<1>4. k \in ActiveIn(queue)
  BY <1>3
<1>5. OldestActive(queue) = queue[k]
  BY <1>2 DEF OldestActive
<1> HIDE DEF k
<1> QED
  BY <1>1, <1>4, <1>5 DEF ActiveIn

(* A task listed stays listed.                                             *)
LEMMA ListedGrows ==
    ASSUME NEW task, NEW old \in Seq(RescanTasks), NEW new \in Seq(RescanTasks),
           Grown(old, new), Listed(task, old)
    PROVE  Listed(task, new)
<1>1. Len(old) \in Nat /\ Len(new) \in Nat /\ Len(new) >= Len(old)
  BY LenProperties DEF Grown
<1>2. \A i \in 1 .. Len(old) : i \in 1 .. Len(new)
  BY <1>1
<1> QED
  BY <1>2 DEF Listed, Grown

(* The task worker_hello hands out is one of the table.                    *)
LEMMA HandedOutListed ==
    ASSUME rescans \in Seq(RescanTasks), NEW h, NEW c, HelloReply(h, c).task # None
    PROVE  Listed(HelloReply(h, c).task, rescans)
<1> DEFINE mid == Reported(h, c)
           task == HandedOut(h, c)
<1>1. task # None /\ HelloReply(h, c).task = [id |-> task.id, agents |-> task.agents]
  BY DEF HelloReply
<1>2. /\ mid \in Seq(RescanTasks) /\ Len(mid) = Len(rescans)
      /\ \A i \in 1 .. Len(rescans) :
            mid[i].id = rescans[i].id /\ mid[i].agents = rescans[i].agents
  <2>1. CASE h.epoch = epoch /\ h.rescan # None
    <3>1. ProgressStatus(h.rescan, c) \in ActiveStatus \cup EndStatus
      BY ProgressStatusType
    <3> QED
      BY <2>1, <3>1, WithStatusType DEF Reported
  <2>2. CASE ~(h.epoch = epoch /\ h.rescan # None)
    BY <2>2 DEF Reported
  <2> QED
    BY <2>1, <2>2
<1>3. task = OldestActive(mid)
  BY <1>1 DEF HandedOut
<1> HIDE DEF mid, task
<1>4. \E i \in 1 .. Len(rescans) : task = mid[i]
  BY <1>1, <1>2, <1>3, OldestInTable
<1> QED
  BY <1>1, <1>2, <1>4 DEF Listed

(* Only a restore moves the epoch.                                         *)
LEMMA EpochStep ==
    ASSUME NumbersInv, limits.epoch \in Nat, [Next]_vars
    PROVE  UNCHANGED epoch \/ (epoch' = epoch + 1 /\ epoch < limits.epoch)
<1>1. CASE HubOperator
  BY <1>1 DEF HubOperator, TakeBackup, RestoreBackup
<1>2. CASE ~HubOperator
  <2>1. CASE HubServe
    BY <2>1 DEF HubServe, Serve, RecoverWorker, WorkerHello, ReceiveUpload, hubVars
  <2>2. CASE HubServeLate
    BY <2>2, LateIsServed DEF ServedAs, RecoverWorker, WorkerHello, ReceiveUpload, hubVars,
       NumbersInv
  <2>3. CASE ~HubServe /\ ~HubServeLate
    BY <1>2, <2>3 DEF Next, SendRecover, SendHello, SendUpload, Send, HubBusy, HubLeased,
       ReadAnswer, RecoverDone, RecoverRefused, HelloStartsRecovery, HelloStartsRescan,
       HelloOk, HelloRefused, HelloBusy, UploadDone, UploadRefused, UploadBusy, Lose, Crash,
       Fault, Change, Collect, ScanFails, HubUser, RequestRescan, CancelRescan, hubVars, vars
  <2> QED
    BY <2>1, <2>2, <2>3
<1> QED
  BY <1>1, <1>2

(* A task in an answer stays in the table until it is read.                *)
LEMMA TaskListedStays ==
    ASSUME HubOK, NumbersInv, RequestsMatch, TaskListed, [Next]_vars,
           NarrowAll(rescans), NarrowAll(backup.rescans), limits.epoch \in Nat
    PROVE  TaskListed'
<1>1. rescans \in Seq(RescanTasks) /\ rescans' \in Seq(RescanTasks)
  BY TablesStay DEF HubOK, TablesHold, TasksOK
<1>2. TableGoesOn \/ (epoch' = epoch + 1 /\ RestoreBackup)
  BY TableStep
<1>3. /\ epoch \in Nat
      /\ Got("hello") /\ answer.ok => answer.body.epoch \in Nat /\ answer.body.epoch <= epoch
  BY DEF NumbersInv, HubNumbers, AnswerCurrent
<1>4. CASE UNCHANGED <<awaited, answer>>
  <2>1. CASE TableGoesOn /\ epoch' = epoch
    BY <1>1, <1>4, <2>1, ListedGrows DEF TaskListed, TableGoesOn, Got, Idle
  <2>2. CASE epoch' = epoch + 1
    BY <1>3, <1>4, <2>2 DEF TaskListed, Got, Idle
  <2>3. epoch' = epoch \/ epoch' = epoch + 1
    BY EpochStep
  <2> QED
    BY <1>2, <2>1, <2>2, <2>3
<1>5. CASE awaited' = None \/ answer' = None \/ ~answer'.ok
  BY <1>5 DEF TaskListed, Got, Idle
<1>6. CASE HubServe
  <2>1. PICK reply : Serve(awaited, reply) /\ answer' = reply
    BY <1>6 DEF HubServe
  <2>2. CASE reply.ok /\ awaited.kind = "hello"
    <3>1. PICK c : WorkerHello(awaited.body, c) /\ reply = Accepted(HelloReply(awaited.body, c))
      BY <2>1, <2>2 DEF Serve, Refused
    <3>2. epoch' = epoch /\ ~(epoch' = epoch + 1)
      BY <1>3, <3>1 DEF WorkerHello
    <3>3. reply.body = HelloReply(awaited.body, c)
      BY <3>1 DEF Accepted
    <3>4. reply.body.task # None => Listed(reply.body.task, rescans)
      BY <1>1, <3>3, HandedOutListed
    <3>5. reply.body.task # None => Listed(reply.body.task, rescans')
      BY <1>1, <1>2, <3>2, <3>4, ListedGrows DEF TableGoesOn
    <3> QED
      BY <2>1, <3>5 DEF TaskListed
  <2>3. CASE ~(reply.ok /\ awaited.kind = "hello")
    BY <1>6, <2>1, <2>3 DEF TaskListed, Got, Idle, HubServe
  <2> QED
    BY <2>2, <2>3
<1>7. CASE \/ HubServeLate \/ Change \/ Collect \/ ScanFails \/ HubUser \/ HubOperator
           \/ UNCHANGED vars
  <2>1. UNCHANGED <<awaited, answer>>
    BY <1>7 DEF HubServeLate, Change, Collect, ScanFails, Fault, HubUser, HubOperator, loopVars,
       vars
  <2> QED
    BY <1>4, <2>1
<1>8. CASE SendRecover \/ SendHello \/ SendUpload
  <2>1. answer' = None
    BY <1>8 DEF SendRecover, SendHello, SendUpload, Send, Idle, AwaitedCurrent, NumbersInv
  <2> QED
    BY <1>5, <2>1
<1>9. CASE HubBusy \/ HubLeased
  <2>1. answer' = Busy \/ ~answer'.ok
    BY <1>9 DEF HubBusy, HubLeased, Fault, Refused
  <2> QED
    BY <1>5, <2>1 DEF Busy, Refused
<1>10. CASE Lose \/ Crash \/ ReadAnswer
  <2>1. awaited' = None
    BY <1>10 DEF Lose, Crash, ReadAnswer, RecoverDone, RecoverRefused, HelloStartsRecovery,
       HelloStartsRescan, HelloOk, HelloRefused, HelloBusy, UploadDone, UploadRefused,
       UploadBusy, Read, Fault
  <2> QED
    BY <1>5, <2>1
<1> QED
  BY <1>6, <1>7, <1>8, <1>9, <1>10 DEF Next

----------------------------------------------------------------------------
(* Only enabled agents are collected: a page is of an agent of the list.   *)
LEMMA EnabledStays ==
    ASSUME WorkerInv, NumbersInv, SentEnabled, [Next]_vars
    PROVE  SentEnabled'
<1>0. LoopTypeOK /\ RoundsAreOwn /\ TablesOK
  BY DEF WorkerInv, ScanInv, IInv
<1>1. CASE UNCHANGED sent
  BY <1>1 DEF SentEnabled
<1>2. CASE HelloStartsRescan
  <2>1. \A s \in Sessions : sent'[s] # None => sent[s] # None
    BY <1>0, <1>2 DEF HelloStartsRescan, Forget, sessionVars, TablesOK
  <2> QED
    BY <2>1 DEF SentEnabled
<1>3. CASE Collect /\ SavePage
  <2> DEFINE a == SourceList[scan.index]
  <2>1. scan \in Scans /\ a \in Enabled
    BY <1>0, <1>3, SourceListAssumption DEF SavePage, LoopTypeOK, Scans
  <2>2. PICK n \in ChunkCounts : SaveBatch(a, scan.page, n, scan.left = <<>>)
    BY <1>3 DEF SavePage
  <2>3. CASE scan.page = None
    BY <1>1, <2>2, <2>3 DEF SaveBatch
  <2>4. CASE scan.page # None
    <3>1. AgentOf[scan.page.session] \in Enabled
      BY <1>0, <1>3, <2>1, <2>4 DEF RoundsAreOwn, SavePage
    <3>2. sent' = [sent EXCEPT ![scan.page.session] = scan.page.capture]
      BY <2>2, <2>4 DEF SaveBatch, SaveSession
    <3> QED
      BY <1>0, <3>1, <3>2 DEF SentEnabled, TablesOK
  <2> QED
    BY <2>3, <2>4
<1>4. CASE Collect /\ ~SavePage
  BY <1>1, <1>4 DEF Collect, Tick, StartScan, DropPage, TickPaused, workerVars, sessionVars
<1>5. CASE \/ SendRecover \/ SendHello \/ SendUpload \/ HubServe \/ HubBusy \/ HubLeased
           \/ HubServeLate \/ Lose \/ Crash \/ Change \/ ScanFails \/ HubUser \/ HubOperator
           \/ UNCHANGED vars
  BY <1>1, <1>5
  DEF SendRecover, SendHello, SendUpload, Send, HubServe, HubBusy, HubLeased, HubServeLate,
      Lose, Crash, Fault, Change, Edit, ScanFails, FailPage, HubUser, HubOperator, vars,
      workerVars, sessionVars
<1>6. CASE RecoverDone \/ RecoverRefused \/ HelloStartsRecovery \/ HelloOk \/ HelloRefused
           \/ HelloBusy \/ UploadDone \/ UploadRefused \/ UploadBusy
  BY <1>1, <1>6
  DEF RecoverDone, FinishRecovery, RecoverRefused, HelloStartsRecovery, PrepareRecovery, HelloOk,
      HelloRefused, HelloBusy, UploadDone, Acknowledge, UploadRefused, UploadBusy, SetPause,
      workerVars, sessionVars
<1> QED
  BY <1>2, <1>3, <1>4, <1>5, <1>6 DEF Next, ReadAnswer

(* Restores are as many as the limits say.                                 *)
LEMMA EpochStays ==
    ASSUME NumbersInv, limits.epoch \in Nat, epoch <= limits.epoch, [Next]_vars
    PROVE  UNCHANGED limits /\ epoch' <= limits.epoch
<1>1. epoch \in Nat
  BY DEF NumbersInv, HubNumbers
<1>2. UNCHANGED limits
  BY DEF Next, SendRecover, SendHello, SendUpload, Send, HubServe, HubBusy, HubLeased,
     HubServeLate, ReadAnswer, RecoverDone, RecoverRefused, HelloStartsRecovery,
     HelloStartsRescan, HelloOk, HelloRefused, HelloBusy, UploadDone, UploadRefused, UploadBusy,
     Lose, Crash, Change, Collect, ScanFails, HubUser, HubOperator, NoFault, vars
<1>3. UNCHANGED epoch \/ (epoch' = epoch + 1 /\ epoch < limits.epoch)
  BY EpochStep
<1> QED
  BY <1>1, <1>2, <1>3

(* What does not depend on who cancels, at every step.                     *)
LEMMA BookedStays ==
    ASSUME DeliveryInv, Booked, [Next]_vars
    PROVE  Booked'
<1>1. HubOK /\ NumbersInv /\ RequestsMatch /\ WorkerInv
  BY DEF DeliveryInv, FollowInv
<1>2. NarrowAll(rescans)' /\ NarrowAll(backup.rescans)'
  BY <1>1, TableStep DEF Booked
<1>3. ReportsBound' /\ TaskListed' /\ SentEnabled'
  BY <1>1, ReportsStay, TaskListedStays, EnabledStays DEF Booked
<1>4. UNCHANGED limits /\ epoch' <= limits.epoch
  BY <1>1, EpochStays DEF Booked
<1> QED
  BY <1>2, <1>3, <1>4 DEF Booked

----------------------------------------------------------------------------
(* What is on its way.                                                     *)

(* Rows the Hub has applied may be deleted, and others sessions' be added. *)
LEMMA ComesKept ==
    ASSUME trimmed \in Nat, trimmed' \in Nat, lastSequence \in Nat, node.confirmed \in Nat,
           trimmed <= node.confirmed, trimmed' <= node.confirmed,
           UNCHANGED lastSequence, node'.confirmed = node.confirmed,
           \A q \in Rows : q > node.confirmed => outbox'[q] = outbox[q],
           NEW s, messageBases'[s] = messageBases[s], hubSessions'[s] = hubSessions[s],
           sent'[s] = sent[s], Comes(s)
    PROVE  Comes(s)'
<1>1. ASSUME NEW q, q > node.confirmed
      PROVE  q \in Rows' <=> q \in Rows
  BY <1>1 DEF Rows
<1>2. \A q : q \in ToApply(OpsOf(s))' <=> q \in ToApply(OpsOf(s))
  BY <1>1 DEF ToApply, OpsOf
<1>3. \A q : q \in ToApply(CommitsOf(s))' <=> q \in ToApply(CommitsOf(s))
  BY <1>1, <1>2 DEF ToApply, CommitsOf, OpsOf
<1>4. /\ ToApply(OpsOf(s))' = ToApply(OpsOf(s)) /\ ToApply(CommitsOf(s))' = ToApply(CommitsOf(s))
      /\ \A q \in ToApply(CommitsOf(s)) : outbox'[q] = outbox[q]
  BY <1>2, <1>3 DEF ToApply, CommitsOf, OpsOf
<1>5. MessagesCome(s)'
  BY <1>4 DEF Comes, MessagesCome, IsFirst
<1>6. TitleComes(s)'
  BY <1>4 DEF Comes, TitleComes
<1> QED
  BY <1>5, <1>6 DEF Comes

(* Saving a session queues what brings the Hub to the new capture.         *)
LEMMA ComesSaved ==
    ASSUME WorkerInv, NumbersInv, LastExact, Bound,
           NEW s \in Sessions, NEW c \in Captures, NEW n \in ChunkCounts, SaveSession(s, c, n),
           UNCHANGED <<trimmed, node, messageBases, hubSessions>>,
           NEW x \in Sessions, sent'[x] \in Captures, sent[x] \in Captures => Comes(x)
    PROVE  Comes(x)'
<1>0. /\ QueueOK /\ TablesOK /\ trimmed \in Nat /\ lastSequence \in Nat /\ node.confirmed \in Nat
      /\ trimmed <= node.confirmed /\ node.confirmed <= lastSequence
  BY Ranges DEF LastExact
<1>1. /\ sent' = [sent EXCEPT ![s] = c]
      /\ \/ UNCHANGED <<lastSequence, outbox, sent>> /\ sent[s] = c
         \/ \E m \in Nat \ {0} : \E ops :
              /\ Enqueue(m, ops) /\ Brings(ops[m], s, c)
              /\ \A k \in 1 .. m : k < m => ops[k].kind = "chunk"
  BY <1>0, SavedBrings
<1>2. CASE UNCHANGED <<lastSequence, outbox, sent>>
  BY <1>0, <1>2, ComesKept
<1>3. CASE \E m \in Nat \ {0} : \E ops :
              /\ Enqueue(m, ops) /\ Brings(ops[m], s, c)
              /\ \A k \in 1 .. m : k < m => ops[k].kind = "chunk"
  <2>1. PICK m \in Nat \ {0} : \E ops :
              /\ Enqueue(m, ops) /\ Brings(ops[m], s, c)
              /\ \A k \in 1 .. m : k < m => ops[k].kind = "chunk"
    BY <1>3
  <2>2. PICK ops : /\ Enqueue(m, ops) /\ Brings(ops[m], s, c)
                   /\ \A k \in 1 .. m : k < m => ops[k].kind = "chunk"
    BY <2>1
  <2> DEFINE last == lastSequence'
             op == ops[m]
  <2>3. /\ \A q \in Rows : q \in Nat /\ q < last /\ outbox'[q] = outbox[q]
        /\ last \in Nat /\ outbox'[last] = op
        /\ \A y \in Sessions :
            /\ OpsOf(y)' = OpsOf(y) \cup (IF y = s THEN {last} ELSE {})
            /\ CommitsOf(y)' = CommitsOf(y) \cup
                 (IF y = s /\ op.kind = "commit" THEN {last} ELSE {})
    BY <1>0, <2>2, AppendedOps
  <2>4. last > node.confirmed
    BY <1>0, <2>2, <2>3 DEF Enqueue
  <2>5. Brings(op, s, c)
    BY <2>2
  <2>6. sent'[s] = c /\ (x # s => sent'[x] = sent[x])
    BY <1>0, <1>1 DEF TablesOK
  <2>7. OpsOf(x) \subseteq Rows /\ CommitsOf(x) \subseteq OpsOf(x)
    BY DEF OpsOf, CommitsOf
  <2> HIDE DEF last, op
  <2>8. CASE x # s
    <3>1. /\ ToApply(OpsOf(x))' = ToApply(OpsOf(x))
          /\ ToApply(CommitsOf(x))' = ToApply(CommitsOf(x))
      BY <2>3, <2>8 DEF ToApply
    <3>2. \A q \in ToApply(CommitsOf(x)) : outbox'[q] = outbox[q]
      BY <2>3, <2>7 DEF ToApply
    <3>3. Comes(x)
      BY <2>6, <2>8
    <3>4. MessagesCome(x)'
      BY <2>6, <2>8, <3>1, <3>2, <3>3 DEF Comes, MessagesCome, IsFirst
    <3>5. TitleComes(x)'
      BY <2>6, <2>8, <3>1, <3>3 DEF Comes, TitleComes
    <3> QED
      BY <3>4, <3>5 DEF Comes
  <2>9. CASE x = s
    <3>1. last \in ToApply(OpsOf(x))'
      BY <2>3, <2>4, <2>9 DEF ToApply
    <3>2. TitleComes(x)'
      BY <3>1 DEF TitleComes
    <3> DEFINE old == ToApply(CommitsOf(x))
               new == ToApply(CommitsOf(x))'
    <3>3. /\ new = old \cup (IF op.kind = "commit" THEN {last} ELSE {})
          /\ \A q \in old : q \in Nat /\ q < last /\ outbox'[q] = outbox[q]
      BY <2>3, <2>4, <2>7, <2>9 DEF ToApply
    <3>4. MessagesCome(x)' <=>
            \/ \E q \in new : outbox'[q].base = None
            \/ /\ \A q \in new : IsFirst(q, new) =>
                    outbox'[q].base.previous = messageBases[x]
               /\ new = {} => messageBases[x] = sent'[x].messages
      BY DEF MessagesCome, IsFirst
    <3>5. MessagesCome(x) =>
            \/ \E q \in old : outbox[q].base = None
            \/ /\ \A q \in old : IsFirst(q, old) =>
                    outbox[q].base.previous = messageBases[x]
               /\ old = {} => messageBases[x] = sent[x].messages
      BY DEF MessagesCome, IsFirst
    <3> HIDE DEF old, new
    <3>6. CASE op.kind = "commit" /\ op.base = None
      BY <2>3, <3>2, <3>3, <3>4, <3>6 DEF Comes
    <3>7. CASE op.kind = "commit" /\ op.base # None
      <4>1. sent[x] \in Captures /\ op.base.previous = sent[x].messages /\ MessagesCome(x)
        BY <2>5, <2>9, <3>7 DEF Brings, Comes
      <4>2. CASE \E q \in old : outbox[q].base = None
        BY <3>2, <3>3, <3>4, <4>2 DEF Comes
      <4>3. CASE old = {} /\ messageBases[x] = sent[x].messages
        <5>1. \A q \in new : outbox'[q].base.previous = messageBases[x]
          BY <2>3, <3>3, <4>1, <4>3
        <5>2. new # {}
          BY <3>3, <3>7
        <5> QED
          BY <3>2, <3>4, <5>1, <5>2 DEF Comes
      <4>4. CASE /\ old # {}
                 /\ \A q \in old : IsFirst(q, old) =>
                       outbox[q].base.previous = messageBases[x]
        <5>1. PICK p \in old : TRUE
          BY <4>4
        <5>2. ASSUME NEW q \in new, IsFirst(q, new)
              PROVE  outbox'[q].base.previous = messageBases[x]
          <6>1. p \in new /\ q <= p /\ p < last
            BY <3>3, <5>1, <5>2 DEF IsFirst
          <6>2. q \in old
            BY <2>3, <3>3, <5>1, <6>1
          <6>3. IsFirst(q, old)
            BY <3>3, <5>2, <6>2 DEF IsFirst
          <6> QED
            BY <3>3, <4>4, <6>2, <6>3
        <5>3. new # {}
          BY <3>3, <5>1
        <5> QED
          BY <3>2, <3>4, <5>2, <5>3 DEF Comes
      <4> QED
        BY <3>5, <4>1, <4>2, <4>3, <4>4
    <3>8. CASE op.kind = "metadata"
      <4>1. sent[x] \in Captures /\ sent[x].messages = sent'[x].messages /\ MessagesCome(x)
        BY <2>5, <2>6, <2>9, <3>8 DEF Brings, Comes
      <4>2. new = old
        BY <3>3, <3>8
      <4>3. MessagesCome(x)'
        BY <3>3, <3>4, <3>5, <4>1, <4>2
      <4> QED
        BY <3>2, <4>3 DEF Comes
    <3> QED
      BY <2>5, <3>6, <3>7, <3>8 DEF Brings
  <2> QED
    BY <2>8, <2>9
<1> QED
  BY <1>1, <1>2, <1>3

(* An operation applied brings the Hub one step nearer: a delta finds the  *)
(* messages it extends, unless a snapshot is still to follow.              *)
LEMMA ComesApplied ==
    ASSUME WorkerInv, NumbersInv, HubOK, NEW r, Timely(r), Matches(r), r.kind = "upload",
           ReceiveUpload(r.body), ~Replayed(r.body), UNCHANGED <<queueNumbers, sent>>,
           NEW s \in Sessions, sent[s] \in Captures, Comes(s)
    PROVE  Comes(s)'
<1> DEFINE k == confirmedSequence + 1
           op == r.body.op
<1>1. /\ node.confirmed = confirmedSequence /\ node'.confirmed = k
      /\ k \in Rows /\ op = outbox[k] /\ op \in SoundOperations /\ op \in Operations
      /\ confirmedSequence \in Nat /\ k \in Nat
  BY NextApplied, Ranges DEF NodeRow, SoundOperations
<1>2. UNCHANGED <<outbox, trimmed, lastSequence, sent>>
  BY DEF queueNumbers, numbers
<1>3. /\ OpsOf(s)' = OpsOf(s) /\ CommitsOf(s)' = CommitsOf(s)
      /\ CommitsOf(s) \subseteq OpsOf(s) /\ \A q \in OpsOf(s) : q \in Nat
  BY <1>2, Ranges DEF OpsOf, CommitsOf, Rows
<1> DEFINE ahead == ToApply(OpsOf(s))
           commits == ToApply(CommitsOf(s))
<1>4. /\ ToApply(OpsOf(s))' = ahead \ {k} /\ ToApply(CommitsOf(s))' = commits \ {k}
      /\ \A q \in ahead : q \in Nat /\ q >= k
      /\ \A q \in commits : q \in Nat /\ q >= k
      /\ k \in OpsOf(s) => k \in ahead
      /\ k \in CommitsOf(s) => k \in commits
  BY <1>1, <1>3 DEF ToApply
<1>5. MessagesCome(s)' <=>
        \/ \E q \in commits \ {k} : outbox[q].base = None
        \/ /\ \A q \in commits \ {k} : IsFirst(q, commits \ {k}) =>
                outbox[q].base.previous = messageBases'[s]
           /\ commits \ {k} = {} => messageBases'[s] = sent[s].messages
  BY <1>2, <1>4 DEF MessagesCome, IsFirst
<1>6. TitleComes(s)' <=>
        (ahead \ {k} = {} /\ hubSessions'[s] # None => hubSessions'[s].title = sent[s].title)
  BY <1>2, <1>4 DEF TitleComes
<1>7. \/ \E q \in commits : outbox[q].base = None
      \/ /\ \A q \in commits : IsFirst(q, commits) =>
              outbox[q].base.previous = messageBases[s]
         /\ commits = {} => messageBases[s] = sent[s].messages
  BY DEF Comes, MessagesCome
<1>8. ahead = {} /\ hubSessions[s] # None => hubSessions[s].title = sent[s].title
  BY DEF Comes, TitleComes
<1>9. SentOK(s) /\ ChainOK(s)
  BY QueueCurrentOfSession DEF WorkerInv
<1>10. /\ hubSessions \in [Sessions -> Contents \cup {None}]
       /\ messageBases \in [Sessions -> Seq(Messages) \cup {None}]
       /\ messageBases[s] # None =>
            hubSessions[s] # None /\ hubSessions[s].messages = messageBases[s]
  BY DEF HubOK, TablesHold, ContentOK
<1>11. ahead \ {k} = {} /\ k \in OpsOf(s) => TitleOf(op) = sent[s].title
  <2> SUFFICES ASSUME ahead \ {k} = {}, k \in OpsOf(s)
               PROVE  TitleOf(op) = sent[s].title
    OBVIOUS
  <2>1. \A q \in OpsOf(s) : q \in Nat /\ (q > k => q \in ahead \ {k})
    BY <1>1, <1>3 DEF ToApply
  <2>2. IsLast(k, OpsOf(s))
    BY <1>1, <2>1 DEF IsLast
  <2> QED
    BY <1>1, <1>9, <2>2 DEF SentOK
<1>12. k \in CommitsOf(s) <=> (op.kind = "commit" /\ op.session = s)
  BY <1>1 DEF CommitsOf, OpsOf
<1>13. k \in OpsOf(s) <=> (op.kind # "chunk" /\ op.session = s)
  BY <1>1 DEF OpsOf
<1> HIDE DEF ahead, commits
<1>14. CASE /\ k \notin OpsOf(s) /\ hubSessions'[s] = hubSessions[s]
            /\ messageBases'[s] = messageBases[s]
  <2>1. k \notin ahead /\ k \notin commits
    BY <1>3, <1>14 DEF ahead, commits, ToApply
  <2>2. ahead \ {k} = ahead /\ commits \ {k} = commits
    BY <2>1
  <2>3. MessagesCome(s)'
    BY <1>5, <1>7, <1>14, <2>2
  <2>4. TitleComes(s)'
    BY <1>6, <1>8, <1>14, <2>2
  <2> QED
    BY <2>3, <2>4 DEF Comes
<1>15. CASE ApplyChunk(r.body.stream, op)
  BY <1>13, <1>14, <1>15 DEF ApplyChunk
<1>16. CASE ApplyCommit(r.body.stream, op)
  <2>1. /\ op.kind = "commit" /\ op.session \in Sessions /\ op.capture \in Captures
        /\ messageBases' = [messageBases EXCEPT ![op.session] = op.capture.messages]
    BY <1>1, <1>16 DEF ApplyCommit, Operations
  <2>2. hubSessions' = [hubSessions EXCEPT ![op.session] = op.capture]
    BY <1>1, <1>16, CommitKeepsContent DEF HubOK
  <2>3. CASE op.session # s
    BY <1>10, <1>13, <1>14, <2>1, <2>2, <2>3
  <2>4. CASE op.session = s
    <3>1. /\ hubSessions'[s] = op.capture /\ messageBases'[s] = op.capture.messages
          /\ k \in CommitsOf(s) /\ k \in OpsOf(s)
      BY <1>3, <1>10, <1>12, <2>1, <2>2, <2>4
    <3>2. TitleComes(s)'
      BY <1>6, <1>11, <2>1, <3>1 DEF TitleOf
    <3>3. ASSUME NEW q \in commits \ {k}, IsFirst(q, commits \ {k}), outbox[q].base # None
          PROVE  outbox[q].base.previous = messageBases'[s]
      <4>1. q \in CommitsOf(s) /\ q \in Nat /\ q > k
        BY <1>1, <1>4, <3>3 DEF commits, ToApply
      <4>2. \A p \in CommitsOf(s) : p \in Nat /\ (p > k => p \in commits \ {k})
        BY <1>1, <1>3 DEF commits, ToApply
      <4>3. IsLast(k, {p \in CommitsOf(s) : p < q})
        BY <1>1, <3>1, <3>3, <4>1, <4>2 DEF IsLast, IsFirst
      <4>4. outbox[q].base.previous = outbox[k].capture.messages
        BY <1>9, <3>1, <3>3, <4>1, <4>3 DEF ChainOK
      <4> QED
        BY <1>1, <3>1, <4>4
    <3>4. commits \ {k} = {} => messageBases'[s] = sent[s].messages
      <4> SUFFICES ASSUME commits \ {k} = {}
                   PROVE  messageBases'[s] = sent[s].messages
        OBVIOUS
      <4>1. \A q \in CommitsOf(s) : q \in Nat /\ (q > k => q \in commits \ {k})
        BY <1>1, <1>3 DEF commits, ToApply
      <4>2. IsLast(k, CommitsOf(s))
        BY <1>1, <3>1, <4>1 DEF IsLast
      <4> QED
        BY <1>1, <1>9, <3>1, <4>2 DEF SentOK
    <3>5. MessagesCome(s)'
      BY <1>5, <3>3, <3>4
    <3> QED
      BY <3>2, <3>5 DEF Comes
  <2> QED
    BY <2>3, <2>4
<1>17. CASE OrphanCommit(r.body.stream, op)
  <2>1. op.kind = "commit" /\ ~BaseHeld(op) /\ UNCHANGED <<hubSessions, messageBases>>
    BY <1>17 DEF OrphanCommit
  <2>2. op.base # None /\ op.session \in Sessions /\ op.base \in Bases
    BY <1>1, <2>1 DEF BaseHeld, Operations
  <2>3. CASE op.session # s
    BY <1>13, <1>14, <2>1, <2>3
  <2>4. CASE op.session = s
    <3>1. k \in commits /\ k \in CommitsOf(s)
      BY <1>4, <1>12, <2>1, <2>4 DEF commits
    <3>2. messageBases[s] # op.base.previous
      <4> SUFFICES ASSUME messageBases[s] = op.base.previous
                   PROVE  FALSE
        OBVIOUS
      <4>1. op.base.previous \in Seq(Messages)
        BY <2>2 DEF Bases
      <4>2. messageBases[s] # None
        BY <4>1, NoneAssumption
      <4>3. hubSessions[s] # None /\ hubSessions[s].messages = op.base.previous
        BY <1>10, <4>2
      <4>4. op.base.keep <= Len(op.base.previous)
        BY <1>1, <2>1, <2>2 DEF SoundOperations, Extends
      <4> QED
        BY <2>1, <2>4, <4>3, <4>4 DEF BaseHeld
    <3>3. IsFirst(k, commits)
      BY <1>4, <3>1 DEF IsFirst, commits
    <3>4. \E q \in commits : outbox[q].base = None
      BY <1>1, <1>7, <3>1, <3>2, <3>3
    <3>5. \E q \in commits \ {k} : outbox[q].base = None
      BY <1>1, <2>2, <3>4
    <3>6. ahead \ {k} # {}
      BY <1>3, <3>5 DEF ahead, commits, ToApply
    <3> QED
      BY <1>5, <1>6, <3>5, <3>6 DEF Comes
  <2> QED
    BY <2>3, <2>4
<1>18. CASE op.kind = "metadata" /\ op.session = s /\ UNCHANGED messageBases
  <2>1. k \notin commits /\ k \in OpsOf(s)
    BY <1>12, <1>13, <1>18 DEF commits, ToApply
  <2>2. commits \ {k} = commits
    BY <2>1
  <2>3. MessagesCome(s)'
    BY <1>5, <1>7, <1>18, <2>2
  <2>4. CASE ApplyMetadata(op)
    <3>1. /\ hubSessions' = [hubSessions EXCEPT ![s].title = op.title] /\ hubSessions[s] # None
      BY <1>18, <2>4 DEF ApplyMetadata
    <3>2. hubSessions[s] \in Contents
      BY <1>10, <3>1
    <3>3. hubSessions'[s].title = op.title
      BY <1>10, <3>1, <3>2 DEF Contents
    <3>4. TitleComes(s)'
      BY <1>6, <1>11, <1>18, <2>1, <3>3 DEF TitleOf
    <3> QED
      BY <2>3, <3>4 DEF Comes
  <2>5. CASE OrphanMetadata(op)
    <3>1. hubSessions'[s] = None
      BY <1>18, <2>5 DEF OrphanMetadata
    <3> QED
      BY <1>6, <2>3, <3>1 DEF Comes
  <2> QED
    BY <1>18, <2>4, <2>5
    DEF ReceiveUpload, ApplyChunk, ApplyCommit, OrphanCommit
<1>19. CASE ApplyMetadata(op) \/ OrphanMetadata(op)
  <2>1. op.kind = "metadata" /\ UNCHANGED messageBases
    BY <1>19 DEF ApplyMetadata, OrphanMetadata
  <2>2. op.session # s => hubSessions'[s] = hubSessions[s]
    BY <1>10, <1>19 DEF ApplyMetadata, OrphanMetadata
  <2> QED
    BY <1>13, <1>14, <1>18, <2>1, <2>2
<1> QED
  BY <1>15, <1>16, <1>17, <1>19 DEF ReceiveUpload

----------------------------------------------------------------------------
(* What a task is begun by.                                                *)
LEMMA BegunKept ==
    ASSUME epoch' = epoch, rescan' # None => rescan # None /\ rescan'.id = rescan.id,
           \A r \in Pended' : r \in Pended \/ r.kind # "hello" \/ r.body.rescan = rescan
    PROVE  \A id : TaskBegun(id)' => TaskBegun(id)
<1> SUFFICES ASSUME NEW id, TaskBegun(id)'
             PROVE  TaskBegun(id)
  OBVIOUS
<1>1. CASE SameTask(id)'
  BY <1>1 DEF TaskBegun, SameTask
<1>2. CASE \E r \in Pended' : Reports(r)' /\ r.body.rescan.id = id
  <2>1. PICK r \in Pended' : Reports(r)' /\ r.body.rescan.id = id
    BY <1>2
  <2>2. Reports(r)
    BY <2>1 DEF Reports
  <2>3. CASE r \in Pended
    BY <2>1, <2>2, <2>3 DEF TaskBegun
  <2>4. CASE r.body.rescan = rescan
    BY <2>1, <2>2, <2>4 DEF TaskBegun, SameTask, Reports
  <2> QED
    BY <2>2, <2>3, <2>4 DEF Reports
<1> QED
  BY <1>1, <1>2 DEF TaskBegun

(* A task that was to have a session resent still will.                    *)
LEMMA ResentStays ==
    ASSUME HubOK, TableGoesOn, node'.stream = node.stream, ~limits.cancels,
           \A id : TaskBegun(id)' => TaskBegun(id), NEW s, Resent(s)
    PROVE  Resent(s)'
<1>1. PICK i \in 1 .. Len(rescans) : Awaits(i, s)
  BY DEF Resent
<1>2. Len(rescans) \in Nat
  BY LenProperties DEF HubOK, TablesHold, TasksOK
<1>3. /\ Active(rescans'[i]) /\ rescans'[i].id = rescans[i].id
      /\ rescans'[i].agents = rescans[i].agents
  BY <1>1 DEF Awaits, TableGoesOn, StaysOpen, Grown
<1>4. ~TaskBegun(rescans[i].id)'
  <2>1. PICK id : id = rescans'[i].id
    OBVIOUS
  <2>2. ~TaskBegun(id)
    BY <1>1, <1>3, <2>1 DEF Awaits
  <2>3. ~TaskBegun(id)'
    BY <2>2
  <2> QED
    BY <2>1, <2>3 DEF TaskBegun, SameTask, Reports
<1>5. i \in 1 .. Len(rescans')
  BY <1>1, <1>2 DEF TableGoesOn, Grown
<1> QED
  BY <1>1, <1>3, <1>4, <1>5 DEF Resent, Awaits, Covers

(* Nothing is begun while a recovery is under way, and the users that      *)
(* restores leave do not cancel.                                           *)
LEMMA NothingBegun ==
    ASSUME NumbersInv, ReportsBound, recovery # None
    PROVE  \A id : ~TaskBegun(id)
BY DEF ReportsBound, Bound, TaskBegun, SameTask, Reports

(* A recovery is for an epoch a restore began, so nobody cancels then.     *)
LEMMA RecoveryUncancelled ==
    ASSUME NumbersInv, Booked, Uncancelled, recovery # None, recovery.epoch = epoch
    PROVE  ~limits.cancels
<1>1. recovery.epoch \in Nat /\ binding \in Nat /\ recovery.epoch > binding
  BY DEF NumbersInv, WorkerNumbers, Recoveries
<1>2. limits.epoch \in Nat /\ epoch <= limits.epoch
  BY DEF Booked
<1>3. limits.epoch # 0
  BY <1>1, <1>2
<1> QED
  BY <1>3 DEF Uncancelled

(* A recovery's task stays open where the row of the node stays.           *)
LEMMA QueuedStays ==
    ASSUME HubOK, NumbersInv, Booked, Uncancelled, RecoveryQueued, TableGoesOn,
           UNCHANGED <<recovery, streamId, epoch>>, node'.stream = node.stream
    PROVE  RecoveryQueued'
<1> SUFFICES ASSUME recovery # None, recovery.epoch = epoch, node.stream = streamId
             PROVE  \E i \in 1 .. Len(rescans') : Active(rescans'[i]) /\ rescans'[i].agents = {}
  BY DEF RecoveryQueued
<1>1. PICK i \in 1 .. Len(rescans) : Active(rescans[i]) /\ rescans[i].agents = {}
  BY DEF RecoveryQueued
<1>2. ~TaskBegun(rescans[i].id)
  BY NothingBegun DEF Booked
<1>3. ~limits.cancels
  BY RecoveryUncancelled
<1>4. Len(rescans) \in Nat
  BY LenProperties DEF HubOK, TablesHold, TasksOK
<1>5. Active(rescans'[i]) /\ rescans'[i].agents = rescans[i].agents /\ i \in 1 .. Len(rescans')
  BY <1>1, <1>2, <1>3, <1>4 DEF TableGoesOn, StaysOpen, Grown
<1> QED
  BY <1>1, <1>5

(* recover_worker opens the task with the row it writes.                   *)
LEMMA ServedQueues ==
    ASSUME HubOK, NumbersInv, Booked, Uncancelled, RecoveryQueued, TableGoesOn,
           UNCHANGED <<recovery, streamId, epoch>>, NEW r, Timely(r), ServedAs(r)
    PROVE  RecoveryQueued'
<1>1. CASE node'.stream = node.stream
  BY <1>1, QueuedStays
<1>2. CASE r.kind = "recover" /\ RecoverWorker(r.body) /\ node.stream # r.body.newStream
  <2>1. r.body.newStream \in Nat
    BY <1>2 DEF Timely, Recoveries
  <2>2. \E i \in 1 .. Len(rescans)' : Active(rescans'[i]) /\ rescans'[i].agents = {}
    BY <1>2, <2>1, RecoverGrows
  <2> QED
    BY <2>2 DEF RecoveryQueued, Active
<1>3. ASSUME ~(r.kind = "recover" /\ RecoverWorker(r.body) /\ node.stream # r.body.newStream)
      PROVE  node'.stream = node.stream
  <2>1. CASE r.kind = "recover" /\ RecoverWorker(r.body)
    BY <1>3, <2>1 DEF RecoverWorker, databaseVars
  <2>2. CASE ReceiveUpload(r.body)
    BY <2>2 DEF ReceiveUpload, databaseVars, NodeRow
  <2>3. CASE \E c : WorkerHello(r.body, c)
    BY <2>3 DEF WorkerHello
  <2>4. CASE UNCHANGED hubVars
    BY <2>4 DEF hubVars, databaseVars
  <2> QED
    BY <2>1, <2>2, <2>3, <2>4 DEF ServedAs
<1> QED
  BY <1>1, <1>2, <1>3

(* Who changes the Worker's stream or recovery.                            *)
LEMMA RecoverySteps ==
    ASSUME WorkerInv, [Next]_vars, ~RecoverDone, ~HelloStartsRecovery
    PROVE  UNCHANGED <<recovery, streamId, binding>>
<1>1. CASE Collect
  BY <1>1, CollectSaves
<1>2. CASE ~Collect
  BY <1>2 DEF Next, SendRecover, SendHello, SendUpload, Send, HubServe, HubBusy, HubLeased,
     HubServeLate, ReadAnswer, RecoverRefused, HelloStartsRescan, HelloOk, HelloRefused,
     HelloBusy, UploadDone, Acknowledge, UploadRefused, UploadBusy, SetPause, Lose, Crash,
     Change, Edit, ScanFails, Fault, FailPage, HubUser, HubOperator, vars, workerVars, queueVars
<1> QED
  BY <1>1, <1>2

(* Who changes the Hub's row of the Worker.                                *)
LEMMA RowSteps ==
    ASSUME NumbersInv, [Next]_vars, ~HubServe, ~HubServeLate, ~RestoreBackup
    PROVE  UNCHANGED <<epoch, node, hubSessions, messageBases>>
<1>1. CASE HubOperator
  BY <1>1 DEF HubOperator, TakeBackup, databaseVars, contentVars
<1>2. CASE HubUser
  BY <1>2 DEF HubUser, RequestRescan, CancelRescan, databaseVars, contentVars
<1>3. CASE ~HubOperator /\ ~HubUser
  <2>1. UNCHANGED hubVars
    BY <1>3 DEF Next, SendRecover, SendHello, SendUpload, Send, HubBusy, HubLeased, ReadAnswer,
       RecoverDone, RecoverRefused, HelloStartsRecovery, HelloStartsRescan, HelloOk,
       HelloRefused, HelloBusy, UploadDone, UploadRefused, UploadBusy, Lose, Crash, Fault,
       Change, Collect, ScanFails, vars
  <2> QED
    BY <2>1 DEF hubVars, databaseVars, contentVars
<1> QED
  BY <1>1, <1>2, <1>3

(* A recovery has its task open once the Hub has its stream.               *)
LEMMA RecoveryQueuedStays ==
    ASSUME DeliveryInv, Booked, Uncancelled, RecoveryQueued, [Next]_vars
    PROVE  RecoveryQueued'
<1>1. HubOK /\ NumbersInv /\ RequestsMatch /\ WorkerInv
  BY DEF DeliveryInv, FollowInv
<1>2. TableGoesOn \/ (epoch' = epoch + 1 /\ RestoreBackup)
  BY <1>1, TableStep DEF Booked
<1>3. /\ epoch \in Nat /\ Goal <= epoch /\ Goal \in Nat
      /\ recovery # None => Goal = recovery.epoch
      /\ streamId \in Nat /\ node.stream \in Nat /\ node.stream <= streamId
  BY <1>1 DEF NumbersInv, HubNumbers, WorkerNumbers, RowBehind, Goal, Recoveries
<1>4. CASE RecoverDone
  BY <1>4 DEF RecoverDone, FinishRecovery, RecoveryQueued
<1>5. CASE HelloStartsRecovery
  <2>1. PrepareRecovery(answer.body.epoch) /\ UNCHANGED hubVars
    BY <1>5 DEF HelloStartsRecovery
  <2>2. UNCHANGED <<epoch, node, rescans>>
    BY <2>1 DEF hubVars, databaseVars
  <2>3. CASE recovery # None /\ recovery.epoch = answer.body.epoch
    <3>1. UNCHANGED <<recovery, streamId>>
      BY <2>1, <2>3 DEF PrepareRecovery, workerVars, queueVars
    <3> QED
      BY <2>2, <3>1 DEF RecoveryQueued, Active
  <2>4. CASE ~(recovery # None /\ recovery.epoch = answer.body.epoch)
    <3>1. streamId' = streamId + 1
      BY <2>1, <2>4 DEF PrepareRecovery, ResetQueue
    <3>2. node'.stream # streamId'
      BY <1>3, <2>2, <3>1
    <3> QED
      BY <3>2 DEF RecoveryQueued
  <2> QED
    BY <2>3, <2>4
<1>6. CASE ~RecoverDone /\ ~HelloStartsRecovery
  <2>1. UNCHANGED <<recovery, streamId>>
    BY <1>1, <1>6, RecoverySteps
  <2>2. CASE epoch' = epoch + 1
    <3>1. recovery' # None => recovery'.epoch # epoch'
      BY <1>3, <2>1, <2>2
    <3> QED
      BY <3>1 DEF RecoveryQueued
  <2>3. CASE TableGoesOn /\ epoch' = epoch
    <3>1. CASE HubServe
      <4>1. ServedAs(awaited) /\ Timely(awaited)
        BY <1>1, <3>1, ServeIsServed DEF HubServe, NumbersInv, RequestsTimely
      <4> QED
        BY <1>1, <2>1, <2>3, <4>1, ServedQueues
    <3>2. CASE HubServeLate
      <4>1. PICK r \in late : ServedAs(r)
        BY <1>1, <3>2, LateIsServed DEF NumbersInv
      <4>2. Timely(r)
        BY <1>1 DEF NumbersInv, RequestsTimely
      <4> QED
        BY <1>1, <2>1, <2>3, <4>1, <4>2, ServedQueues
    <3>3. CASE RestoreBackup
      BY <1>3, <2>3, <3>3 DEF RestoreBackup
    <3>4. CASE ~HubServe /\ ~HubServeLate /\ ~RestoreBackup
      BY <1>1, <2>1, <2>3, <3>4, RowSteps, QueuedStays
    <3> QED
      BY <3>1, <3>2, <3>3, <3>4
  <2> QED
    BY <1>1, <1>2, <2>2, <2>3, EpochStep DEF Booked
<1> QED
  BY <1>4, <1>5, <1>6

(* Nothing but a task's start begins it.                                   *)
LEMMA BegunSteps ==
    ASSUME WorkerInv, NumbersInv, [Next]_vars, epoch' = epoch, ~HelloStartsRescan
    PROVE  \A id : TaskBegun(id)' => TaskBegun(id)
<1>1. CASE SendRecover \/ SendHello \/ SendUpload
  <2>1. Idle /\ UNCHANGED <<late, rescan>>
    BY <1>1 DEF SendRecover, SendHello, SendUpload, Send, workerVars
  <2>2. awaited'.kind # "hello" \/ awaited'.body.rescan = rescan
    BY <1>1 DEF SendRecover, SendHello, SendUpload, Send, Request, Hello
  <2>3. \A r \in Pended' : r \in Pended \/ r.kind # "hello" \/ r.body.rescan = rescan
    BY <2>1, <2>2 DEF Pended
  <2> QED
    BY <2>1, <2>3, BegunKept
<1>2. CASE Collect
  <2>1. UNCHANGED <<late, awaited>>
    BY <1>2 DEF Collect, loopVars
  <2>2. rescan' # None => rescan # None /\ rescan'.id = rescan.id
    BY <1>2 DEF Collect, Tick, SavePage, StartScan, DropPage, TickPaused, SaveBatch,
       AgentComplete, Progress, workerVars
  <2> QED
    BY <2>1, <2>2, BegunKept DEF Pended, Idle
<1>3. CASE HelloStartsRecovery
  <2>1. UNCHANGED late /\ awaited' = None
    BY <1>3 DEF HelloStartsRecovery, Read
  <2>2. rescan' = None \/ UNCHANGED rescan
    BY <1>3 DEF HelloStartsRecovery, PrepareRecovery, workerVars
  <2> QED
    BY <2>1, <2>2, BegunKept DEF Pended, Idle
<1>4. CASE HubServe \/ HubBusy \/ HubLeased \/ HubServeLate \/ Change \/ ScanFails \/ HubUser
           \/ HubOperator \/ UNCHANGED vars
  <2>1. UNCHANGED <<awaited, rescan>> /\ late' \subseteq late
    BY <1>4 DEF HubServe, HubBusy, HubLeased, HubServeLate, Change, Edit, ScanFails, Fault,
       FailPage, HubUser, HubOperator, loopVars, workerVars, vars
  <2> QED
    BY <2>1, BegunKept DEF Pended, Idle
<1>5. CASE RecoverDone \/ RecoverRefused \/ HelloOk \/ HelloRefused \/ HelloBusy \/ UploadDone
           \/ UploadRefused \/ UploadBusy
  <2>1. UNCHANGED <<late, rescan>> /\ awaited' = None
    BY <1>5 DEF RecoverDone, FinishRecovery, RecoverRefused, HelloOk, HelloRefused, HelloBusy,
       UploadDone, Acknowledge, UploadRefused, UploadBusy, SetPause, Read, workerVars
  <2> QED
    BY <2>1, BegunKept DEF Pended, Idle
<1>6. CASE Lose \/ Crash
  <2>1. UNCHANGED rescan /\ awaited' = None
    BY <1>6 DEF Lose, Crash, workerVars
  <2>2. \A r \in late' : r \in late \/ (~Idle /\ r = awaited)
    BY <1>6 DEF Lose, Crash, Fault, Abandon
  <2>3. Pended' \subseteq Pended
    BY <2>1, <2>2 DEF Pended, Idle
  <2> QED
    BY <2>1, <2>3, BegunKept
<1> QED
  BY <1>1, <1>2, <1>3, <1>4, <1>5, <1>6 DEF Next, ReadAnswer

(* Where both sides stay bound, what is on its way stays so.               *)
LEMMA DeliversOn ==
    ASSUME HubOK, Delivers, Bound, UNCHANGED limits, TableGoesOn, node'.stream = node.stream,
           \A id : TaskBegun(id)' => TaskBegun(id),
           \A s \in Sessions : sent'[s] \in Captures /\ (sent[s] \in Captures => Comes(s)) =>
              Comes(s)'
    PROVE  Delivers'
<1> SUFFICES ASSUME NEW s \in Sessions, sent'[s] \in Captures
             PROVE  Comes(s)' \/ (~limits.cancels /\ Resent(s)')
  BY DEF Delivers
<1>1. sent[s] \in Captures => Comes(s) \/ (~limits.cancels /\ Resent(s))
  BY DEF Delivers
<1>2. CASE sent[s] \in Captures => Comes(s)
  BY <1>2
<1>3. CASE ~limits.cancels /\ Resent(s)
  <2>1. Resent(s)'
    BY <1>3, ResentStays
  <2> QED
    BY <1>3, <2>1
<1> QED
  BY <1>1, <1>2, <1>3

(* A request is served: at most one operation is applied.                  *)
LEMMA ComesServed ==
    ASSUME DeliveryInv, Bound, NEW r, Timely(r), Matches(r), ServedAs(r),
           UNCHANGED <<queueNumbers, sent>>, NEW s \in Sessions, sent[s] \in Captures, Comes(s)
    PROVE  Comes(s)'
<1>0. WorkerInv /\ NumbersInv /\ HubOK
  BY DEF DeliveryInv
<1>1. /\ trimmed \in Nat /\ lastSequence \in Nat /\ node.confirmed \in Nat
      /\ trimmed <= node.confirmed /\ node.stream = streamId
      /\ UNCHANGED <<trimmed, lastSequence, outbox, sent>>
  BY <1>0, Ranges DEF queueNumbers, numbers
<1>2. CASE UNCHANGED <<node, hubSessions, messageBases>>
  BY <1>1, <1>2, ComesKept
<1>3. CASE r.kind = "recover" /\ RecoverWorker(r.body)
  <2>1. r.body.epoch = epoch
    BY <1>3, RefusalAssumption DEF RecoverWorker, RecoverRefusal, Refusals
  <2>2. r.body.newStream = streamId
    BY <1>3, <2>1 DEF Timely, Goal, Bound
  <2> QED
    BY <1>1, <1>2, <1>3, <2>2 DEF RecoverWorker, databaseVars, contentVars
<1>4. CASE r.kind = "upload" /\ ReceiveUpload(r.body)
  <2>1. CASE Replayed(r.body)
    BY <1>2, <1>4, <2>1 DEF ReceiveUpload, databaseVars, contentVars
  <2>2. CASE ~Replayed(r.body)
    BY <1>0, <1>4, <2>2, ComesApplied
  <2> QED
    BY <2>1, <2>2
<1>5. CASE \E c : WorkerHello(r.body, c)
  BY <1>2, <1>5 DEF WorkerHello, contentVars
<1>6. CASE UNCHANGED hubVars
  BY <1>2, <1>6 DEF hubVars, databaseVars, contentVars
<1> QED
  BY <1>3, <1>4, <1>5, <1>6 DEF ServedAs

(* When the Hub answers that a recovery is done, it has the task open that *)
(* will have everything sent again.                                        *)
LEMMA RecoveredDelivers ==
    ASSUME DeliveryInv, Booked, Uncancelled, RecoveryQueued, RecoverDone
    PROVE  Delivers'
<1>0. WorkerInv /\ NumbersInv /\ HubOK
  BY DEF DeliveryInv
<1>1. /\ Got("recover") /\ answer.ok /\ recovery # None /\ binding' = recovery.epoch
      /\ UNCHANGED <<rescan, epoch, rescans, limits, late>> /\ awaited' = None
  BY DEF RecoverDone, FinishRecovery, Read, NoFault, hubVars, databaseVars
<1> SUFFICES ASSUME Bound', NEW s \in Sessions
             PROVE  ~limits.cancels /\ Resent(s)'
  BY <1>1 DEF Delivers
<1>2. recovery.epoch = epoch
  BY <1>1 DEF Bound
<1>3. node.stream = streamId
  BY <1>0, <1>1, <1>2 DEF NumbersInv, AnswerCurrent
<1>4. PICK i \in 1 .. Len(rescans) : Active(rescans[i]) /\ rescans[i].agents = {}
  BY <1>1, <1>2, <1>3 DEF RecoveryQueued
<1>5. \A id : ~TaskBegun(id)
  BY <1>0, <1>1, NothingBegun DEF Booked
<1>6. \A id : TaskBegun(id)' => TaskBegun(id)
  BY <1>1, BegunKept DEF Pended, Idle
<1>7. ~TaskBegun(rescans[i].id)'
  <2>1. PICK id : id = rescans'[i].id
    OBVIOUS
  <2>2. ~TaskBegun(id)'
    BY <1>5, <1>6
  <2> QED
    BY <2>1, <2>2 DEF TaskBegun, SameTask, Reports
<1>8. ~limits.cancels
  BY <1>0, <1>1, <1>2, RecoveryUncancelled
<1> QED
  BY <1>1, <1>4, <1>7, <1>8 DEF Resent, Awaits, Covers, Active

(* When a task is begun, what it covers is to be sent again; what another  *)
(* open task covers still awaits that one.                                 *)
LEMMA StartedDelivers ==
    ASSUME Outdated \cap Enabled = {}, DeliveryInv, Booked, Delivers, HelloStartsRescan
    PROVE  Delivers'
<1> DEFINE task == answer.body.task
<1>0. WorkerInv /\ NumbersInv /\ HubOK /\ TablesOK
  BY DEF DeliveryInv, WorkerInv, ScanInv, IInv
<1>1. /\ Got("hello") /\ answer.ok /\ ~HubWasReplaced(answer.body) /\ NewTask(answer.body)
      /\ Forget(task.agents) /\ rescan' = Progress(task.id, Scope(task.agents), None,
                                 Unavailable(task.agents) # {})
      /\ UNCHANGED <<trimmed, lastSequence, outbox, recovery, binding, epoch, node, rescans,
                     hubSessions, messageBases, limits, late>>
      /\ awaited' = None
  BY DEF HelloStartsRescan, Read, queueVars, hubVars, databaseVars, contentVars
<1>2. answer.body.epoch = binding /\ recovery = None /\ task # None
  BY <1>1 DEF HubWasReplaced, NewTask
<1> SUFFICES ASSUME Bound', NEW s \in Sessions, sent'[s] \in Captures
             PROVE  Comes(s)' \/ (~limits.cancels /\ Resent(s)')
  BY <1>1 DEF Delivers
<1>3. Bound
  BY <1>1 DEF Bound
<1>4. sent'[s] = sent[s] /\ sent[s] \in Captures
  BY <1>0, <1>1, ForgettingKeeps
<1>5. CASE Comes(s)
  <2>1. /\ trimmed \in Nat /\ lastSequence \in Nat /\ node.confirmed \in Nat
        /\ trimmed <= node.confirmed
    BY <1>0, <1>3, Ranges
  <2> QED
    BY <1>1, <1>4, <1>5, <2>1, ComesKept
<1>6. CASE ~limits.cancels /\ Resent(s)
  <2>1. PICK i \in 1 .. Len(rescans) : Awaits(i, s)
    BY <1>6 DEF Resent
  <2>2. rescans[i].id # task.id
    <3> SUFFICES ASSUME rescans[i].id = task.id
                 PROVE  FALSE
      OBVIOUS
    <3>1. answer.body.epoch = epoch
      BY <1>2, <1>3 DEF Bound
    <3>2. PICK j \in 1 .. Len(rescans) : rescans[j].id = task.id /\ rescans[j].agents = task.agents
      BY <1>1, <1>2, <3>1 DEF Booked, TaskListed, Listed
    <3>3. i = j
      BY <1>0, <3>2 DEF HubOK, TablesHold, TasksOK
    <3>4. Covers(task.agents, s) /\ Narrow(task.agents)
      BY <2>1, <3>2, <3>3 DEF Awaits, Booked, NarrowAll
    <3>5. AgentOf[s] \in Enabled
      BY <1>4, CaptureAssumption DEF Booked, SentEnabled
    <3>6. AgentOf[s] \in Scope(task.agents) /\ Unavailable(task.agents) = {}
      <4>1. CASE task.agents = {}
        BY <3>5, <4>1 DEF Scope, Unavailable
      <4>2. CASE task.agents # {}
        BY <3>4, <3>5, <4>2 DEF Scope, Unavailable, Covers, Narrow
      <4> QED
        BY <4>1, <4>2
    <3>7. sent[s] # None
      BY <1>4, CaptureAssumption
    <3>8. sent'[s] = Cleared
      BY <1>1, <3>6, <3>7 DEF Forget
    <3> QED
      BY <1>4, <3>8, WorkerAssumption
  <2>3. ~TaskBegun(rescans[i].id)'
    <3>1. rescans'[i].id = rescans[i].id /\ rescan'.id = task.id
      BY <1>1 DEF Progress
    <3>2. Pended' \subseteq Pended
      BY <1>1 DEF Pended, Idle
    <3>3. ~SameTask(rescans[i].id)'
      BY <2>2, <3>1 DEF SameTask
    <3>4. \A r \in Pended' : ~(Reports(r)' /\ r.body.rescan.id = rescans'[i].id)
      BY <1>1, <2>1, <3>1, <3>2 DEF Awaits, TaskBegun, Reports
    <3> QED
      BY <3>3, <3>4 DEF TaskBegun
  <2> QED
    BY <1>1, <1>6, <2>1, <2>3 DEF Resent, Awaits, Covers, Active
<1> QED
  BY <1>3, <1>4, <1>5, <1>6 DEF Delivers

(* Both sides stay bound: no recovery and no restore.                      *)
LEMMA StaysBound ==
    ASSUME DeliveryInv, Watermarks', Booked, [Next]_vars, Bound', ~RecoverDone
    PROVE  /\ UNCHANGED <<epoch, binding, recovery, streamId>> /\ Bound /\ TableGoesOn
           /\ ~RestoreBackup /\ ~HelloStartsRecovery /\ node'.stream = node.stream
<1>0. /\ WorkerInv /\ NumbersInv /\ HubOK /\ RequestsMatch /\ LastExact
  BY DEF DeliveryInv, FollowInv
<1>1. TableGoesOn \/ (epoch' = epoch + 1 /\ RestoreBackup)
  BY <1>0, TableStep DEF Booked
<1>2. UNCHANGED epoch \/ epoch' = epoch + 1
  BY <1>0, EpochStep DEF Booked
<1>3. ~HelloStartsRecovery
  <2> SUFFICES ASSUME HelloStartsRecovery PROVE FALSE
    OBVIOUS
  <2>1. answer.body.epoch \in Nat /\ streamId \in Nat
    BY <1>0 DEF HelloStartsRecovery, NumbersInv, AnswerCurrent, WorkerNumbers
  <2>2. recovery # None => recovery.previousStream \in Nat
    BY <1>0 DEF NumbersInv, WorkerNumbers, Recoveries
  <2> DEFINE previous == IF recovery = None THEN streamId ELSE recovery.previousStream
  <2>3. Recovery(answer.body.epoch, previous, streamId + 1) \in
            [epoch : Nat, previousStream : Nat, newStream : Nat]
    BY <2>1, <2>2 DEF Recovery
  <2>4. recovery' # None
    BY <2>3, NoneAssumption DEF HelloStartsRecovery, PrepareRecovery, workerVars
  <2> QED
    BY <2>4 DEF Bound
<1>4. UNCHANGED <<recovery, streamId, binding>>
  BY <1>0, <1>3, RecoverySteps
<1>5. UNCHANGED epoch /\ TableGoesOn /\ Bound /\ ~RestoreBackup
  <2>1. epoch \in Nat /\ (recovery = None => binding <= epoch)
    BY <1>0 DEF NumbersInv, HubNumbers, Goal
  <2>2. binding = epoch' /\ recovery = None
    BY <1>4 DEF Bound
  <2>3. epoch' # epoch + 1
    BY <2>1, <2>2, <1>0 DEF NumbersInv, WorkerNumbers
  <2> QED
    BY <1>1, <1>2, <2>2, <2>3 DEF Bound, RestoreBackup
<1>6. node'.stream = streamId' /\ node.stream = streamId
  BY <1>0, <1>5, Ranges DEF Watermarks
<1> QED
  BY <1>3, <1>4, <1>5, <1>6

(* What is on its way to a session arrives, whatever step is taken.        *)
LEMMA ComesStays ==
    ASSUME DeliveryInv, [Next]_vars, Bound, UNCHANGED <<epoch, binding, recovery, streamId>>,
           ~RecoverDone, ~HelloStartsRescan, ~HelloStartsRecovery, ~RestoreBackup,
           NEW s \in Sessions, sent'[s] \in Captures, sent[s] \in Captures => Comes(s)
    PROVE  Comes(s)'
<1>0. WorkerInv /\ NumbersInv /\ HubOK /\ RequestsMatch /\ LastExact
  BY DEF DeliveryInv, FollowInv
<1>1. /\ trimmed \in Nat /\ lastSequence \in Nat /\ node.confirmed \in Nat
      /\ trimmed <= node.confirmed /\ confirmedSequence \in Nat
  BY <1>0, Ranges
<1>2. CASE HubServe
  <2>1. ServedAs(awaited) /\ Timely(awaited) /\ Matches(awaited)
    BY <1>0, <1>2, ServeIsServed DEF HubServe, NumbersInv, RequestsTimely, RequestsMatch
  <2>2. UNCHANGED <<queueNumbers, sent>>
    BY <1>2 DEF HubServe, workerVars, queueVars, sessionVars, queueNumbers, numbers
  <2> QED
    BY <2>1, <2>2, ComesServed
<1>3. CASE HubServeLate
  <2>1. PICK r \in late : ServedAs(r)
    BY <1>0, <1>3, LateIsServed DEF NumbersInv
  <2>2. Timely(r) /\ Matches(r)
    BY <1>0 DEF NumbersInv, RequestsTimely, RequestsMatch
  <2>3. UNCHANGED <<queueNumbers, sent>>
    BY <1>3 DEF HubServeLate, workerVars, queueVars, sessionVars, queueNumbers, numbers
  <2> QED
    BY <2>1, <2>2, <2>3, ComesServed
<1>4. CASE ~HubServe /\ ~HubServeLate
  <2>1. UNCHANGED <<node, hubSessions, messageBases>>
    BY <1>0, <1>4, RowSteps
  <2>2. CASE Collect
    <3>1. UNCHANGED trimmed
      BY <1>0, <2>2, CollectSaves
    <3>2. CASE UNCHANGED <<lastSequence, outbox, sent>>
      BY <1>1, <2>1, <3>1, <3>2, ComesKept
    <3>3. CASE \E x \in Sessions, c \in Captures, n \in ChunkCounts : SaveSession(x, c, n)
      BY <1>0, <2>1, <3>1, <3>3, ComesSaved
    <3> QED
      BY <1>0, <2>2, <3>2, <3>3, CollectSaves
  <2>3. CASE UploadDone
    <3> DEFINE q == confirmedSequence + 1
    <3>1. /\ UNCHANGED lastSequence
          /\ IF outbox[q].kind = "chunk" THEN UNCHANGED <<trimmed, outbox>>
             ELSE trimmed' = q /\ \A r \in Rows' : outbox'[r] = outbox[r]
      BY <1>0, <2>3, UploadDoneKeeps
    <3>2. node.confirmed = q /\ UNCHANGED sent
      BY <1>0, <2>3 DEF UploadDone, NumbersInv, AnswerCurrent, Acknowledge, sessionVars
    <3>3. trimmed' \in Nat /\ trimmed' <= node.confirmed
      BY <1>1, <3>1, <3>2
    <3>4. \A r \in Rows : r > node.confirmed => outbox'[r] = outbox[r]
      BY <1>1, <3>1, <3>2 DEF Rows
    <3> QED
      BY <1>1, <2>1, <3>1, <3>2, <3>3, <3>4, ComesKept
  <2>4. CASE ~Collect /\ ~UploadDone
    <3>1. UNCHANGED <<trimmed, lastSequence, outbox, sent>>
      BY <1>4, <2>4 DEF Next, SendRecover, SendHello, SendUpload, Send, HubBusy,
         HubLeased, ReadAnswer, RecoverRefused, HelloOk, HelloRefused, HelloBusy,
         UploadRefused, UploadBusy, SetPause, Lose, Crash, Change, Edit, ScanFails, Fault,
         FailPage, HubUser, HubOperator, vars, workerVars, queueVars, sessionVars
    <3> QED
      BY <1>1, <2>1, <3>1, ComesKept
  <2> QED
    BY <2>2, <2>3, <2>4
<1> QED
  BY <1>2, <1>3, <1>4

(* What is counted as delivered is there, queued or to be resent, at every *)
(* step.                                                                   *)
LEMMA DeliversStays ==
    ASSUME Outdated \cap Enabled = {}, DeliveryInv, DeliveryInv', Booked, Uncancelled,
           RecoveryQueued, Delivers, [Next]_vars
    PROVE  Delivers'
<1>1. CASE RecoverDone
  BY <1>1, RecoveredDelivers
<1>2. CASE HelloStartsRescan
  BY <1>2, StartedDelivers
<1>3. CASE ~RecoverDone /\ ~HelloStartsRescan
  <2> SUFFICES ASSUME Bound'
               PROVE  Delivers'
    BY DEF Delivers
  <2>0. WorkerInv /\ NumbersInv /\ HubOK
    BY DEF DeliveryInv
  <2>1. /\ UNCHANGED <<epoch, binding, recovery, streamId>> /\ Bound /\ TableGoesOn
        /\ ~RestoreBackup /\ ~HelloStartsRecovery /\ node'.stream = node.stream
    BY <1>3, StaysBound DEF DeliveryInv, NumbersInv
  <2>2. \A id : TaskBegun(id)' => TaskBegun(id)
    BY <2>0, <1>3, <2>1, BegunSteps
  <2>3. UNCHANGED limits
    BY <2>0, EpochStays DEF Booked
  <2> SUFFICES ASSUME NEW s \in Sessions, sent'[s] \in Captures, sent[s] \in Captures => Comes(s)
               PROVE  Comes(s)'
    BY <2>0, <2>1, <2>2, <2>3, DeliversOn
  <2> QED
    BY <1>3, <2>1, ComesStays
<1> QED
  BY <1>1, <1>2, <1>3

(* Nothing was sent or asked for at first.                                 *)
LEMMA HealingBegins == Init => Healing
<1> SUFFICES ASSUME Init PROVE Healing
  OBVIOUS
<1>1. /\ rescans = <<>> /\ backup.rescans = <<>> /\ recovery = None /\ epoch = 0
      /\ late = {} /\ awaited = None /\ answer = None /\ limits \in Limits
      /\ sent = [s \in Sessions |-> None]
  BY DEF Init, WorkerInit, HubInit, Database
<1>2. NarrowAll(rescans) /\ NarrowAll(backup.rescans)
  BY <1>1 DEF NarrowAll
<1>3. limits.epoch \in Nat
  BY <1>1, SyncAssumption
<1>4. ReportsBound /\ TaskListed /\ SentEnabled
  BY <1>1 DEF ReportsBound, TaskListed, SentEnabled, Pended, Idle, Got
<1>5. \A s \in Sessions : sent[s] \notin Captures
  BY <1>1, CaptureAssumption
<1> QED
  BY <1>1, <1>2, <1>3, <1>4, <1>5 DEF Healing, Booked, RecoveryQueued, Delivers

(* Healing is inductive, given what DeliveryInv says of both sides.        *)
LEMMA HealingStays ==
    ASSUME Outdated \cap Enabled = {}, DeliveryInv, DeliveryInv', Healing, [Next]_vars
    PROVE  Healing'
<1>1. Booked /\ Booked'
  BY BookedStays DEF Healing
<1>2. UNCHANGED limits
  BY <1>1, EpochStays DEF Booked, DeliveryInv
<1>3. Uncancelled => RecoveryQueued' /\ Delivers'
  BY <1>1, RecoveryQueuedStays, DeliversStays DEF Healing
<1> QED
  BY <1>1, <1>2, <1>3 DEF Healing, Uncancelled

(* A session that comes and has nothing left to come is as it was sent.    *)
LEMMA ComesWhole ==
    ASSUME DeliveryInv, Bound, NEW s \in Sessions, sent[s] \in Captures, Comes(s), ~Pending(s)
    PROVE  hubSessions[s] = sent[s]
<1>0. HubOK
  BY DEF DeliveryInv
<1>1. ToApply(OpsOf(s)) = {} /\ ToApply(CommitsOf(s)) = {}
  BY AppliedPlace DEF Pending, ToApply, CommitsOf
<1>2. messageBases[s] = sent[s].messages
  BY <1>1 DEF Comes, MessagesCome
<1>3. sent[s] \in Contents /\ messageBases[s] \in Seq(Messages)
  BY <1>2, CaptureAssumption DEF Contents
<1>4. hubSessions[s] # None /\ hubSessions[s].messages = sent[s].messages
  BY <1>0, <1>2, <1>3, NoneAssumption DEF HubOK, TablesHold, ContentOK
<1>5. hubSessions[s].title = sent[s].title
  BY <1>1, <1>4 DEF Comes, TitleComes
<1>6. hubSessions[s] \in Contents
  BY <1>0, <1>4 DEF HubOK, TablesHold, ContentOK
<1> QED
  BY <1>3, <1>4, <1>5, <1>6 DEF Contents

(* What is counted as delivered and nowhere queued is there.               *)
LEMMA HealsDivergence ==
    ASSUME DeliveryInv, Delivers
    PROVE  NoSilentDivergence
<1> SUFFICES ASSUME Bound, NEW s \in Sessions, Diverged(s)
             PROVE  \E i \in DOMAIN rescans : Heals(rescans[i], s)
  BY DEF NoSilentDivergence
<1>0. HubOK
  BY DEF DeliveryInv
<1>2. sent[s] \in Captures /\ ~Pending(s) /\ hubSessions[s] # sent[s]
  BY DEF Diverged
<1>3. ~Comes(s)
  BY <1>2, ComesWhole
<1>4. PICK i \in 1 .. Len(rescans) : Awaits(i, s)
  BY <1>2, <1>3 DEF Delivers, Resent
<1>5. i \in DOMAIN rescans
  BY <1>0, LenProperties DEF HubOK, TablesHold, TasksOK
<1> QED
  BY <1>4, <1>5 DEF Heals, Awaits, TaskBegun, Covers

(* Whatever is lost, repeated, late, restarted or restored, a session that *)
(* the Worker counts as delivered is on the Hub as it was sent, or still   *)
(* queued, or an open task not yet begun will have it sent again           *)
(* (control.rs, receive.rs, worker_store.rs); provided nobody cancels the  *)
(* task a recovery asks for, and the agents' parsers are the Hub's.        *)
THEOREM DivergenceHeals ==
    ASSUME Outdated \cap Enabled = {}
    PROVE  Spec => [](Uncancelled => NoSilentDivergence)
<1>1. Init => Healing
  BY HealingBegins
<1>2. DeliveryInv /\ DeliveryInv' /\ Healing /\ [Next]_vars => Healing'
  BY HealingStays
<1>3. DeliveryInv /\ Healing => (Uncancelled => NoSilentDivergence)
  BY HealsDivergence DEF Healing
<1> QED
  BY <1>1, <1>2, <1>3, DeliveryHolds, PTL DEF Spec

----------------------------------------------------------------------------
(* Completed tasks are delivered: CompletedIsDelivered.  It is not         *)
(* inductive either.  Fulfils adds that tasks are begun in the order of    *)
(* their rows, so that no report on its way is about a task not begun yet  *)
(* (InTurn) and none says more than the progress (ReportsAgree); that what *)
(* is owed stays known and is collected before its agent is recorded as    *)
(* done (OwedKnown); and that what is sent of it again comes in full, at   *)
(* the target at the latest (OwedComes).                                   *)

(* The row of the task the Worker began last, 0 before the first: no task  *)
(* before it is open, no report is about a later one, and an answer hands  *)
(* out that one or a later one.                                            *)
Reached(i) == \A j \in 1 .. Len(rescans) : j < i => ~Active(rescans[j])
IsRow(id, i) == i \in 1 .. Len(rescans) /\ rescans[i].id = id
Within(id, i) == \E j \in 1 .. Len(rescans) : j <= i /\ rescans[j].id = id
HandsOut == Got("hello") /\ answer.ok /\ answer.body.epoch = epoch /\ answer.body.task # None
Turn(i) ==
    /\ Reached(i)
    /\ rescan # None => IsRow(rescan.id, i) /\ rescan.pending \subseteq Agents
    /\ rescan = None => i = 0
    /\ \A r \in Pended : Reports(r) => Within(r.body.rescan.id, i)
    /\ HandsOut => \E k \in 1 .. Len(rescans) :
                     i <= k /\ Reached(k) /\ IsRow(answer.body.task.id, k)
InTurn == Bound => \E i \in 0 .. Len(rescans) : Turn(i)

(* Rows stay, and none is opened again.                                    *)
TableKept ==
    /\ rescans \in Seq(RescanTasks) /\ rescans' \in Seq(RescanTasks)
    /\ Onward(rescans, rescans') /\ Grown(rescans, rescans')

(* Places in the table stay what they are.                                 *)
LEMMA PlacesKept ==
    ASSUME TableKept, NEW i \in Nat, i <= Len(rescans)
    PROVE  /\ i <= Len(rescans') /\ (i \in 1 .. Len(rescans) => i \in 1 .. Len(rescans'))
           /\ Reached(i) => Reached(i)'
           /\ \A id : IsRow(id, i) => IsRow(id, i)'
           /\ \A id : Within(id, i) => Within(id, i)'
<1>1. Len(rescans) \in Nat /\ Len(rescans') \in Nat /\ Len(rescans') >= Len(rescans)
  BY LenProperties DEF TableKept, Grown
<1>2. \A j \in 1 .. Len(rescans') : j < i => j \in 1 .. Len(rescans)
  BY <1>1
<1>3. \A j \in 1 .. Len(rescans) : j \in 1 .. Len(rescans')
  BY <1>1
<1>4. Reached(i) => Reached(i)'
  BY <1>2 DEF Reached, TableKept, Onward, Active
<1>5. \A id : Within(id, i) => Within(id, i)'
  BY <1>3 DEF Within, TableKept, Grown
<1>6. \A id : IsRow(id, i) => IsRow(id, i)'
  BY <1>3 DEF IsRow, TableKept, Grown
<1>7. i <= Len(rescans')
  BY <1>1
<1> QED
  BY <1>3, <1>4, <1>5, <1>6, <1>7

(* The turn goes on where no other task is begun.                          *)
LEMMA TurnKept ==
    ASSUME TableKept, UNCHANGED epoch, NEW i \in 0 .. Len(rescans), Turn(i),
           rescan' = None <=> rescan = None,
           rescan # None => rescan'.id = rescan.id /\ rescan'.pending \subseteq rescan.pending,
           \A r \in Pended' : \/ r \in Pended \/ r.kind # "hello" \/ r.body.rescan = rescan,
           HandsOut' => \/ HandsOut /\ answer' = answer
                        \/ \E k \in 1 .. Len(rescans') :
                             i <= k /\ Reached(k)' /\ rescans'[k].id = answer'.body.task.id
    PROVE  i \in 0 .. Len(rescans') /\ Turn(i)'
<1>1. i \in Nat /\ i <= Len(rescans) /\ Len(rescans) \in Nat /\ Len(rescans') \in Nat
  BY LenProperties DEF TableKept
<1>2. /\ i <= Len(rescans') /\ Reached(i)'
      /\ \A id : IsRow(id, i) => IsRow(id, i)'
      /\ \A id : Within(id, i) => Within(id, i)'
  BY <1>1, PlacesKept DEF Turn
<1>4. rescan' # None => /\ i \in 1 .. Len(rescans') /\ rescans'[i].id = rescan'.id
                        /\ rescan'.pending \subseteq Agents
  BY <1>1, PlacesKept DEF Turn, IsRow
<1>5. ASSUME NEW r \in Pended', Reports(r)'
      PROVE  Within(r.body.rescan.id, i)'
  <2>1. Reports(r) /\ r.kind = "hello" /\ r.body.rescan # None
    BY <1>5 DEF Reports
  <2>2. Within(r.body.rescan.id, i)
    <3>1. CASE r \in Pended
      BY <2>1, <3>1 DEF Turn
    <3>2. CASE r.body.rescan = rescan
      <4>1. IsRow(rescan.id, i)
        BY <2>1, <3>2 DEF Turn
      <4> QED
        BY <1>1, <3>2, <4>1 DEF IsRow, Within
    <3> QED
      BY <2>1, <3>1, <3>2
  <2>3. PICK id : id = r.body.rescan.id
    OBVIOUS
  <2> QED
    BY <1>2, <2>2, <2>3
<1>6. ASSUME HandsOut'
      PROVE  \E k \in 1 .. Len(rescans') :
                i <= k /\ Reached(k)' /\ rescans'[k].id = answer'.body.task.id
  <2>1. CASE HandsOut /\ answer' = answer
    <3>1. PICK k \in 1 .. Len(rescans) :
             i <= k /\ Reached(k) /\ IsRow(answer.body.task.id, k)
      BY <2>1 DEF Turn
    <3>2. k \in Nat /\ k <= Len(rescans)
      BY <1>1
    <3>3. PICK id : id = answer.body.task.id
      OBVIOUS
    <3>4. k \in 1 .. Len(rescans') /\ Reached(k)' /\ IsRow(id, k)'
      BY <3>1, <3>2, <3>3, PlacesKept
    <3> QED
      BY <2>1, <3>1, <3>3, <3>4 DEF IsRow
  <2> QED
    BY <1>6, <2>1
<1> QED
  BY <1>1, <1>2, <1>4, <1>5, <1>6 DEF Turn, IsRow

(* The oldest open task is the first one that is open.                     *)
LEMMA OldestIsFirst ==
    ASSUME NEW queue \in Seq(RescanTasks), OldestActive(queue) # None
    PROVE  \E k \in 1 .. Len(queue) :
              /\ OldestActive(queue) = queue[k] /\ Active(queue[k])
              /\ \A j \in 1 .. Len(queue) : j < k => ~Active(queue[j])
<1>1. Len(queue) \in Nat /\ DOMAIN queue = 1 .. Len(queue)
  BY LenProperties
<1>2. ActiveIn(queue) # {} /\ ActiveIn(queue) \in SUBSET Nat
  BY <1>1 DEF OldestActive, ActiveIn
<1>3. \E i \in ActiveIn(queue) : \A j \in ActiveIn(queue) : i <= j
  BY <1>2, LeastExists
<1> DEFINE k == CHOOSE i \in ActiveIn(queue) : \A j \in ActiveIn(queue) : i <= j
<1>4. k \in ActiveIn(queue) /\ \A j \in ActiveIn(queue) : k <= j
  BY <1>3
<1>5. OldestActive(queue) = queue[k]
  BY <1>2 DEF OldestActive
<1> HIDE DEF k
<1>6. k \in 1 .. Len(queue) /\ Active(queue[k])
  BY <1>1, <1>4 DEF ActiveIn
<1>7. ASSUME NEW j \in 1 .. Len(queue), j < k, Active(queue[j])
      PROVE  FALSE
  <2>1. j \in ActiveIn(queue)
    BY <1>1, <1>7 DEF ActiveIn
  <2> QED
    BY <1>1, <1>4, <1>6, <1>7, <2>1
<1> QED
  BY <1>5, <1>6, <1>7

(* Statuses set on open rows open none.                                    *)
LEMMA StatusOpensNone ==
    ASSUME NEW queue \in Seq(RescanTasks), NEW chosen, NEW status \in ActiveStatus \cup EndStatus,
           \A i \in 1 .. Len(queue) : i \in chosen => Active(queue[i])
    PROVE  LET new == WithStatus(queue, chosen, status)
           IN  /\ new \in Seq(RescanTasks) /\ Len(new) = Len(queue)
               /\ \A i \in 1 .. Len(queue) :
                    new[i].id = queue[i].id /\ (Active(new[i]) => Active(queue[i]))
<1> DEFINE new == WithStatus(queue, chosen, status)
<1>1. /\ new \in Seq(RescanTasks) /\ Len(new) = Len(queue)
      /\ \A i \in 1 .. Len(queue) :
           /\ new[i].id = queue[i].id
           /\ i \notin chosen => new[i] = queue[i]
  BY WithStatusType
<1> HIDE DEF new
<1> QED
  BY <1>1 DEF new

(* worker_hello hands out a task no other is open before.                  *)
LEMMA HandedOutInTurn ==
    ASSUME rescans \in Seq(RescanTasks), NEW h, NEW c, WorkerHello(h, c),
           HelloReply(h, c).task # None, NEW i \in Nat, Reached(i)
    PROVE  \E k \in 1 .. Len(rescans') :
              i <= k /\ Reached(k)' /\ rescans'[k].id = HelloReply(h, c).task.id
<1> DEFINE mid == Reported(h, c)
           task == HandedOut(h, c)
           first == {j \in DOMAIN mid : /\ task # None /\ mid[j].id = task.id
                                        /\ mid[j].status = "waiting"}
<1>1. task # None /\ HelloReply(h, c).task.id = task.id
  BY DEF HelloReply
<1>2. /\ mid \in Seq(RescanTasks) /\ Len(mid) = Len(rescans)
      /\ \A j \in 1 .. Len(rescans) : Active(mid[j]) => Active(rescans[j])
  <2>1. CASE h.epoch = epoch /\ h.rescan # None
    <3> DEFINE chosen == {j \in ActiveIn(rescans) : rescans[j].id = h.rescan.id}
               status == ProgressStatus(h.rescan, c)
    <3>1. status \in ActiveStatus \cup EndStatus
      BY ProgressStatusType
    <3>2. \A j \in 1 .. Len(rescans) : j \in chosen => Active(rescans[j])
      BY DEF ActiveIn
    <3>3. mid = WithStatus(rescans, chosen, status)
      BY <2>1 DEF Reported
    <3> HIDE DEF chosen, status, mid
    <3> QED
      BY <3>1, <3>2, <3>3, StatusOpensNone
  <2>2. CASE ~(h.epoch = epoch /\ h.rescan # None)
    BY <2>2 DEF Reported
  <2> QED
    BY <2>1, <2>2
<1>3. task = OldestActive(mid)
  BY <1>1 DEF HandedOut
<1>4. rescans' = WithStatus(mid, first, "dispatched")
  BY DEF WorkerHello
<1>5. \A j \in 1 .. Len(mid) : j \in first => Active(mid[j])
  BY DEF Active, ActiveStatus
<1>6. "dispatched" \in ActiveStatus
  BY DEF ActiveStatus
<1> HIDE DEF mid, task, first
<1>7. PICK k \in 1 .. Len(mid) :
              /\ task = mid[k] /\ Active(mid[k])
              /\ \A j \in 1 .. Len(mid) : j < k => ~Active(mid[j])
  BY <1>1, <1>2, <1>3, OldestIsFirst
<1>8. /\ Len(rescans') = Len(mid)
      /\ \A j \in 1 .. Len(mid) :
            rescans'[j].id = mid[j].id /\ (Active(rescans'[j]) => Active(mid[j]))
  BY <1>2, <1>4, <1>5, <1>6, StatusOpensNone
<1>9. k \in Nat /\ Active(rescans[k]) /\ k \in 1 .. Len(rescans)
  BY <1>2, <1>7, LenProperties
<1>10. i <= k
  BY <1>9 DEF Reached
<1>11. Reached(k)'
  BY <1>7, <1>8 DEF Reached, Active
<1>12. rescans'[k].id = HelloReply(h, c).task.id
  BY <1>1, <1>7, <1>8
<1> QED
  BY <1>7, <1>8, <1>10, <1>11, <1>12

(* A request that may be served and was not before is about the task the   *)
(* Worker is at.                                                           *)
LEMMA PendedSteps ==
    ASSUME [Next]_vars
    PROVE  \A r \in Pended' : r \in Pended \/ r.kind # "hello" \/ r.body.rescan = rescan
<1>1. CASE SendRecover \/ SendHello \/ SendUpload
  <2>1. Idle /\ UNCHANGED <<late, rescan>>
    BY <1>1 DEF SendRecover, SendHello, SendUpload, Send, workerVars
  <2>2. awaited'.kind # "hello" \/ awaited'.body.rescan = rescan
    BY <1>1 DEF SendRecover, SendHello, SendUpload, Send, Request, Hello
  <2> QED
    BY <2>1, <2>2 DEF Pended
<1>2. CASE Collect \/ HubServe \/ HubBusy \/ HubLeased \/ HubServeLate \/ Change \/ ScanFails
           \/ HubUser \/ HubOperator \/ UNCHANGED vars
  <2>1. UNCHANGED awaited /\ late' \subseteq late
    BY <1>2 DEF Collect, HubServe, HubBusy, HubLeased, HubServeLate, Change, ScanFails, Fault,
       HubUser, HubOperator, loopVars, vars
  <2> QED
    BY <2>1 DEF Pended, Idle
<1>3. CASE ReadAnswer
  <2>1. UNCHANGED late /\ awaited' = None
    BY <1>3 DEF ReadAnswer, RecoverDone, RecoverRefused, HelloStartsRecovery, HelloStartsRescan,
       HelloOk, HelloRefused, HelloBusy, UploadDone, UploadRefused, UploadBusy, Read
  <2> QED
    BY <2>1 DEF Pended, Idle
<1>4. CASE Lose \/ Crash
  <2>1. awaited' = None /\ \A r \in late' : r \in late \/ (~Idle /\ r = awaited)
    BY <1>4 DEF Lose, Crash, Fault, Abandon
  <2> QED
    BY <2>1 DEF Pended, Idle
<1> QED
  BY <1>1, <1>2, <1>3, <1>4 DEF Next

(* Progress is kept by all that neither begins a task, collects nor        *)
(* prepares a recovery.                                                    *)
LEMMA ProgressSteps ==
    ASSUME [Next]_vars, ~HelloStartsRescan, ~HelloStartsRecovery, ~Collect
    PROVE  UNCHANGED rescan
BY DEF Next, SendRecover, SendHello, SendUpload, Send, HubServe, HubBusy, HubLeased,
   HubServeLate, ReadAnswer, RecoverDone, FinishRecovery, RecoverRefused, HelloOk, HelloRefused,
   HelloBusy, UploadDone, Acknowledge, UploadRefused, UploadBusy, SetPause, Lose, Crash, Fault,
   Change, Edit, ScanFails, FailPage, HubUser, HubOperator, workerVars, vars

(* An answer waits until it is read or lost.                               *)
LEMMA AnswerSteps ==
    ASSUME AwaitedCurrent, [Next]_vars
    PROVE  \/ UNCHANGED <<awaited, answer>> \/ HubServe
           \/ awaited' = None \/ answer' = None \/ ~answer'.ok
<1>1. CASE \/ HubServeLate \/ Change \/ Collect \/ ScanFails \/ HubUser \/ HubOperator
           \/ UNCHANGED vars
  BY <1>1 DEF HubServeLate, Change, Collect, ScanFails, Fault, HubUser, HubOperator, loopVars,
     vars
<1>2. CASE SendRecover \/ SendHello \/ SendUpload
  BY <1>2 DEF SendRecover, SendHello, SendUpload, Send, Idle, AwaitedCurrent
<1>3. CASE HubBusy \/ HubLeased
  BY <1>3 DEF HubBusy, HubLeased, Fault, Busy, Refused
<1>4. CASE Lose \/ Crash \/ ReadAnswer
  BY <1>4 DEF Lose, Crash, ReadAnswer, RecoverDone, RecoverRefused, HelloStartsRecovery,
     HelloStartsRescan, HelloOk, HelloRefused, HelloBusy, UploadDone, UploadRefused,
     UploadBusy, Read, Fault
<1> QED
  BY <1>1, <1>2, <1>3, <1>4 DEF Next

(* What a page may do to the progress: an agent is done, and with the last *)
(* of them the target is set.                                              *)
LEMMA CollectProgress ==
    ASSUME WorkerInv, Collect, ~UNCHANGED rescan
    PROVE  /\ rescan # None /\ ~rescan.failed /\ rescan.target = None
           /\ \E a \in Agents, target \in Nat \cup {None} :
                /\ rescan' = Progress(rescan.id, rescan.pending \ {a}, target, FALSE)
                /\ target \in {None, RescanTarget}
                /\ sources'[a].complete
<1> DEFINE a == SourceList[scan.index]
           left == rescan.pending \ {a}
           target == IF left = {} THEN RescanTarget ELSE None
<1>0. LoopTypeOK /\ QueueOK /\ TablesOK
  BY DEF WorkerInv, ScanInv, IInv
<1>1. SavePage
  BY DEF Collect, Tick, StartScan, DropPage, TickPaused, workerVars
<1>2. scan \in Scans /\ a \in Agents
  BY <1>0, <1>1, SourceListAssumption DEF SavePage, LoopTypeOK, Scans
<1>3. PICK n \in ChunkCounts : SaveBatch(a, scan.page, n, scan.left = <<>>)
  BY <1>1 DEF SavePage
<1> HIDE DEF a
<1>4. scan.left = <<>> /\ AgentComplete(a)
  BY <1>3 DEF SaveBatch
<1>5. /\ rescan # None /\ ~rescan.failed /\ rescan.target = None
      /\ rescan' = Progress(rescan.id, left, target, FALSE)
  BY <1>4 DEF AgentComplete
<1>6. sources'[a].complete
  BY <1>0, <1>2, <1>3, <1>4 DEF SaveBatch, TablesOK
<1>7. RescanTarget \in Nat
  <2>1. lastSequence' \in Nat /\ confirmedSequence \in Nat
    BY <1>0, CollectKeeps DEF QueueOK, QueueKept
  <2> QED
    BY <2>1 DEF RescanTarget
<1> QED
  BY <1>2, <1>5, <1>6, <1>7

(* A record of progress is none of the values that stand for its absence.  *)
LEMMA ProgressIsSome ==
    ASSUME NEW id \in Int \X Nat, NEW pending \in SUBSET Agents, NEW target \in Nat \cup {None},
           NEW failed \in BOOLEAN
    PROVE  Progress(id, pending, target, failed) # None
<1>1. Progress(id, pending, target, failed) \in
        [id : Int \X Nat, pending : SUBSET Agents, target : Nat \cup {None}, failed : BOOLEAN]
  BY DEF Progress
<1> QED
  BY <1>1, ProgressAssumption

(* A step that keeps both sides bound keeps the rows.                      *)
LEMMA BoundTableKept ==
    ASSUME DeliveryInv, [Next]_vars, UNCHANGED epoch, TableGoesOn
    PROVE  TableKept
<1>1. HubOK /\ NumbersInv /\ RequestsMatch
  BY DEF DeliveryInv, FollowInv
<1>2. HubOK' /\ Onward(rescans, rescans')
  BY <1>1, TablesStay
<1> QED
  BY <1>1, <1>2 DEF TableKept, TableGoesOn, HubOK, TablesHold, TasksOK

(* The task begun next is the one the answer handed out.                   *)
LEMMA BegunInTurn ==
    ASSUME DeliveryInv, Booked, Bound, HelloStartsRescan, NEW i \in 0 .. Len(rescans), Turn(i)
    PROVE  \E k \in 1 .. Len(rescans) :
              /\ i <= k /\ rescans[k].id = answer.body.task.id /\ Turn(k)'
              /\ rescan' # None
<1> DEFINE task == answer.body.task
<1>0. rescans \in Seq(RescanTasks) /\ Len(rescans) \in Nat /\ i \in Nat
  BY LenProperties DEF DeliveryInv, HubOK, TablesHold, TasksOK
<1>1. /\ Got("hello") /\ answer.ok /\ ~HubWasReplaced(answer.body) /\ NewTask(answer.body)
      /\ rescan' = Progress(task.id, Scope(task.agents), None, Unavailable(task.agents) # {})
      /\ UNCHANGED <<epoch, rescans, late>> /\ awaited' = None
  BY DEF HelloStartsRescan, Read, hubVars, databaseVars
<1>2. answer.body.epoch = epoch /\ task # None
  BY <1>1 DEF HubWasReplaced, NewTask, Bound
<1>3. PICK k \in 1 .. Len(rescans) : i <= k /\ Reached(k) /\ rescans[k].id = task.id
  BY <1>1, <1>2 DEF Turn, HandsOut, IsRow
<1>4. task.id \in Int \X Nat
  BY <1>0, <1>3, TaskId
<1>5. Scope(task.agents) \in SUBSET Agents
  <2>1. PICK j \in 1 .. Len(rescans) : rescans[j].agents = task.agents
    BY <1>1, <1>2 DEF Booked, TaskListed, Listed
  <2>2. rescans[j] \in RescanTasks
    BY <1>0, <2>1, TaskId
  <2>3. task.agents \in SUBSET Agents
    BY <2>1, <2>2 DEF RescanTasks
  <2> QED
    BY <2>3, WorkerAssumption DEF Scope
<1>6. rescan' # None /\ rescan'.id = task.id /\ rescan'.pending \subseteq Agents
  <2>1. rescan' # None
    BY <1>1, <1>4, <1>5, ProgressIsSome
  <2> QED
    BY <1>1, <1>5, <2>1 DEF Progress
<1>7. ASSUME NEW r \in Pended', Reports(r)'
      PROVE  Within(r.body.rescan.id, k)'
  <2>1. r \in Pended /\ Reports(r)
    BY <1>1, <1>7 DEF Pended, Idle, Reports
  <2>2. PICK j \in 1 .. Len(rescans) : j <= i /\ rescans[j].id = r.body.rescan.id
    BY <2>1 DEF Turn, Within
  <2>3. j <= k
    BY <1>0, <1>3, <2>2
  <2> QED
    BY <1>1, <2>2, <2>3 DEF Within
<1>8. Reached(k)' /\ ~HandsOut'
  BY <1>1, <1>3 DEF Reached, HandsOut, Got, Idle
<1>9. Turn(k)'
  BY <1>1, <1>3, <1>6, <1>7, <1>8 DEF Turn, IsRow
<1> QED
  BY <1>3, <1>6, <1>9

(* Collection leaves the progress there and on its task.                   *)
LEMMA CollectTurn ==
    ASSUME DeliveryInv, Collect, NEW i \in 0 .. Len(rescans), Turn(i)
    PROVE  /\ rescan' = None <=> rescan = None
           /\ rescan # None => rescan'.id = rescan.id /\ rescan'.pending \subseteq rescan.pending
<1>1. CASE UNCHANGED rescan
  BY <1>1
<1>2. CASE ~UNCHANGED rescan
  <2>1. rescan # None
    BY <1>2, CollectProgress DEF DeliveryInv
  <2>2. PICK a \in Agents, target \in Nat \cup {None} :
           rescan' = Progress(rescan.id, rescan.pending \ {a}, target, FALSE)
    BY <1>2, CollectProgress DEF DeliveryInv
  <2>3. rescan.id \in Int \X Nat /\ rescan.pending \ {a} \in SUBSET Agents
    BY <2>1, TaskId DEF Turn, IsRow, DeliveryInv, HubOK, TablesHold, TasksOK
  <2>4. rescan' # None
    BY <2>2, <2>3, ProgressIsSome
  <2> QED
    BY <2>1, <2>2, <2>4 DEF Progress
<1> QED
  BY <1>1, <1>2

(* Where no other task is begun, the turn stays.                           *)
LEMMA TurnStays ==
    ASSUME DeliveryInv, Booked, [Next]_vars, UNCHANGED epoch, Bound, TableGoesOn,
           ~HelloStartsRescan, ~HelloStartsRecovery, NEW i \in 0 .. Len(rescans), Turn(i)
    PROVE  i \in 0 .. Len(rescans') /\ Turn(i)'
<1>0. TableKept /\ NumbersInv /\ i \in Nat
  BY BoundTableKept DEF DeliveryInv
<1>1. /\ rescan' = None <=> rescan = None
      /\ rescan # None => rescan'.id = rescan.id /\ rescan'.pending \subseteq rescan.pending
  <2>1. CASE Collect
    BY <2>1, CollectTurn
  <2>2. CASE ~Collect
    BY <2>2, ProgressSteps
  <2> QED
    BY <2>1, <2>2
<1>2. \A r \in Pended' : r \in Pended \/ r.kind # "hello" \/ r.body.rescan = rescan
  BY PendedSteps
<1>3. ASSUME HandsOut'
      PROVE  \/ HandsOut /\ answer' = answer
             \/ \E k \in 1 .. Len(rescans') :
                  i <= k /\ Reached(k)' /\ rescans'[k].id = answer'.body.task.id
  <2>1. CASE UNCHANGED <<awaited, answer>>
    BY <1>3, <2>1 DEF HandsOut, Got, Idle
  <2>2. CASE HubServe
    <3>1. PICK reply : Serve(awaited, reply) /\ answer' = reply
      BY <2>2 DEF HubServe
    <3>2. awaited.kind = "hello" /\ reply.ok /\ reply.body.task # None
      BY <1>3, <2>2, <3>1 DEF HandsOut, Got, HubServe
    <3>3. PICK c : /\ WorkerHello(awaited.body, c)
                   /\ reply = Accepted(HelloReply(awaited.body, c))
      BY <3>1, <3>2 DEF Serve, Refused
    <3>4. reply.body = HelloReply(awaited.body, c)
      BY <3>3 DEF Accepted
    <3>5. \E k \in 1 .. Len(rescans') :
             i <= k /\ Reached(k)' /\ rescans'[k].id = HelloReply(awaited.body, c).task.id
      BY SMTT(30), <1>0, <3>2, <3>3, <3>4, HandedOutInTurn DEF Turn, TableKept
    <3> QED
      BY <3>1, <3>4, <3>5
  <2>3. awaited' # None /\ answer' # None /\ answer'.ok
    BY <1>3 DEF HandsOut, Got, Idle
  <2> QED
    BY <1>0, <2>1, <2>2, <2>3, AnswerSteps DEF NumbersInv
<1> QED
  BY <1>0, <1>1, <1>2, <1>3, TurnKept

(* Tasks are taken in turn, at every step.                                 *)
LEMMA InTurnStays ==
    ASSUME DeliveryInv, DeliveryInv', Booked, InTurn, [Next]_vars
    PROVE  InTurn'
<1> SUFFICES ASSUME Bound' PROVE \E i \in 0 .. Len(rescans') : Turn(i)'
  BY DEF InTurn
<1>1. CASE RecoverDone
  <2>1. /\ recovery # None /\ UNCHANGED <<epoch, rescan, rescans, late>> /\ awaited' = None
    BY <1>1 DEF RecoverDone, FinishRecovery, Read, hubVars, databaseVars
  <2>2. rescan' = None /\ ~HandsOut' /\ \A r \in Pended' : ~Reports(r)'
    BY <2>1 DEF Booked, ReportsBound, Reports, Bound, Pended, Idle, HandsOut, Got
  <2>3. Len(rescans') \in Nat
    BY LenProperties DEF DeliveryInv, HubOK, TablesHold, TasksOK
  <2>4. 0 \in 0 .. Len(rescans') /\ \A j \in 1 .. Len(rescans') : ~(j < 0)
    BY <2>3
  <2>5. Turn(0)'
    BY <2>2, <2>4 DEF Turn, Reached
  <2> QED
    BY <2>4, <2>5
<1>2. CASE ~RecoverDone
  <2>1. /\ UNCHANGED epoch /\ Bound /\ TableGoesOn /\ ~HelloStartsRecovery
    BY <1>2, StaysBound DEF DeliveryInv, NumbersInv
  <2>2. PICK i \in 0 .. Len(rescans) : Turn(i)
    BY <2>1 DEF InTurn
  <2>3. CASE HelloStartsRescan
    <3>1. PICK k \in 1 .. Len(rescans) : Turn(k)'
      BY <2>1, <2>2, <2>3, BegunInTurn
    <3>2. Len(rescans') = Len(rescans) /\ Len(rescans) \in Nat
      BY <2>3, LenProperties DEF HelloStartsRescan, hubVars, databaseVars, DeliveryInv, HubOK,
         TablesHold, TasksOK
    <3>3. k \in 0 .. Len(rescans')
      BY <3>2
    <3> QED
      BY <3>1, <3>3
  <2>4. CASE ~HelloStartsRescan
    BY <2>1, <2>2, <2>4, TurnStays
  <2> QED
    BY <2>3, <2>4
<1> QED
  BY <1>1, <1>2

(* What is on the way is no more than the progress.                        *)
ReportsAgree ==
    Bound => \A r \in Pended : Reports(r) /\ SameTask(r.body.rescan.id) =>
        /\ r.body.rescan.failed = rescan.failed
        /\ r.body.rescan.target \in {None, rescan.target}

(* What a task that is not failed was to have resent is still known; once  *)
(* its agent is done, it was collected.                                    *)
OwedKnown ==
    /\ owed \subseteq Sessions
    /\ rescan # None /\ ~rescan.failed => \A s \in owed :
         sent[s] # None /\ (AgentOf[s] \notin rescan.pending => sent[s] # Cleared)

(* No report says more than the progress, at every step.                   *)
LEMMA ReportsAgreeStays ==
    ASSUME DeliveryInv, DeliveryInv', Booked, InTurn, ReportsAgree, [Next]_vars
    PROVE  ReportsAgree'
<1> SUFFICES ASSUME Bound', NEW r \in Pended', Reports(r)', SameTask(r.body.rescan.id)'
             PROVE  /\ r.body.rescan.failed = rescan'.failed
                    /\ r.body.rescan.target \in {None, rescan'.target}
  BY DEF ReportsAgree
<1>0. rescan' # None /\ rescan'.id = r.body.rescan.id /\ r.kind = "hello"
  BY DEF SameTask, Reports
<1>1. CASE RecoverDone
  <2>1. recovery # None /\ rescan' = rescan
    BY <1>1 DEF RecoverDone, FinishRecovery
  <2> QED
    BY <1>0, <2>1 DEF Booked, ReportsBound
<1>2. CASE ~RecoverDone
  <2>1. /\ UNCHANGED epoch /\ Bound /\ TableGoesOn /\ ~HelloStartsRecovery
    BY <1>2, StaysBound DEF DeliveryInv, NumbersInv
  <2>2. Reports(r)
    BY <2>1 DEF Reports
  <2>3. r \in Pended \/ r.body.rescan = rescan
    BY <1>0, PendedSteps
  <2>4. CASE HelloStartsRescan
    <3>1. PICK i \in 0 .. Len(rescans) : Turn(i)
      BY <2>1 DEF InTurn
    <3>2. PICK k \in 1 .. Len(rescans) : i <= k /\ rescans[k].id = answer.body.task.id
      BY <2>1, <2>4, <3>1, BegunInTurn
    <3>3. /\ NewTask(answer.body) /\ rescan'.id = answer.body.task.id
          /\ r \in Pended
      BY <2>4 DEF HelloStartsRescan, Progress, Read, Pended, Idle
    <3>4. PICK j \in 1 .. Len(rescans) : j <= i /\ rescans[j].id = r.body.rescan.id
      BY <2>2, <3>1, <3>3 DEF Turn, Within
    <3>5. j = k
      BY <1>0, <3>2, <3>3, <3>4 DEF DeliveryInv, HubOK, TablesHold, TasksOK
    <3>6. Len(rescans) \in Nat
      BY LenProperties DEF DeliveryInv, HubOK, TablesHold, TasksOK
    <3>7. i = k /\ i # 0
      BY <3>1, <3>2, <3>4, <3>5, <3>6
    <3>8. rescan # None /\ rescan.id = rescans[i].id
      BY <3>1, <3>7 DEF Turn, IsRow
    <3> QED
      BY <3>2, <3>3, <3>7, <3>8 DEF NewTask, SameTask
  <2>5. CASE ~HelloStartsRescan /\ UNCHANGED rescan
    BY <1>0, <2>1, <2>2, <2>3, <2>5 DEF ReportsAgree, SameTask
  <2>6. CASE ~HelloStartsRescan /\ ~UNCHANGED rescan
    <3>1. Collect
      BY <2>1, <2>6, ProgressSteps
    <3>2. rescan # None /\ ~rescan.failed /\ rescan.target = None
      BY <2>6, <3>1, CollectProgress DEF DeliveryInv
    <3>3. PICK a \in Agents, target \in Nat \cup {None} :
             rescan' = Progress(rescan.id, rescan.pending \ {a}, target, FALSE)
      BY <2>6, <3>1, CollectProgress DEF DeliveryInv
    <3>4. rescan'.id = rescan.id /\ rescan'.failed = FALSE
      BY <3>3 DEF Progress
    <3>5. rescan.failed = FALSE
      BY <3>2 DEF DeliveryInv, WorkerInv, ScanInv, IInv, TablesOK, ProgressOK
    <3>6. r.body.rescan.failed = rescan.failed /\ r.body.rescan.target \in {None, rescan.target}
      BY <1>0, <2>1, <2>2, <2>3, <3>2, <3>4 DEF ReportsAgree, SameTask
    <3> QED
      BY <3>2, <3>4, <3>5, <3>6
  <2> QED
    BY <2>4, <2>5, <2>6
<1> QED
  BY <1>1, <1>2

(* Collection replaces what was sent by captures only.                     *)
LEMMA CollectCaptures ==
    ASSUME WorkerInv, Collect, NEW s \in Sessions
    PROVE  sent'[s] = sent[s] \/ sent'[s] \in Captures
<1>1. TablesOK
  BY DEF WorkerInv, ScanInv, IInv
<1>2. CASE UNCHANGED sent
  BY <1>2
<1>3. CASE \E x \in Sessions, c \in Captures, n \in ChunkCounts : SaveSession(x, c, n)
  BY <1>1, <1>3, SavedBrings DEF TablesOK
<1> QED
  BY <1>2, <1>3, CollectSaves

(* Who changes what was sent, or what is owed.                             *)
LEMMA SentSteps ==
    ASSUME [Next]_vars, ~HelloStartsRescan, ~Collect
    PROVE  UNCHANGED <<sent, owed>>
BY DEF Next, SendRecover, SendHello, SendUpload, Send, HubServe, HubBusy, HubLeased,
   HubServeLate, ReadAnswer, RecoverDone, FinishRecovery, RecoverRefused, HelloStartsRecovery,
   PrepareRecovery, HelloOk, HelloRefused,
   HelloBusy, UploadDone, Acknowledge, UploadRefused, UploadBusy, SetPause, Lose, Crash, Fault,
   Change, Edit, ScanFails, FailPage, HubUser, HubOperator, NoFault, workerVars, sessionVars, vars

(* What is owed stays known, at every step.                                *)
LEMMA OwedKnownStays ==
    ASSUME WorkerInv, WorkerInv', OwedKnown, [Next]_vars
    PROVE  OwedKnown'
<1>1. CASE HelloStartsRescan
  <2> DEFINE task == answer.body.task
  <2>1. /\ rescan' = Progress(task.id, Scope(task.agents), None, Unavailable(task.agents) # {})
        /\ owed' = {s \in Sessions : AgentOf[s] \in Scope(task.agents) /\ sent'[s] = Cleared}
    BY <1>1 DEF HelloStartsRescan
  <2>2. rescan'.pending = Scope(task.agents) /\ Cleared # None
    BY <2>1, WorkerAssumption DEF Progress
  <2> QED
    BY <2>1, <2>2 DEF OwedKnown
<1>2. CASE Collect
  <2>1. UNCHANGED owed /\ None \notin Captures /\ Cleared \notin Captures
    BY <1>2, WorkerAssumption, CaptureAssumption DEF Collect, NoFault
  <2>2. \A s \in owed : sent'[s] = sent[s] \/ sent'[s] \in Captures
    BY <1>2, CollectCaptures DEF OwedKnown
  <2>3. CASE UNCHANGED rescan
    BY <2>1, <2>2, <2>3 DEF OwedKnown
  <2>4. CASE ~UNCHANGED rescan
    <3>1. rescan # None /\ ~rescan.failed
      BY <1>2, <2>4, CollectProgress
    <3>2. PICK a \in Agents, target \in Nat \cup {None} :
             /\ rescan' = Progress(rescan.id, rescan.pending \ {a}, target, FALSE)
             /\ sources'[a].complete
      BY <1>2, <2>4, CollectProgress
    <3>3. rescan'.pending = rescan.pending \ {a}
      BY <3>2 DEF Progress
    <3>4. \A s \in Sessions : sent'[s] = Cleared => ~sources'[AgentOf[s]].complete
      BY DEF WorkerInv, ScanInv, ClearedMeansUnfinished
    <3>5. \A s \in owed : AgentOf[s] \notin rescan'.pending => sent'[s] # Cleared
      BY <2>1, <2>2, <3>1, <3>2, <3>3, <3>4 DEF OwedKnown
    <3> QED
      BY <2>1, <2>2, <3>1, <3>5 DEF OwedKnown
  <2> QED
    BY <2>3, <2>4
<1>3. CASE HelloStartsRecovery
  <2>1. UNCHANGED rescan \/ rescan' = None
    BY <1>3 DEF HelloStartsRecovery, PrepareRecovery, workerVars
  <2>2. UNCHANGED <<sent, owed>>
    BY <1>3 DEF HelloStartsRecovery, PrepareRecovery, workerVars, sessionVars, NoFault
  <2> QED
    BY <2>1, <2>2 DEF OwedKnown
<1>4. CASE ~HelloStartsRescan /\ ~Collect /\ ~HelloStartsRecovery
  BY <1>4, SentSteps, ProgressSteps DEF OwedKnown
<1> QED
  BY <1>1, <1>2, <1>3, <1>4

(* What a task's progress promises of a session is there, or comes in full *)
(* before the target.                                                      *)
Arrives(s) ==
    \/ hubSessions[s] # None
    \/ \E q \in ToApply(CommitsOf(s)) :
         outbox[q].base = None /\ (rescan.target # None => q <= rescan.target)
OwedComes ==
    Bound /\ rescan # None /\ ~rescan.failed =>
        \A s \in owed : sent[s] \in Captures => Comes(s) /\ Arrives(s)

(* Rows ahead of the Hub stay, and the target stays or is set behind them. *)
LEMMA ArrivesKept ==
    ASSUME node.confirmed \in Nat, node'.confirmed = node.confirmed,
           \A q \in Rows : q > node.confirmed => q \in Rows' /\ outbox'[q] = outbox[q],
           rescan'.target \in {None, rescan.target} \/ \A q \in Rows' : q <= rescan'.target,
           NEW s, hubSessions[s] # None => hubSessions'[s] # None, Arrives(s)
    PROVE  Arrives(s)'
<1>1. CASE hubSessions[s] # None
  BY <1>1 DEF Arrives
<1>2. CASE hubSessions[s] = None
  <2>1. PICK q \in ToApply(CommitsOf(s)) :
           outbox[q].base = None /\ (rescan.target # None => q <= rescan.target)
    BY <1>2 DEF Arrives
  <2>2. q \in Rows /\ q > node.confirmed /\ outbox[q].kind = "commit" /\ outbox[q].session = s
    BY <2>1 DEF ToApply, CommitsOf, OpsOf
  <2>3. q \in Rows' /\ outbox'[q] = outbox[q] /\ q > node'.confirmed
    BY <2>2
  <2>4. q \in ToApply(CommitsOf(s))'
    BY <2>2, <2>3 DEF ToApply, CommitsOf, OpsOf
  <2>5. rescan'.target # None => q <= rescan'.target
    BY <2>1, <2>3
  <2> QED
    BY <2>1, <2>3, <2>4, <2>5 DEF Arrives
<1> QED
  BY <1>1, <1>2

(* A snapshot that is applied is there.                                    *)
LEMMA ArrivesApplied ==
    ASSUME WorkerInv, NumbersInv, HubOK, HubOK', NEW r, Timely(r), Matches(r), r.kind = "upload",
           ReceiveUpload(r.body), ~Replayed(r.body), UNCHANGED <<queueNumbers, rescan>>,
           NEW s \in Sessions, Arrives(s)
    PROVE  Arrives(s)'
<1> DEFINE k == confirmedSequence + 1
           op == r.body.op
<1>1. /\ node.confirmed = confirmedSequence /\ node'.confirmed = k
      /\ k \in Rows /\ op = outbox[k] /\ op \in Operations
      /\ confirmedSequence \in Nat /\ k \in Nat
  BY NextApplied, Ranges DEF NodeRow, SoundOperations
<1>2. UNCHANGED <<outbox, trimmed, lastSequence>>
  BY DEF queueNumbers, numbers
<1>3. hubSessions \in [Sessions -> Contents \cup {None}]
  BY DEF HubOK, TablesHold, ContentOK
<1>4. ASSUME ApplyCommit(r.body.stream, op), op.session = s
      PROVE  hubSessions'[s] # None
  <2>1. messageBases'[s] = op.capture.messages
    BY <1>4 DEF ApplyCommit, HubOK, TablesHold, ContentOK
  <2>2. op.capture.messages \in Seq(Messages)
    BY <1>1, <1>4, CaptureAssumption DEF ApplyCommit, Operations, Contents
  <2> QED
    BY <2>1, <2>2, NoneAssumption DEF HubOK, TablesHold, ContentOK
<1>5. ASSUME hubSessions[s] # None
      PROVE  hubSessions'[s] # None
  <2>1. CASE ApplyCommit(r.body.stream, op)
    BY <1>3, <1>4, <1>5, <2>1 DEF ApplyCommit
  <2>2. CASE ApplyMetadata(op)
    <3>1. hubSessions' = [hubSessions EXCEPT ![op.session].title = op.title]
      BY <2>2 DEF ApplyMetadata
    <3>2. hubSessions[s] \in Contents /\ op.title \in Titles
      BY <1>1, <1>3, <1>5, <2>2 DEF Operations, ApplyMetadata
    <3>3. hubSessions'[s] \in Contents
      BY <1>3, <3>1, <3>2 DEF Contents
    <3> QED
      BY <3>3, CaptureAssumption
  <2> QED
    BY <1>5, <2>1, <2>2 DEF ReceiveUpload, ApplyChunk, OrphanCommit, OrphanMetadata
<1>6. CASE hubSessions[s] # None
  BY <1>5, <1>6 DEF Arrives
<1>7. CASE hubSessions[s] = None
  <2>1. PICK q \in ToApply(CommitsOf(s)) :
           outbox[q].base = None /\ (rescan.target # None => q <= rescan.target)
    BY <1>7 DEF Arrives
  <2>2. q \in Rows /\ q \in Nat /\ q > confirmedSequence
        /\ outbox[q].kind = "commit" /\ outbox[q].session = s
    BY <1>1, <2>1, Ranges DEF ToApply, CommitsOf, OpsOf, Rows
  <2>3. CASE q = k
    <3>1. op.kind = "commit" /\ op.session = s /\ op.base = None
      BY <1>1, <2>1, <2>2, <2>3
    <3>2. ApplyCommit(r.body.stream, op)
      BY <3>1 DEF ReceiveUpload, BaseHeld, ApplyChunk, OrphanCommit, ApplyMetadata, OrphanMetadata
    <3> QED
      BY <1>4, <3>1, <3>2 DEF Arrives
  <2>4. CASE q # k
    <3>1. q > k
      BY <1>1, <2>2, <2>4
    <3>2. q \in ToApply(CommitsOf(s))'
      BY <1>1, <1>2, <2>2, <3>1 DEF ToApply, CommitsOf, OpsOf, Rows
    <3> QED
      BY <1>2, <2>1, <3>2 DEF Arrives
  <2> QED
    BY <2>3, <2>4
<1> QED
  BY <1>6, <1>7

(* A request that is served takes nothing back.                            *)
LEMMA ArrivesServed ==
    ASSUME DeliveryInv, HubOK', Bound, NEW r, Timely(r), Matches(r), ServedAs(r),
           UNCHANGED <<queueNumbers, rescan>>, NEW s \in Sessions, Arrives(s)
    PROVE  Arrives(s)'
<1>0. WorkerInv /\ NumbersInv /\ HubOK
  BY DEF DeliveryInv
<1>1. node.confirmed \in Nat /\ UNCHANGED <<trimmed, lastSequence, outbox>>
  BY <1>0, Ranges DEF queueNumbers, numbers
<1>2. CASE UNCHANGED <<node, hubSessions>>
  BY <1>1, <1>2, ArrivesKept DEF Rows
<1>3. CASE r.kind = "recover" /\ RecoverWorker(r.body)
  <2>1. r.body.epoch = epoch
    BY <1>3, RefusalAssumption DEF RecoverWorker, RecoverRefusal, Refusals
  <2>2. r.body.newStream = streamId /\ node.stream = streamId
    BY <1>0, <1>3, <2>1, Ranges DEF Timely, Goal, Bound
  <2> QED
    BY <1>2, <1>3, <2>2 DEF RecoverWorker, databaseVars, contentVars
<1>4. CASE r.kind = "upload" /\ ReceiveUpload(r.body)
  <2>1. CASE Replayed(r.body)
    BY <1>2, <1>4, <2>1 DEF ReceiveUpload, databaseVars, contentVars
  <2>2. CASE ~Replayed(r.body)
    BY <1>0, <1>4, <2>2, ArrivesApplied
  <2> QED
    BY <2>1, <2>2
<1>5. CASE \E c : WorkerHello(r.body, c)
  BY <1>2, <1>5 DEF WorkerHello, contentVars
<1>6. CASE UNCHANGED hubVars
  BY <1>2, <1>6 DEF hubVars, databaseVars, contentVars
<1> QED
  BY <1>3, <1>4, <1>5, <1>6 DEF ServedAs

(* A target that collection sets lies behind all that is queued.           *)
LEMMA TargetBehind ==
    ASSUME WorkerInv, Collect
    PROVE  UNCHANGED rescan \/ rescan'.target = None \/ \A q \in Rows' : q <= rescan'.target
<1> SUFFICES ASSUME ~UNCHANGED rescan, rescan'.target # None, NEW q \in Rows'
             PROVE  q <= rescan'.target
  OBVIOUS
<1>1. PICK a \in Agents, target \in Nat \cup {None} :
         /\ rescan' = Progress(rescan.id, rescan.pending \ {a}, target, FALSE)
         /\ target \in {None, RescanTarget}
  BY CollectProgress
<1>2. rescan'.target = RescanTarget
  BY <1>1 DEF Progress
<1>3. UNCHANGED trimmed /\ lastSequence' \in Nat /\ trimmed \in Nat
  BY CollectKeeps DEF QueueKept, WorkerInv, ScanInv, IInv, QueueOK
<1>4. trimmed < lastSequence' /\ q <= lastSequence'
  BY <1>3 DEF Rows
<1> QED
  BY <1>2, <1>4 DEF RescanTarget

(* What is saved of a session the task has forgotten comes in full, before *)
(* the target.                                                             *)
LEMMA ArrivesSaved ==
    ASSUME DeliveryInv, Collect, Bound, UNCHANGED <<node, hubSessions>>, OwedKnown, rescan # None,
           ~rescan.failed, NEW s \in owed, sent[s] \notin Captures, sent'[s] \in Captures
    PROVE  Arrives(s)'
<1>0. /\ WorkerInv /\ NumbersInv /\ LastExact /\ QueueOK /\ TablesOK /\ TargetInStream
      /\ s \in Sessions
  BY DEF DeliveryInv, FollowInv, WorkerInv, ScanInv, IInv, OwedKnown
<1>1. /\ trimmed \in Nat /\ lastSequence \in Nat /\ node.confirmed \in Nat
      /\ node.confirmed <= lastSequence /\ UNCHANGED trimmed
  BY <1>0, Ranges, CollectSaves DEF LastExact
<1>2. PICK x \in Sessions, c \in Captures, n \in ChunkCounts : SaveSession(x, c, n)
  BY <1>0, CollectSaves
<1>3. sent' = [sent EXCEPT ![x] = c] /\ x = s
  BY <1>0, <1>2, SavedBrings DEF TablesOK
<1>4. PICK m \in Nat \ {0} : \E ops :
              /\ Enqueue(m, ops) /\ Brings(ops[m], s, c)
              /\ \A k \in 1 .. m : k < m => ops[k].kind = "chunk"
  BY <1>0, <1>2, <1>3, SavedBrings
<1>5. PICK ops : /\ Enqueue(m, ops) /\ Brings(ops[m], s, c)
                 /\ \A k \in 1 .. m : k < m => ops[k].kind = "chunk"
  BY <1>4
<1>6. ops[m].kind = "commit" /\ ops[m].base = None
  BY <1>5 DEF Brings
<1>7. /\ lastSequence' \in Nat /\ outbox'[lastSequence'] = ops[m]
      /\ lastSequence' \in CommitsOf(s)'
  BY <1>0, <1>1, <1>5, <1>6, AppendedOps
<1>8. lastSequence' > node'.confirmed
  BY <1>1, <1>5 DEF Enqueue
<1>9. lastSequence' \in ToApply(CommitsOf(s))'
  BY <1>7, <1>8 DEF ToApply
<1>10. rescan.target = None
  <2>1. AgentOf[s] \notin rescan.pending => FALSE
    BY <1>0 DEF OwedKnown, TablesOK
  <2> QED
    BY <1>0, <2>1 DEF TargetInStream
<1>11. lastSequence' \in Rows'
  BY <1>7 DEF CommitsOf, OpsOf
<1>12. rescan'.target # None => lastSequence' <= rescan'.target
  BY <1>0, <1>10, <1>11, TargetBehind
<1> QED
  BY <1>6, <1>7, <1>9, <1>12 DEF Arrives

(* What is owed and sent again comes in full, at every step.               *)
LEMMA OwedComesStays ==
    ASSUME DeliveryInv, DeliveryInv', Booked, OwedKnown, OwedKnown', OwedComes, [Next]_vars
    PROVE  OwedComes'
<1> SUFFICES ASSUME Bound', rescan' # None, ~rescan'.failed, NEW s \in owed', sent'[s] \in Captures
             PROVE  Comes(s)' /\ Arrives(s)'
  BY DEF OwedComes
<1>0. /\ WorkerInv /\ NumbersInv /\ HubOK /\ HubOK' /\ RequestsMatch /\ s \in Sessions
  BY DEF DeliveryInv, FollowInv, OwedKnown
<1>1. ~RecoverDone
  <2> SUFFICES ASSUME RecoverDone PROVE FALSE
    OBVIOUS
  <2>1. recovery # None /\ rescan' = rescan
    BY DEF RecoverDone, FinishRecovery
  <2> QED
    BY <2>1 DEF Booked, ReportsBound
<1>2. /\ UNCHANGED <<epoch, binding, recovery, streamId>> /\ Bound /\ ~RestoreBackup
      /\ ~HelloStartsRecovery
  BY <1>1, StaysBound DEF DeliveryInv, NumbersInv
<1>3. ~HelloStartsRescan
  BY WorkerAssumption DEF HelloStartsRescan
<1>4. /\ trimmed \in Nat /\ lastSequence \in Nat /\ node.confirmed \in Nat
      /\ confirmedSequence \in Nat
  BY <1>0, Ranges
<1>5. CASE Collect
  <2>1. UNCHANGED owed /\ UNCHANGED <<node, hubSessions>>
    BY <1>5 DEF Collect, NoFault, hubVars, databaseVars, contentVars
  <2>2. rescan # None /\ ~rescan.failed
    BY <1>0, <1>5, CollectProgress
  <2>3. sent[s] \in Captures => Comes(s) /\ Arrives(s)
    BY <1>2, <2>1, <2>2 DEF OwedComes
  <2>4. Comes(s)'
    BY <1>0, <1>1, <1>2, <1>3, <2>3, ComesStays
  <2>5. CASE sent[s] \in Captures
    <3>1. \A q \in Rows : q \in Rows' /\ outbox'[q] = outbox[q]
      BY <1>0, <1>5, CollectKeeps
    <3>2. rescan'.target \in {None, rescan.target} \/ \A q \in Rows' : q <= rescan'.target
      BY <1>0, <1>5, TargetBehind
    <3>3. Arrives(s)'
      BY <1>4, <2>1, <2>3, <2>5, <3>1, <3>2, ArrivesKept
    <3> QED
      BY <2>4, <3>3
  <2>6. CASE sent[s] \notin Captures
    BY <1>2, <1>5, <2>1, <2>2, <2>4, <2>6, ArrivesSaved
  <2> QED
    BY <2>5, <2>6
<1>6. CASE ~Collect
  <2>1. UNCHANGED <<rescan, sent, owed>>
    BY <1>2, <1>3, <1>6, SentSteps, ProgressSteps
  <2>2. Comes(s) /\ Arrives(s)
    BY <1>2, <2>1 DEF OwedComes
  <2>3. Comes(s)'
    BY <1>0, <1>1, <1>2, <1>3, <2>2, ComesStays
  <2>4. CASE HubServe
    <3>1. ServedAs(awaited) /\ Timely(awaited) /\ Matches(awaited)
      BY <1>0, <2>4, ServeIsServed DEF HubServe, NumbersInv, RequestsTimely, RequestsMatch
    <3>2. UNCHANGED <<queueNumbers, rescan>>
      BY <2>4 DEF HubServe, workerVars, queueVars, queueNumbers, numbers
    <3> QED
      BY <1>0, <1>2, <2>2, <2>3, <3>1, <3>2, ArrivesServed
  <2>5. CASE HubServeLate
    <3>1. PICK r \in late : ServedAs(r)
      BY <1>0, <2>5, LateIsServed DEF NumbersInv
    <3>2. Timely(r) /\ Matches(r)
      BY <1>0 DEF NumbersInv, RequestsTimely, RequestsMatch
    <3>3. UNCHANGED <<queueNumbers, rescan>>
      BY <2>5 DEF HubServeLate, workerVars, queueVars, queueNumbers, numbers
    <3> QED
      BY <1>0, <1>2, <2>2, <2>3, <3>1, <3>2, <3>3, ArrivesServed
  <2>6. CASE ~HubServe /\ ~HubServeLate
    <3>1. UNCHANGED <<node, hubSessions>>
      BY <1>0, <1>2, <2>6, RowSteps
    <3>2. \A q \in Rows : q > node.confirmed => q \in Rows' /\ outbox'[q] = outbox[q]
      <4>1. CASE UploadDone
        <5> DEFINE k == confirmedSequence + 1
        <5>1. /\ UNCHANGED lastSequence
              /\ IF outbox[k].kind = "chunk" THEN UNCHANGED <<trimmed, outbox>>
                 ELSE trimmed' = k /\ \A q \in Rows' : outbox'[q] = outbox[q]
          BY <1>0, <4>1, UploadDoneKeeps
        <5>2. node.confirmed = k
          BY <1>0, <1>2, <4>1 DEF UploadDone, NumbersInv, AnswerCurrent
        <5> QED
          BY <1>4, <5>1, <5>2 DEF Rows
      <4>2. CASE ~UploadDone
        <5>1. UNCHANGED <<trimmed, lastSequence, outbox>>
          BY <1>1, <1>2, <1>3, <1>6, <2>6, <4>2 DEF Next, SendRecover, SendHello, SendUpload,
             Send, HubBusy, HubLeased, ReadAnswer, RecoverRefused, HelloOk, HelloRefused,
             HelloBusy, UploadRefused, UploadBusy, SetPause, Lose, Crash, Change, Edit,
             ScanFails, Fault, FailPage, HubUser, HubOperator, vars, workerVars, queueVars
        <5> QED
          BY <5>1 DEF Rows
      <4> QED
        BY <4>1, <4>2
    <3>3. Arrives(s)'
      BY <1>4, <2>1, <2>2, <3>1, <3>2, ArrivesKept
    <3> QED
      BY <2>3, <3>3
  <2> QED
    BY <2>4, <2>5, <2>6
<1> QED
  BY <1>5, <1>6

(* A task is completed by a report that says so, and by nothing else.      *)
Completing(h) ==
    /\ ~h.rescan.failed /\ h.rescan.target # None /\ ~(h.rescan.target > node.confirmed)
    /\ orphans = {}

(* worker_hello completes a task that it is told is delivered.             *)
LEMMA HelloCompletes ==
    ASSUME rescans \in Seq(RescanTasks), NEW h, NEW c, WorkerHello(h, c),
           NEW i \in 1 .. Len(rescans), CompletedNow(i)
    PROVE  /\ h.epoch = epoch /\ h.rescan # None /\ h.rescan.id = rescans[i].id
           /\ Completing(h)
<1> DEFINE mid == Reported(h, c)
           task == HandedOut(h, c)
           first == {j \in DOMAIN mid : /\ task # None /\ mid[j].id = task.id
                                        /\ mid[j].status = "waiting"}
           chosen == {j \in ActiveIn(rescans) : rescans[j].id = h.rescan.id}
           status == ProgressStatus(h.rescan, c)
<1>1. rescans' = WithStatus(mid, first, "dispatched")
  BY DEF WorkerHello
<1>2. /\ mid \in Seq(RescanTasks) /\ Len(mid) = Len(rescans)
      /\ mid[i] # rescans[i] => /\ h.epoch = epoch /\ h.rescan # None /\ i \in chosen
                                /\ mid[i].status = status
  <2>1. CASE h.epoch = epoch /\ h.rescan # None
    <3>1. mid = WithStatus(rescans, chosen, status) /\ status \in ActiveStatus \cup EndStatus
      BY <2>1, ProgressStatusType DEF Reported
    <3> HIDE DEF mid, chosen, status
    <3> QED
      BY <2>1, <3>1, WithStatusType
  <2>2. CASE ~(h.epoch = epoch /\ h.rescan # None)
    BY <2>2 DEF Reported
  <2> QED
    BY <2>1, <2>2
<1>3. "dispatched" \in ActiveStatus /\ "completed" \notin ActiveStatus
  BY DEF ActiveStatus
<1>4. rescans'[i] = mid[i]
  <2> HIDE DEF mid, first
  <2>1. /\ i \in first => rescans'[i].status = "dispatched"
        /\ i \notin first => rescans'[i] = mid[i]
    BY <1>1, <1>2, <1>3, WithStatusType
  <2> QED
    BY <2>1 DEF CompletedNow
<1>5. mid[i] # rescans[i] /\ mid[i].status = "completed"
  BY <1>3, <1>4 DEF CompletedNow, Active
<1>6. ProgressStatus(h.rescan, c) = "completed"
  BY <1>2, <1>5
<1>7. Completing(h)
  BY <1>6 DEF ProgressStatus, Completing
<1> QED
  BY <1>2, <1>5, <1>7

(* A task that is asked for completes no other.                            *)
LEMMA QueueCompletesNone ==
    ASSUME rescans \in Seq(RescanTasks), epoch \in Nat, NEW agents \in SUBSET Agents,
           NEW reason \in {"manual", "mismatch"}, rescans' = QueueRescan(rescans, agents, reason),
           NEW i \in 1 .. Len(rescans)
    PROVE  ~CompletedNow(i)
<1> DEFINE task == Task(FreshTask(rescans), agents, reason)
<1>1. task \in RescanTasks /\ rescans' \in {rescans, Append(rescans, task)}
  BY QueueRescanType
<1> HIDE DEF task
<1>2. rescans'[i] = rescans[i]
  BY <1>1, AppendTask
<1> QED
  BY <1>2 DEF CompletedNow, Active, ActiveStatus

(* Nor do a cancellation and a recovery.                                   *)
LEMMA StatusCompletesNone ==
    ASSUME rescans \in Seq(RescanTasks), NEW chosen,
           NEW status \in {"superseded", "cancelled"}, NEW i \in 1 .. Len(rescans),
           rescans'[i] = WithStatus(rescans, chosen, status)[i]
    PROVE  ~CompletedNow(i)
<1>1. status \in ActiveStatus \cup EndStatus /\ status # "completed"
  BY DEF EndStatus
<1>2. /\ i \in chosen => rescans'[i].status = status
      /\ i \notin chosen => rescans'[i] = rescans[i]
  BY <1>1, WithStatusType
<1> QED
  BY <1>1, <1>2 DEF CompletedNow, Active, ActiveStatus

(* Of the requests, a report only.                                         *)
LEMMA ServedCompletes ==
    ASSUME HubOK, NEW r, Timely(r), Matches(r), ServedAs(r),
           NEW i \in 1 .. Len(rescans), CompletedNow(i)
    PROVE  Reports(r) /\ r.body.rescan.id = rescans[i].id /\ Completing(r.body)
<1>1. rescans \in Seq(RescanTasks) /\ epoch \in Nat
  BY DEF HubOK, TablesHold, TasksOK
<1>2. ~UNCHANGED rescans
  BY DEF CompletedNow, Active, ActiveStatus
<1>3. CASE r.kind = "recover" /\ RecoverWorker(r.body)
  <2> DEFINE mid == WithStatus(rescans, ActiveIn(rescans), "superseded")
             task == Task(RecoveryTask(r.body.newStream), {}, "hub-recovery")
  <2>1. rescans' = Append(mid, task)
    BY <1>2, <1>3 DEF RecoverWorker, databaseVars, EndActive
  <2>2. mid \in Seq(RescanTasks) /\ Len(mid) = Len(rescans)
    <3>1. "superseded" \in ActiveStatus \cup EndStatus
      BY DEF EndStatus
    <3> QED
      BY <1>1, <3>1, WithStatusType
  <2>3. task \in RescanTasks
    BY <1>3 DEF Task, RecoveryTask, RescanTasks, ActiveStatus, Timely, Recoveries
  <2>4. rescans'[i] = mid[i]
    <3> HIDE DEF mid, task
    <3> QED
      BY <2>1, <2>2, <2>3, AppendTask
  <2> QED
    BY <1>1, <2>4, StatusCompletesNone
<1>4. CASE r.kind = "upload" /\ ReceiveUpload(r.body)
  <2>1. OrphanCommit(r.body.stream, r.body.op) /\ r.body.op \in Operations
    BY <1>2, <1>4 DEF ReceiveUpload, databaseVars, ApplyChunk, ApplyCommit, ApplyMetadata,
       OrphanMetadata, Matches, SoundOperations
  <2>2. /\ {AgentOf[r.body.op.session]} \in SUBSET Agents
        /\ rescans' = QueueRescan(rescans, {AgentOf[r.body.op.session]}, "mismatch")
    BY <2>1, AgentAssumption DEF OrphanCommit, Operations
  <2> QED
    BY <1>1, <2>2, QueueCompletesNone
<1>5. CASE r.kind = "hello" /\ \E c : WorkerHello(r.body, c)
  BY <1>1, <1>5, HelloCompletes DEF Reports
<1>6. CASE UNCHANGED hubVars
  BY <1>2, <1>6 DEF hubVars, databaseVars
<1> QED
  BY <1>3, <1>4, <1>5, <1>6 DEF ServedAs

(* Whatever step completes a task serves a report.                         *)
LEMMA StepCompletes ==
    ASSUME HubOK, NumbersInv, RequestsMatch, [Next]_vars, UNCHANGED epoch,
           NEW i \in 1 .. Len(rescans), CompletedNow(i)
    PROVE  /\ \E r \in Pended :
                Reports(r) /\ r.body.rescan.id = rescans[i].id /\ Completing(r.body)
           /\ HubServe \/ HubServeLate
<1>1. rescans \in Seq(RescanTasks) /\ epoch \in Nat
  BY DEF HubOK, TablesHold, TasksOK
<1>2. ~UNCHANGED rescans
  BY DEF CompletedNow, Active, ActiveStatus
<1>3. CASE HubServe
  <2>1. /\ awaited \in Pended /\ Timely(awaited) /\ Matches(awaited) /\ ServedAs(awaited)
    BY <1>3, ServeIsServed DEF HubServe, NumbersInv, RequestsTimely, RequestsMatch, Pended
  <2> QED
    BY <1>3, <2>1, ServedCompletes
<1>4. CASE HubServeLate
  <2>1. PICK r \in late : ServedAs(r)
    BY <1>4, LateIsServed DEF NumbersInv
  <2>2. r \in Pended /\ Timely(r) /\ Matches(r)
    BY DEF NumbersInv, RequestsTimely, RequestsMatch, Pended
  <2> QED
    BY <1>4, <2>1, <2>2, ServedCompletes
<1>5. CASE HubUser
  <2>1. CASE \E agents \in {{}} \cup {{a} : a \in Agents} : RequestRescan(agents)
    <3>1. PICK agents \in SUBSET Agents : RequestRescan(agents)
      BY <2>1
    <3> QED
      BY <1>1, <3>1, QueueCompletesNone DEF RequestRescan
  <2>2. CASE \E j \in DOMAIN rescans : CancelRescan(rescans[j].id)
    <3>1. PICK chosen : rescans' = WithStatus(rescans, chosen, "cancelled")
      BY <2>2 DEF CancelRescan
    <3> QED
      BY <1>1, <3>1, StatusCompletesNone
  <2> QED
    BY <1>5, <2>1, <2>2 DEF HubUser
<1>6. CASE HubOperator
  BY <1>1, <1>2, <1>6 DEF HubOperator, TakeBackup, RestoreBackup, databaseVars
<1>7. CASE ~HubServe /\ ~HubServeLate /\ ~HubUser /\ ~HubOperator
  <2>1. UNCHANGED hubVars
    BY <1>7 DEF Next, SendRecover, SendHello, SendUpload, Send, HubBusy, HubLeased, ReadAnswer,
       RecoverDone, RecoverRefused, HelloStartsRecovery, HelloStartsRescan, HelloOk,
       HelloRefused, HelloBusy, UploadDone, UploadRefused, UploadBusy, Lose, Crash, Fault,
       Change, Collect, ScanFails, vars
  <2> QED
    BY <1>2, <2>1 DEF hubVars, databaseVars
<1> QED
  BY <1>3, <1>4, <1>5, <1>6, <1>7

(* All that a completed task owes is there when it is completed.           *)
Fulfils == Booked /\ InTurn /\ ReportsAgree /\ OwedKnown /\ OwedComes

(* What the step that completes a task finds.                              *)
LEMMA CompletedDelivers ==
    ASSUME DeliveryInv, Fulfils, [Next]_vars, UNCHANGED epoch,
           NEW i \in 1 .. Len(rescans), CompletedNow(i), SameTask(rescans[i].id), NEW s \in owed
    PROVE  /\ sent[s] # Cleared /\ hubSessions[s] # None /\ s \notin orphans
           /\ ~Pending(s) => sent[s] = hubSessions[s]
<1>0. /\ HubOK /\ NumbersInv /\ RequestsMatch /\ s \in Sessions /\ node.confirmed \in Nat
      /\ TargetInStream /\ TablesOK
  BY Ranges
  DEF DeliveryInv, FollowInv, Fulfils, OwedKnown, WorkerInv, ScanInv, IInv
<1>1. PICK r \in Pended : /\ Reports(r) /\ r.body.rescan.id = rescans[i].id
                          /\ Completing(r.body)
  BY <1>0, StepCompletes
<1>2. Bound
  BY <1>1 DEF Fulfils, Booked, ReportsBound, Reports
<1>3. /\ rescan # None /\ r.body.rescan.failed = rescan.failed
      /\ r.body.rescan.target \in {None, rescan.target}
  BY <1>1, <1>2 DEF Fulfils, ReportsAgree, SameTask
<1>4. /\ ~rescan.failed /\ rescan.target # None /\ ~(rescan.target > node.confirmed)
      /\ orphans = {}
  BY <1>1, <1>3 DEF Completing
<1>5. rescan.pending = {} /\ rescan.target \in Nat
  BY <1>0, <1>3, <1>4 DEF TargetInStream, TablesOK, ProgressOK
<1>6. sent[s] # None /\ sent[s] # Cleared /\ sent[s] \in Captures
  BY <1>0, <1>3, <1>4, <1>5 DEF Fulfils, OwedKnown, TablesOK
<1>7. Comes(s) /\ Arrives(s)
  BY <1>2, <1>3, <1>4, <1>6 DEF Fulfils, OwedComes
<1>8. hubSessions[s] # None
  <2>1. \A q \in ToApply(CommitsOf(s)) : q \in Nat /\ q > node.confirmed
    BY <1>0 DEF ToApply, CommitsOf, OpsOf, Rows, DeliveryInv, WorkerInv, ScanInv, IInv, QueueOK
  <2>2. \A q \in ToApply(CommitsOf(s)) : ~(q <= rescan.target)
    BY <1>0, <1>4, <1>5, <2>1
  <2> QED
    BY <1>4, <1>7, <2>2 DEF Arrives
<1>9. ~Pending(s) => sent[s] = hubSessions[s]
  BY <1>0, <1>2, <1>6, <1>7, ComesWhole
<1> QED
  BY <1>4, <1>6, <1>8, <1>9

(* There is no task at first.                                              *)
LEMMA FulfilsBegins == Init => Fulfils
<1> SUFFICES ASSUME Init PROVE Fulfils
  OBVIOUS
<1>1. /\ rescan = None /\ late = {} /\ awaited = None /\ answer = None /\ owed = {}
      /\ rescans = <<>>
  BY DEF Init, WorkerInit, HubInit
<1>2. Pended = {} /\ ~HandsOut
  BY <1>1 DEF Pended, Idle, HandsOut, Got
<1>3. Booked
  BY HealingBegins DEF Healing
<1>4. Turn(0) /\ 0 \in 0 .. Len(rescans)
  BY <1>1, <1>2 DEF Turn, Reached
<1> QED
  BY <1>1, <1>2, <1>3, <1>4 DEF Fulfils, InTurn, ReportsAgree, OwedKnown, OwedComes

(* Fulfils is inductive, given what DeliveryInv says of both sides.        *)
LEMMA FulfilsStays ==
    ASSUME DeliveryInv, DeliveryInv', Fulfils, [Next]_vars
    PROVE  Fulfils'
<1>1. OwedKnown' /\ Booked'
  BY OwedKnownStays, BookedStays DEF Fulfils, DeliveryInv
<1> QED
  BY <1>1, InTurnStays, ReportsAgreeStays, OwedComesStays DEF Fulfils

(* A task that is reported complete is: the Hub holds, from the Worker,    *)
(* every session that was to be resent when the task was begun, and whose  *)
(* next version is not on its way is the one last sent (worker_store.rs    *)
(* begin_rescan and save_batch, control.rs worker_hello); and what has     *)
(* ended stays ended.                                                      *)
THEOREM CompletedTasksAreDelivered == Spec => TasksHonest
<1>1. Init => Fulfils
  BY FulfilsBegins
<1>2. DeliveryInv /\ DeliveryInv' /\ Fulfils /\ [Next]_vars => Fulfils'
  BY FulfilsStays
<1>3. DeliveryInv /\ Fulfils /\ [Next]_vars =>
        [epoch' = epoch =>
           \A i \in DOMAIN rescans : CompletedNow(i) /\ SameTask(rescans[i].id) =>
             \A s \in owed :
               /\ sent[s] # Cleared /\ hubSessions[s] # None /\ s \notin orphans
               /\ ~Pending(s) => sent[s] = hubSessions[s]]_vars
  <2>1. DeliveryInv => DOMAIN rescans = 1 .. Len(rescans)
    BY LenProperties DEF DeliveryInv, HubOK, TablesHold, TasksOK
  <2> QED
    BY <2>1, CompletedDelivers
<1>4. Spec => CompletedIsDelivered
  BY <1>1, <1>2, <1>3, DeliveryHolds, PTL DEF Spec, CompletedIsDelivered
<1> QED
  BY <1>4, EndedTasksStayEnded, PTL DEF TasksHonest
=============================================================================
