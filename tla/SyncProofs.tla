----------------------------- MODULE SyncProofs -----------------------------
(***************************************************************************)
(* Safety of synchronization, for any number of sessions, edits, faults,   *)
(* restores and requests delivered late, and queues of any length.         *)
(***************************************************************************)
EXTENDS Sync, ScanningProofs, QueueProofs

(* The epoch the Worker is bound to or on its way to.                      *)
Goal == IF recovery = None THEN binding ELSE recovery.epoch

Recoveries == [epoch : Nat, previousStream : Nat, newStream : Nat]

(* The Worker's numbers: a recovery leads to a newer epoch and has begun a *)
(* stream of its own, of which nothing was uploaded yet.                   *)
WorkerNumbers ==
    /\ streamId \in Nat /\ confirmedSequence \in Nat /\ binding \in Nat
    /\ recovery \in Recoveries \cup {None}
    /\ recovery # None => /\ recovery.epoch > binding
                          /\ recovery.newStream = streamId
                          /\ confirmedSequence = 0

(* A row of hub_nodes, served or in a backup, knows no stream the Worker   *)
(* has not begun, and nothing of one it is still recovering into.          *)
RowBehind(row) ==
    /\ row.stream \in Nat /\ row.confirmed \in Nat
    /\ row.stream <= streamId
    /\ recovery # None /\ row.stream = streamId => row.confirmed = 0

HubNumbers ==
    /\ epoch \in Nat /\ Goal <= epoch
    /\ RowBehind(node) /\ RowBehind(backup.node)

(* A request that may still be served, however late: a recovery is into    *)
(* the Worker's stream or for an epoch that is over, and an upload is at   *)
(* most the next one.                                                      *)
Timely(r) ==
    /\ r.kind \in {"recover", "hello", "upload"}
    /\ r.kind = "recover" => /\ r.body \in Recoveries
                             /\ r.body.epoch <= Goal
                             /\ r.body.epoch = Goal => r.body.newStream = streamId
    /\ r.kind = "upload" => /\ r.body.epoch \in Nat /\ r.body.stream \in Nat
                            /\ r.body.sequence \in Nat
                            /\ r.body.epoch <= binding /\ r.body.stream <= streamId
                            /\ r.body.stream = streamId =>
                                 r.body.sequence <= confirmedSequence + 1
RequestsTimely ==
    /\ \A r \in late : Timely(r)
    /\ ~Idle => Timely(awaited)

(* What the loop waits for is about its present state.                     *)
AwaitedCurrent ==
    /\ Idle => answer = None
    /\ ~Idle /\ awaited.kind = "recover" => recovery # None /\ awaited.body = recovery
    /\ ~Idle /\ awaited.kind = "upload" =>
         /\ recovery = None
         /\ awaited.body.epoch = binding /\ awaited.body.stream = streamId
         /\ awaited.body.sequence = confirmedSequence + 1

(* What an answer says still holds when it is read, unless the Hub's data  *)
(* were replaced meanwhile.                                                *)
AnswerCurrent ==
    /\ Got("recover") /\ answer.ok /\ recovery.epoch = epoch =>
         node.stream = streamId /\ node.confirmed = 0
    /\ Got("upload") /\ answer.ok =>
         /\ answer.body = awaited.body
         /\ Bound => node.confirmed = confirmedSequence + 1
    /\ Got("hello") /\ answer.ok =>
         /\ answer.body.epoch \in Nat /\ answer.body.confirmed \in Nat
         /\ Goal <= answer.body.epoch /\ answer.body.epoch <= epoch
         /\ recovery = None /\ answer.body.epoch = binding =>
              answer.body.confirmed >= confirmedSequence

NumbersInv ==
    /\ WorkerNumbers /\ HubNumbers /\ RequestsTimely /\ AwaitedCurrent /\ AnswerCurrent
    /\ Watermarks

----------------------------------------------------------------------------
(* The steps.                                                              *)

numbers == <<streamId, confirmedSequence, binding, recovery>>
rows == <<epoch, node, backup>>

(* A step that leaves all numbers alone keeps what depends on them.        *)
LEMMA NumbersStay ==
    ASSUME NumbersInv, UNCHANGED <<numbers, rows>>,
           RequestsTimely', AwaitedCurrent', AnswerCurrent'
    PROVE  NumbersInv'
BY DEF NumbersInv, numbers, rows, WorkerNumbers, HubNumbers, RowBehind, Goal, Watermarks, Bound

(* The Worker reads an answer and changes none of its numbers.             *)
LEMMA ReadStays ==
    ASSUME NumbersInv, UNCHANGED <<numbers, rows, late>>, awaited' = None, answer' = None
    PROVE  NumbersInv'
<1>1. RequestsTimely'
  BY DEF NumbersInv, numbers, RequestsTimely, Timely, Goal, Idle
<1>2. AwaitedCurrent' /\ AnswerCurrent'
  BY DEF AwaitedCurrent, AnswerCurrent, Got, Idle
<1> QED
  BY <1>1, <1>2, NumbersStay

(* The Worker sends a request that is about its present state.             *)
LEMMA SendStays ==
    ASSUME NumbersInv, SendRecover \/ SendHello \/ SendUpload
    PROVE  NumbersInv'
<1>1. Idle /\ UNCHANGED <<answer, late, workerVars, hubVars>>
  BY DEF SendRecover, SendHello, SendUpload, Send
<1>2. /\ UNCHANGED <<numbers, rows, answer, late>> /\ answer' = None
  BY <1>1 DEF numbers, rows, workerVars, queueVars, hubVars, databaseVars, NumbersInv,
      AwaitedCurrent
<1>3. CASE SendRecover
  <2>1. recovery # None /\ awaited' = Request("recover", recovery)
    BY <1>3 DEF SendRecover, Send
  <2>2. recovery \in Recoveries
    BY <2>1 DEF NumbersInv, WorkerNumbers
  <2>3. awaited'.kind = "recover" /\ awaited'.body = recovery
    BY <2>1 DEF Request
  <2>4. /\ recovery'.epoch = Goal' /\ recovery.epoch \in Nat
        /\ recovery'.newStream = streamId' /\ recovery' = recovery
    BY <1>2, <2>1, <2>2 DEF Goal, numbers, NumbersInv, WorkerNumbers, Recoveries
  <2>5. RequestsTimely'
    BY <1>2, <2>2, <2>3, <2>4
    DEF NumbersInv, numbers, RequestsTimely, Timely, Goal, Idle
  <2>6. AwaitedCurrent' /\ AnswerCurrent'
    BY <1>2, <2>1, <2>3, <2>4 DEF Idle, AwaitedCurrent, AnswerCurrent, Got
  <2> QED
    BY <1>2, <2>5, <2>6, NumbersStay
<1>4. CASE SendHello
  <2>1. awaited'.kind = "hello"
    BY <1>4 DEF SendHello, Send, Request
  <2> QED
    BY <1>2, <2>1, NumbersStay
    DEF NumbersInv, numbers, RequestsTimely, Timely, Goal, Idle, AwaitedCurrent, AnswerCurrent,
        Got
<1>5. CASE SendUpload
  <2>1. /\ recovery = None /\ NextUpload = confirmedSequence + 1
        /\ awaited' = Request("upload", Upload(binding, streamId, NextUpload,
                                              outbox[NextUpload]))
    BY <1>5 DEF SendUpload, Send, NextUpload
  <2>2. /\ awaited'.kind = "upload" /\ awaited'.body.epoch = binding
        /\ awaited'.body.stream = streamId /\ awaited'.body.sequence = confirmedSequence + 1
    BY <2>1 DEF Request, Upload
  <2> QED
    BY <1>2, <2>1, <2>2, NumbersStay
    DEF NumbersInv, numbers, RequestsTimely, Timely, Goal, Idle, AwaitedCurrent, AnswerCurrent,
        Got, WorkerNumbers
<1> QED
  BY <1>3, <1>4, <1>5

(* recover_worker, at once or late: a no-op in a stream already in use.    *)
LEMMA RecoverStays ==
    ASSUME NumbersInv, NEW r \in Recoveries, r.epoch <= Goal,
           r.epoch = Goal => r.newStream = streamId,
           RecoverWorker(r), UNCHANGED numbers
    PROVE  /\ HubNumbers' /\ Watermarks' /\ UNCHANGED <<epoch, backup>>
           /\ r.epoch = epoch /\ node'.stream = streamId
           /\ node.stream = streamId => node' = node
           /\ recovery # None => node'.confirmed = 0
<1>1. /\ r.epoch = epoch /\ UNCHANGED <<epoch, backup>>
  BY RefusalAssumption DEF RecoverWorker, RecoverRefusal, Refusals
<1>2. r.epoch = Goal /\ r.newStream = streamId
  BY <1>1 DEF NumbersInv, HubNumbers, WorkerNumbers, Goal, Recoveries
<1>3. CASE node.stream = streamId
  <2>1. node' = node
    BY <1>2, <1>3 DEF RecoverWorker, databaseVars
  <2> QED
    BY <1>1, <1>2, <1>3, <2>1
    DEF NumbersInv, numbers, HubNumbers, RowBehind, Goal, Watermarks, Bound
<1>4. CASE node.stream # streamId
  <2>1. node' = NodeRow(streamId, 0, None, epoch)
    BY <1>2, <1>4 DEF RecoverWorker
  <2>2. node'.stream = streamId /\ node'.confirmed = 0
    BY <2>1 DEF NodeRow
  <2>3. ~Bound
    BY <1>4 DEF NumbersInv, Watermarks
  <2>4. Watermarks'
    BY <1>1, <2>3 DEF numbers, Watermarks, Bound
  <2>5. HubNumbers'
    BY <1>1, <2>2 DEF NumbersInv, numbers, HubNumbers, WorkerNumbers, RowBehind, Goal
  <2> QED
    BY <1>1, <1>4, <2>2, <2>4, <2>5
<1> QED
  BY <1>3, <1>4

(* receive_upload, at once or late: only the next operation is applied.    *)
LEMMA UploadStays ==
    ASSUME NumbersInv, NEW u, u.epoch \in Nat, u.stream \in Nat, u.sequence \in Nat,
           u.epoch <= binding, u.stream = streamId => u.sequence <= confirmedSequence + 1,
           ReceiveUpload(u), UNCHANGED numbers
    PROVE  /\ HubNumbers' /\ Watermarks' /\ UNCHANGED <<epoch, backup>>
           /\ Bound /\ node'.stream = node.stream /\ node'.confirmed = u.sequence
           /\ node.confirmed <= u.sequence
<1>1. /\ u.epoch = epoch /\ u.stream = node.stream /\ UNCHANGED <<epoch, backup>>
      /\ u.sequence = node.confirmed \/ u.sequence = node.confirmed + 1
  BY RefusalAssumption DEF ReceiveUpload, UploadRefusal, Replayed, Refusals
<1>2. Bound
  BY <1>1 DEF NumbersInv, HubNumbers, WorkerNumbers, Goal, Bound, Recoveries
<1>3. node.stream = streamId /\ node.confirmed \in {confirmedSequence, confirmedSequence + 1}
  BY <1>2 DEF NumbersInv, Watermarks
<1>4. /\ node'.stream = node.stream /\ node'.confirmed = u.sequence
      /\ node.confirmed <= u.sequence
  <2>1. CASE u.sequence = node.confirmed
    BY <2>1, <1>1 DEF ReceiveUpload, Replayed, databaseVars, NumbersInv, HubNumbers, RowBehind
  <2>2. CASE u.sequence # node.confirmed
    <3>1. node' = NodeRow(node.stream, u.sequence, u.op, node.recoveryEpoch)
      BY <2>2 DEF ReceiveUpload, Replayed
    <3> QED
      BY <1>1, <2>2, <3>1 DEF NodeRow, NumbersInv, HubNumbers, RowBehind
  <2> QED
    BY <2>1, <2>2
<1>5. u.sequence \in {confirmedSequence, confirmedSequence + 1}
  BY <1>1, <1>3 DEF NumbersInv, WorkerNumbers
<1>6. HubNumbers' /\ Watermarks'
  BY <1>1, <1>2, <1>3, <1>4, <1>5
  DEF NumbersInv, numbers, HubNumbers, WorkerNumbers, RowBehind, Goal, Watermarks, Bound
<1> QED
  BY <1>1, <1>2, <1>4, <1>6

(* What the Hub does for a request, with or without a reader: a request of *)
(* another kind than these two leaves the numbers alone.                   *)
LEMMA ServedStays ==
    ASSUME NumbersInv, NEW r, Timely(r), UNCHANGED numbers,
           \/ r.kind = "recover" /\ RecoverWorker(r.body)
           \/ r.kind = "upload" /\ ReceiveUpload(r.body)
           \/ UNCHANGED <<epoch, node, backup>>
    PROVE  /\ HubNumbers' /\ Watermarks' /\ UNCHANGED <<epoch, backup>>
           /\ node.stream = streamId /\ recovery # None => node'.stream = streamId /\ node' = node
           /\ node'.confirmed >= node.confirmed \/ node.stream # streamId
<1>1. CASE r.kind = "recover" /\ RecoverWorker(r.body)
  <2>1. /\ r.body \in Recoveries /\ r.body.epoch <= Goal
        /\ r.body.epoch = Goal => r.body.newStream = streamId
    BY <1>1 DEF Timely
  <2>2. /\ HubNumbers' /\ Watermarks' /\ UNCHANGED <<epoch, backup>>
        /\ node.stream = streamId => node' = node
    BY <1>1, <2>1, RecoverStays
  <2> QED
    BY <2>2 DEF HubNumbers, RowBehind
<1>2. CASE r.kind = "upload" /\ ReceiveUpload(r.body)
  <2>1. /\ r.body.epoch \in Nat /\ r.body.stream \in Nat /\ r.body.sequence \in Nat
        /\ r.body.epoch <= binding
        /\ r.body.stream = streamId => r.body.sequence <= confirmedSequence + 1
    BY <1>2 DEF Timely
  <2>2. /\ HubNumbers' /\ Watermarks' /\ UNCHANGED <<epoch, backup>> /\ Bound
        /\ node'.confirmed = r.body.sequence /\ node.confirmed <= r.body.sequence
    BY <1>2, <2>1, UploadStays
  <2> QED
    BY <2>1, <2>2 DEF Bound, NumbersInv, HubNumbers, RowBehind
<1>3. CASE UNCHANGED <<epoch, node, backup>>
  BY <1>3 DEF NumbersInv, numbers, HubNumbers, RowBehind, Goal, Watermarks, Bound
<1> QED
  BY <1>1, <1>2, <1>3

(* The Hub serves a request nobody waits for.                              *)
LEMMA ServeLateStays ==
    ASSUME NumbersInv, HubServeLate
    PROVE  NumbersInv'
<1>1. PICK r \in late : Discarded(r) /\ late' = late \ {r}
  BY DEF HubServeLate
<1>2. UNCHANGED <<numbers, awaited, answer>>
  BY DEF HubServeLate, numbers, workerVars, queueVars
<1>3. Timely(r)
  BY <1>1 DEF NumbersInv, RequestsTimely
<1>4. \/ r.kind = "recover" /\ RecoverWorker(r.body)
      \/ r.kind = "upload" /\ ReceiveUpload(r.body)
      \/ UNCHANGED <<epoch, node, backup>>
  BY <1>1, <1>3 DEF Discarded, WorkerHello, Timely
<1>5. /\ HubNumbers' /\ Watermarks' /\ UNCHANGED <<epoch, backup>>
      /\ node.stream = streamId /\ recovery # None => node' = node
  BY <1>2, <1>3, <1>4, ServedStays
<1>6. RequestsTimely'
  BY <1>1, <1>2 DEF NumbersInv, numbers, RequestsTimely, Timely, Goal, Idle
<1>7. WorkerNumbers' /\ AwaitedCurrent'
  BY <1>2 DEF NumbersInv, numbers, WorkerNumbers, AwaitedCurrent, Idle
<1>8. AnswerCurrent'
  <2>1. ASSUME Got("recover"), answer.ok, recovery.epoch = epoch
        PROVE  node'.stream = streamId /\ node'.confirmed = 0
    BY <1>5, <2>1 DEF NumbersInv, AnswerCurrent, AwaitedCurrent, Got
  <2>2. ASSUME Got("upload"), answer.ok, Bound
        PROVE  node'.confirmed = confirmedSequence + 1
    <3>1. node.confirmed = confirmedSequence + 1 /\ node.stream = streamId
      BY <2>2 DEF NumbersInv, AnswerCurrent, Watermarks
    <3>2. Bound'
      BY <1>2, <1>5, <2>2 DEF Bound, numbers
    <3>3. node'.confirmed \in {confirmedSequence, confirmedSequence + 1}
      BY <1>2, <1>5, <3>2 DEF Watermarks, numbers
    <3>4. node'.confirmed >= node.confirmed
      BY <1>2, <1>3, <1>4, <3>1, ServedStays
    <3> QED
      BY <3>1, <3>3, <3>4 DEF NumbersInv, WorkerNumbers
  <2> QED
    BY <1>2, <1>5, <2>1, <2>2 DEF NumbersInv, numbers, AnswerCurrent, Got, Idle, Bound, Goal
<1> QED
  BY <1>5, <1>6, <1>7, <1>8 DEF NumbersInv

(* The Hub serves the request the loop waits for.                          *)
LEMMA ServeStays ==
    ASSUME NumbersInv, HubServe
    PROVE  NumbersInv'
<1>1. PICK reply \in Replies : Serve(awaited, reply) /\ answer' = reply
  BY DEF HubServe
<1>2. ~Idle /\ UNCHANGED <<numbers, awaited, late>>
  BY DEF HubServe, numbers, workerVars, queueVars
<1>3. Timely(awaited)
  BY <1>2 DEF NumbersInv, RequestsTimely
<1>4. \/ awaited.kind = "recover" /\ RecoverWorker(awaited.body)
      \/ awaited.kind = "upload" /\ ReceiveUpload(awaited.body)
      \/ UNCHANGED <<epoch, node, backup>>
  BY <1>1 DEF Serve, WorkerHello, hubVars, databaseVars
<1>5. /\ HubNumbers' /\ Watermarks' /\ UNCHANGED <<epoch, backup>>
  BY <1>2, <1>3, <1>4, ServedStays
<1>6. RequestsTimely' /\ WorkerNumbers' /\ AwaitedCurrent'
  BY <1>2 DEF NumbersInv, numbers, RequestsTimely, Timely, Goal, Idle, WorkerNumbers,
      AwaitedCurrent
<1>7. \A code : Refused(code).ok = FALSE
  BY DEF Refused
<1>8. AnswerCurrent'
  <2>1. ASSUME awaited.kind = "recover", reply.ok, recovery.epoch = epoch
        PROVE  node'.stream = streamId /\ node'.confirmed = 0
    <3>1. RecoverWorker(awaited.body)
      BY <1>1, <1>7, <2>1 DEF Serve
    <3>2. /\ recovery # None /\ awaited.body \in Recoveries /\ awaited.body.epoch <= Goal
          /\ awaited.body.epoch = Goal => awaited.body.newStream = streamId
      BY <1>2, <1>3, <2>1 DEF Timely, NumbersInv, AwaitedCurrent
    <3> QED
      BY <1>2, <3>1, <3>2, RecoverStays
  <2>2. ASSUME awaited.kind = "upload", reply.ok
        PROVE  /\ reply.body = awaited.body
               /\ Bound => node'.confirmed = confirmedSequence + 1
    <3>1. ReceiveUpload(awaited.body) /\ reply = Accepted(awaited.body)
      BY <1>1, <1>7, <2>2 DEF Serve
    <3>2. /\ awaited.body.epoch \in Nat /\ awaited.body.stream \in Nat
          /\ awaited.body.sequence \in Nat /\ awaited.body.epoch <= binding
          /\ awaited.body.stream = streamId => awaited.body.sequence <= confirmedSequence + 1
          /\ awaited.body.sequence = confirmedSequence + 1
      BY <1>2, <1>3, <2>2 DEF Timely, NumbersInv, AwaitedCurrent
    <3>3. node'.confirmed = awaited.body.sequence
      BY <1>2, <3>1, <3>2, UploadStays
    <3> QED
      BY <3>1, <3>2, <3>3 DEF Accepted
  <2>3. ASSUME awaited.kind = "hello", reply.ok
        PROVE  /\ reply.body.epoch = epoch /\ reply.body.confirmed = node.confirmed
               /\ node' = node
    <3>1. PICK c : reply = Accepted(HelloReply(awaited.body, c))
      BY <1>1, <1>7, <2>3 DEF Serve
    <3>2. node' = node
      BY <1>1, <1>7, <2>3 DEF Serve, WorkerHello
    <3> QED
      BY <3>1, <3>2 DEF Accepted, HelloReply
  <2>4. recovery = None /\ epoch = binding => node.confirmed >= confirmedSequence
    BY DEF NumbersInv, Watermarks, Bound, WorkerNumbers
  <2> QED
    BY <1>1, <1>2, <1>5, <2>1, <2>2, <2>3, <2>4
    DEF NumbersInv, numbers, AnswerCurrent, Got, Idle, Bound, Goal, HubNumbers, RowBehind
<1> QED
  BY <1>5, <1>6, <1>8 DEF NumbersInv

(* The Worker reads that the Hub has its stream, and is bound anew.        *)
LEMMA RecoverDoneStays ==
    ASSUME NumbersInv, RecoverDone
    PROVE  NumbersInv'
<1>1. /\ recovery # None /\ binding' = recovery.epoch /\ recovery' = None
      /\ UNCHANGED <<streamId, confirmedSequence, rows, late>>
      /\ awaited' = None /\ answer' = None
  BY DEF RecoverDone, FinishRecovery, queueVars, hubVars, databaseVars, rows, Read
<1>2. /\ recovery \in Recoveries /\ recovery.epoch > binding /\ confirmedSequence = 0
      /\ Goal = recovery.epoch /\ Goal' = Goal
  BY <1>1 DEF NumbersInv, WorkerNumbers, Goal
<1>3. recovery.epoch = epoch => node.stream = streamId /\ node.confirmed = 0
  BY DEF RecoverDone, NumbersInv, AnswerCurrent
<1>4. WorkerNumbers' /\ HubNumbers' /\ Watermarks'
  BY <1>1, <1>2, <1>3
  DEF NumbersInv, WorkerNumbers, Recoveries, HubNumbers, RowBehind, rows, Watermarks, Bound
<1>5. RequestsTimely'
  BY <1>1, <1>2
  DEF NumbersInv, WorkerNumbers, Recoveries, RequestsTimely, Timely, Idle
<1>6. AwaitedCurrent' /\ AnswerCurrent'
  BY <1>1 DEF AwaitedCurrent, AnswerCurrent, Got, Idle
<1> QED
  BY <1>4, <1>5, <1>6 DEF NumbersInv

(* The Worker reads that the Hub's data are others or older: a newer epoch *)
(* than any it knew, hence a new stream.                                   *)
LEMMA StartRecoveryStays ==
    ASSUME NumbersInv, HelloStartsRecovery
    PROVE  NumbersInv'
<1> DEFINE e == answer.body.epoch
<1>1. /\ PrepareRecovery(e) /\ HubWasReplaced(answer.body)
      /\ UNCHANGED <<rows, late>> /\ awaited' = None /\ answer' = None
  BY DEF HelloStartsRecovery, Read, hubVars, databaseVars, rows
<1>2. /\ e \in Nat /\ Goal <= e /\ e <= epoch
      /\ recovery = None /\ e = binding => answer.body.confirmed >= confirmedSequence
      /\ answer.body.confirmed \in Nat
  BY DEF HelloStartsRecovery, NumbersInv, AnswerCurrent
<1> HIDE DEF e
<1>3. CASE recovery # None /\ recovery.epoch = e
  BY <1>1, <1>3, ReadStays DEF PrepareRecovery, numbers, workerVars, queueVars
<1>4. CASE recovery = None \/ recovery.epoch # e
  <2>1. /\ streamId' = streamId + 1 /\ confirmedSequence' = 0 /\ binding' = binding
        /\ recovery' = Recovery(e, IF recovery = None THEN streamId
                                   ELSE recovery.previousStream, streamId + 1)
    BY <1>1, <1>4 DEF PrepareRecovery, ResetQueue
  <2>2. streamId \in Nat /\ binding \in Nat /\ confirmedSequence \in Nat
    BY DEF NumbersInv, WorkerNumbers
  <2>3. recovery' \in Recoveries
    BY <1>2, <2>1, <2>2 DEF Recovery, Recoveries, NumbersInv, WorkerNumbers
  <2>4. /\ recovery' # None /\ recovery'.epoch = e /\ recovery'.newStream = streamId'
        /\ Goal' = e
    BY <2>1, <2>3, NoneAssumption DEF Recovery, Recoveries, Goal
  <2>5. e > Goal /\ e > binding /\ Goal \in Nat
    <3>1. CASE recovery = None
      BY <1>1, <1>2, <2>2, <3>1 DEF HubWasReplaced, Goal, e
    <3>2. CASE recovery # None
      BY <1>2, <1>4, <2>2, <3>2 DEF Goal, NumbersInv, WorkerNumbers, Recoveries
    <3> QED
      BY <3>1, <3>2
  <2>6. WorkerNumbers'
    BY <2>1, <2>2, <2>3, <2>4, <2>5 DEF WorkerNumbers
  <2>7. HubNumbers'
    BY <1>1, <1>2, <2>1, <2>2, <2>4 DEF NumbersInv, HubNumbers, RowBehind, rows
  <2>8. RequestsTimely'
    <3>1. ASSUME NEW r \in late
          PROVE  Timely(r)'
      <4>1. Timely(r)
        BY DEF NumbersInv, RequestsTimely
      <4>2. r.kind = "upload" => r.body.stream <= streamId
        BY <4>1 DEF Timely
      <4>3. r.kind = "recover" => /\ r.body \in Recoveries /\ r.body.epoch <= Goal'
                                  /\ r.body.epoch # Goal'
        BY <1>2, <2>4, <2>5, <4>1 DEF Timely, Recoveries
      <4>4. r.kind = "upload" => /\ r.body.epoch <= binding' /\ r.body.stream <= streamId'
                                 /\ r.body.stream # streamId'
        BY <2>1, <2>2, <4>1, <4>2 DEF Timely
      <4> QED
        BY <4>1, <4>3, <4>4 DEF Timely
    <3> QED
      BY <1>1, <3>1 DEF RequestsTimely, Idle
  <2>9. AwaitedCurrent' /\ AnswerCurrent' /\ Watermarks'
    BY <1>1, <2>4 DEF AwaitedCurrent, AnswerCurrent, Got, Idle, Watermarks, Bound
  <2> QED
    BY <2>6, <2>7, <2>8, <2>9 DEF NumbersInv
<1> QED
  BY <1>3, <1>4

(* The Worker reads a receipt: what it confirms the Hub has applied.       *)
LEMMA UploadDoneStays ==
    ASSUME NumbersInv, UploadDone
    PROVE  NumbersInv'
<1>1. /\ ~Idle /\ awaited.kind = "upload" /\ answer.body = awaited.body
      /\ recovery = None /\ awaited.body.sequence = confirmedSequence + 1
      /\ Bound => node.confirmed = confirmedSequence + 1
  BY DEF UploadDone, Got, NumbersInv, AwaitedCurrent, AnswerCurrent
<1>2. /\ confirmedSequence' = confirmedSequence + 1
      /\ UNCHANGED <<streamId, binding, recovery, rows, late>>
      /\ awaited' = None /\ answer' = None
  BY <1>1 DEF UploadDone, Acknowledge, Read, hubVars, databaseVars, rows
<1>3. WorkerNumbers' /\ HubNumbers' /\ Watermarks'
  BY <1>1, <1>2
  DEF NumbersInv, WorkerNumbers, HubNumbers, RowBehind, rows, Watermarks, Bound, Goal
<1>4. RequestsTimely'
  BY <1>2 DEF NumbersInv, WorkerNumbers, RequestsTimely, Timely, Idle, Goal
<1>5. AwaitedCurrent' /\ AnswerCurrent'
  BY <1>2 DEF AwaitedCurrent, AnswerCurrent, Got, Idle
<1> QED
  BY <1>3, <1>4, <1>5 DEF NumbersInv

(* The answers that only tell the Worker whether to go on.                 *)
LEMMA AnswerStays ==
    ASSUME NumbersInv, ReadAnswer
    PROVE  NumbersInv'
<1>1. CASE RecoverDone
  BY <1>1, RecoverDoneStays
<1>2. CASE HelloStartsRecovery
  BY <1>2, StartRecoveryStays
<1>3. CASE UploadDone
  BY <1>3, UploadDoneStays
<1>4. CASE \/ RecoverRefused \/ HelloStartsRescan \/ HelloOk \/ HelloRefused \/ HelloBusy
           \/ UploadRefused \/ UploadBusy
  <2>1. UNCHANGED <<numbers, rows, late>> /\ awaited' = None /\ answer' = None
    BY <1>4
    DEF RecoverRefused, HelloStartsRescan, HelloOk, HelloRefused, HelloBusy, UploadRefused,
        UploadBusy, SetPause, Read, numbers, rows, workerVars, queueVars, hubVars, databaseVars
  <2> QED
    BY <2>1, ReadStays
<1> QED
  BY <1>1, <1>2, <1>3, <1>4 DEF ReadAnswer

(* A time-out or a crash: the request in hand may be served later.         *)
LEMMA AbandonStays ==
    ASSUME NumbersInv, Lose \/ Crash
    PROVE  NumbersInv'
<1>1. /\ UNCHANGED <<numbers, rows>> /\ awaited' = None /\ answer' = None
      /\ late' = late \/ (~Idle /\ late' = late \cup {awaited})
  BY DEF Lose, Crash, Fault, Abandon, numbers, rows, workerVars, queueVars, hubVars,
      databaseVars, Idle
<1>2. RequestsTimely'
  BY <1>1 DEF NumbersInv, numbers, RequestsTimely, Timely, Goal, Idle
<1>3. AwaitedCurrent' /\ AnswerCurrent'
  BY <1>1 DEF AwaitedCurrent, AnswerCurrent, Got, Idle
<1> QED
  BY <1>1, <1>2, <1>3, NumbersStay

(* The Hub refuses before it looks at the request.                         *)
LEMMA RefuseStays ==
    ASSUME NumbersInv, HubBusy \/ HubLeased
    PROVE  NumbersInv'
<1>1. /\ UNCHANGED <<numbers, rows, awaited, late>> /\ ~Idle
      /\ answer'.ok = FALSE
  BY DEF HubBusy, HubLeased, Fault, Busy, Refused, numbers, rows, workerVars, queueVars,
      hubVars, databaseVars
<1>2. RequestsTimely' /\ AwaitedCurrent' /\ AnswerCurrent'
  BY <1>1 DEF NumbersInv, numbers, RequestsTimely, Timely, Goal, Idle, AwaitedCurrent,
      AnswerCurrent, Got
<1> QED
  BY <1>1, <1>2, NumbersStay

(* Restored data have a new epoch; a copy is of what is served.            *)
LEMMA OperatorStays ==
    ASSUME NumbersInv, HubOperator
    PROVE  NumbersInv'
<1>1. UNCHANGED <<numbers, awaited, answer, late>>
  BY DEF HubOperator, workerVars, queueVars, loopVars, numbers
<1>2. RequestsTimely' /\ WorkerNumbers' /\ AwaitedCurrent'
  BY <1>1 DEF NumbersInv, numbers, RequestsTimely, Timely, Goal, Idle, AwaitedCurrent,
      WorkerNumbers
<1>3. CASE TakeBackup
  <2>1. UNCHANGED <<epoch, node>> /\ backup'.node = node
    BY <1>3 DEF TakeBackup, databaseVars, Database
  <2> QED
    BY <1>1, <1>2, <2>1
    DEF NumbersInv, numbers, HubNumbers, RowBehind, Goal, Watermarks, Bound, AnswerCurrent,
        Got, Idle
<1>4. CASE RestoreBackup
  <2>1. epoch' = epoch + 1 /\ node' = backup.node /\ backup' = backup
    BY <1>4 DEF RestoreBackup
  <2>2. epoch \in Nat /\ Goal \in Nat /\ Goal <= epoch
    BY DEF NumbersInv, HubNumbers, WorkerNumbers, Goal, Recoveries
  <2>3. HubNumbers'
    BY <1>1, <2>1, <2>2 DEF NumbersInv, numbers, HubNumbers, RowBehind, Goal
  <2>4. ~Bound' /\ (recovery # None => recovery.epoch # epoch')
    BY <1>1, <2>1, <2>2 DEF numbers, Bound, Goal
  <2>5. Watermarks'
    BY <2>4 DEF Watermarks
  <2>6. AnswerCurrent'
    BY <1>1, <2>1, <2>2, <2>4
    DEF NumbersInv, numbers, AnswerCurrent, AwaitedCurrent, Got, Idle, Goal
  <2> QED
    BY <1>2, <2>3, <2>5, <2>6 DEF NumbersInv
<1> QED
  BY <1>3, <1>4 DEF HubOperator

(* Collection, edits and the Hub's users.                                  *)
LEMMA OthersStay ==
    ASSUME NumbersInv, Change \/ Collect \/ ScanFails \/ HubUser \/ UNCHANGED vars
    PROVE  NumbersInv'
<1>1. UNCHANGED <<numbers, rows, awaited, answer, late>>
  <2>1. CASE Change
    BY <2>1 DEF Change, Edit, workerVars, queueVars, hubVars, databaseVars, loopVars, numbers, rows
  <2>2. CASE Collect
    BY <2>2 DEF Collect, Tick, StartScan, SavePage, SaveBatch, DropPage, TickPaused, workerVars,
        queueVars, hubVars, databaseVars, loopVars, numbers, rows
  <2>3. CASE ScanFails
    BY <2>3 DEF ScanFails, Fault, FailPage, workerVars, queueVars, hubVars, databaseVars,
        loopVars, numbers, rows
  <2>4. CASE HubUser
    BY <2>4 DEF HubUser, RequestRescan, CancelRescan, workerVars, queueVars, loopVars, numbers,
        rows
  <2>5. CASE UNCHANGED vars
    BY <2>5 DEF vars, workerVars, queueVars, hubVars, databaseVars, loopVars, numbers, rows
  <2> QED
    BY <2>1, <2>2, <2>3, <2>4, <2>5
<1>2. RequestsTimely' /\ AwaitedCurrent' /\ AnswerCurrent'
  BY <1>1 DEF NumbersInv, numbers, rows, RequestsTimely, Timely, Goal, Idle, AwaitedCurrent,
      AnswerCurrent, Got, Bound
<1> QED
  BY <1>1, <1>2, NumbersStay

(* The Worker and the Hub begin in the same stream and epoch.              *)
LEMMA NumbersInit == Init => NumbersInv
<1> SUFFICES ASSUME Init PROVE NumbersInv
  OBVIOUS
<1>1. /\ streamId = 0 /\ confirmedSequence = 0 /\ recovery = None /\ binding = 0 /\ epoch = 0
      /\ node.stream = 0 /\ node.confirmed = 0 /\ backup.node = node
      /\ late = {} /\ awaited = None /\ answer = None
  BY DEF Init, WorkerInit, HubInit, NodeRow, Database
<1> QED
  BY <1>1
  DEF NumbersInv, WorkerNumbers, HubNumbers, RowBehind, Goal, RequestsTimely, AwaitedCurrent,
      AnswerCurrent, Got, Idle, Watermarks, Bound

LEMMA NumbersStep == NumbersInv /\ [Next]_vars => NumbersInv'
<1> SUFFICES ASSUME NumbersInv, [Next]_vars PROVE NumbersInv'
  OBVIOUS
<1>1. CASE SendRecover \/ SendHello \/ SendUpload
  BY <1>1, SendStays
<1>2. CASE HubServe
  BY <1>2, ServeStays
<1>3. CASE HubBusy \/ HubLeased
  BY <1>3, RefuseStays
<1>4. CASE HubServeLate
  BY <1>4, ServeLateStays
<1>5. CASE ReadAnswer
  BY <1>5, AnswerStays
<1>6. CASE Lose \/ Crash
  BY <1>6, AbandonStays
<1>7. CASE Change \/ Collect \/ ScanFails \/ HubUser \/ UNCHANGED vars
  BY <1>7, OthersStay
<1>8. CASE HubOperator
  BY <1>8, OperatorStays
<1> QED
  BY <1>1, <1>2, <1>3, <1>4, <1>5, <1>6, <1>7, <1>8 DEF Next

(* Both sides' numbers agree as far as they can, whatever was lost, late,  *)
(* restored or restarted.                                                  *)
THEOREM NumbersHold == Spec => []NumbersInv
BY NumbersInit, NumbersStep, PTL DEF Spec

(* Where both sides agree on the epoch, the Hub is in the Worker's stream, *)
(* at its watermark or one operation ahead: the handlers of http/sync.rs   *)
(* and the loop of worker.rs never confirm what was not applied.           *)
THEOREM WatermarksAgree == Spec => []Watermarks
<1>1. NumbersInv => Watermarks
  BY DEF NumbersInv
<1> QED
  BY <1>1, NumbersHold, PTL

----------------------------------------------------------------------------
(* The Worker's half: what is proved of the store and of collection alone  *)
(* holds with a Hub whose answers arrive at any moment.                    *)

WorkerInv == ScanInv /\ QueueCurrent /\ limits \in Limits

(* Steps that leave what is queued and collected alone, and give up rounds *)
(* and scans at most.                                                      *)
LEMMA WorkerStays ==
    ASSUME WorkerInv, IInv', UNCHANGED <<source, sent, sources, trimmed, lastSequence, outbox>>,
           paused' \in BOOLEAN, UNCHANGED limits,
           ResetScanning \/ UNCHANGED <<changed, again, round, scan, cursor>>
    PROVE  WorkerInv'
<1>1. ScanInv /\ LoopTypeOK /\ QueueOK /\ QueueCurrent
  BY DEF WorkerInv, ScanInv, IInv
<1>2. LoopTypeOK'
  BY <1>1, LoopTypeReset
<1>3. Forgets
  BY <1>1, ResetForgets DEF Forgets, LoopTypeOK
<1>4. ScanInv'
  BY <1>1, <1>2, <1>3, ForgettingStays
<1>5. QueueCurrent'
  BY <1>1, SameQueueStaysCurrent
<1> QED
  BY <1>4, <1>5 DEF WorkerInv

(* Steps of collection are those of Scanning.                              *)
LEMMA CollectionStays ==
    ASSUME WorkerInv, [ScanNext]_<<workerVars, scanVars>>, UNCHANGED limits
    PROVE  WorkerInv'
<1>1. ScanInv /\ LoopTypeOK /\ RoundsAreOwn /\ IInv /\ QueueCurrent
  BY DEF WorkerInv, ScanInv
<1>2. ScanInv'
  BY <1>1, ScanStays
<1>3. QueueCurrent'
  BY <1>1, ScanStepsAreCalls, StepStaysCurrent
<1> QED
  BY <1>2, <1>3 DEF WorkerInv

(* What the loop reads of the Hub's answers.                               *)
LEMMA AnswerKeepsWorker ==
    ASSUME WorkerInv, NumbersInv, ReadAnswer
    PROVE  WorkerInv'
<1>0. /\ ScanInv /\ IInv /\ LoopTypeOK /\ QueueOK /\ QueueCurrent
      /\ paused \in BOOLEAN /\ UNCHANGED limits
  BY DEF WorkerInv, ScanInv, IInv, LoopTypeOK, ReadAnswer, RecoverDone, RecoverRefused,
      HelloStartsRecovery, HelloStartsRescan, HelloOk, HelloRefused, HelloBusy, UploadDone,
      UploadRefused, UploadBusy, NoFault
<1>1. CASE RecoverDone
  BY <1>0, <1>1, FinishInvariant, WorkerStays
  DEF RecoverDone, FinishRecovery, queueVars, sessionVars, Offline, KeepScanning
<1>2. CASE RecoverRefused
  BY <1>0, <1>2, SameInvariant, WorkerStays
  DEF RecoverRefused, workerVars, queueVars, sessionVars, Offline, KeepScanning
<1>3. CASE HelloStartsRecovery
  <2>1. /\ PrepareRecovery(answer.body.epoch) /\ answer.body.epoch \in Nat
        /\ ResetScanning /\ UNCHANGED source /\ paused' = TRUE
    BY <1>3 DEF HelloStartsRecovery, Offline, NumbersInv, AnswerCurrent
  <2>2. IInv'
    BY <1>0, <2>1, RecoveryInvariant
  <2>3. CASE UNCHANGED workerVars
    BY <1>0, <2>1, <2>2, <2>3, WorkerStays DEF workerVars, queueVars, sessionVars
  <2>4. CASE ResetQueue(streamId + 1) /\ UNCHANGED sessionVars
    <3>1. LoopTypeOK' /\ Forgets
      BY <1>0, <2>1, LoopTypeReset, ResetForgets
    <3>2. ScanInv'
      BY <1>0, <2>2, <2>4, <3>1, ForgettingStays DEF sessionVars
    <3>3. streamId + 1 \in Nat
      BY <1>0 DEF QueueOK
    <3>4. QueueCurrent'
      BY <1>0, <2>4, <3>3, ResetStaysCurrent DEF sessionVars
    <3> QED
      BY <1>0, <3>2, <3>4 DEF WorkerInv
  <2> QED
    BY <2>1, <2>3, <2>4 DEF PrepareRecovery
<1>4. CASE HelloStartsRescan
  <2> DEFINE task == answer.body.task
  <2>1. /\ rescan' = Progress(task.id, Scope(task.agents), None, Unavailable(task.agents) # {})
        /\ Forget(task.agents) /\ pauseSaved' = FALSE /\ paused' = FALSE
        /\ UNCHANGED <<queueVars, recovery, binding, source>>
        /\ IF Unavailable(task.agents) = {} THEN ResetScanning
           ELSE UNCHANGED <<changed, again, round, scan, cursor>>
    BY <1>4 DEF HelloStartsRescan
  <2> HIDE DEF task
  <2>2. IInv'
    BY <1>0, <2>1, RescanInvariant
  <2>3. LoopTypeOK'
    BY <1>0, <2>1, LoopTypeReset
  <2>4. ScanInv'
    BY <1>0, <2>1, <2>2, <2>3, InstructedStays
  <2>5. QueueCurrent'
    BY <1>0, <2>1, ForgettingKeeps, SameQueueStaysCurrent DEF IInv, queueVars
  <2> QED
    BY <1>0, <2>4, <2>5 DEF WorkerInv
<1>5. CASE HelloOk \/ HelloRefused \/ UploadRefused
  <2>1. /\ SetPause(pauseSaved') /\ pauseSaved' \in BOOLEAN /\ KeepScanning
        /\ paused' \in BOOLEAN
    BY <1>5 DEF HelloOk, HelloRefused, UploadRefused, SetPause, Offline
  <2>2. IInv'
    BY <1>0, <2>1, PauseInvariant
  <2> QED
    BY <1>0, <2>1, <2>2, WorkerStays DEF SetPause, queueVars, sessionVars, KeepScanning
<1>6. CASE UploadDone
  <2> DEFINE q == answer.body.sequence
  <2>0. q = confirmedSequence + 1 /\ q \in Nat
    BY <1>6 DEF UploadDone, Got, NumbersInv, AnswerCurrent, AwaitedCurrent, WorkerNumbers
  <2>1. /\ Acknowledge(answer.body.stream, q, answer.body.op) /\ UNCHANGED scanVars
    BY <1>6 DEF UploadDone
  <2>2. answer.body.stream = streamId /\ answer.body.op = outbox[q] /\ q = NextUpload
    BY <2>1 DEF Acknowledge
  <2>3. q \in Unconfirmed
    BY <1>0, <2>0, <2>2, NoneAssumption DEF NextUpload, Unconfirmed, QueueOK
  <2> HIDE DEF q
  <2>4. IInv' /\ QueueCurrent'
    BY <1>0, <2>1, <2>2, <2>3, ReceiptInvariant, AcknowledgeStaysCurrent
  <2>5. LoopTypeOK' /\ Forgets /\ UNCHANGED <<sent, sources>>
    BY <1>0, <2>1 DEF scanVars, LoopTypeOK, Forgets, Acknowledge, sessionVars
  <2>6. ScanInv'
    BY <1>0, <2>4, <2>5, ForgettingStays
  <2> QED
    BY <1>0, <2>4, <2>6 DEF WorkerInv
<1>7. CASE HelloBusy \/ UploadBusy
  BY <1>0, <1>7, CollectionStays DEF HelloBusy, UploadBusy, workerVars, scanVars
<1> QED
  BY <1>1, <1>2, <1>3, <1>4, <1>5, <1>6, <1>7 DEF ReadAnswer

(* Every step keeps the Worker's half.                                     *)
LEMMA StepKeepsWorker ==
    ASSUME WorkerInv, NumbersInv, [Next]_vars
    PROVE  WorkerInv'
<1>1. CASE UNCHANGED <<workerVars, scanVars>> /\ UNCHANGED limits
  BY <1>1, CollectionStays
<1>2. CASE \/ SendRecover \/ SendHello \/ SendUpload \/ HubServe \/ HubBusy \/ HubLeased
           \/ HubServeLate \/ HubUser \/ HubOperator \/ UNCHANGED vars
  BY <1>1, <1>2
  DEF SendRecover, SendHello, SendUpload, Send, HubServe, HubBusy, HubLeased, HubServeLate,
      HubUser, HubOperator, vars, NoFault
<1>3. CASE ReadAnswer
  BY <1>3, AnswerKeepsWorker
<1>4. CASE Lose
  BY <1>4, SameInvariant, WorkerStays
  DEF Lose, workerVars, queueVars, sessionVars, KeepScanning, WorkerInv, ScanInv, LoopTypeOK
<1>5. CASE Crash
  BY <1>5, CollectionStays DEF Crash, ScanNext, Restarted
<1>6. CASE Change
  <2>1. limits.captures \subseteq Captures
    BY SyncAssumption DEF WorkerInv
  <2> QED
    BY <1>6, <2>1, CollectionStays DEF Change, ScanNext
<1>7. CASE Collect
  BY <1>7, CollectionStays DEF Collect, ScanNext, NoFault
<1>8. CASE ScanFails
  BY <1>8, CollectionStays DEF ScanFails, Fault, ScanNext
<1> QED
  BY <1>2, <1>3, <1>4, <1>5, <1>6, <1>7, <1>8 DEF Next

LEMMA WorkerBegins == Init => WorkerInv
<1> SUFFICES ASSUME Init PROVE WorkerInv
  OBVIOUS
<1>1. ScanInv
  BY ScanBegins DEF Init
<1>2. QueueCurrent
  BY CaptureAssumption
  DEF Init, WorkerInit, QueueCurrent, SentIsQueued, DeltaChain, OpsOf, CommitsOf, Rows
<1> QED
  BY <1>1, <1>2 DEF Init, WorkerInv

(* What the Worker keeps, it keeps whatever the Hub says.                  *)
THEOREM WorkerHolds == Spec => [](WorkerInv /\ NumbersInv)
<1>1. Init => WorkerInv /\ NumbersInv
  BY WorkerBegins, NumbersInit
<1>2. WorkerInv /\ NumbersInv /\ [Next]_vars => (WorkerInv /\ NumbersInv)'
  BY StepKeepsWorker, NumbersStep
<1> QED
  BY <1>1, <1>2, PTL DEF Spec
=============================================================================
