-------------------------------- MODULE Sync --------------------------------
(***************************************************************************)
(* A Worker and the Hub: the loop of codesesh-cli/src/worker.rs, the HTTP  *)
(* handlers of codesesh-cli/src/http/sync.rs that serve it, and a network  *)
(* that loses answers and delivers abandoned requests late.                *)
(*                                                                         *)
(* The loop has one request outstanding at a time and does nothing else    *)
(* while it waits, so `awaited' is a single slot.  A request given up      *)
(* after a time-out or a crash may still be lying in a socket or in the    *)
(* Hub's writer queue: it moves to `late', from where the Hub may serve it *)
(* at any time, with nobody to read the answer.                            *)
(***************************************************************************)
EXTENDS Scanning, HubStore

(* What a behaviour may contain: edits of source files, faults (lost       *)
(* answers, busy or leased Hubs, failed scans, crashes), restores of the   *)
(* Hub's database, the length of the task table at which users stop        *)
(* asking, whether they cancel, which contents sessions may have, and what *)
(* check_compatibility may say, a subset of BOOLEAN.                       *)
CONSTANT Limits

ASSUME SyncAssumption ==
    Limits \subseteq [edits : Nat, faults : Nat, epoch : Nat, tasks : Nat, cancels : BOOLEAN,
                      captures : SUBSET Captures, compatible : (SUBSET BOOLEAN) \ {{}}]

(* The progress of a rescan is never the value that stands for no rescan.  *)
ASSUME ProgressAssumption ==
    None \notin [id : Int \X Nat, pending : SUBSET Agents, target : Nat \cup {None},
                 failed : BOOLEAN]

VARIABLES
    online,   \* the last handshake succeeded: uploads may be sent
    refresh,  \* a recovery was refused with HUB_EPOCH_CHANGED: say hello now
    awaited,  \* the request the loop waits for, or None
    answer,   \* the answer on its way back, or None
    late,     \* abandoned requests the Hub may still serve
    owed,     \* sessions the begun rescan is to have delivered (history only)
    edits, faults,
    limits    \* the member of Limits that holds

loopVars == <<online, refresh, awaited, answer, late>>
vars == <<workerVars, scanVars, hubVars, loopVars, owed, edits, faults, limits>>

Idle == awaited = None

Request(kind, body) == [kind |-> kind, body |-> body]
Refused(code) == [ok |-> FALSE, code |-> code]
Busy == Refused("busy")
Accepted(body) == [ok |-> TRUE, body |-> body]

Fault(A) == faults < limits.faults /\ A /\ faults' = faults + 1
NoFault == UNCHANGED <<owed, edits, faults, limits>>

----------------------------------------------------------------------------
(* The Worker sends.                                                       *)

Send(kind, body) ==
    /\ Idle
    /\ awaited' = Request(kind, body)
    /\ UNCHANGED <<answer, late, online, workerVars, scanVars, hubVars>>
    /\ NoFault

SendRecover ==
    /\ recovery # None /\ ~refresh
    /\ Send("recover", recovery) /\ UNCHANGED refresh

SendHello ==
    /\ recovery = None \/ refresh
    /\ Send("hello", Hello(IF recovery = None THEN binding ELSE recovery.epoch,
                           streamId, rescan))
    /\ refresh' = FALSE

SendUpload ==
    /\ online /\ ~refresh /\ recovery = None
    /\ NextUpload # None
    /\ Send("upload", Upload(binding, streamId, NextUpload, outbox[NextUpload]))
    /\ UNCHANGED refresh

----------------------------------------------------------------------------
(* The Hub serves a request.                                               *)

(* What the Hub does and answers.  The version is checked before anything  *)
(* else, by the handlers themselves or, for hello, within worker_hello.    *)
Serve(r, reply) ==
    \/ /\ r.kind # "hello" /\ FALSE \in limits.compatible
       /\ UNCHANGED hubVars /\ reply = Refused("VERSION_INCOMPATIBLE")
    \/ /\ r.kind = "recover" /\ TRUE \in limits.compatible
       /\ IF RecoverRefusal(r.body) = None
          THEN RecoverWorker(r.body) /\ reply = Accepted(None)
          ELSE UNCHANGED hubVars /\ reply = Refused(RecoverRefusal(r.body))
    \/ /\ r.kind = "hello"
       /\ \E compatible \in limits.compatible :
            IF HelloRefusal(r.body) = None
            THEN /\ WorkerHello(r.body, compatible)
                 /\ reply = Accepted(HelloReply(r.body, compatible))
            ELSE UNCHANGED hubVars /\ reply = Refused(HelloRefusal(r.body))
    \/ /\ r.kind = "upload" /\ TRUE \in limits.compatible
       /\ IF UploadRefusal(r.body) = None
          THEN ReceiveUpload(r.body) /\ reply = Accepted(r.body)
          ELSE UNCHANGED hubVars /\ reply = Refused(UploadRefusal(r.body))

Replies ==
    {Refused(code) : code \in Refusals \cup {"VERSION_INCOMPATIBLE"}}
        \cup {Accepted(None), Accepted(awaited.body)}
        \cup {Accepted(HelloReply(awaited.body, c)) :
                c \in IF awaited.kind = "hello" THEN limits.compatible ELSE {}}

HubServe ==
    /\ ~Idle /\ answer = None
    /\ \E reply \in Replies : Serve(awaited, reply) /\ answer' = reply
    /\ UNCHANGED <<awaited, late, online, refresh, workerVars, scanVars>>
    /\ NoFault

(* No reader, writer or upload slot is free: 503, to be tried again.       *)
HubBusy ==
    /\ ~Idle /\ answer = None
    /\ Fault(answer' = Busy)
    /\ UNCHANGED <<awaited, late, online, refresh, workerVars, scanVars, hubVars, owed, edits,
                   limits>>

(* authenticate, which every handler calls first: the lease is still held  *)
(* by another process, such as this Worker's before it was killed.         *)
HubLeased ==
    /\ ~Idle /\ answer = None
    /\ Fault(answer' = Refused("WORKER_INSTANCE_CONFLICT"))
    /\ UNCHANGED <<awaited, late, online, refresh, workerVars, scanVars, hubVars, owed, edits,
                   limits>>

Discarded(r) ==
    CASE r.kind = "recover" -> RecoverRefusal(r.body) = None /\ RecoverWorker(r.body)
      [] r.kind = "hello" -> /\ HelloRefusal(r.body) = None
                             /\ \E c \in limits.compatible : WorkerHello(r.body, c)
      [] r.kind = "upload" -> UploadRefusal(r.body) = None /\ ReceiveUpload(r.body)

HubServeLate ==
    \E r \in late :
        /\ Discarded(r)
        /\ late' = late \ {r}
        /\ UNCHANGED <<awaited, answer, online, refresh, workerVars, scanVars>>
        /\ NoFault

----------------------------------------------------------------------------
(* The Worker reads the answer.                                            *)

Read == awaited' = None /\ answer' = None /\ UNCHANGED late
Got(kind) == ~Idle /\ answer # None /\ awaited.kind = kind
Offline == online' = FALSE /\ paused' = TRUE
KeepScanning == UNCHANGED <<source, changed, again, round, scan, cursor>>

RecoverDone ==
    /\ Got("recover") /\ answer.ok
    /\ FinishRecovery
    /\ Offline /\ KeepScanning
    /\ Read /\ UNCHANGED <<refresh, hubVars>> /\ NoFault

RecoverRefused ==
    /\ Got("recover") /\ ~answer.ok
    /\ refresh' = (answer.code = "HUB_EPOCH_CHANGED")
    /\ Offline /\ KeepScanning
    /\ Read /\ UNCHANGED <<workerVars, hubVars>> /\ NoFault

(* The Hub's data are not those this Worker was bound to, or have lost     *)
(* operations this Worker saw confirmed.                                   *)
HubWasReplaced(reply) ==
    /\ reply.compatible
    /\ reply.epoch # binding \/ reply.confirmed < confirmedSequence \/ recovery # None

HelloStartsRecovery ==
    /\ Got("hello") /\ answer.ok
    /\ HubWasReplaced(answer.body)
    /\ ResetScanning /\ PrepareRecovery(answer.body.epoch)
    /\ Offline /\ UNCHANGED source
    /\ Read /\ UNCHANGED <<refresh, hubVars>> /\ NoFault

NewTask(reply) == reply.compatible /\ reply.task # None /\ ~SameTask(reply.task.id)

(* begin_rescan, then set_pause: pause_reason is cleared with the rescan   *)
(* already begun, and nothing reads either in between.                     *)
HelloStartsRescan ==
    /\ Got("hello") /\ answer.ok
    /\ ~HubWasReplaced(answer.body) /\ NewTask(answer.body)
    /\ LET task == answer.body.task
       IN  /\ rescan' = Progress(task.id, Scope(task.agents), None,
                                 Unavailable(task.agents) # {})
           /\ Forget(task.agents)
           /\ IF Unavailable(task.agents) = {} THEN ResetScanning
              ELSE UNCHANGED <<changed, again, round, scan, cursor>>
           /\ owed' = {s \in Sessions : AgentOf[s] \in Scope(task.agents) /\ sent'[s] = Cleared}
    /\ pauseSaved' = FALSE /\ paused' = FALSE /\ online' = TRUE
    /\ UNCHANGED <<queueVars, recovery, binding, source>>
    /\ Read /\ UNCHANGED <<refresh, hubVars, edits, faults, limits>>

HelloOk ==
    /\ Got("hello") /\ answer.ok
    /\ ~HubWasReplaced(answer.body) /\ ~NewTask(answer.body)
    /\ SetPause(~answer.body.compatible)
    /\ paused' = ~answer.body.compatible /\ online' = answer.body.compatible
    /\ KeepScanning
    /\ Read /\ UNCHANGED <<refresh, hubVars>> /\ NoFault

HelloRefused ==
    /\ Got("hello") /\ ~answer.ok /\ answer # Busy
    /\ SetPause(TRUE) /\ Offline /\ KeepScanning
    /\ Read /\ UNCHANGED <<refresh, hubVars>> /\ NoFault

HelloBusy ==
    /\ Got("hello") /\ answer = Busy
    /\ online' = FALSE
    /\ Read /\ UNCHANGED <<refresh, workerVars, scanVars, hubVars>> /\ NoFault

UploadDone ==
    /\ Got("upload") /\ answer.ok
    /\ Acknowledge(answer.body.stream, answer.body.sequence, answer.body.op)
    /\ Read /\ UNCHANGED <<online, refresh, scanVars, hubVars>> /\ NoFault

UploadRefused ==
    /\ Got("upload") /\ ~answer.ok /\ answer # Busy
    /\ SetPause(TRUE) /\ Offline /\ KeepScanning
    /\ Read /\ UNCHANGED <<refresh, hubVars>> /\ NoFault

UploadBusy ==
    /\ Got("upload") /\ answer = Busy
    /\ Read /\ UNCHANGED <<online, refresh, workerVars, scanVars, hubVars>> /\ NoFault

ReadAnswer ==
    \/ RecoverDone \/ RecoverRefused
    \/ HelloStartsRecovery \/ HelloStartsRescan \/ HelloOk \/ HelloRefused \/ HelloBusy
    \/ UploadDone \/ UploadRefused \/ UploadBusy

(* The request or its answer is lost.  A request not served yet may be.    *)
Abandon == late' = IF answer = None THEN late \cup {awaited} ELSE late

Lose ==
    /\ ~Idle
    /\ Fault(Abandon)
    /\ awaited' = None /\ answer' = None
    /\ online' = FALSE
    /\ paused' = IF awaited.kind = "recover" THEN TRUE ELSE paused
    /\ KeepScanning
    /\ UNCHANGED <<refresh, workerVars, hubVars, owed, edits, limits>>

(* The Worker's process dies at any point and is started again.            *)
Crash ==
    /\ Fault(IF Idle THEN UNCHANGED late ELSE Abandon)
    /\ RestartScanning
    /\ awaited' = None /\ answer' = None
    /\ online' = FALSE /\ refresh' = FALSE
    /\ UNCHANGED <<workerVars, hubVars, owed, edits, limits>>

----------------------------------------------------------------------------
(* Everybody else.                                                         *)

Change ==
    /\ edits < limits.edits
    /\ \E s \in Sessions, c \in limits.captures : Edit(s, c)
    /\ edits' = edits + 1
    /\ UNCHANGED <<hubVars, loopVars, owed, faults, limits>>

(* tick follows the handshake in the loop, so it never runs while the loop *)
(* waits; it is skipped by the two `continue's that set up a recovery.     *)
Collect ==
    /\ Idle /\ ~refresh /\ Tick
    /\ UNCHANGED <<hubVars, loopVars>> /\ NoFault

ScanFails ==
    /\ Idle /\ Fault(FailPage)
    /\ UNCHANGED <<hubVars, loopVars, owed, edits, limits>>

HubUser ==
    /\ \/ /\ Len(rescans) < limits.tasks
          /\ \E agents \in {{}} \cup {{a} : a \in Agents} : RequestRescan(agents)
       \/ /\ limits.cancels
          /\ \E i \in DOMAIN rescans : CancelRescan(rescans[i].id)
    /\ UNCHANGED <<workerVars, scanVars, loopVars>> /\ NoFault

HubOperator ==
    /\ \/ epoch < limits.epoch /\ backup # Database /\ TakeBackup
       \/ epoch < limits.epoch /\ RestoreBackup
    /\ UNCHANGED <<workerVars, scanVars, loopVars>> /\ NoFault

----------------------------------------------------------------------------
Init ==
    /\ WorkerInit(0) /\ ScanInit /\ HubInit(0)
    /\ online = FALSE /\ refresh = FALSE
    /\ awaited = None /\ answer = None /\ late = {}
    /\ owed = {} /\ edits = 0 /\ faults = 0 /\ limits \in Limits

Next ==
    \/ SendRecover \/ SendHello \/ SendUpload
    \/ HubServe \/ HubBusy \/ HubLeased \/ HubServeLate
    \/ ReadAnswer \/ Lose \/ Crash
    \/ Change \/ Collect \/ ScanFails
    \/ HubUser \/ HubOperator

(* The loop goes on: it repeats the handshake, sends what is queued and    *)
(* ticks; the Hub answers what reaches it.                                 *)
Fairness ==
    /\ WF_vars(SendRecover) /\ SF_vars(SendHello) /\ SF_vars(SendUpload)
    /\ WF_vars(HubServe) /\ WF_vars(ReadAnswer)
    /\ SF_vars(Collect)

Spec == Init /\ [][Next]_vars
FairSpec == Spec /\ Fairness
----------------------------------------------------------------------------
(* Properties.                                                             *)

Bound == binding = epoch /\ recovery = None

(* Whenever both sides agree on the epoch, the Hub is at the Worker's      *)
(* watermark or one operation ahead of it (the one whose receipt is not    *)
(* read yet), in the same stream: what is confirmed was applied.           *)
Watermarks ==
    Bound => /\ node.stream = streamId
             /\ node.confirmed \in {confirmedSequence, confirmedSequence + 1}

(* An upload the Worker is waiting for is never refused unless the Hub's   *)
(* data were replaced meanwhile: no lost answer, late request, crash or    *)
(* recovery brings about a gap, a conflict or an incomplete snapshot.      *)
NoRefusal ==
    ~Idle /\ answer = None /\ awaited.kind = "upload" /\ awaited.body.epoch = epoch =>
        UploadRefusal(awaited.body) = None

(* The state a delta may extend is the state archived, so a delta that is  *)
(* accepted rebuilds exactly what the Worker parsed.                       *)
BasesExact ==
    \A s \in Sessions : messageBases[s] # None =>
        hubSessions[s] # None /\ hubSessions[s].messages = messageBases[s]

(* No silent divergence: if the Worker counts a session as delivered and   *)
(* the Hub's copy is another, a task not yet begun will have it resent.    *)
ReceiptOnTheWay == Got("upload") /\ answer.ok
Applied ==
    IF Bound THEN node.confirmed
    ELSE IF ReceiptOnTheWay THEN confirmedSequence + 1 ELSE confirmedSequence
Pending(s) == \E q \in OpsOf(s) : q > Applied
Diverged(s) == sent[s] \in Captures /\ ~Pending(s) /\ hubSessions[s] # sent[s]
Heals(task, s) ==
    /\ Active(task) /\ ~SameTask(task.id)
    /\ task.agents = {} \/ AgentOf[s] \in task.agents
NoSilentDivergence ==
    Bound => \A s \in Sessions : Diverged(s) =>
        \E i \in DOMAIN rescans : Heals(rescans[i], s)

(* A task reported complete is: the Hub holds, from the Worker, every      *)
(* session that was to be resent when the Worker began the task, whatever  *)
(* was lost, repeated or restarted on the way.                             *)
CompletedNow(i) == Active(rescans[i]) /\ rescans'[i].status = "completed"
CompletedIsDelivered ==
    [][epoch' = epoch =>
         \A i \in DOMAIN rescans : CompletedNow(i) /\ SameTask(rescans[i].id) =>
           \A s \in owed :
             /\ sent[s] # Cleared /\ hubSessions[s] # None /\ s \notin orphans
             /\ ~Pending(s) => sent[s] = hubSessions[s]]_vars

(* A task that ended stays ended, except in a restored table: no late or   *)
(* repeated report brings it back.                                         *)
EndedStaysEnded ==
    [][epoch' = epoch =>
         \A i \in 1 .. Len(rescans) : ~Active(rescans[i]) => rescans'[i] = rescans[i]]_vars

(* hub_rescans.id is the primary key: were a recovery task's identity, the *)
(* new stream, ever used twice, recover_worker would fail for good.        *)
TaskIdsUnique ==
    \A i, j \in 1 .. Len(rescans) : rescans[i].id = rescans[j].id => i = j

(* Once nobody edits, restores or cancels any more, the Hub ends up with   *)
(* the newest content of every session, and every task ends.               *)
EventuallyConverged ==
    <>[](\A s \in Sessions : source[s] # None => hubSessions[s] = source[s])
TasksEnd == <>[](\A i \in 1 .. Len(rescans) : ~Active(rescans[i]))

(* The abstract specification this one implements.                         *)
Undelivered == [k \in 1 .. lastSequence - Applied |-> outbox[Applied + k]]
D == INSTANCE Delivery WITH queue <- Undelivered, copy <- hubSessions
ImplementsDelivery == D!DeliverySpec

(* What the Hub holds is well formed, and a delta's base is what it says.  *)
HubStateOK == HubTypeOK /\ BasesExact
(* A task is completed when everything queued for it has been delivered,   *)
(* and whatever has ended stays ended.                                     *)
TasksHonest == CompletedIsDelivered /\ EndedStaysEnded
(* In the end the Hub has the newest content and no task is left open.     *)
Converges == EventuallyConverged /\ TasksEnd
============================================================================
