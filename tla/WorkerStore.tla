---------------------------- MODULE WorkerStore ----------------------------
(***************************************************************************)
(* The durable half of a Worker: worker.db, as kept by                     *)
(* codesesh-core/src/sync/worker_store.rs.  Every operation of WorkerStore *)
(* that writes is one action, because each runs in one SQLite transaction. *)
(*                                                                         *)
(* The upload queue is a table with an AUTOINCREMENT key.  `outbox' maps   *)
(* the sequences still stored, trimmed+1 .. lastSequence, to operations;   *)
(* `confirmedSequence' is the Worker's watermark.  Rows up to it are kept  *)
(* while they are chunks of a snapshot whose commit is unacknowledged.     *)
(***************************************************************************)
EXTENDS Protocol

CONSTANTS
    Enabled,      \* agents this Worker process was started with
    Outdated,     \* agents whose parser revision differs from the Hub's
    LargeTitles,  \* metadata too large for one Operation::Metadata
    Fingerprints, \* what a scan remembers of a source file it has read
    ChunkCounts,  \* chunks one snapshot may take
    TaskIds,      \* identities of rescan tasks
    Epochs,       \* Hub data epochs
    AdoptedStates,\* scan states a Hub's own cache can hand over
    Cleared       \* a worker_sessions row whose hashes are '' and NULL

ASSUME WorkerAssumption ==
    /\ Enabled \subseteq Agents /\ Enabled # {} /\ Outdated \subseteq Agents
    /\ Cleared \notin Captures /\ Cleared # None
    /\ ChunkCounts \subseteq Nat \ {0}
    /\ Epochs \subseteq Nat /\ 0 \in Epochs

SourceStates == [known : UNION {[S -> Fingerprints] : S \in SUBSET Sessions},
                 complete : BOOLEAN]
ASSUME AdoptedAssumption == AdoptedStates \subseteq SourceStates

VARIABLES
    streamId,           \* worker_meta.stream_id
    confirmedSequence,  \* worker_meta.confirmed_sequence
    trimmed,            \* highest deleted row of worker_outbox
    lastSequence,       \* sqlite_sequence of worker_outbox
    outbox,             \* worker_outbox
    recovery,           \* worker_meta.recovery
    rescan,             \* worker_meta.rescan
    binding,            \* epoch of the grant in worker_meta.binding
    sent,               \* worker_sessions: hashes of what was last queued
    sources,            \* worker_sources: fingerprints, complete flag
    pauseSaved          \* worker_meta.pause_reason is present

queueVars  == <<streamId, confirmedSequence, trimmed, lastSequence, outbox>>
sessionVars == <<sent, sources>>
workerVars == <<queueVars, recovery, rescan, binding, sessionVars, pauseSaved>>

----------------------------------------------------------------------------
(* The queue.                                                              *)

Rows == (trimmed + 1) .. lastSequence
Unconfirmed == (confirmedSequence + 1) .. lastSequence
NextUpload == IF Unconfirmed = {} THEN None ELSE confirmedSequence + 1

(* INSERT the n operations ops at the end of worker_outbox.                *)
Enqueue(n, ops) ==
    /\ lastSequence' = lastSequence + n
    /\ outbox' = [q \in (trimmed + 1) .. (lastSequence + n) |->
                    IF q <= lastSequence THEN outbox[q] ELSE ops[q - lastSequence]]

(* Mutant of ResetQueue: the key's counter is not reset with the rows.     *)
ResetQueueKeepsCounter(stream) ==
    /\ streamId' = stream /\ confirmedSequence' = 0 /\ trimmed' = 0
    /\ lastSequence' = lastSequence
    /\ outbox' = [q \in 1 .. (lastSequence - trimmed) |-> outbox[trimmed + q]]

(* reset_queue: the rows are copied out and inserted again, so they are    *)
(* numbered from 1 in the new stream, acknowledged chunks included.        *)
ResetQueue(stream) ==
    /\ streamId' = stream
    /\ confirmedSequence' = 0
    /\ trimmed' = 0
    /\ lastSequence' = lastSequence - trimmed
    /\ outbox' = [q \in 1 .. (lastSequence - trimmed) |-> outbox[trimmed + q]]

----------------------------------------------------------------------------
(* save_batch: what a changed session puts in the queue.                   *)

Kept(old, new) ==
    Cardinality({k \in DOMAIN old : k <= Len(new) /\ \A i \in 1 .. k : old[i] = new[i]})

(* Mutant of DeltaBase: the base is described by the part it keeps.        *)
DeltaBaseOfKept(previous, c) ==
    IF previous \in Captures /\ Kept(previous.messages, c.messages) > 0
    THEN [keep |-> Kept(previous.messages, c.messages),
          previous |-> SubSeq(previous.messages, 1, Kept(previous.messages, c.messages))]
    ELSE None

DeltaBase(previous, c) ==
    IF previous \in Captures /\ Kept(previous.messages, c.messages) > 0
    THEN [keep |-> Kept(previous.messages, c.messages),
          previous |-> previous.messages]
    ELSE None

ContentChanged(s, c) ==
    sent[s] \in Captures => sent[s].messages # c.messages
TitleChanged(s, c) == sent[s] \in Captures /\ sent[s].title # c.title
NeedsSnapshot(s, c) ==
    ~ContentChanged(s, c) => (TitleChanged(s, c) /\ c.title \in LargeTitles)

Snapshot(t, n, s, base, c) ==
    [k \in 1 .. n + 1 |-> IF k <= n THEN Chunk(t, k - 1) ELSE Commit(t, n, s, base, c)]

EnqueueSnapshot(s, c, n) ==
    Enqueue(n + 1, Snapshot(<<streamId, lastSequence + 1>>, n, s, DeltaBase(sent[s], c), c))

SaveSession(s, c, n) ==
    /\ \/ NeedsSnapshot(s, c) /\ EnqueueSnapshot(s, c, n)
       \/ /\ ~NeedsSnapshot(s, c) /\ TitleChanged(s, c)
          /\ Enqueue(1, <<Metadata(s, c.title)>>)
       \/ /\ ~NeedsSnapshot(s, c) /\ ~TitleChanged(s, c)
          /\ UNCHANGED <<lastSequence, outbox>>
    /\ sent' = [sent EXCEPT ![s] = c]

----------------------------------------------------------------------------
(* Rescan progress.                                                        *)

RescanProgress ==
    [id : TaskIds, pending : SUBSET Agents, target : Nat \cup {None}, failed : BOOLEAN]


(* COALESCE(MAX(sequence), confirmed_sequence) after this batch's inserts. *)
RescanTarget == IF trimmed < lastSequence' THEN lastSequence' ELSE confirmedSequence

AgentComplete(a) ==
    IF rescan # None /\ ~rescan.failed /\ rescan.target = None
    THEN LET left == rescan.pending \ {a}
         IN  rescan' = Progress(rescan.id, left,
                                IF left = {} THEN RescanTarget ELSE None, FALSE)
    ELSE UNCHANGED rescan

NoSource == [known |-> [s \in {} |-> None], complete |-> FALSE]
Known(src, s) == IF s \in DOMAIN src.known THEN src.known[s] ELSE None
WithKnown(known, s, f) ==
    [x \in DOMAIN known \cup {s} |-> IF x = s THEN f ELSE known[x]]

Pages(a) == [session : {s \in Sessions : AgentOf[s] = a},
             capture : Captures, fingerprint : Fingerprints]

(* One page of one agent.  A page holds up to 64 sessions in the code and  *)
(* at most one here; a longer page is a run of these with no other action  *)
(* between them.  batch.removed is not read: the Hub keeps history.        *)
SaveBatch(a, page, n, complete) ==
    /\ IF page = None
       THEN UNCHANGED <<lastSequence, outbox, sent>>
       ELSE SaveSession(page.session, page.capture, n)
    /\ sources' = [sources EXCEPT ![a] =
                     [known |-> IF page = None THEN @.known
                                ELSE WithKnown(@.known, page.session, page.fingerprint),
                      complete |-> complete]]
    /\ IF complete THEN AgentComplete(a) ELSE UNCHANGED rescan
    /\ UNCHANGED <<streamId, confirmedSequence, trimmed, recovery, binding, pauseSaved>>

----------------------------------------------------------------------------
(* The other writers of worker.db.                                         *)

(* Mutants of Acknowledge: a receipt ahead of its turn is taken; a chunk's *)
(* row is deleted with its receipt.                                        *)
AcknowledgeOutOfTurn(stream, sequence, op) ==
    /\ stream = streamId
    /\ sequence > confirmedSequence
    /\ outbox[sequence] = op
    /\ confirmedSequence' = sequence
    /\ IF op.kind = "chunk"
       THEN UNCHANGED <<trimmed, outbox>>
       ELSE /\ trimmed' = sequence
            /\ outbox' = [q \in (sequence + 1) .. lastSequence |-> outbox[q]]
    /\ UNCHANGED <<streamId, lastSequence, recovery, rescan, binding, sessionVars, pauseSaved>>
AcknowledgeDeletesChunk(stream, sequence, op) ==
    /\ stream = streamId
    /\ sequence > confirmedSequence
    /\ sequence = NextUpload
    /\ outbox[sequence] = op
    /\ confirmedSequence' = sequence
    /\ trimmed' = sequence
    /\ outbox' = [q \in (sequence + 1) .. lastSequence |-> outbox[q]]
    /\ UNCHANGED <<streamId, lastSequence, recovery, rescan, binding, sessionVars, pauseSaved>>

(* acknowledge: a receipt of another stream, or one that matches nothing   *)
(* pending, is an error (the process stops) and changes nothing.           *)
Acknowledge(stream, sequence, op) ==
    /\ stream = streamId
    /\ sequence > confirmedSequence
    /\ sequence = NextUpload
    /\ outbox[sequence] = op
    /\ confirmedSequence' = sequence
    /\ IF op.kind = "chunk"
       THEN UNCHANGED <<trimmed, outbox>>
       ELSE /\ trimmed' = sequence
            /\ outbox' = [q \in (sequence + 1) .. lastSequence |-> outbox[q]]
    /\ UNCHANGED <<streamId, lastSequence, recovery, rescan, binding, sessionVars, pauseSaved>>

(* Mutant of PrepareRecovery: rescan progress is kept.                     *)
PrepareRecoveryKeepsRescan(epoch) ==
    IF recovery # None /\ recovery.epoch = epoch
    THEN UNCHANGED workerVars
    ELSE LET previous == IF recovery = None THEN streamId ELSE recovery.previousStream
         IN  /\ recovery' = Recovery(epoch, previous, streamId + 1)
             /\ ResetQueue(streamId + 1)
             /\ UNCHANGED <<rescan, binding, sessionVars, pauseSaved>>

(* prepare_recovery: idempotent for one epoch; for a newer epoch it keeps  *)
(* the oldest previous stream, the one the Hub may still own.              *)
PrepareRecovery(epoch) ==
    IF recovery # None /\ recovery.epoch = epoch
    THEN UNCHANGED workerVars
    ELSE LET previous == IF recovery = None THEN streamId ELSE recovery.previousStream
         IN  /\ recovery' = Recovery(epoch, previous, streamId + 1)
             /\ ResetQueue(streamId + 1)
             /\ rescan' = None
             /\ UNCHANGED <<binding, sessionVars, pauseSaved>>

FinishRecovery ==
    /\ recovery # None
    /\ binding' = recovery.epoch
    /\ recovery' = None
    /\ UNCHANGED <<queueVars, rescan, sessionVars, pauseSaved>>

Scope(agents) == IF agents = {} THEN Enabled ELSE agents
Unavailable(agents) == Scope(agents) \ (Enabled \ Outdated)
SameTask(id) == rescan # None /\ rescan.id = id

(* begin_rescan: forget what was sent, so that everything in scope is read *)
(* and sent again in full.  A task already begun is not begun again.       *)
(* Mutant of Forget: the source's fingerprints are kept.                   *)
ForgetSentOnly(agents) ==
    IF Unavailable(agents) = {}
    THEN /\ UNCHANGED sources
         /\ sent' = [s \in Sessions |->
                       IF AgentOf[s] \in Scope(agents) /\ sent[s] # None
                       THEN Cleared ELSE sent[s]]
    ELSE UNCHANGED sessionVars

Forget(agents) ==
    IF Unavailable(agents) = {}
    THEN /\ sources' = [a \in Agents |-> IF a \in Scope(agents) THEN NoSource
                                         ELSE sources[a]]
         /\ sent' = [s \in Sessions |->
                       IF AgentOf[s] \in Scope(agents) /\ sent[s] # None
                       THEN Cleared ELSE sent[s]]
    ELSE UNCHANGED sessionVars

BeginRescan(id, agents) ==
    /\ ~SameTask(id)
    /\ rescan' = Progress(id, Scope(agents), None, Unavailable(agents) # {})
    /\ Forget(agents)
    /\ UNCHANGED <<queueVars, recovery, binding, pauseSaved>>

SetPause(paused) ==
    /\ pauseSaved' = paused
    /\ UNCHANGED <<queueVars, recovery, rescan, binding, sessionVars>>

(* Mutant of Rebind: a new pairing starts with an empty queue.             *)
RebindEmpty(epoch) ==
    /\ recovery' = Recovery(epoch, streamId, streamId + 1)
    /\ streamId' = streamId + 1 /\ confirmedSequence' = 0 /\ trimmed' = 0
    /\ lastSequence' = 0 /\ outbox' = [q \in 1 .. 0 |-> None]
    /\ rescan' = None
    /\ binding' = epoch
    /\ pauseSaved' = FALSE
    /\ UNCHANGED sessionVars

(* rebind: explicit pairing of a Worker that was paired before.            *)
Rebind(epoch) ==
    /\ recovery' = Recovery(epoch, streamId, streamId + 1)
    /\ ResetQueue(streamId + 1)
    /\ rescan' = None
    /\ binding' = epoch
    /\ pauseSaved' = FALSE
    /\ UNCHANGED sessionVars

(* adopt_local_history: a Worker beside the Hub takes over the Hub's own   *)
(* sessions as already collected, with no hash of what the Hub holds.      *)
AdoptLocalHistory(epoch, held, state) ==
    /\ epoch = binding
    /\ NextUpload = None /\ recovery = None
    /\ sent' = [s \in Sessions |-> IF s \in held THEN Cleared ELSE None]
    /\ sources' = state
    /\ UNCHANGED <<queueVars, recovery, rescan, binding, pauseSaved>>

----------------------------------------------------------------------------
WorkerInit(epoch) ==
    /\ streamId = 0
    /\ confirmedSequence = 0
    /\ trimmed = 0
    /\ lastSequence = 0
    /\ outbox = [q \in 1 .. 0 |-> None]
    /\ recovery = None
    /\ rescan = None
    /\ binding = epoch
    /\ sent = [s \in Sessions |-> None]
    /\ sources = [a \in Agents |-> NoSource]
    /\ pauseSaved = FALSE

(* The store on its own, driven by any caller.                             *)
AnyBatch == \E a \in Agents, n \in ChunkCounts, complete \in BOOLEAN :
    \E page \in Pages(a) \cup {None} : SaveBatch(a, page, n, complete)
AnyReceipt == \E q \in Unconfirmed : Acknowledge(streamId, q, outbox[q])
AnyRecovery == \E epoch \in Epochs : PrepareRecovery(epoch)
AnyRescan == \E id \in TaskIds, agents \in SUBSET Agents : BeginRescan(id, agents)
AnyPause == \E paused \in BOOLEAN : SetPause(paused)
AnyRebind == \E epoch \in Epochs : Rebind(epoch)
AnyAdoption == \E held \in SUBSET Sessions, state \in [Agents -> AdoptedStates] :
    AdoptLocalHistory(binding, held, state)

WorkerNext ==
    \/ AnyBatch \/ AnyReceipt \/ AnyRecovery \/ FinishRecovery
    \/ AnyRescan \/ AnyPause \/ AnyRebind \/ AnyAdoption

WorkerSpec == WorkerInit(0) /\ [][WorkerNext]_workerVars

----------------------------------------------------------------------------
(* Type invariant.                                                         *)
WorkerTypeOK ==
    /\ streamId \in Nat /\ confirmedSequence \in Nat
    /\ trimmed \in Nat /\ lastSequence \in Nat
    /\ outbox \in [Rows -> Operations]
    /\ recovery \in [epoch : Epochs, previousStream : Nat, newStream : Nat] \cup {None}
    /\ rescan \in RescanProgress \cup {None}
    /\ binding \in Epochs
    /\ sent \in [Sessions -> Captures \cup {None, Cleared}]
    /\ sources \in [Agents -> SourceStates]
    /\ pauseSaved \in BOOLEAN

(* The watermark lies inside the queue and only chunks stay below it, so   *)
(* acknowledging never strands a row the Hub has not applied.              *)
WatermarkInQueue ==
    /\ trimmed <= confirmedSequence /\ confirmedSequence <= lastSequence
    /\ \A q \in Rows : q <= confirmedSequence => outbox[q].kind = "chunk"

(* Every stored snapshot is whole: chunk 0 first, consecutive chunks of    *)
(* one transfer, then its commit.  This is what lets reset_queue renumber  *)
(* the rows and replay them to a Hub that has forgotten every chunk.       *)
ChunkFits(row, lo, hi, q) ==
    /\ q < hi
    /\ row[q + 1].kind \in {"chunk", "commit"}
    /\ row[q + 1].transfer = row[q].transfer
    /\ row[q + 1].kind = "chunk" => row[q + 1].index = row[q].index + 1
    /\ row[q].index > 0 => q > lo /\ row[q - 1].kind = "chunk"
CommitFits(row, lo, q) ==
    /\ q > lo
    /\ row[q - 1].kind = "chunk"
    /\ row[q - 1].transfer = row[q].transfer
    /\ row[q - 1].index + 1 = row[q].chunks
Whole(row, lo, hi) ==
    \A q \in lo .. hi :
        /\ row[q].kind = "chunk" => ChunkFits(row, lo, hi, q)
        /\ row[q].kind = "commit" => CommitFits(row, lo, q)
WholeTransfers == Whole(outbox, trimmed + 1, lastSequence)

(* A completion target always lies in the current stream's numbering: a    *)
(* target kept across a renumbering would be reached too early or never.   *)
TargetInStream ==
    rescan # None /\ rescan.target # None =>
        rescan.pending = {} /\ ~rescan.failed /\ rescan.target <= lastSequence

(* The queue ends, for every session with a known sent state, in that      *)
(* state; and each queued delta is based on what the operation before it   *)
(* for the same session leaves, so in-order delivery applies every one.    *)
OpsOf(s) == {q \in Rows : outbox[q].kind # "chunk" /\ outbox[q].session = s}
CommitsOf(s) == {q \in OpsOf(s) : outbox[q].kind = "commit"}
IsLast(q, S) == q \in S /\ \A r \in S : r <= q
SentIsQueued ==
    \A s \in Sessions : sent[s] \in Captures =>
        /\ \A q \in CommitsOf(s) : IsLast(q, CommitsOf(s)) =>
             outbox[q].capture.messages = sent[s].messages
        /\ \A q \in OpsOf(s) : IsLast(q, OpsOf(s)) =>
             (IF outbox[q].kind = "commit" THEN outbox[q].capture.title
              ELSE outbox[q].title) = sent[s].title
DeltaChain ==
    \A s \in Sessions : \A p, q \in CommitsOf(s) :
        /\ outbox[q].base # None
        /\ IsLast(p, {r \in CommitsOf(s) : r < q})
        => outbox[q].base.previous = outbox[p].capture.messages

(* What is queued is current and can be applied in order.                  *)
QueueCurrent == SentIsQueued /\ DeltaChain

(* No step loses an unacknowledged operation: afterwards the unconfirmed   *)
(* part of the queue ends in what it held before, less the one operation   *)
(* acknowledged in the step, with newly queued operations after it.        *)
Shift == IF streamId' = streamId THEN 0 ELSE trimmed
NothingDropped ==
    [][\A q \in Unconfirmed :
         \/ q - Shift \in Unconfirmed' /\ outbox'[q - Shift] = outbox[q]
         \/ streamId' = streamId /\ q = confirmedSequence + 1 /\ confirmedSequence' = q]_workerVars
============================================================================
