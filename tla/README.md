# Verification of codesesh

codesesh collects the session histories of coding agents on one machine or on
many.  A *Worker* reads the agents' files on its machine and uploads them to a
*Hub*, which archives them and serves a web interface; a *standalone* program
does both halves on one machine.  This directory holds TLA+ models of the parts
of that program in which order, failure and restarts matter, the configurations
that model-check them, and proofs about them.

    tlc -workers 2 -config SyncRestore.cfg MCSync     # one run
    tlapm DeliveryProofs.tla                          # one module of proofs

Paths are below `src/crates/codesesh-core/src` or `src/crates/codesesh-cli/src`.
`PROJECT.json` lists the components, the runs, the lines each definition models,
and the hazards of the code with the properties that cover each.

## 1. The system and its modules

| Component | Source | State | Module |
|---|---|---|---|
| Sync protocol | `sync/protocol.rs`, `sync/hub_types.rs` | none; operations, requests, answers | `Protocol` |
| Worker store | `sync/worker_store.rs`, `worker_store/` | `worker.db`: upload queue, watermark, stream, recovery, rescan progress, what was sent and read | `WorkerStore` |
| Worker scanning | `worker/scanning.rs`, `discovery/incremental.rs` | one scan at a time, a schedule per agent | `Scanning` (extends `WorkerStore`) |
| Hub store | `storage/hub/receive.rs`, `tasks.rs`, `control.rs` | `codesesh.db`: node row, chunks, sessions, bases, orphans, tasks | `HubStore` |
| Worker loop and handlers | `worker.rs`, `http/sync.rs` | the loop's flags, requests under way | `Sync` (composes `Scanning`, `HubStore` and the network) |
| What synchronization promises | | an ordered queue and a copy | `Delivery` (abstract) |
| Pairing, credentials, leases | `storage/hub/control.rs`, `local.rs`, `http/sync.rs`, `worker.rs` | tokens, `hub_nodes`, the registry `hub-control.db`, instances | `Pairing` |
| Agent scanner and backfill | `discovery/incremental.rs`, `backfill.rs` | base, fingerprints, the plan of a first scan | `AgentScanner` |
| Runtime | `runtime.rs`, `runtime/writer.rs`, `status.rs`, `storage/reprice.rs` | a loop, a token and a request per agent; permits; the writer's channel; the status | `Runtime` (composes scanners, writer and pricing task) |
| File watcher | `runtime/watcher.rs` | watches, a backlog of events | `Watcher` |
| Session cache | `storage.rs`, `storage/*`, `search_text.rs`, `discovery/json_scan.rs` | sessions, messages, search index, inventory | `SessionCache` |
| Cache schema | `storage/schema.rs`, `body.rs`, `cache_open.rs` | version, one-time passes | `CacheSchema` |
| Prices | `pricing/`, `pricing_refresh.rs` | the published table, the cached file | `Pricing` |
| Parsers | `agents/claudecode`, `agents/codex`, `agents/opencode`, `agents/cursor` | checkpoints, snapshots, fingerprints of rows | `Transcript`, `ClaudeTranscript`, `CodexRollout`, `OpenCodeSync`, `CursorSync` |
| Session list | `session_list/`, `http` | retained lists of clients | `SessionList` |
| Events | `http/events.rs`, `event_buffer.rs` | a buffer per stream, permits | `EventStream` |
| Data migration | `data_migration/`, `migration.rs` | a journal, files in two places | `DataMigration` |
| Services | `main.rs`, `service/`, `node_identity.rs` | locks, the enabled mark, units | `Services` |
| Logging | `logging.rs`, `logging/writer.rs` | a bounded queue, a shared directory | `Logging` |

`MCWorkerStore`, `MCScanning`, `MCCollecting`, `MCSync`, `MCRuntime`,
`MCPairing`, `MCPrograms`, `MCServing` and `MCData` are instances for TLC;
`WorkerStoreProofs`, `QueueProofs`, `ScanningProofs`, `SyncProofs`,
`HubStoreProofs`, `DeliveryProofs`, `PairingProofs` and `RuntimeProofs`
hold the proofs.

Operators such as `ResetQueueKeepsCounter` or `ReportedAlways`, which no action
uses, are plausible bugs.  They stand next to the definition they would replace
and show that a property can fail.

**How the parts interact.**  The Worker is one process with one loop.  Each
round does, in this order: if it is time for a handshake, post a pending
recovery or say hello; tick the scanner; upload the next operation and read its
receipt.  The scan itself runs on a blocking thread and is collected by a later
tick.  What must survive a crash is in `worker.db`, each change one SQLite
transaction.  The Hub serves each request in one transaction.  The two sides
share the *stream* (a numbering of the queue, replaced at each recovery), the
*watermark* (the last operation applied, or known to be applied) and the *data
epoch* (replaced when the Hub's files are restored from a backup).

The program that serves the web interface also collects the agents of its own
machine, with the other half of the code, the runtime.  One asynchronous loop
per agent is woken by the watcher or by `refresh_all`, takes what it was told
(`take_pending`) and reads the source page by page: it gets a permit, runs the
scanner on a blocking thread, sends the batch to the writer over a bounded
channel, perhaps reads the next page meanwhile, and waits for the writer's
answer.  Only the writer changes the database.  What it publishes goes, through
a broadcast, to the event streams and the session lists of browsers.

**What is hard.**  Acknowledgements are lost, requests repeated, and a first copy
served late, in another stream.  The Hub goes back to an older database, without
operations the Worker saw confirmed and no longer has.  Sessions are sent as
deltas, so a lost operation is not repaired by the next.  A recovery is a
two-party transaction whose messages can be lost, and a second restore can fall
into it.  A node is kept in two databases of which only one is restored.  Pages
are read ahead of the commit of the page before; prices move while a batch
waits.  Files are read while other programs write them.  Several programs share
one directory of locks, logs and caches, and each may be killed between two
steps.

## 2. Correspondence with the code

*Worker store.*  `outbox` maps the stored keys `trimmed+1 .. lastSequence` of
`worker_outbox`; `confirmedSequence` is the watermark.  `Acknowledge` advances
it by one, keeps the row of a chunk and, for a commit or metadata, deletes all
rows up to it.  `ResetQueue` is `reset_queue`: rows are copied out and inserted
again, hence numbered from 1.  `sent[s]` is the row of `worker_sessions`: what
was last queued, `Cleared` where `begin_rescan` has overwritten its digests.
`SaveBatch` is one page with at most one session; the code's page of up to 64
is a run of them.  `batch.removed` is ignored by the Worker: the Hub keeps the
history of deleted files.

*Scanning.*  `scan` is `Scanning.pending` with the page its thread will return,
`round` the inventory a scanner works through, `changed` the watcher's marks,
`again` the schedule's `unfinished || failed`.  The five seconds between scans
of an agent are left out: a scan may start as soon as it is due.  `ScanSpec` is
collection alone, with the Hub's instructions arriving at any moment.

*Hub store.*  Each action is one transaction; the operators `...Refusal` name
the `ensure!` that rolls it back.  A commit carries the capture, chunks are
counted, and a delta is applied by the cut and append (`Received`) the code
performs on the stored copy.  Restoring a backup always comes with the rotation
of the epoch, as the guide prescribes.

*Sync.*  `awaited` is the loop's one outstanding request, `answer` the reply on
its way, `late` abandoned requests the Hub may still serve.  `Busy` stands for
every answer other than 2xx, 401 and 409; `HubLeased` is a 409 because an
earlier process of the Worker still holds the lease.  `Lose` is a time-out or a
broken connection, before or after the Hub served the request.  `Crash` is the
Worker's process; a crash of the Hub is a lost answer or a rollback.

*Pairing.*  A request is handled in two visits to the database: one
authenticates and claims the lease, a later one authenticates again and applies
it.  Tokens, their results and leases count down.  A start of the Hub
(`initialize_hub`) brings the rows of both databases together; a crash may
separate any two writes to them.

*Agent scanner and runtime.*  `memory[a]` is the `AgentScanner` behind its lock.
A refresh is two steps, `List` and `Read`, because files change in between.
An action of a loop lasts from one `await` to the next.  `pending` and `flagged`
are the `watch` channel and `has_changed`; `free` the semaphore; `queue` the
writer's channel; `reply` the oneshot of a publication.  `Cancel` and `Tell` are
the halves of `invalidate` as `refresh_all` calls it.  `PublishFails` rolls back,
`CommittedThenFails` fails after the commit.

*Cache.*  Every transaction of `storage.rs` is an action.  A message is its body,
a digest the sequence it was computed from; rows of messages are reused where
the digests agree, and the index answers for rows.  A program run with `--json`
prices what it writes with the table it started with, whatever the hub uses by
then.  `outdated` and `client.rewritten` are histories that only properties read.
`CacheSchema` opens a cache of any version: backup, migration, then passes in
batches.

*Parsers.*  `Feed` and `FeedPartial` are the parsers line by line;
`Checkpointed` resumes one.  `OpenCodeSync` and `CursorSync` compare fingerprints of
rows: `Refreshed` is a refresh, `ScannedPage` a page of the history, `dirty` what may
not be read yet.  The properties compare with a parse from nothing.  In
`CodexRollout` messages and counts name their model, for tokens go only to a
message without any or of the same model; the price tier and the nickname of a
subagent are left out.  In `OpenCodeSync`, `lost` is a history of the sessions
that were last published without being decoded after something the snapshot does
not remember.

*Services.*  A process is at the last step it took.  `mode_lock` is two steps under
`mode-switch.lock`: `ModeSwitch` waits for that lock and looks for the marks of
enabled services, `ModeLock` tries the other mode's lock.  A start is `Configure`,
`NativeStart`, `Enable` and `EndStart`: the mark is written without
`mode-switch.lock`, and the command's locks end with it, after the status was
watched.  `restart` is a stop and then a start in one process and is not modelled
apart from them.

*Watcher, logging, data migration, events, list.*  One action per
system call or critical section that others can come between; each module's
header says what its variables stand for.  `DataMigration` merges a few saves
of the journal with the step they record.

### Abstractions

- Digests and digest chains are injective; a digest is the value it digests.
- The last 64 bytes of a line, by which a parser finds out whether a file was
  appended to, tell it from every other line.
- A fresh UUID is a fresh value: streams are numbered, a transfer is named by
  the stream and position of its first chunk, tasks by epoch and position.
- File fingerprints change with the content.  In the runtime a file's content
  and fingerprint are one version from a clock that never repeats.
- The event of the Worker's watcher arrives with the change; the runtime's may
  come later or lose the paths.  `Watcher` has its details.
- `check_compatibility` is its outcome.
- `BATCH_SIZE` is `PageSize` = 1 and the writer's channel of 16 is
  `QueueLimit` = 2; the log queue, the buffers of streams and the retained lists
  are likewise a few entries.
- The cost of a session with stored inputs is the table it was priced with.
- Rounding, texts, models' details, timestamps for display and layout are left out.

## 3. What the runs check

Properties that belong together are conjunctions of named parts; the parts are
defined, with what they mean, in the component's module.

`worker_store` (`MCCollecting`): in part `store`, any sequence of calls of the
Worker's store; in part `scan`, collection with every interleaving.
- `CollectTypeOK`, `WatermarkInQueue`: types; only chunks are kept below the
  watermark.
- `WholeTransfers`: every stored snapshot has all its chunks, acknowledged ones
  too.  A renumbered queue without one would be refused for good.
- `QueueCurrent` = `SentIsQueued` (what is believed sent is where the queue ends)
  and `DeltaChain` (each delta builds on what the commit before it leaves).
- `TargetInStream`: a rescan's target is in the stream's numbering.
- `RoundsAreHonest` = `KnownMeansSent` (what is recorded as read was queued) and
  `ClearedMeansUnfinished` (no agent is complete that owes a session).
- `NothingDropped`: no step loses an unacknowledged operation.
- `CollectionCompletes`: everything is collected in the end and rescans end.

`sync_restore` and `sync_retry` (`MCSync`): Worker and Hub together.
- `HubStateOK`: the Hub's tables are well formed, and a state it lets a delta
  build on is the state it has archived (`BasesExact`).
- `Watermarks`: agreeing on the epoch, they agree on the stream, and the Hub is
  at the Worker's watermark or one ahead.
- `NoRefusal`: an upload the Worker waits for is refused only if the Hub's data
  were replaced meanwhile or its version is not supported.  A refusal would come
  again with the same upload.
- `NoSilentDivergence`: where the Hub's copy differs from what the Worker counts
  as delivered, a task not yet begun will resend it.
- `TasksHonest` = `CompletedIsDelivered` (a task reported complete has delivered
  what it was to have resent) and `EndedStaysEnded`; `TaskIdsUnique`.
- `ImplementsDelivery`: the refinement of `Delivery`.  `queue` is mapped to the
  operations the Hub has not applied, `copy` to the Hub's sessions.  Each
  operation takes effect in order and once; a restored Hub has at most the
  chunks of an unfinished snapshot and the last operation queued again.  What it has
  of the sessions is an older copy; `Delivery` allows any.
- `Converges`: the Hub ends up with the newest content, and every task ends.

`pairing`: `TablesSound` (types; both databases agree on revocation and name
while the Hub serves), `GrantsSound` (one credential per token and epoch, for
what the token was made for), `RetiredStaysRetired`, `WritesAreCurrent` (a write
was sent with the credential its node has now; with the run's queue of one entry
the half about streams is left to the theorem `WritesStayCurrent`), `LeaseIsKept`, and
`LeaseObtained`: a Worker that keeps trying alone gets its lease.

`runtime_alone`: one agent.  `RuntimeStateOK` (types, and an agent in one list of
the status at most); `StoredIsHonest` (what a checkpoint or fingerprint lets a
scan skip is stored); `NewsIsRead` (at rest nothing told of is unread);
`PricesApplied` (nothing is stored with an older table than the one marked as
applied); `RestsInTheEnd` (the runtime comes to rest, and a missing directory
loses nothing).

`programs` (`MCPrograms`): two agents of the runtime and one permit, or the programs
of one machine, in any order and interleaving of their checks, locks and marks.
- `PermitsAccounted`: every permit is free or held by one round.  `StopsInTheEnd`:
  a shutdown ends every task, whenever it comes.
- `ServicesCorrect` = `ModesCorrect` and `StopsAndRecovers`.
- `ModesCorrect` = `ModesExclusive` (standalone and distributed programs never
  work at the same time), `OneCollector` (one program at a time reads the sessions
  once `worker.db` exists) and `NoneEnabledBeside` (no service is enabled beside a
  standalone program at work).
- `StopsAndRecovers` = `StopIsFinal` (a stopped service stays stopped) and
  `ServiceRecovers` (a failed one comes back).

`serving`: `StreamCorrect` (bounded buffers, no milestone lost, a client that has
caught up is current, permits come back), `LogCorrect` (records in order or
counted as dropped, the least severe first; whole lines; a bounded directory;
honest flushes), `PricesCorrect` (names find their price, commits are current, a
restart keeps prices, new ones arrive).

`data`: `TranscriptsExact` and `DatabaseExact` (what is read in part equals what is
read from nothing, or in `CursorSync` would be after one more refresh; a body that
OpenCode's refresh leaves out is missing for one of two named reasons and comes
back with the session's next change),
`CacheExact` (index, cursors, snapshot, inventory and the mark of prices agree
with what was published, except for cursors of a repricing that the session was
written after, and the costs of sessions that an outdated `--json` program priced
last: both fail in the code, see section 5), `WatchesSound` (watches stand where they should, and
a change is told of or known to be missed), `CachesOpen` (a cache is ready once
open, and what an older program stored is kept and read again), `ListCorrect`
(families are whole and the pages of a list are of one list), `MoveCorrect` (no
move loses a file).

### Findings

- `scan_watched`: `scanning.rs:237` clears an agent's mark before each page, but
  only the first page of a round makes an inventory.  A change made between two
  pages is forgotten until the agent's next change.
- `runtime_refresh`: `refresh_all` between the writer's commit of a page and the
  loop's look at `has_changed`, with no page read ahead.  The cancelled round
  takes the request for itself, then notices that it is cancelled and waits.
- `runtime_rescan`: a notification without paths in mid-plan adds nothing to the
  plan (`incremental.rs:344`), so what it stood for stays unread.
- `runtime_readahead`: page n+1 is read ahead of the commit of page n.  If that is
  refused, dropping its batch tells the scanner to go back, but a scan that has
  begun by then has already looked (`incremental.rs:214`); and if reading page n+1
  fails too, its plan stays (`incremental.rs:415`), behind page n, and no batch is
  there to be dropped (`runtime.rs:618`).  The next round commits a checkpoint that
  skips files that were never stored.

The passing runs leave out what these need, by name: no watcher in
`worker_store`; one fault at most in a scope of `runtime_alone` that looks at
`StoredIsHonest`; no new prices where `NewsIsRead` looks at the status; the ghost
`ignored` for requests that fell into a plan; the histories `lost`, `outdated` and
`client.rewritten` for what section 5 says of OpenCode's refresh and of the cache.  (`sync_*` do watch files; an edit
forgotten there is never counted as delivered.)

### Bounds

Bounds limit what the environment does, and how often the program is asked to do
something; when they are used up the behaviour goes on.  No bound takes a branch
from the code, with two exceptions.  `together` of `CacheSchema` says whether two
programs may migrate one cache at once, which can fail (section 5).  `careful` of
`DataMigration` says when an older program still writes: never between the check
of a file and its removal (`data_migration.rs:436`), where nothing could notice it.
- `worker_store`: one session of three contents, chunks 1 or 2, 4 rows (a
  snapshot and a delta on it, or a snapshot of two chunks and metadata), one
  replaced stream; for collection two agents, three sessions, three edits and one
  instruction.
- `sync_restore` takes one of four limits (`RestoreOrFaults`): two edits and two
  restores; two edits, with renames, and one restore; one edit, two faults and
  a task that may be cancelled; the same with one fault and a Hub of another
  version for a while.  Two restores are needed for a recovery within a
  recovery, two faults for a request lost, repeated and lost again while the
  first copy is served late.  `sync_retry`: two edits, a restore and a fault.
- `runtime_alone` takes one of five scopes: a history of three pages with an edit,
  an overflow, a failure and a restart; two with a new price table and an edit,
  or a directory that goes away; one that comes and changes, with fairness; and one
  that is shut down.
  Three pages are the least with one before, at and after the one read ahead.
- `pairing` takes one of four bounds: two tokens with a fault or one more start;
  one Worker with a restore; both Workers, one token, a restore and two faults.
- `programs`: two agents, one permit, a failure; or three
  processes of one machine: standalone, `--json`, foreground and service programs and
  the commands, three starts and up to two crashes.
- `serving` and `data`: the scopes are listed in the MC modules, each
  with the case it is for.

### Fairness

The Worker's loop visits handshake, tick and upload in each round and the
handshake recurs every 15 seconds: strong fairness of `SendHello`, `SendUpload`
and `Collect`, each of which is disabled while another waits for its answer;
weak fairness of `SendRecover`, of the Hub's serving and of reading the answer.
Collection is weakly fair in `Work` (a tick) and `Resume`.  In the runtime every
loop, scan, the writer, the watcher and the pricing task are weakly fair: tasks
and threads of their own on a fair semaphore and channel.  The same for the log
writer and the tasks of a stream.  In `Services` each process is weakly fair on its
own, and so is the service manager; a program in the foreground may work for ever.  The refresh of prices is strongly fair, as it recurs.
Faults, edits, restores, users and crashes are not fair.  Liveness of `Sync` is
checked without cancelled tasks and with compatible versions.

Configurations say `CHECK_DEADLOCK FALSE` where a program with nothing to do
waits: the runtime, pairing, programs, serving, data, and `ScanWatched`.

## 4. What is proved

For any sets of agents, sessions, contents, Workers and nodes that satisfy the
named assumptions, and any number of edits, restores, faults and requests.

| Module | Theorem | States |
|---|---|---|
| `WorkerStoreProofs` | `TypeCorrect`, `Watermark`, `Transfers_Whole`, `Targets` | `WorkerTypeOK`, `WatermarkInQueue`, `WholeTransfers`, `TargetInStream` |
| | `QueueDurable` | `NothingDropped` |
| `QueueProofs` | `CurrentQueue` | `QueueCurrent` |
| | `DeltasAreSound` | a delta claims no more than its base and its content share |
| `ScanningProofs` | `CollectionUsesStore` | `ScanSpec => WorkerSpec` |
| | `ScanTypes`, `HonestRounds` | `ScanTypeOK`, `RoundsAreHonest` |
| `SyncProofs` | `NumbersHold`, `WatermarksAgree` | `NumbersInv`, `Watermarks` |
| | `WorkerHolds` | what is proved of store and collection, in `Sync` |
| `DeliveryProofs` | `DeliveryHolds` | `DeliveryInv` |
| | `HubStateHolds`, `TaskIdsStayUnique`, `EndedTasksStayEnded` | `HubStateOK`, `TaskIdsUnique`, `EndedStaysEnded` |
| | `NothingRefused` | `NoRefusal` |
| | `DeliveryImplemented` | `Spec => ImplementsDelivery`, the refinement |
| | `DivergenceHeals` | `NoSilentDivergence`, where nothing is cancelled beside a restore |
| | `CompletedTasksAreDelivered` | `TasksHonest` |
| `PairingProofs` | `PairingHolds` | `PairingInv` |
| | `TablesAreSound`, `GrantsAreSound`, `RetiredCredentialsStayOut` | `TablesSound`, `GrantsSound`, `RetiredStaysRetired` |
| | `WritesStayCurrent`, `LeasesAreKept` | `WritesAreCurrent`, `LeaseIsKept` |
| `RuntimeProofs` | `PermitsHold`, `PricesHold` | `PermitsAccounted`, `PricesApplied` |
| | `ListsStayDisjoint` | `BackfillDisjoint` |
| | `RuntimeStateHolds` | `RuntimeStateOK` |

`HubStoreProofs` holds the lemmas about the Hub's transactions.

**Assumptions.**  `CaptureAssumption`, `AgentAssumption`, `WorkerAssumption`,
`AdoptedAssumption`, `SourceListAssumption`, `SyncAssumption` and
`PairingAssumption` say what the constants are.  `NoneAssumption`,
`NoPageIsNone`, `RefusalAssumption`, `ProgressAssumption` and `NoRowIsNone` say that `None`, which
stands for a missing row or `Option::None`, is no value of the type it stands
beside.  TLC evaluates them in the runs.

**The store** (`IInv`).  None of its four invariants is inductive alone.  That
rows kept below the watermark are chunks holds after an acknowledgement only
because a commit directly follows its chunks; that a renumbered queue is whole
needs the rows below the watermark; that a target lies in the stream needs
`confirmedSequence <= lastSequence`.  Each way of changing the queue (append,
renumber, acknowledge) has a lemma.  `SentIsQueued` and `DeltaChain` are
inductive only together: a new delta's base is what `worker_sessions` says was
sent, and it follows the last queued commit only because that is what that
commit holds.

**Collection** (`ScanInv`).  A page was read when nobody knew what would happen
before it is saved.  `RoundsCover` says that a scan that is still current, or a
round that goes on, covers every session its agent owes: rescans and recoveries
give up rounds that began before them.  `SentExists`, that only what exists was
sent, makes an inventory complete.  Every step of collection is a call of the
store or leaves it alone, so `ScanSpec` implements `WorkerSpec` and inherits what
is proved of it.

**The numbers** (`NumbersInv`).  `Watermarks` alone says nothing of the requests
that are still under way.  The invariant says of each of them, however late,
that a recovery is into the Worker's stream or for an epoch that is over, and
an upload at most the next (`Timely`); of the answer on its way, that what it
says still holds unless the Hub's data were replaced (`AnswerCurrent`); of rows
in use and in backups, that they know no stream the Worker has not begun
(`RowBehind`).  `Goal`, the epoch the Worker is bound to or on its way to, only
grows and never passes the Hub's.

**Delivery** (`DeliveryInv`).  To show that an upload is not refused one needs
what the Hub has at that moment: uploads that may still be served carry the
operation of their row (`RequestsMatch`); of the transfer in the middle of which
the Worker is, the Hub holds what was uploaded, and of others of the stream
nothing (`HeldExact`); it remembers the operation whose receipt is not yet read
(`LastExact`); a stream begins with nothing of it on the Hub (`StreamsBegin`); and
before any recovery a delta or metadata follows a snapshot of its session,
applied or further ahead in the queue (`SnapshotsFirst`), while after one the
Hub asks for what it lacks instead of refusing.

**The refinement.**  `Applied` is the watermark up to which the Hub has the
queue; `AppliedInQueue` says it lies in the queue.  Rows added at the end are
`Submit`; a served upload takes the first of the remaining rows and changes the
copy by `Effect` (`RowTaken`, `Deliver`); a recovery or restore puts back rows that
are still stored, all chunks but one (`RowsPutBack`, `Replay` or `Restore`).  Every
action then has a lemma, `...Implements`, that it is such a step or a stutter.
What the proof needed to know of the Hub's copy corrected the model: the copy
need not be a capture, since after a restore it may combine the messages of one
capture with the title of another (`Contents` in `Protocol`).

**Healing** (`Healing`).  A session in the Hub's copy that is not what the Worker
sent last may be only one that is still to come.  For every session the invariant
has two cases: what was sent comes (`Comes`: the commits that bring it are queued
above the Hub's watermark, the first of them a snapshot or an extension of what the
Hub has), or it is sent again (`Resent`: an open task that covers the session has not
begun at the Worker, which clears what it sent when it begins).  A restored Hub leads
to a recovery, and a recovery to a task for all agents that stays open
(`RecoveryQueued`).  That beginning one task does not lose another's promise needs
that an answer's task is in the table (`TaskListed`) and that the Worker reports only
when both sides agree on epoch and stream (`ReportsBound`).
`DivergenceHeals` asks for no agent that is both enabled and outdated: such an
agent's sessions are never collected.  It also asks that nobody cancels a rescan
where the Hub's data may be restored (`Uncancelled`): the administrator then calls
off what would have healed the copy, and the code does not notice.

**Tasks** (`Fulfils`).  When the Hub completes a task it knows only a report, perhaps
an old one, with the target of the progress at the time.  That the report is about
the task the Worker is at, and not about another of the same name, follows from the
order of the rows: a task is handed out only when none before it is open, no report
under way is about a later row than the Worker's, and an answer hands out that row or
a later one (`InTurn`).  So a task not yet begun has no report, and reports of the one
begun say no more than its progress (`ReportsAgree`).  What was owed when the task was
begun stays known, and is captured before its agent is recorded as complete, because
a round that began before cannot be (`OwedKnown`, from `RoundsCover`).  Since the rows
sent of it were forgotten, what is queued next is a snapshot without a base, no later
than the target, which is the end of the queue when the last agent is done (`Arrives`
in `OwedComes`); a Hub at the target has applied it.  No assumption on cancelling or
restores is needed: a restore changes the epoch, and old reports count for nothing.
The proof corrected the model: `owed` also held what an earlier, cancelled task of
another agent had forgotten, which this task does not promise.

**Pairing** (`PairingInv`).  That a token is not used twice must also hold of the
backup, where it is still there: the epoch a grant belongs to decides
(`TokensUsedUp`).  Every credential in either database, or a backup, was granted
(`CredentialsGranted`); every token row was issued as it says
(`TokensIssued`); a node to be replaced is there (`ReplacementsExist`); an
instance is named by its Worker (`InstancesNamed`), so that two Workers never
share a lease.  `WritesAreCurrent` and `LeaseIsKept` follow action by action.

**The runtime** (`RuntimeProofs`).  `PermitsAccounted` is a count over all agents;
every step of a loop changes that loop alone and moves as many permits as it then
holds more or less (`Moves`), and a set that differs in one element has a
cardinality that differs by one (`CountOne`).  `PricesApplied` is inductive with the
shape of the rows: a batch is accepted only with the current table (`Acceptable`),
and the mark is withdrawn before the table changes.

`RuntimeStateOK` is inductive only with the shape of everything a step hands on
(`TypesInv`): what a scan has listed when its second half runs (`Ready`), the batch
of a scan that has ended, of a loop about to submit and of each queued command, and
the plan in a record of the database, which a restarted scanner takes as its own.
A page takes from the order of an inventory, so the proof needs that this order has
every member in one place (`Ranked`, `OrderedItems`): no two files are of one
version, which `SourcesOK` keeps because each edit takes the next tick of the clock.
This is the model's order by age alone; the code breaks ties by the key.
TLC has checked `TypesInv` on the constants of `runtime_alone` and
`runtime_readahead`.

**Only model-checked.**  Liveness (`CollectionCompletes`, `Converges`,
`LeaseObtained`, `RestsInTheEnd`, `StopsInTheEnd` and the temporal parts of the
suites): the provers at hand cannot reason about fairness.  `StoredIsHonest`: its
first half is not true of more than one fault (`runtime_readahead`).  `NewsIsRead`, the watcher,
the cache, parsers, prices, streams, lists, services, logging and migration.
The parsers are recursive over their input, and what a recursive definition
computes for every input is beyond these provers.

## 5. Met while modelling, checked by no run

- `docs/guides/hub-worker.md:132` says only tasks not handed out can be cancelled;
  `cancel_rescan` ends any active task, and a comment says it does so on purpose.
- `revoke_worker` that is interrupted before `end_active_rescans` leaves the tasks
  of a revoked node active.
- Services: `mode_lock` looks for enabled services, then tries the lock;
  `start_service` writes the mark in between (`service.rs:308`), its command ends,
  and the service still waits for `mode-switch.lock`.  The standalone program works
  while a service is enabled, which the check's message rules out
  (`node_identity.rs:48`), and the service fails until it has ended.
  `ModesExclusive` holds all the same, for it does not rest on the mark, and
  `NoneEnabledBeside` lets a program at work have passed the check before.
- Services: a crash between the use of a token and `service::paired()` leaves the
  `pairing` file, and the service fails at each restart (`worker.rs:182`).
- Watcher: a rename or a removed directory makes the task drop every watch and
  register again; a change in between is told of by nobody (`watcher.rs:132`).  A
  registration that fails at the start ends the program (`watcher.rs:86`); the model
  lets it be idle, as it is after a later failure.  An
  overflow drops the creations of directories and only reconciles.
- Runtime: a plan opened over an empty source while changed paths are told of,
  after a failed first scan, neither advances nor completes until a file appears
  (`incremental.rs:391`).  An agent that failed and then completes in one batch
  stays in `failed_agents` (`status.rs:147`).  A directory that goes away between
  its listing and its reading takes the sessions being read with it.
- Upload: when `publish_changes` fails after the commit of `receive_upload`, the
  repeated upload is answered from the receipt and the snapshot is not refreshed.
- Events: a session moved out of the scope of a query is never reported removed
  (`events.rs:66`).
- OpenCode: with a snapshot whose bodies were released, the sessions above one that
  was deleted are decoded again, but they are found through `base_details`
  (`opencode/incremental.rs:108`), which has the shown sessions only.  After the
  deletion of one that was not shown they are published with new totals and without
  messages, which `opencode/tests.rs:367` expects them to keep.  OpenCode's move from
  the first layout to the second does the same to every session (`:182`).
  `BodiesAreRead` excepts these two cases (`lost`) and no other, and only until the
  session changes itself.
- OpenCode: a page of the history upserts sessions outside its scope whose totals
  changed, without bodies, until their own page comes; `RefreshIsExact` and
  `BodiesAreRead` speak of the sessions just read.
- Cache: a program run with `--json` reprices the cache, and prices its scan, with
  the table it started with (`json_scan.rs:74`), also after the hub has applied and
  marked a later one.  The hub believes its mark, "Every stored cost matches this
  generation" (`reprice.rs:12`), and does not reprice.  `MarkIsHonest` excepts the
  sessions so priced (`outdated`) until they are priced again.
- Cache: writing a session sets its count of repricings to 0, so a cursor
  of an earlier repricing can be accepted after a later one (`read.rs:90`), although
  repricing is to reset cursors (`reprice.rs:324`).  `CursorIsSound` excepts a reader
  whose session was written under such a cursor (`client.rewritten`).
- Cache: two programs that migrate one cache at once can fail (`schema.rs:171`), and
  `--clear-cache` takes no lock (`main.rs:249`).
- Codex: a script's calls need not end with its output, as `parser.rs:600` says,
  for certain lines (`parser.rs:488`).
- Claude Code: an incremental scan takes the links from tools to subagents only
  from the container `subagents`; `scan_changed_as` fails as a whole on a torn
  first line.
- Logging: `prepare` fails if another program prunes a file in between
  (`writer.rs:94`); drops are reported before the entries they precede.
- Prices: with the clock set back at the start, the next download waits; free
  models of a gateway take the maker's price.

## 6. Not modelled

Reading: search, analytics, projects, the catalog and streaming handlers, the
web application and the website.  The other thirteen parsers, which keep no
state between scans.  Adoption and import of history, `update_origin`, the sync
of a Worker beside its Hub, `set_source_ignored`, the rescan tasks of a revoked
node.  The pool of reading connections and the Hub's commands in the writer.
Agents that keep a database or a cursor in `AgentScanner` (`CursorSync` has the
pages of one), files that yield no
session, the progress the status shows.  Polling on macOS, the shutdown of the
watcher and the normalisation of paths.  Facts and file activity in the cache.
Native service definitions, installation, options.  Bookmarks and settings.  The
status `partial`, which occurs only with orphans left after a task.  A restore
without the documented rotation of the epoch.

## 7. What is left

1. `StoredIsHonest` for every value of the constants, once page n+1 is rejected
   with page n.
2. An abstract specification of collecting, a database that follows the files,
   which `Runtime` implements.
