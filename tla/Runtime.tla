------------------------------- MODULE Runtime -------------------------------
(***************************************************************************)
(* codesesh-core/src/runtime.rs: one loop per agent, which is told of      *)
(* changes, runs its scanner on a blocking thread and hands what it read   *)
(* to the SQLite writer thread; runtime/writer.rs: the only thread that    *)
(* changes the database; runtime/status.rs: what the UI is told.           *)
(*                                                                         *)
(* A loop's action lasts from one await to the next.                       *)
(***************************************************************************)
EXTENDS AgentScanner

CONSTANTS
    Concurrency,   \* permits for scans at one time
    QueueLimit,    \* capacity of the writer's channel
    RetainHistory  \* start_hub: sessions are never removed

ASSUME RuntimeAssumption ==
    Concurrency \in Nat \ {0} /\ QueueLimit \in Nat \ {0} /\ RetainHistory \in BOOLEAN

VARIABLES
    pending,   \* what each loop was told: paths, None for everything, and a revision
    flagged,   \* has_changed: told since the loop last looked
    unseen,    \* files that changed and the watcher has not reported yet
    loop,      \* where each agent's loop is
    free,      \* permits left
    queue,     \* commands in the writer's channel
    reply,     \* the writer's answer to each loop's publication
    writer,    \* whether the writer thread runs
    repriced,  \* REPRICED_GENERATION in the database
    pricing,   \* where the pricing task is
    status     \* ScanStatus

runtimeVars == <<pending, flagged, unseen, loop, free, queue, reply, writer, repriced, pricing,
                 status>>
vars == <<scannerVars, runtimeVars>>

----------------------------------------------------------------------------
(* ScanStatus::update and ::published.                                     *)
Active(phases) == \E a \in DOMAIN phases : phases[a] \in {"pending", "scanning", "publishing"}

(* Mutant of Reported: a failure leaves the agent in the backfill list.    *)
ReportedKeeping(st, a, phase) ==
    [st EXCEPT !.phases = (a :> phase) @@ st.phases, !.active = Active((a :> phase) @@ st.phases)]

Reported(st, a, phase) ==
    LET kept == IF phase = "scanning" /\ ~st.active
                THEN {b \in DOMAIN st.phases : st.phases[b] = "failed"} ELSE DOMAIN st.phases
        phases == (a :> phase) @@ [b \in kept |-> st.phases[b]]
        left == phase = "failed" /\ a \in st.pending
    IN  [phases |-> phases,
         active |-> Active(phases),
         pending |-> IF left THEN st.pending \ {a} ELSE st.pending,
         completed |-> st.completed,
         failed |-> IF left THEN st.failed \cup {a} ELSE st.failed,
         current |-> IF left /\ st.current = a THEN None ELSE st.current]

(* Mutant of Backfilled: an agent that failed before stays listed as failed. *)
BackfilledStillFailed(st, a, complete) ==
    [st EXCEPT !.pending = IF complete THEN @ \ {a} ELSE @ \cup {a},
               !.completed = IF complete THEN @ \cup {a} ELSE @ \ {a},
               !.current = IF ~complete THEN a ELSE IF @ = a THEN None ELSE @]

Backfilled(st, a, complete) ==
    IF complete /\ a \notin st.pending THEN st
    ELSE [st EXCEPT
           !.pending = IF complete THEN @ \ {a} ELSE @ \cup {a},
           !.completed = IF complete THEN @ \cup {a} ELSE @ \ {a},
           !.failed = @ \ {a},
           !.current = IF ~complete THEN a ELSE IF @ = a THEN None ELSE @]

NewStatus ==
    [phases |-> [a \in Agents |-> "pending"], active |-> TRUE,
     pending |-> {}, completed |-> {}, failed |-> {}, current |-> None]

----------------------------------------------------------------------------
(* invalidate, called by the watcher and by refresh_all.                   *)
Merged(old, paths) == IF old = None \/ paths = None THEN None ELSE old \cup paths

Invalidate(a, paths) ==
    /\ pending' = [pending EXCEPT ![a] = [revision |-> @.revision + 1,
                                          paths |-> Merged(@.paths, paths)]]
    /\ flagged' = [flagged EXCEPT ![a] = TRUE]

Touch(s, version) ==
    /\ files' = [files EXCEPT ![s] = version]
    /\ unseen' = [unseen EXCEPT ![AgentOf[s]] = @ \cup {s}]
    /\ UNCHANGED <<price, stopped, generation, memory, scan, cache, pending, flagged, loop, free,
                   queue, reply, writer, repriced, pricing, status>>

(* A coding agent writes to a session, or its file is deleted.             *)
Edit(s) ==
    /\ clock' = clock + 1
    /\ root' = [root EXCEPT ![AgentOf[s]] = TRUE]
    /\ Touch(s, clock + 1)
Delete(s) ==
    /\ files[s] # 0
    /\ Touch(s, 0) /\ UNCHANGED <<clock, root>>

(* The whole source directory goes away: an unmounted disk, for instance.  *)
Vanish(a) ==
    /\ root[a]
    /\ root' = [root EXCEPT ![a] = FALSE]
    /\ files' = [s \in Sessions |-> IF AgentOf[s] = a THEN 0 ELSE files[s]]
    /\ unseen' = [unseen EXCEPT ![a] = @ \cup SessionsOf(a)]
    /\ UNCHANGED <<clock, price, stopped, generation, memory, scan, cache, pending, flagged, loop,
                   free, queue, reply, writer, repriced, pricing, status>>

Notify(a, paths) ==
    /\ unseen[a] # {} /\ ~stopped
    /\ Invalidate(a, paths)
    /\ unseen' = [unseen EXCEPT ![a] = {}]
    /\ UNCHANGED <<scannerVars, loop, free, queue, reply, writer, repriced, pricing, status>>
Watched(a) == Notify(a, unseen[a])
(* The watcher's queue overflowed, or more than 1024 paths were merged.    *)
Overflowed(a) == Notify(a, None)

----------------------------------------------------------------------------
(* The agent loop.                                                         *)
At(a, pc) == loop[a].pc = pc
Goto(a, pc) == loop' = [loop EXCEPT ![a].pc = pc]
Room == writer = "running" => Len(queue) < QueueLimit
Send(command) ==
    queue' = IF writer = "running" THEN Append(queue, command) ELSE queue
Report(a, phase) == Send([kind |-> "status", agent |-> a, phase |-> phase])

loopRest == <<unseen, writer, repriced, pricing, status>>

(* wait_for_change and the 150 ms that follow it.                          *)
Wake(a) ==
    /\ At(a, "wait") /\ flagged[a] /\ ~stopped
    /\ flagged' = [flagged EXCEPT ![a] = FALSE]
    /\ Goto(a, "start")
    /\ UNCHANGED <<scannerVars, pending, free, queue, reply, loopRest>>

(* The shutdown is noticed at every wait, at the start and at the semaphore. *)
Leave(a) ==
    /\ loop[a].pc \in {"wait", "start", "acquire"} /\ stopped
    /\ Goto(a, "ended")
    /\ UNCHANGED <<scannerVars, pending, flagged, free, queue, reply, loopRest>>

(* take_pending, first half: look at what there is.                        *)
CopyPending(a, pc) ==
    /\ flagged' = [flagged EXCEPT ![a] = FALSE]
    /\ loop' = [loop EXCEPT ![a].pc = pc, ![a].paths = pending[a].paths,
                            ![a].taken = pending[a].revision]

(* Second half: forget it, unless more came meanwhile.                     *)
ResetPending(a) ==
    pending' = IF pending[a].revision = loop[a].taken
               THEN [pending EXCEPT ![a].paths = {}] ELSE pending

Start(a) ==
    /\ At(a, "start") /\ ~stopped
    /\ CopyPending(a, "begin")
    /\ UNCHANGED <<scannerVars, pending, free, queue, reply, loopRest>>

(* The token of this round, and the checkpoint to go on from.              *)
Begin(a) ==
    /\ At(a, "begin")
    /\ ResetPending(a)
    /\ loop' = [loop EXCEPT ![a].pc = "head", ![a].taken = 0,
                            ![a].expected = generation[a], ![a].check = cache[a].check]
    /\ UNCHANGED <<scannerVars, flagged, free, queue, reply, loopRest>>
BeginFails(a) ==
    /\ At(a, "begin") /\ Room
    /\ ResetPending(a)
    /\ loop' = [loop EXCEPT ![a].pc = "wait", ![a].taken = 0, ![a].paths = None]
    /\ Report(a, "failed")
    /\ UNCHANGED <<scannerVars, flagged, free, reply, loopRest>>

NextPage(a) ==
    /\ At(a, "head")
    /\ IF Cancelled(a, loop[a].expected)
       THEN Goto(a, "leave") /\ UNCHANGED queue
       ELSE /\ Room /\ Report(a, "scanning")
            /\ IF loop[a].fetched
               THEN loop' = [loop EXCEPT ![a].pc = "scanning", ![a].fetched = FALSE]
               ELSE Goto(a, "acquire")
    /\ UNCHANGED <<scannerVars, pending, flagged, free, reply, loopRest>>

Acquire(a) ==
    /\ At(a, "acquire") /\ free > 0
    /\ free' = free - 1
    /\ scan' = [scan EXCEPT ![a] = Spawned(loop[a].paths, loop[a].check, loop[a].expected)]
    /\ loop' = [loop EXCEPT ![a].pc = "scanning", ![a].paths = None]
    /\ UNCHANGED <<sourceVars, price, stopped, generation, memory, cache, pending, flagged, queue,
                   reply, loopRest>>

Done(a) == scan[a] # None /\ scan[a].stage = "done"

(* A batch that is dropped runs its on_reject.                             *)
Rejected(a) == [memory EXCEPT ![a].rejected = TRUE]

(* A finished scan is published if it has a batch, is not cancelled, and   *)
(* its checkpoint, unless it is the last one, moved.                       *)
(* Mutant of Advanced: a scan that makes no progress goes on.              *)
AdvancedAlways(a) == TRUE
Advanced(a) == scan[a].batch.complete \/ scan[a].batch.check # loop[a].check
Publishable(a) == scan[a].batch # None /\ ~Cancelled(a, loop[a].expected) /\ Advanced(a)

ScanLost(a) ==
    /\ At(a, "scanning") /\ Done(a) /\ ~Publishable(a)
    /\ IF Cancelled(a, loop[a].expected) THEN UNCHANGED queue ELSE Room /\ Report(a, "failed")
    /\ memory' = IF scan[a].batch = None THEN memory ELSE Rejected(a)
    /\ scan' = [scan EXCEPT ![a] = None]
    /\ free' = free + 1
    /\ Goto(a, "leave")
    /\ UNCHANGED <<sourceVars, price, stopped, generation, cache, pending, flagged, reply, loopRest>>

ScanWon(a) ==
    /\ At(a, "scanning") /\ Done(a) /\ Publishable(a)
    /\ Room /\ Report(a, "publishing")
    /\ loop' = [loop EXCEPT ![a].pc = "submit", ![a].check = scan[a].batch.check]
    /\ UNCHANGED <<scannerVars, pending, flagged, free, reply, loopRest>>

(* The batch goes to the writer; the next page may be read ahead.          *)
ReadAhead(a, complete) == ~complete /\ free > 0 /\ ~flagged[a]

Submit(a) ==
    /\ At(a, "submit") /\ writer = "running" /\ Room
    /\ LET batch == scan[a].batch
           ahead == ReadAhead(a, batch.complete)
       IN  /\ queue' = Append(queue, [kind |-> "publish", agent |-> a, batch |-> batch,
                                      expected |-> loop[a].expected])
           /\ loop' = [loop EXCEPT ![a].pc = "awaiting", ![a].fetched = ahead,
                                   ![a].complete = batch.complete]
           /\ scan' = [scan EXCEPT
                ![a] = IF ahead THEN Spawned(None, loop[a].check, loop[a].expected) ELSE None]
           /\ free' = IF ahead THEN free - 1 ELSE free
    /\ UNCHANGED <<sourceVars, price, stopped, generation, memory, cache, pending, flagged, reply,
                   loopRest>>
SubmitFails(a) ==
    /\ At(a, "submit") /\ writer = "ended"
    /\ scan' = [scan EXCEPT ![a] = None]
    /\ memory' = Rejected(a)
    /\ free' = free + 1
    /\ Goto(a, "ended")
    /\ UNCHANGED <<sourceVars, price, stopped, generation, cache, pending, flagged, queue, reply,
                   loopRest>>

(* Mutant of Answered: the writer's end is not noticed.                    *)
AnsweredOnly(a) == reply[a] # None
Answered(a) == reply[a] # None \/ writer = "ended"
(* Mutant of TakeReply: the permit of the scan is not given back.          *)
TakeReplyOnly(a) == reply' = [reply EXCEPT ![a] = None] /\ UNCHANGED free
TakeReply(a) == reply' = [reply EXCEPT ![a] = None] /\ free' = free + 1

PublishedLast(a) ==
    /\ At(a, "awaiting") /\ reply[a] = "ok" /\ loop[a].complete
    /\ Room /\ Report(a, "complete")
    /\ TakeReply(a) /\ Goto(a, "leave")
    /\ UNCHANGED <<scannerVars, pending, flagged, loopRest>>

(* A page is in; go on with the next one, taking up changes told of.       *)
PublishedPage(a) ==
    /\ At(a, "awaiting") /\ reply[a] = "ok" /\ ~loop[a].complete
    /\ TakeReply(a)
    /\ IF ~loop[a].fetched /\ flagged[a]
       THEN CopyPending(a, "retake") ELSE Goto(a, "head") /\ UNCHANGED flagged
    /\ UNCHANGED <<scannerVars, pending, queue, loopRest>>
Retake(a) ==
    /\ At(a, "retake")
    /\ ResetPending(a)
    /\ loop' = [loop EXCEPT ![a].pc = "head", ![a].taken = 0]
    /\ UNCHANGED <<scannerVars, flagged, free, queue, reply, loopRest>>

PublicationLost(a) ==
    /\ At(a, "awaiting") /\ Answered(a) /\ reply[a] # "ok"
    /\ IF Cancelled(a, loop[a].expected) THEN UNCHANGED queue ELSE Room /\ Report(a, "failed")
    /\ TakeReply(a) /\ Goto(a, "leave")
    /\ UNCHANGED <<scannerVars, pending, flagged, loopRest>>

(* The end of a round; a page read ahead is awaited and rejected.          *)
EndRound(a) ==
    /\ At(a, "leave")
    /\ loop[a].fetched => Done(a)
    /\ memory' = IF loop[a].fetched /\ scan[a].batch # None THEN Rejected(a) ELSE memory
    /\ scan' = [scan EXCEPT ![a] = None]
    /\ free' = IF loop[a].fetched THEN free + 1 ELSE free
    /\ loop' = [loop EXCEPT ![a] = [@ EXCEPT !.pc = "wait", !.fetched = FALSE, !.paths = None,
                                             !.check = None, !.expected = 0, !.complete = FALSE]]
    /\ UNCHANGED <<sourceVars, price, stopped, generation, cache, pending, flagged, queue, reply,
                   loopRest>>

Round(a) ==
    \/ Wake(a) \/ Leave(a) \/ Start(a) \/ Begin(a) \/ NextPage(a) \/ Acquire(a)
    \/ ScanLost(a) \/ ScanWon(a) \/ Submit(a) \/ SubmitFails(a)
    \/ PublishedLast(a) \/ PublishedPage(a) \/ Retake(a) \/ PublicationLost(a) \/ EndRound(a)

Refresh(a) == (List(a) \/ Read(a) \/ NotStarted(a)) /\ UNCHANGED runtimeVars
RefreshFails(a) == ReadFails(a) /\ UNCHANGED runtimeVars

----------------------------------------------------------------------------
(* The writer thread.                                                      *)
First == Head(queue)
Command(kind) == writer = "running" /\ queue # <<>> /\ First.kind = kind
WriteStatus ==
    /\ Command("status")
    /\ status' = Reported(status, First.agent, First.phase)
    /\ queue' = Tail(queue)
    /\ UNCHANGED <<scannerVars, pending, flagged, unseen, loop, free, reply, writer, repriced,
                   pricing>>

Answer(a, result) == queue' = Tail(queue) /\ reply' = [reply EXCEPT ![a] = result]

(* Mutant of Acceptable: a batch priced with the old table is committed.   *)
AcceptableAnyPrice(a, command) == ~Cancelled(a, command.expected)
Acceptable(a, command) ==
    ~Cancelled(a, command.expected) /\ command.batch.ticket = price

Priced(record) == [record EXCEPT !.cost = [s \in DOMAIN @ |-> IF record.stored[s] = 0 THEN 0 ELSE price]]

(* The sessions a publication leaves behind are all at the current prices. *)
Repriced(record) == IF repriced # price THEN Priced(record) ELSE record
Committed(a, batch) ==
    Applied(cache[a], IF RetainHistory THEN [batch EXCEPT !.removed = {}] ELSE batch)

Publish ==
    /\ Command("publish") /\ Acceptable(First.agent, First)
    /\ LET a == First.agent
       IN  /\ cache' = [cache EXCEPT ![a] = Repriced(Committed(a, First.batch))]
           /\ status' = Backfilled(status, a, First.batch.complete)
           /\ Answer(a, "ok")
    /\ UNCHANGED <<sourceVars, price, stopped, generation, memory, scan, pending, flagged, unseen,
                   loop, free, writer, repriced, pricing>>

(* Refused, or the transaction failed: nothing is written, and the scanner *)
(* is told by the batch being dropped.                                     *)
Refuse(a) ==
    /\ memory' = Rejected(a)
    /\ Answer(a, "failed")
    /\ UNCHANGED <<sourceVars, price, stopped, generation, scan, cache, pending, flagged, unseen,
                   loop, free, writer, repriced, pricing, status>>
PublishRefused ==
    Command("publish") /\ ~Acceptable(First.agent, First) /\ Refuse(First.agent)
PublishFails ==
    Command("publish") /\ Acceptable(First.agent, First) /\ Refuse(First.agent)

(* Committed, and then repricing or reading the snapshot back fails: the   *)
(* loop is told of a failure, and in the second case the scanner is not.   *)
CommittedThenFails ==
    /\ Command("publish") /\ Acceptable(First.agent, First)
    /\ LET a == First.agent
           record == Committed(a, First.batch)
       IN  /\ \/ cache' = [cache EXCEPT ![a] = record] /\ memory' = Rejected(a)
              \/ cache' = [cache EXCEPT ![a] = Repriced(record)] /\ UNCHANGED memory
           /\ Answer(a, "failed")
    /\ UNCHANGED <<sourceVars, price, stopped, generation, scan, pending, flagged, unseen, loop,
                   free, writer, repriced, pricing, status>>

(* Command::Reprice, of all agents; the mark comes last.                   *)
Reprice ==
    /\ Command("reprice")
    /\ First.price = price
    /\ cache' = [a \in Agents |-> Priced(cache[a])]
    /\ repriced' = price
    /\ queue' = Tail(queue)
    /\ pricing' = [pricing EXCEPT !.pc = First.then,
                                  !.left = IF First.then = "refresh" THEN Agents ELSE {}]
    /\ UNCHANGED <<sourceVars, price, stopped, generation, memory, scan, pending, flagged, unseen,
                   loop, free, reply, writer, status>>
RepriceFails ==
    /\ Command("reprice")
    /\ \E done \in SUBSET Agents :
         /\ done # Agents
         /\ cache' = [a \in Agents |-> IF a \in done THEN Priced(cache[a]) ELSE cache[a]]
    /\ queue' = Tail(queue)
    /\ pricing' = [pricing EXCEPT !.pc = "idle"]
    /\ UNCHANGED <<sourceVars, price, stopped, generation, memory, scan, pending, flagged, unseen,
                   loop, free, reply, writer, repriced, status>>

Stop ==
    /\ Command("stop")
    /\ writer' = "ended" /\ queue' = <<>>
    /\ memory' = [a \in Agents |->
         [memory[a] EXCEPT !.rejected = @ \/ \E i \in DOMAIN queue :
             queue[i].kind = "publish" /\ queue[i].agent = a]]
    /\ UNCHANGED <<sourceVars, price, stopped, generation, scan, cache, pending, flagged, unseen,
                   loop, free, reply, repriced, pricing, status>>

Write == WriteStatus \/ Publish \/ PublishRefused \/ Reprice \/ Stop

----------------------------------------------------------------------------
(* The pricing task: codesesh-cli/src/pricing_refresh.rs, refresh_once.    *)
AskReprice(then) ==
    /\ Room /\ Send([kind |-> "reprice", price |-> price, then |-> then])
    /\ pricing' = [pricing EXCEPT !.pc = "waiting"]
    /\ UNCHANGED <<scannerVars, pending, flagged, unseen, loop, free, reply, writer, repriced,
                   status>>
CheckPrices == pricing.pc = "idle" /\ ~stopped /\ repriced # price /\ AskReprice("idle")
NewPrices ==
    /\ pricing.pc = "idle" /\ ~stopped /\ repriced = price
    /\ price' = price + 1
    /\ pricing' = [pricing EXCEPT !.pc = "published"]
    /\ UNCHANGED <<sourceVars, stopped, generation, memory, scan, cache, pending, flagged, unseen,
                   loop, free, queue, reply, writer, repriced, status>>
ApplyPrices == pricing.pc = "published" /\ ~stopped /\ AskReprice("refresh")

(* refresh_all, agent by agent: first the running scan is cancelled, then  *)
(* the loop is told to look at everything.                                 *)
Cancel(a) ==
    /\ pricing.pc = "refresh" /\ a \in pricing.left /\ pricing.cancelled = None
    /\ generation' = [generation EXCEPT ![a] = @ + 1]
    /\ pricing' = [pricing EXCEPT !.cancelled = a]
    /\ UNCHANGED <<sourceVars, price, stopped, memory, scan, cache, pending, flagged, unseen, loop,
                   free, queue, reply, writer, repriced, status>>
Tell(a) ==
    /\ pricing.pc = "refresh" /\ pricing.cancelled = a
    /\ Invalidate(a, None)
    /\ pricing' = [pc |-> IF pricing.left = {a} THEN "idle" ELSE "refresh",
                   left |-> pricing.left \ {a}, cancelled |-> None]
    /\ UNCHANGED <<scannerVars, unseen, loop, free, queue, reply, writer, repriced, status>>
Pricing == CheckPrices \/ ApplyPrices \/ \E a \in Agents : Cancel(a) \/ Tell(a)

----------------------------------------------------------------------------
(* Runtime::shutdown.                                                      *)
Shutdown ==
    /\ ~stopped
    /\ stopped' = TRUE
    /\ generation' = [a \in Agents |-> generation[a] + 1]
    /\ UNCHANGED <<sourceVars, price, memory, scan, cache, runtimeVars>>
AskStop ==
    /\ stopped /\ writer = "running" /\ Room
    /\ \A i \in DOMAIN queue : queue[i].kind # "stop"
    /\ Send([kind |-> "stop"])
    /\ UNCHANGED <<scannerVars, pending, flagged, unseen, loop, free, reply, writer, repriced,
                   pricing, status>>

(* What a process starts with; the files, the prices and the database stay. *)
NewLoop == [pc |-> "start", paths |-> None, taken |-> 0, check |-> None, expected |-> 0,
            fetched |-> FALSE, complete |-> FALSE]

NothingKnown == [revision |-> 0, paths |-> None]
IdlePricing == [pc |-> "idle", left |-> {}, cancelled |-> None]

Booted ==
    /\ stopped = FALSE
    /\ generation = [a \in Agents |-> 0]
    /\ memory = [a \in Agents |-> Fresh(a)]
    /\ scan = [a \in Agents |-> None]
    /\ pending = [a \in Agents |-> NothingKnown]
    /\ flagged = [a \in Agents |-> FALSE]
    /\ unseen = [a \in Agents |-> {}]
    /\ loop = [a \in Agents |-> NewLoop]
    /\ free = Concurrency
    /\ queue = <<>>
    /\ reply = [a \in Agents |-> None]
    /\ writer = "running"
    /\ pricing = IdlePricing
    /\ status = NewStatus

Restart ==
    /\ UNCHANGED <<sourceVars, price, cache, repriced>>
    /\ stopped' = FALSE
    /\ generation' = [a \in Agents |-> 0]
    /\ memory' = [a \in Agents |-> Fresh(a)]
    /\ scan' = [a \in Agents |-> None]
    /\ pending' = [a \in Agents |-> NothingKnown]
    /\ flagged' = [a \in Agents |-> FALSE]
    /\ unseen' = [a \in Agents |-> {}]
    /\ loop' = [a \in Agents |-> NewLoop]
    /\ free' = Concurrency
    /\ queue' = <<>>
    /\ reply' = [a \in Agents |-> None]
    /\ writer' = "running"
    /\ pricing' = IdlePricing
    /\ status' = NewStatus

RuntimeInit(initial) ==
    /\ files = initial /\ clock = Max({initial[s] : s \in Sessions} \cup {0})
    /\ root = [a \in Agents |-> TRUE]
    /\ price = 1 /\ repriced = 0
    /\ cache = [a \in Agents |-> NoCache(a)]
    /\ Booted

(* Everything that can happen, as often as it likes.                       *)
RuntimeNext ==
    \/ \E s \in Sessions : Edit(s) \/ Delete(s)
    \/ \E a \in Agents : \/ Vanish(a) \/ Watched(a) \/ Overflowed(a)
                          \/ Round(a) \/ Refresh(a) \/ BeginFails(a) \/ RefreshFails(a)
    \/ Write \/ PublishFails \/ CommittedThenFails \/ RepriceFails
    \/ NewPrices \/ Pricing \/ Shutdown \/ AskStop \/ Restart

(* There may be sessions at the start, of different ages.                  *)
Aged(initial) == \A s, t \in Sessions : initial[s] = initial[t] /\ initial[s] # 0 => s = t
RuntimeInitially == \E initial \in [Sessions -> Nat] : Aged(initial) /\ RuntimeInit(initial)
RuntimeSpec == RuntimeInitially /\ [][RuntimeNext]_vars

----------------------------------------------------------------------------
RuntimeTypeOK ==
    /\ files \in [Sessions -> 0 .. clock] /\ root \in [Agents -> BOOLEAN]
    /\ \A a \in Agents :
         /\ cache[a].stored \in [SessionsOf(a) -> 0 .. clock]
         /\ memory[a].base \subseteq memory[a].durable
         /\ memory[a].durable \subseteq SessionsOf(a)
         /\ memory[a].known \in [SessionsOf(a) -> 0 .. clock]
         /\ pending[a].paths # None => pending[a].paths \subseteq SessionsOf(a)
         /\ loop[a].pc \in {"wait", "start", "begin", "head", "acquire", "scanning", "submit",
                            "awaiting", "retake", "leave", "ended"}
    /\ Len(queue) <= QueueLimit

(* A permit is held by exactly the scans there are: one on the blocking    *)
(* thread or being published, and one read ahead.  A leaked permit would   *)
(* in the end keep every agent from being scanned.                         *)
PermitsAccounted ==
    free = Concurrency
           - Cardinality({a \in Agents : loop[a].pc \in {"scanning", "submit", "awaiting"}})
           - Cardinality({a \in Agents : loop[a].fetched})

(* A checkpoint that can be resumed skips only what is stored: every file  *)
(* before its offset that is still as it was listed is in the database in  *)
(* that version.  Pages read ahead, refused batches and a dying process    *)
(* must not get between the two.                                           *)
CheckpointHonest ==
    \A a \in Agents : cache[a].check # None =>
      LET check == cache[a].check
          items == Ordered(check.signature, Present(check.signature))
      IN  \A i \in 1 .. Min({check.offset, Len(items)}) :
            files[items[i].session] = items[i].stamp /\ items[i].session \notin check.dirty =>
              cache[a].stored[items[i].session] = items[i].stamp

(* A fingerprint on record keeps a file from being read again, so it may   *)
(* stand there only when that content is stored.                           *)
KnownIsStored ==
    \A a \in Agents, s \in Sessions :
      (AgentOf[s] = a /\ cache[a].state # None /\ files[s] # 0
         /\ cache[a].state.known[s] = files[s]) => cache[a].stored[s] = files[s]

(* Once a price table is marked as applied, every stored session is priced *)
(* with it, and no batch priced with an older one comes in afterwards.     *)
PricesApplied ==
    repriced = price =>
      \A a \in Agents : \A s \in Stored(a) : cache[a].cost[s] = price

(* Nothing runs and nothing will: no command, no round, no news.           *)
Quiet ==
    /\ queue = <<>> /\ pricing.pc # "refresh" /\ ~stopped
    /\ \A a \in Agents : At(a, "wait") /\ ~flagged[a] /\ unseen[a] = {}

(* When everything has come to rest, the UI is told that nothing runs, and *)
(* no history is left half read unless its agent is shown as failed.       *)
QuietMeansDone ==
    Quiet =>
      /\ ~status.active /\ status.pending = {}
      /\ \A a \in Agents : cache[a].check = None \/ status.phases[a] = "failed"

AllStored(a) == \A s \in SessionsOf(a) : files[s] # 0 => cache[a].stored[s] = files[s]

(* When everything has come to rest without a failure, each file of a      *)
(* source that has any is stored as it is.                                 *)
QuietMeansStored ==
    Quiet =>
      \A a \in Agents : (a \in DOMAIN status.phases /\ status.phases[a] = "complete") => AllStored(a)

(* The backfill lists name an agent at most once.                          *)
BackfillDisjoint ==
    /\ status.pending \cap status.completed = {}
    /\ status.pending \cap status.failed = {}
    /\ status.completed \cap status.failed = {}
    /\ status.current # None => status.current \in status.pending

(* The types and limits of the runtime's state, and its lists of agents.   *)
RuntimeStateOK == RuntimeTypeOK /\ BackfillDisjoint

(* What is claimed to have been read is in the database.                   *)
StoredIsHonest == CheckpointHonest /\ KnownIsStored

(* Left alone, everything comes to rest.                                   *)
Settles == <>[](Quiet \/ stopped)

(* After a shutdown every loop and the writer end.                         *)
ShutdownEnds ==
    stopped ~> ((writer = "ended" /\ \A a \in Agents : At(a, "ended")) \/ ~stopped)
============================================================================
