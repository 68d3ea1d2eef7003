---------------------------- MODULE AgentScanner ----------------------------
(***************************************************************************)
(* One agent's scanner inside the Hub or the standalone program:           *)
(* codesesh-core/src/discovery/incremental.rs with discovery/backfill.rs,  *)
(* for an agent that keeps one file per session, and the part of the cache *)
(* database that the scanner restores itself from.                         *)
(*                                                                         *)
(* A file's content and its fingerprint (length, times, inode) are both    *)
(* its version, drawn from a clock that never returns a value twice; 0 is  *)
(* no file.  A refresh lists the source first and reads files afterwards,  *)
(* and the files may change in between: List and Read are two steps.       *)
(***************************************************************************)
EXTENDS Integers, FiniteSets, SequencesExt

CONSTANTS
    Agents,    \* agents with a source on this machine
    Sessions,  \* session files
    AgentOf,   \* the agent a session file belongs to
    PageSize,  \* BATCH_SIZE: changed files read by one page
    None       \* absence of a value

ASSUME ScannerAssumption ==
    /\ IsFiniteSet(Agents) /\ IsFiniteSet(Sessions) /\ AgentOf \in [Sessions -> Agents]
    /\ PageSize \in Nat \ {0}
    /\ None \notin Nat \cup STRING

VARIABLES
    files,       \* version of each session's file now, 0 if there is none
    root,        \* whether each agent's source directory exists
    clock,       \* the last version handed out
    price,       \* generation of the published price table
    stopped,     \* the runtime was told to shut down
    generation,  \* cancellation generation of each agent
    memory,      \* what each scanner holds
    scan,        \* the refresh on the blocking thread, or None
    cache        \* what the database holds of each agent

sourceVars == <<files, root, clock>>
scannerVars == <<sourceVars, price, stopped, generation, memory, scan, cache>>

SessionsOf(a) == {s \in Sessions : AgentOf[s] = a}
Stored(a) == {s \in SessionsOf(a) : cache[a].stored[s] # 0}

Cancelled(a, expected) == stopped \/ generation[a] # expected

----------------------------------------------------------------------------
(* The inventory, and the order it is worked through: newest first.        *)
Listing(a) == [s \in SessionsOf(a) |-> files[s]]
Present(list) == {s \in DOMAIN list : list[s] # 0}
Newer(list, members, s) == {t \in members : list[t] > list[s]}
Ordered(list, members) ==
    LET Nth(i) == CHOOSE s \in members : Cardinality(Newer(list, members, s)) = i - 1
    IN  [i \in 1 .. Cardinality(members) |-> [session |-> Nth(i), stamp |-> list[Nth(i)]]]

(* Mutant of Resumable: a checkpoint of another inventory is resumed.      *)
ResumableWhatever(list, check) == check # None
Resumable(list, check) ==
    check # None /\ check.signature = list /\ check.price = price

(* Backfill::new.                                                          *)
NewPlan(list, check) ==
    LET items == Ordered(list, Present(list))
        resume == Resumable(list, check)
    IN  [signature |-> list,
         items |-> items,
         offset |-> IF resume THEN Min({check.offset, Len(items)}) ELSE 0,
         epoch |-> CASE check = None -> 0 [] resume -> check.epoch [] OTHER -> check.epoch + 1,
         price |-> price,
         dirty |-> IF resume THEN check.dirty ELSE {},
         refreshed |-> resume /\ check.refreshed]

(* Backfill::checkpoint with the source state saved along with it.         *)
CheckpointOf(m) ==
    [signature |-> m.plan.signature, offset |-> m.plan.offset, epoch |-> m.plan.epoch,
     price |-> m.plan.price, dirty |-> m.plan.dirty, refreshed |-> m.plan.refreshed,
     known |-> m.known, history |-> m.history]

Fresh(a) ==
    [ready |-> FALSE, history |-> FALSE, base |-> {}, durable |-> {},
     known |-> [s \in SessionsOf(a) |-> 0], plan |-> None, rejected |-> FALSE, price |-> price]

Forgotten(m) ==
    IF m.rejected THEN [m EXCEPT !.rejected = FALSE, !.ready = FALSE, !.plan = None] ELSE m

(* restore: everything is taken back from the database.                    *)
Restored(a, m) ==
    LET state == cache[a].state
    IN  [m EXCEPT !.base = Stored(a), !.durable = Stored(a),
                  !.known = IF state = None THEN [s \in SessionsOf(a) |-> 0] ELSE state.known,
                  !.history = state # None /\ state.history]

(* The beginning of refresh_with_checkpoint; "repriced" is that the new    *)
(* price table changes a price this source depends on.                     *)
Prepared(a, repriced) ==
    LET m == Forgotten(memory[a])
        lost == repriced \/ ~m.ready \/ (m.base = {} /\ m.durable # {})
    IN  [IF lost THEN Restored(a, m) ELSE m EXCEPT !.price = price]

(* page opens a plan if there is none.                                     *)
Opened(m, list, check) ==
    IF m.plan # None THEN m
    ELSE [m EXCEPT !.known = [s \in DOMAIN list |-> IF list[s] = 0 THEN 0 ELSE @[s]],
                   !.plan = NewPlan(list, check)]

Hinted(m, paths) == IF paths = None THEN m ELSE [m EXCEPT !.plan.dirty = @ \cup paths]

DirtyFirst(plan) ==
    plan.offset > 0 /\ plan.dirty # {} /\ (~plan.refreshed \/ plan.offset = Len(plan.items))

OutOfDate(m, list) ==
    {s \in Present(list) : ~(s \in m.base /\ m.known[s] = list[s])}

----------------------------------------------------------------------------
(* The source has no file any more, and the database has sessions of it.   *)
Missing(list, m) == Present(list) = {} /\ m.durable # {}

(* The first half of a refresh: restore if need be, list the source, and   *)
(* decide what will be read.  A missing source is not read: its history is *)
(* kept.                                                                   *)
Listed(a, m, mode, paged, list) ==
    /\ memory' = [memory EXCEPT ![a] = m]
    /\ scan' = [scan EXCEPT ![a].stage = "listed", ![a].mode = mode, ![a].paged = paged,
                            ![a].list = list, ![a].ticket = price]

ListPaged(a, m, list) ==
    IF m.plan = None /\ Missing(list, m)
    THEN Listed(a, [m EXCEPT !.known = [s \in DOMAIN list |-> 0]], "keep", TRUE, None)
    ELSE LET n == Hinted(Opened(m, list, scan[a].check), scan[a].paths)
         IN  IF DirtyFirst(n.plan) THEN Listed(a, n, "dirty", TRUE, list)
             ELSE Listed(a, n, "page", TRUE, None)

(* read_live; too many changes for one batch open a plan instead.          *)
ListLive(a, m, list) ==
    \/ /\ Missing(list, m) /\ ~root[a]
       /\ Listed(a, m, "keep", FALSE, None)
    \/ /\ ~Missing(list, m) \/ root[a]
       /\ IF Cardinality({s \in Present(list) : m.known[s] # list[s]}) > PageSize
          THEN Listed(a, Opened(m, list, None), "page", FALSE, None)
          ELSE Listed(a, m, "live", FALSE, list)

List(a) ==
    /\ scan[a] # None /\ scan[a].stage = "spawned"
    /\ ~Cancelled(a, scan[a].expected)
    /\ \E repriced \in BOOLEAN :
         /\ repriced => memory[a].price # price
         /\ LET m == Prepared(a, repriced)
            IN  IF m.plan # None \/ ~m.ready \/ scan[a].paths = None \/ scan[a].check # None
                THEN ListPaged(a, m, Listing(a))
                ELSE ListLive(a, m, Listing(a))
    /\ UNCHANGED <<sourceVars, price, stopped, generation, cache>>

----------------------------------------------------------------------------
(* The second half reads files as they are by then.  It ends with a batch: *)
(* what was read, what is gone, and the state that goes with it.           *)

Stamped(m, stamps) ==
    [m EXCEPT !.known = [s \in DOMAIN @ |-> IF stamps[s] # 0 THEN stamps[s] ELSE @[s]]]

Ended(a, m, read, gone, complete) ==
    LET base == (m.base \ gone) \cup read
        n == [m EXCEPT !.ready = TRUE, !.durable = base,
                       !.base = IF scan[a].paged /\ complete THEN {} ELSE base]
        cancelled == Cancelled(a, scan[a].expected)
    IN  /\ memory' = [memory EXCEPT ![a] = [n EXCEPT !.rejected = @ \/ cancelled]]
        /\ scan' = [scan EXCEPT
             ![a].stage = "done", ![a].list = None,
             ![a].batch = IF cancelled THEN None
                          ELSE [read |-> [s \in read |-> files[s]],
                                removed |-> gone,
                                check |-> IF complete THEN None ELSE CheckpointOf(n),
                                state |-> [known |-> n.known, history |-> n.history \/ complete],
                                complete |-> complete,
                                ticket |-> scan[a].ticket]]

(* page: from the offset on, until one more changed file would be too many. *)
ReadPage(a) ==
    LET m == memory[a]
        plan == m.plan
        Changed(i) == ~(plan.items[i].session \in m.base
                        /\ m.known[plan.items[i].session] = plan.items[i].stamp)
        end == Max({n \in plan.offset .. Len(plan.items) :
                      Cardinality({i \in plan.offset + 1 .. n : Changed(i)}) <= PageSize})
        picked == {i \in plan.offset + 1 .. end : Changed(i)}
        chosen == {plan.items[i].session : i \in picked}
        stamps == [s \in SessionsOf(a) |->
                     IF s \in chosen
                     THEN plan.items[CHOOSE i \in picked : plan.items[i].session = s].stamp ELSE 0]
        read == {s \in chosen : files[s] # 0}
        exhausted == end = Len(plan.items)
        unlisted == m.base \ {plan.items[i].session : i \in DOMAIN plan.items}
        gone == (m.base \cap (chosen \ read)) \cup (IF exhausted THEN unlisted ELSE {})
        complete == exhausted /\ plan.dirty = {}
        after == [plan EXCEPT !.offset = end, !.refreshed = FALSE]
    IN  Ended(a, [Stamped(m, stamps) EXCEPT !.plan = IF complete THEN None ELSE after],
              read, gone, complete)

(* read_dirty: files changed behind the offset, and files that are new.    *)
ReadDirty(a) ==
    LET m == memory[a]
        plan == m.plan
        list == scan[a].list
        original == {plan.items[i].session : i \in DOMAIN plan.items}
        added == Present(list) \ original
        eligible == {plan.items[i].session : i \in 1 .. plan.offset} \cup added
        due == {s \in eligible \cap Present(list) : m.known[s] # list[s]}
        keep == Missing(list, m)
    IN  \E chosen \in SUBSET (IF keep THEN {} ELSE due) :
          /\ keep \/ Cardinality(chosen) = Min({PageSize, Cardinality(due)})
          /\ LET stamps == [s \in SessionsOf(a) |-> IF s \in chosen THEN list[s] ELSE 0]
                 read == {s \in chosen : files[s] # 0}
                 gone == IF keep THEN {}
                         ELSE (m.base \cap (chosen \ read)) \cup (m.base \ Present(list))
                 after == [plan EXCEPT
                             !.items = IF keep THEN @ ELSE @ \o Ordered(list, added),
                             !.dirty = IF keep THEN {} ELSE due \ chosen,
                             !.refreshed = TRUE, !.epoch = @ + 1]
                 complete == after.offset = Len(after.items) /\ after.dirty = {}
             IN  Ended(a, [Stamped(m, stamps) EXCEPT !.plan = IF complete THEN None ELSE after],
                       read, gone, complete)

(* read_live: what the fingerprints do not match is read again.            *)
ReadLive(a) ==
    LET m == memory[a]
        list == scan[a].list
        chosen == OutOfDate(m, list)
        stamps == [s \in SessionsOf(a) |-> IF s \in chosen THEN list[s] ELSE 0]
        read == {s \in chosen : files[s] # 0}
        retained == (Present(list) \ chosen) \cup read
        n == Stamped(m, stamps)
    IN  Ended(a, [n EXCEPT !.known = [s \in DOMAIN @ |-> IF list[s] = 0 THEN 0 ELSE @[s]]],
              read, m.durable \ retained, TRUE)

Read(a) ==
    /\ scan[a] # None /\ scan[a].stage = "listed"
    /\ CASE scan[a].mode = "page" -> ReadPage(a)
         [] scan[a].mode = "dirty" -> ReadDirty(a)
         [] scan[a].mode = "live" -> ReadLive(a)
         [] scan[a].mode = "keep" -> Ended(a, memory[a], {}, {}, TRUE)
    /\ UNCHANGED <<sourceVars, price, stopped, generation, cache>>

(* The refresh is cancelled before it starts, or a file cannot be read.    *)
GiveUp(a) ==
    /\ scan' = [scan EXCEPT ![a].stage = "done", ![a].list = None, ![a].batch = None]
    /\ UNCHANGED <<sourceVars, price, stopped, generation, memory, cache>>
NotStarted(a) ==
    /\ scan[a] # None /\ scan[a].stage = "spawned" /\ Cancelled(a, scan[a].expected)
    /\ GiveUp(a)
ReadFails(a) ==
    /\ scan[a] # None /\ scan[a].stage = "listed"
    /\ GiveUp(a)

Spawned(paths, check, expected) ==
    [stage |-> "spawned", mode |-> None, paged |-> FALSE, list |-> None, ticket |-> None,
     batch |-> None, paths |-> paths, check |-> check, expected |-> expected]

----------------------------------------------------------------------------
(* Cache::apply_checkpoint: sessions, source state and checkpoint in one   *)
(* transaction; a complete batch ends the checkpoint.                      *)

Applied(record, batch) ==
    [stored |-> [s \in DOMAIN record.stored |->
                   IF s \in DOMAIN batch.read THEN batch.read[s]
                   ELSE IF s \in batch.removed THEN 0 ELSE record.stored[s]],
     cost |-> [s \in DOMAIN record.cost |->
                 IF s \in DOMAIN batch.read THEN batch.ticket ELSE record.cost[s]],
     state |-> batch.state,
     check |-> IF batch.complete THEN None ELSE batch.check]

NoCache(a) ==
    [stored |-> [s \in SessionsOf(a) |-> 0], cost |-> [s \in SessionsOf(a) |-> 0],
     state |-> None, check |-> None]
============================================================================
