---------------------------- MODULE SessionCache ----------------------------
(***************************************************************************)
(* storage.rs, storage/{cursor,message_reuse,read,facts,memory,reprice,    *)
(* json_index,snapshot}.rs, search_text.rs and discovery/json_scan.rs: the *)
(* rows of codesesh.db.  The hub's writer publishes sessions and reprices  *)
(* them, keeping what it can of the messages already stored; a program run *)
(* with --json scans the same sources into the same file; the readers page *)
(* through a session from a cursor.                                        *)
(*                                                                         *)
(* A message is its body, which also names the model it was priced with;   *)
(* a digest is the sequence it was computed from.                          *)
(***************************************************************************)
EXTENDS Naturals, Sequences, SequencesExt, FiniteSetsExt, Functions, TLC

CONSTANTS Sessions, Bodies, Absent,
    PriceOf,        \* [generation -> [body -> price]], 0 for a body that is not priced
    CacheBounds     \* bounds to choose from: each [writes, publications, prices, runs, reads,
                    \* opens, corruptions, contents, stored, source]

VARIABLES
    source,     \* what the agent's files say: [Sessions -> a sequence of bodies, Absent or Broken]
    db,         \* rows, the search index, pending_reindex and cache_meta
    generation, \* the prices the hub uses, and those in the file a program starts with
    hub,        \* the writer: its snapshot and the data version it saw
    json,       \* the program run with --json
    client,     \* a reader of one session
    outdated,   \* history: the sessions last priced by a --json program with prices the hub
                \* had replaced by then
    used, limit
cacheVars == <<source, db, generation, hub, json, client, outdated, used, limit>>

Broken == <<"broken">>
Use(what) == used[what] < limit[what] /\ used' = [used EXCEPT ![what] = @ + 1]
Without(f, ids) == Restrict(f, DOMAIN f \ ids)
Total(f) == FoldFunction(LAMBDA a, b : a + b, 0, f)
Cost(body, g) == PriceOf[g][body]

----------------------------------------------------------------------------
(* Writing sessions.                                                       *)

Rows(d, s) == IF d.rows[s] = Absent THEN <<>> ELSE d.rows[s].messages
AllIds(d) == UNION {{Rows(d, s)[i].id : i \in DOMAIN Rows(d, s)} : s \in Sessions}
Whole(d) == UNION {{<<Rows(d, s)[i].id, Rows(d, s)[i].body>> : i \in DOMAIN Rows(d, s)} :
                   s \in Sessions}
(* forget: the index entries of the messages, while their rows are there.  *)
(* Mutant of Forgotten: the entries of replaced messages stay.             *)
ForgottenNever(d, s, indexes) == d
Forgotten(d, s, indexes) ==
    LET ids == {Rows(d, s)[i].id : i \in DOMAIN Rows(d, s) \cap indexes}
    IN  [d EXCEPT !.fts = {entry \in @ : entry[1] \notin ids}]
(* stored_digests: what may be kept of a session.                          *)
Reusable(d, s) ==
    /\ d.rows[s] # Absent /\ d.rows[s].parser = d.parser
    /\ d.rows[s].revision = 0 /\ s \notin d.pending
Retained(d, s) == IF Reusable(d, s) THEN Rows(d, s) ELSE <<>>

(* cursor::advance: a digest covers everything before it.                  *)
Chain(priced, i) == SubSeq(priced, 1, i)
PutMessage(d, s, priced, i, kept) ==
    IF i \in DOMAIN kept /\ kept[i].digest = Chain(priced, i) THEN d
    ELSE LET without == Forgotten(d, s, {i})
             cleared == [without EXCEPT !.rows[s].messages = Without(@, {i})]
             id == Max(AllIds(cleared) \cup {0}) + 1
         IN  [cleared EXCEPT !.rows[s].messages =
                                 @ @@ (i :> [id |-> id, body |-> priced[i][1],
                                             cost |-> priced[i][2], digest |-> Chain(priced, i)]),
                             !.fts = @ \cup {<<id, priced[i][1]>>}]
WriteSession(d, s, bodies, g) ==
    LET priced == [i \in DOMAIN bodies |-> <<bodies[i], Cost(bodies[i], g)>>]
        kept == Retained(d, s)
        dropped == IF kept = <<>> THEN DOMAIN Rows(d, s) ELSE DOMAIN Rows(d, s) \ DOMAIN bodies
        forgotten == Forgotten(d, s, dropped)
        fresh == [messages |-> Without(Rows(d, s), dropped), count |-> Len(bodies),
                  revision |-> 0, parser |-> d.parser, generation |-> g,
                  total |-> Total([i \in DOMAIN bodies |-> priced[i][2]])]
        put[i \in 0 .. Len(bodies)] ==
            IF i = 0 THEN [forgotten EXCEPT !.rows[s] = fresh]
            ELSE PutMessage(put[i - 1], s, priced, i, kept)
    IN  [put[Len(bodies)] EXCEPT !.pending = @ \ {s}]
RemoveSessions(d, gone) ==
    [FoldSet(LAMBDA s, e : Forgotten(e, s, DOMAIN Rows(e, s)), d, gone)
        EXCEPT !.rows = [s \in Sessions |-> IF s \in gone THEN Absent ELSE @[s]],
               !.pending = @ \ gone]
Bumped(d) == [d EXCEPT !.revision = @ + 1]
(* apply_with_recovery: a corrupt index is built again, and then written.  *)
Recovered(d) == IF d.corrupt THEN [d EXCEPT !.fts = Whole(d), !.corrupt = FALSE] ELSE d
Applied(d, read, gone, g) ==
    IF DOMAIN read \cup gone = {} THEN d
    ELSE Bumped(FoldSet(LAMBDA s, e : WriteSession(e, s, read[s], g),
                        RemoveSessions(Recovered(d), gone), DOMAIN read))

----------------------------------------------------------------------------
(* Repricing what is stored: the bodies and their digests stay.            *)

Repriced(row, g) ==
    LET costs == [i \in DOMAIN row.messages |-> Cost(row.messages[i].body, g)]
        moved == {i \in DOMAIN row.messages : row.messages[i].cost # costs[i]}
    IN  IF row.generation = g \/ moved = {} THEN row
        ELSE [row EXCEPT !.messages = [i \in DOMAIN @ |-> [@[i] EXCEPT !.cost = costs[i]]],
                         !.total = Total(costs), !.generation = g, !.revision = @ + 1]
Moved(d, g) == {s \in Sessions : d.rows[s] # Absent /\ Repriced(d.rows[s], g) # d.rows[s]}
Reprice(d, g) ==
    IF Moved(d, g) = {} THEN d
    ELSE Bumped([d EXCEPT !.rows = [s \in Sessions |->
                                       IF @[s] = Absent THEN Absent ELSE Repriced(@[s], g)],
                          !.inventory = IF @ # Absent /\ @.revision = d.revision
                                        THEN [@ EXCEPT !.revision = d.revision + 1] ELSE @])

----------------------------------------------------------------------------
(* The hub's snapshot.                                                     *)

HeadOf(row) == IF row = Absent THEN Absent
             ELSE [count |-> row.count, total |-> row.total, revision |-> row.revision]
Load(d) == [s \in Sessions |-> HeadOf(d.rows[s])]
(* refresh_snapshot: only what changed, unless another connection wrote.   *)
Snapshot(before, seen, d, changed) ==
    IF seen # d.foreign THEN Load(d)
    ELSE [s \in Sessions |-> IF s \in changed \/ d.rows[s] = Absent \/ before[s] = Absent
                             THEN HeadOf(d.rows[s]) ELSE before[s]]
Refreshed(d, changed) ==
    hub' = [heads |-> Snapshot(hub.heads, hub.seen, d, changed), seen |-> d.foreign]

(* History: the reader's session is written, after a cursor of a repricing. *)
Rewritten(ids) ==
    client' = [client EXCEPT !.rewritten = @ \/ (client.session \in ids /\ client.cursor.revision > 0)]

(* A batch: one session the writer was given, read at some time before, or *)
(* one that is gone.                                                       *)
PublishSession(s, bodies) ==
    /\ Use("publications") /\ bodies \in limit.contents
    /\ \E d \in {Applied(db, s :> bodies, {}, generation)} : db' = d /\ Refreshed(d, {s})
    /\ Rewritten({s}) /\ outdated' = outdated \ {s}
    /\ UNCHANGED <<source, generation, json, limit>>
PublishRemoval(s) ==
    /\ Use("publications") /\ db.rows[s] # Absent
    /\ \E d \in {Applied(db, <<>>, {s}, generation)} : db' = d /\ Refreshed(d, {s})
    /\ Rewritten({s}) /\ outdated' = outdated \ {s}
    /\ UNCHANGED <<source, generation, json, limit>>
NewPrices ==
    /\ Use("prices") /\ generation + 1 \in DOMAIN PriceOf
    /\ generation' = generation + 1
    /\ UNCHANGED <<source, db, hub, json, client, outdated, limit>>
(* reprice_all: skipped when the mark says that it has been done.          *)
RepriceAll ==
    /\ db.marker # generation
    /\ \E d \in {Reprice(db, generation)} :
          /\ db' = [d EXCEPT !.marker = generation]
          /\ IF d = db THEN UNCHANGED hub ELSE Refreshed(d, Moved(db, generation))
    /\ outdated' = {}
    /\ UNCHANGED <<source, generation, json, client, used, limit>>
(* release_index_memory: the connection is replaced by a new one.          *)
ReleaseMemory ==
    /\ Use("opens") /\ hub' = [hub EXCEPT !.seen = 0]
    /\ UNCHANGED <<source, db, generation, json, client, outdated, limit>>
(* The hub started again, by a version that reads the sources otherwise or *)
(* wants some sessions read again.                                         *)
Reopen(parser, pending) ==
    /\ Use("opens") /\ pending \subseteq {s \in Sessions : db.rows[s] # Absent}
    /\ db' = [db EXCEPT !.parser = parser, !.pending = @ \cup pending]
    /\ hub' = [heads |-> Load(db), seen |-> db.foreign]
    /\ UNCHANGED <<source, generation, json, client, outdated, limit>>
CorruptIndex ==
    /\ Use("corruptions") /\ db' = [db EXCEPT !.corrupt = TRUE, !.fts = {}]
    /\ UNCHANGED <<source, generation, hub, json, client, outdated, limit>>

----------------------------------------------------------------------------
(* Reading a session from a cursor.                                        *)

(* with_cost_revision: 0 leaves the digest as it is.                       *)
Cursor(count, digest, revision) == [count |-> count, digest |-> digest, revision |-> revision]
NoCursor == Cursor(0, <<"none">>, 0)
DigestAt(row, n) == IF n = 0 THEN <<>> ELSE row.messages[n].digest
Continues(row, cursor) ==
    /\ cursor.count <= row.count
    /\ Cursor(cursor.count, DigestAt(row, cursor.count), row.revision) = cursor
HeldOf(row, first, last) ==
    [i \in 1 .. (last - first + 1) |->
        <<row.messages[first + i - 1].body, row.messages[first + i - 1].cost>>]
ReadPage(size) ==
    /\ Use("reads") /\ db.rows[client.session] # Absent
    /\ LET row == db.rows[client.session]
           start == IF Continues(row, client.cursor) THEN client.cursor.count ELSE 0
           end == Min({start + size, row.count})
           kept == SubSeq(client.held, 1, start)
       IN  client' = [client EXCEPT !.held = kept \o HeldOf(row, start + 1, end),
                                    !.cursor = Cursor(end, DigestAt(row, end), row.revision),
                                    !.rewritten = @ /\ start > 0]
    /\ UNCHANGED <<source, db, generation, hub, json, outdated, limit>>

----------------------------------------------------------------------------
(* The program run with --json.                                            *)

NoRun == [at |-> "idle", generation |-> 0, baseline |-> Absent, before |-> Absent,
          read |-> <<>>, tries |-> 0]
Commit(d) == db' = IF d = db THEN db ELSE [d EXCEPT !.foreign = @ + 1]
Priced(ids) ==
    outdated' = IF json.generation = generation THEN outdated \ ids ELSE outdated \cup ids
JsonStart ==
    /\ json.at = "idle" /\ Use("runs")
    /\ json' = [NoRun EXCEPT !.at = "reprice", !.generation = generation]
    /\ UNCHANGED <<source, db, generation, hub, client, outdated, limit>>
JsonReprice ==
    /\ json.at = "reprice"
    /\ Commit(Reprice(db, json.generation)) /\ Priced(Moved(db, json.generation))
    /\ json' = [json EXCEPT !.at = "baseline"]
    /\ UNCHANGED <<source, generation, hub, client, used, limit>>
(* signature: the files, with their sizes and times of writing.            *)
Signature == <<source, used.writes>>
(* source_json_baseline, with the pre-scan signature of the source.        *)
JsonBaseline ==
    /\ json.at = "baseline"
    /\ LET current == /\ db.inventory # Absent /\ db.inventory.revision = db.revision
                      /\ db.pending = {}
       IN  json' = [json EXCEPT !.baseline = [revision |-> db.revision,
                                              fingerprint |-> IF current
                                                              THEN db.inventory.fingerprint
                                                              ELSE Absent,
                                              sessions |-> {s \in Sessions : db.rows[s] # Absent}],
                                !.at = "sign", !.tries = @ + 1]
    /\ UNCHANGED <<source, db, generation, hub, client, outdated, used, limit>>
JsonSign ==
    /\ json.at = "sign"
    /\ json' = [json EXCEPT !.before = Signature,
                            !.at = IF json.baseline.fingerprint = Signature THEN "idle" ELSE "scan"]
    /\ UNCHANGED <<source, db, generation, hub, client, outdated, used, limit>>
JsonScan ==
    /\ json.at = "scan"
    /\ IF \E s \in json.baseline.sessions : source[s] = Broken
       THEN json' = NoRun
       ELSE json' = [json EXCEPT !.at = "apply",
                                 !.read = Restrict(source, {s \in Sessions :
                                                      source[s] \notin {Absent, Broken}})]
    /\ UNCHANGED <<source, db, generation, hub, client, outdated, used, limit>>
(* apply_json_index: refused when the cache has changed since.             *)
Unchanged(revision) == db.revision = revision
Inventory(d, before) == [d EXCEPT !.inventory = [revision |-> d.revision, fingerprint |-> before]]
JsonApply ==
    /\ json.at = "apply"
    /\ IF Unchanged(json.baseline.revision)
       THEN /\ Commit(Inventory(Applied(db, json.read, json.baseline.sessions \ DOMAIN json.read,
                                        json.generation), json.before))
            /\ Priced(DOMAIN json.read) /\ Rewritten(json.baseline.sessions \cup DOMAIN json.read)
            /\ json' = NoRun
       ELSE /\ json' = IF json.tries = 3 THEN NoRun ELSE [json EXCEPT !.at = "baseline"]
            /\ UNCHANGED <<db, client, outdated>>
    /\ UNCHANGED <<source, generation, hub, used, limit>>
JsonDies ==
    /\ json.at # "idle" /\ json' = NoRun
    /\ UNCHANGED <<source, db, generation, hub, client, outdated, used, limit>>

(* The agent writing its files.                                            *)
WriteSource(s, content) ==
    /\ Use("writes") /\ content \in limit.contents \cup {Absent, Broken} /\ content # source[s]
    /\ source' = [source EXCEPT ![s] = content]
    /\ UNCHANGED <<db, generation, hub, json, client, outdated, limit>>

----------------------------------------------------------------------------

EmptyCache(foreign) ==
    [rows |-> [s \in Sessions |-> Absent], fts |-> {}, pending |-> {}, revision |-> 0,
     inventory |-> Absent, marker |-> 0, parser |-> 1, corrupt |-> FALSE, foreign |-> foreign]
CacheInit ==
    /\ limit \in CacheBounds
    /\ source = limit.source /\ generation = 1
    /\ db = [Applied(EmptyCache(1), limit.stored, {}, 1) EXCEPT !.marker = 1]
    /\ hub = [heads |-> Load(db), seen |-> 1]
    /\ json = NoRun
    /\ client = [session |-> CHOOSE s \in Sessions : TRUE, held |-> <<>>, cursor |-> NoCursor,
                 rewritten |-> FALSE]
    /\ outdated = {}
    /\ used = [writes |-> 0, publications |-> 0, prices |-> 0, runs |-> 0, reads |-> 0,
               opens |-> 0, corruptions |-> 0]
CacheNext ==
    \/ \E s \in Sessions : \/ PublishRemoval(s)
                           \/ \E bodies \in limit.contents : PublishSession(s, bodies)
                           \/ \E content \in limit.contents \cup {Absent, Broken} :
                                 WriteSource(s, content)
    \/ NewPrices \/ RepriceAll \/ ReleaseMemory \/ CorruptIndex
    \/ \E parser \in {db.parser, db.parser + 1}, pending \in SUBSET Sessions :
          Reopen(parser, pending)
    \/ \E size \in 1 .. 3 : ReadPage(size)
    \/ JsonStart \/ JsonReprice \/ JsonBaseline \/ JsonSign \/ JsonScan \/ JsonApply \/ JsonDies
CacheSpec == CacheInit /\ [][CacheNext]_cacheVars

----------------------------------------------------------------------------

(* The search index has an entry for every message stored and no other,    *)
(* though rows are kept, replaced one by one and their rowids used again   *)
(* (storage.rs:341, search_text.rs:329).                                   *)
SearchIsExact == ~db.corrupt => db.fts = Whole(db)

(* What was kept of a session and what was written anew make one whole     *)
(* session: its messages are numbered without a gap, the stored digests    *)
(* are those of the bodies before them and, until it is repriced, of their *)
(* costs, and its total is theirs (storage.rs:375, reprice.rs:243).        *)
SessionsAreWhole ==
    \A s \in Sessions : db.rows[s] # Absent =>
        LET row == db.rows[s]
        IN  /\ DOMAIN row.messages = 1 .. row.count
            /\ row.total = Total([i \in 1 .. row.count |-> row.messages[i].cost])
            /\ \A i \in 1 .. row.count :
                  /\ Len(row.messages[i].digest) = i
                  /\ \A j \in 1 .. i : row.messages[i].digest[j][1] = row.messages[j].body
                  /\ row.revision = 0 => row.messages[i].digest = HeldOf(row, 1, i)

(* A reader whose cursor is accepted holds exactly what is stored before   *)
(* it, whatever was published or repriced since (read.rs:79).  The         *)
(* revision of a session starts at 0 again when it is written, so a cursor *)
(* older than that may be accepted at other costs: it is excepted.         *)
CursorIsSound ==
    /\ ~client.rewritten /\ db.rows[client.session] # Absent
    /\ Continues(db.rows[client.session], client.cursor)
    => client.held = HeldOf(db.rows[client.session], 1, client.cursor.count)

(* The hub's heads are those stored, unless another program has written    *)
(* since the hub last looked (storage.rs:71).                              *)
SnapshotIsExact == hub.seen = db.foreign => hub.heads = Load(db)

(* A source whose inventory is unchanged may be answered from the cache:   *)
(* what is stored is what the source says (json_scan.rs:102).              *)
InventoryIsHonest ==
    db.inventory # Absent /\ db.inventory.revision = db.revision /\ db.pending = {}
        /\ db.inventory.fingerprint = Signature =>
    \A s \in Sessions : source[s] # Broken =>
        IF source[s] = Absent THEN db.rows[s] = Absent
        ELSE db.rows[s] # Absent /\ source[s] = [i \in 1 .. db.rows[s].count |->
                                                   db.rows[s].messages[i].body]

(* A session whose costs are not those of the generation marked was       *)
(* priced since by a --json program with prices the hub had replaced       *)
(* (reprice.rs:93, json_scan.rs:73).                                       *)
Matches(s) ==
    \A i \in DOMAIN Rows(db, s) : Rows(db, s)[i].cost = Cost(Rows(db, s)[i].body, db.marker)
MarkIsHonest == db.marker = generation => \A s \in Sessions \ outdated : Matches(s)
=============================================================================
