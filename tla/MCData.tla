-------------------------------- MODULE MCData --------------------------------
(***************************************************************************)
(* How data is read, kept, listed and moved on one machine, on small       *)
(* instances: the transcripts of Claude Code and Codex, the databases of   *)
(* OpenCode and Cursor, the watches on them, the cache of sessions and its *)
(* versions, the session list, and the move of the program's files.  A     *)
(* behaviour is of one of these, `part'; the variables of the others stay  *)
(* as they are.                                                            *)
(***************************************************************************)
EXTENDS Naturals, Sequences, TLC

CONSTANTS
    InView,     \* the parts to look at
    None, Torn, Absent, NoEvent, c1, c2

VARIABLES
    part,
    legacy, newFiles, journal, run, using, written, clock, faults, launches, crashes, limits,
    claudeFile, claudeMeta, claudeRecent, claudeDirty, claudeCheckpoints, claudeGeneration,
    claudeKnown, claudeBound, claudeEdits,
    codexFile, codexRecent, codexDirty, codexCheckpoints, codexSummaries, codexGeneration,
    codexKnown, codexBound, codexEdits,
    v1, v2, phase, copied, snapshot, stored, lost, exact, databaseUsed, databaseLimit,
    cacheSource, db, cacheGeneration, hub, json, client, outdated, cacheUsed, cacheLimit,
    depth, present, changes, watchSeen, queue, handling, stage, reset, revised, watched,
    watchPc, desired, firstScans, told, missed, blind, ops, watchScope,
    cacheFile, backups, opener, schemaUsed, schemaLimit,
    catalog, now, snapshots, made, getting, left, listScope,
    table, sync, plan, firstScan, rejected, published, syncUsed, syncLimit

migrationOnly == <<legacy, newFiles, journal, run, using, written, clock, faults, launches,
                   crashes, limits>>
claudeOnly == <<claudeFile, claudeMeta, claudeRecent, claudeDirty, claudeCheckpoints,
                claudeGeneration, claudeKnown, claudeBound, claudeEdits>>
codexOnly == <<codexFile, codexRecent, codexDirty, codexCheckpoints, codexSummaries,
               codexGeneration, codexKnown, codexBound, codexEdits>>
databaseOnly == <<v1, v2, phase, copied, snapshot, stored, lost, exact, databaseUsed, databaseLimit>>
cacheOnly == <<cacheSource, db, cacheGeneration, hub, json, client, outdated, cacheUsed, cacheLimit>>
watchOnly == <<depth, present, changes, watchSeen, queue, handling, stage, reset, revised,
               watched, watchPc, desired, firstScans, told, missed, blind, ops, watchScope>>
schemaOnly == <<cacheFile, backups, opener, schemaUsed, schemaLimit>>
listOnly == <<catalog, now, snapshots, made, getting, left, listScope>>
cursorOnly == <<table, sync, plan, firstScan, rejected, published, syncUsed, syncLimit>>

----------------------------------------------------------------------------
(* The move, of what a state and a cache there may be, with a crash, a     *)
(* failing step, older programs that write, and files already at the new   *)
(* place.                                                                  *)
Move == [items |-> {"state", "cache"}, there |-> {}, writes |-> 1, crashes |-> 1, faults |-> 1,
         launches |-> 2, deletes |-> {}, careful |-> TRUE]
Moves == {Move,
          [Move EXCEPT !.items = {"cache"}, !.careful = FALSE, !.writes = 2,
                       !.deletes = {"cache"}, !.launches = 3, !.faults = 0],
          [Move EXCEPT !.items = {"state"}, !.careful = FALSE, !.writes = 2, !.launches = 3,
                       !.crashes = 2, !.faults = 0],
          [Move EXCEPT !.items = {"log", "pricing"}, !.there = {"pricing"}]}
Migration == INSTANCE DataMigration WITH MigrationBounds <- Moves, target <- newFiles, NoFile <- Absent

(* Requests in pieces, tool calls and their results; a subagent's file.    *)
TextPart == [kind |-> "text", text |-> "x"]
ToolPart == [kind |-> "tool", call |-> "c", status |-> "running", result |-> None]
Reply(request, usage, parts) ==
    [type |-> "assistant", request |-> request, usage |-> usage, parts |-> parts]
Said(text, results) == [type |-> "user", text |-> text, results |-> results]
ClaudeScopes == {
    [P |-> {Reply("r", 1, <<TextPart, ToolPart>>), Reply("s", 3, <<ToolPart>>),
            Said("x", <<>>), Said("", <<[call |-> "c", error |-> FALSE]>>)},
     C |-> {}, edits |-> 4, prices |-> 0],
    [P |-> {Reply("r", 1, <<TextPart, ToolPart>>)}, C |-> {Reply("r", 1, <<TextPart>>)},
     edits |-> 3, prices |-> 1]}
Claude == INSTANCE ClaudeTranscript WITH
    Links <- {"c"}, Limit <- 1, MaxLines <- 3, Bounds <- ClaudeScopes,
    file <- claudeFile, meta <- claudeMeta, recent <- claudeRecent, dirty <- claudeDirty,
    checkpoints <- claudeCheckpoints, generation <- claudeGeneration, known <- claudeKnown,
    bound <- claudeBound, edits <- claudeEdits

(* Scans of two rollouts; and single rollouts of every few lines about     *)
(* tokens, and about tools.                                                *)
Count(n, last) == [type |-> "count", n |-> n, last |-> last]
Answer == [type |-> "assistant", n |-> 0, text |-> "x", plan |-> FALSE, final |-> FALSE]
Notice == [type |-> "notice", n |-> 0]
Call(inner, reads) == [type |-> "call", n |-> 0, call |-> "c", inner |-> inner, reads |-> reads]
Output(state) == [type |-> "output", n |-> 0, call |-> "c", status |-> state]
Turn(own, model) == [type |-> "turn", n |-> 0, own |-> own, model |-> model]
CountLines ==
    {Count(1, 1), Count(2, None), Count(0, 0), Turn(TRUE, "m"), Turn(FALSE, "n"), Answer,
     [type |-> "record", n |-> 4, id |-> "i"], [type |-> "compacted", n |-> 0, id |-> "i"]}
ToolLines ==
    {Answer, [Answer EXCEPT !.plan = TRUE], Notice, Call(1, FALSE), Call(2, FALSE), Call(1, TRUE),
     Output("completed"), Output("running"), Output("error"), Count(1, 1),
     [type |-> "reasoning", n |-> 0, text |-> "x"], [type |-> "item", n |-> 0, item |-> "i"],
     [type |-> "user", n |-> 0, text |-> "x", implements |-> TRUE]}
Rollout(P, C, edits, prices, forked, scans) ==
    [P |-> P, C |-> C, edits |-> edits, prices |-> prices, forked |-> forked, scans |-> scans]
CodexScopes ==
    {Rollout({Answer, Count(1, 1), Call(1, FALSE)}, {}, 4, 1, FALSE, TRUE),
     Rollout({Answer, Notice}, {Answer, [Answer EXCEPT !.final = TRUE], Count(1, 1)}, 4, 0, FALSE, TRUE),
     Rollout(CountLines, {}, 5, 0, FALSE, FALSE), Rollout(CountLines, {}, 5, 0, TRUE, FALSE),
     Rollout(ToolLines, {}, 5, 0, FALSE, FALSE)}
Codex == INSTANCE CodexRollout WITH
    Limit <- 1, MaxLines <- 5, Bounds <- CodexScopes,
    file <- codexFile, recent <- codexRecent, dirty <- codexDirty,
    checkpoints <- codexCheckpoints, summaries <- codexSummaries,
    generation <- codexGeneration, known <- codexKnown, bound <- codexBound, edits <- codexEdits

(* OpenCode's two layouts, and its own move from one to the other.         *)
Kept(parent, body, shown) == [parent |-> parent, body |-> body, shown |-> shown]
Tree == <<Kept(0, 1, TRUE), Kept(1, 1, TRUE), Kept(2, 1, FALSE)>>
DatabaseScope(writes, copies, pages, new, bodies) ==
    [writes |-> writes, copies |-> copies, pages |-> pages, start |-> Tree, v2 |-> new,
     bodies |-> bodies]
DatabaseScopes == {DatabaseScope(3, 0, 2, FALSE, {0, 1, 2}),
                   DatabaseScope(3, 0, 2, TRUE, {0, 1, 2}), DatabaseScope(1, 9, 1, FALSE, {0, 2})}
Database == INSTANCE OpenCodeSync WITH
    Ids <- {1, 2, 3}, DatabaseBounds <- DatabaseScopes, cursor <- copied,
    used <- databaseUsed, limit <- databaseLimit

(* Two of Cursor's sessions that share a subagent, or come to; a page or a *)
(* refresh that is refused.                                                *)
Table(rows, bubbles) ==
    [composer |-> rows, bubbles |-> bubbles, subagent |-> [k \in {"k"} |-> 1],
     directory |-> [i \in {1, 2} |-> 0]]
ComposerRow(kids) == [own |-> 1, kids |-> kids]
SyncScope(writes, rejects, kids, start) ==
    [writes |-> writes, rejects |-> rejects, kids |-> kids, start |-> start]
SyncScopes ==
    {SyncScope(3, 0, {{}, {"k"}}, Table(<<ComposerRow({"k"}), ComposerRow({"k"})>>, <<1, 1>>)),
     SyncScope(2, 1, {{"k"}}, Table(<<ComposerRow({"k"}), ComposerRow({})>>, <<0, 1>>))}
Synced == INSTANCE CursorSync WITH
    Composers <- {1, 2}, Subagents <- {"k"}, NoRow <- None, CursorBounds <- SyncScopes,
    fresh <- firstScan, used <- syncUsed, limit <- syncLimit

(* Three publications over a corrupted cache; a reader between them; a     *)
(* program with --json, and prices that move beside it.                    *)
Prices == << [x |-> 1, y |-> 2, z |-> 0], [x |-> 2, y |-> 1, z |-> 0], [x |-> 1, y |-> 3, z |-> 0],
             [x |-> 3, y |-> 1, z |-> 0] >>
CacheScope(writes, publications, prices, runs, reads, opens, corruptions) ==
    [writes |-> writes, publications |-> publications, prices |-> prices, runs |-> runs,
     reads |-> reads, opens |-> opens, corruptions |-> corruptions,
     contents |-> {<<"x">>, <<"x", "y">>, <<"z", "y">>}, stored |-> [a |-> <<"x", "y">>],
     source |-> [a |-> <<"x", "y">>, b |-> Absent]]
CacheScopes == {CacheScope(0, 3, 0, 0, 0, 1, 1), CacheScope(0, 2, 2, 0, 2, 0, 0),
                CacheScope(2, 1, 0, 1, 0, 0, 0), CacheScope(1, 1, 1, 1, 0, 0, 0),
                CacheScope(0, 2, 1, 1, 0, 1, 0), CacheScope(0, 0, 2, 1, 2, 0, 0), CacheScope(0, 1, 3, 0, 2, 0, 0)}
Cache == INSTANCE SessionCache WITH
    Sessions <- {"a", "b"}, Bodies <- {"x", "y", "z"}, PriceOf <- Prices,
    CacheBounds <- CacheScopes, source <- cacheSource, generation <- cacheGeneration,
    used <- cacheUsed, limit <- cacheLimit

(* Directories made while they are watched for; a file replaced by a save  *)
(* and an error of the watcher; files in a directory not watched yet.      *)
WatchScope(height, standing, dirs, writes, saves, errors) ==
    [depth |-> height, standing |-> standing, dirs |-> dirs, writes |-> writes, saves |-> saves,
     errors |-> errors]
WatchScopes == {WatchScope(2, FALSE, 2, 0, 0, 0), WatchScope(2, FALSE, 1, 1, 0, 0),
                WatchScope(4, TRUE, 2, 1, 0, 0), WatchScope(4, TRUE, 0, 2, 1, 1),
                WatchScope(1, TRUE, 3, 0, 0, 0)}
Watches == INSTANCE Watcher WITH
    MaxQueue <- 1, WatchBounds <- WatchScopes, seen <- watchSeen, pc <- watchPc,
    scanned <- firstScans

(* Caches of several versions, of a later program, and none.               *)
CacheRow(head, older, fresh) ==
    [head |-> head, older |-> older, text |-> fresh, packed |-> fresh, bucket |-> fresh,
     pending |-> FALSE]
Store(version, rows, keys, index) ==
    [version |-> version, rows |-> rows, keys |-> keys, index |-> index, titles |-> TRUE,
     texted |-> 0, indexed |-> 0, packing |-> 0]
Packed == CacheRow(TRUE, FALSE, FALSE)
Unpacked == CacheRow(FALSE, TRUE, FALSE)
Nobody == Store(0, <<>>, {}, {})
Version3 == Store(3, <<Unpacked, Unpacked, Unpacked>>, {}, {})
Version30 == Store(30, <<Unpacked, Unpacked>>, {"index", "patches"}, {<<1, FALSE>>, <<2, FALSE>>})
Version37 == Store(37, <<Packed, Packed, Packed>>, {"index", "patches"},
                   {<<1, FALSE>>, <<2, FALSE>>, <<3, FALSE>>})
Version38 == Store(38, <<CacheRow(TRUE, FALSE, TRUE)>>, {"patches", "buckets", "text", "packed"}, {})
Version99 == Store(99, <<Packed>>, {}, {})
OpenScope(opens, killed, failures, publications, together, start) ==
    [opens |-> opens, crashes |-> killed, failures |-> failures, publications |-> publications,
     together |-> together, start |-> start]
OpenScopes == {OpenScope(3, 2, 1, 1, FALSE, Version3), OpenScope(3, 2, 0, 2, FALSE, Version30),
               OpenScope(3, 2, 0, 1, FALSE, Version37), OpenScope(2, 0, 0, 0, TRUE, Version37),
               OpenScope(2, 0, 0, 0, TRUE, Nobody), OpenScope(2, 1, 0, 2, FALSE, Nobody),
               OpenScope(2, 0, 0, 1, FALSE, Version99), OpenScope(3, 1, 0, 1, FALSE, Version38)}
Schema == INSTANCE CacheSchema WITH
    Openers <- {"p1", "p2"}, Batch <- 1, CacheSchemaVersion <- 38, OpenBounds <- OpenScopes,
    file <- cacheFile, used <- schemaUsed, limit <- schemaLimit

(* Lists that change between two pages; and every way in which three or    *)
(* four sessions may name each other as parents.                           *)
Session(ref, parent, agent, tag, updated) ==
    [ref |-> ref, parent |-> parent, agent |-> agent, tag |-> tag, updated |-> updated]
Earlier == <<Session("a", None, "x", "t", 2), Session("b", "a", "x", None, 1),
             Session("c", "b", "y", "t", 2), Session("a", None, "x", None, 1)>>
Later == <<Session("d", None, "x", "t", 1), Session("b", "d", "x", "t", 2),
            Session("a", "b", "y", None, 1)>>
Single == <<Session("b", None, "x", "t", 1)>>
Query(agent, from) == [agent |-> agent, tag |-> None, from |-> from]
Of(refs, parents, times) ==
    [i \in DOMAIN refs |-> Session(refs[i], parents[i], "x", None, times[i])]
Three == {Of(r, p, t) : r \in {<<"a", "b", "c">>, <<"a", "b", "a">>},
                        p \in [1..3 -> {None, "a", "b", "c"}], t \in [1..3 -> {1, 2}]}
Four == {Of(<<"a", "b", "c", "d">>, p, t) : p \in [1..4 -> {None, "a", "b", "c", "d"}],
                                            t \in {<<1, 2, 1, 2>>, <<2, 1, 1, 1>>}}
ListScope(catalogs, queries, most, ticks, publishes, lists) ==
    [catalogs |-> catalogs, queries |-> queries, limits |-> most, ticks |-> ticks,
     publishes |-> publishes, lists |-> lists]
ListScopes ==
    {ListScope({Earlier, Later, Single}, {Query(None, None), Query("x", 2)}, {1, 2}, 2, 1, 3)}
    \cup {ListScope({c}, {Query(None, 2)}, {2}, 0, 0, 0) : c \in Three \cup Four}
List == INSTANCE SessionList WITH Clients <- {c1, c2}, MaxSnapshots <- 1, Lifetime <- 2,
    ListBounds <- ListScopes

----------------------------------------------------------------------------
Only(name, scope, scopes) ==
    scope \in scopes /\ (part # name => scope = CHOOSE b \in scopes : TRUE)
DataInit ==
    /\ part \in InView
    /\ Only("migration", limits, Moves) /\ Migration!MigrationInit
    /\ Only("claude", claudeBound, ClaudeScopes) /\ Claude!ClaudeInit
    /\ Only("codex", codexBound, CodexScopes) /\ Codex!CodexInit
    /\ Only("database", databaseLimit, DatabaseScopes) /\ Database!DatabaseInit
    /\ Only("cache", cacheLimit, CacheScopes) /\ Cache!CacheInit
    /\ Only("watch", watchScope, WatchScopes) /\ Watches!WatchInit
    /\ Only("schema", schemaLimit, OpenScopes) /\ Schema!OpenInit
    /\ Only("list", listScope, ListScopes) /\ List!ListInit
    /\ Only("cursor", syncLimit, SyncScopes) /\ Synced!CursorInit
    /\ part # "list" => catalog = CHOOSE c \in listScope.catalogs : TRUE
DataNext ==
    /\ UNCHANGED part
    /\ \/ /\ part = "migration" /\ Migration!MigrationNext
          /\ UNCHANGED <<claudeOnly, codexOnly, databaseOnly, cursorOnly, cacheOnly,
                         watchOnly, schemaOnly, listOnly>>
       \/ /\ part = "claude" /\ Claude!ClaudeNext
          /\ UNCHANGED <<migrationOnly, codexOnly, databaseOnly, cursorOnly, cacheOnly,
                         watchOnly, schemaOnly, listOnly>>
       \/ /\ part = "codex" /\ Codex!CodexNext
          /\ UNCHANGED <<migrationOnly, claudeOnly, databaseOnly, cursorOnly, cacheOnly,
                         watchOnly, schemaOnly, listOnly>>
       \/ /\ part = "database" /\ Database!DatabaseNext
          /\ UNCHANGED <<migrationOnly, claudeOnly, codexOnly, cursorOnly, cacheOnly,
                         watchOnly, schemaOnly, listOnly>>
       \/ /\ part = "cursor" /\ Synced!CursorNext
          /\ UNCHANGED <<migrationOnly, claudeOnly, codexOnly, databaseOnly, cacheOnly,
                         watchOnly, schemaOnly, listOnly>>
       \/ /\ part = "cache" /\ Cache!CacheNext
          /\ UNCHANGED <<migrationOnly, claudeOnly, codexOnly, databaseOnly, cursorOnly,
                         watchOnly, schemaOnly, listOnly>>
       \/ /\ part = "watch" /\ Watches!WatchNext
          /\ UNCHANGED <<migrationOnly, claudeOnly, codexOnly, databaseOnly, cursorOnly, cacheOnly,
                         schemaOnly, listOnly>>
       \/ /\ part = "schema" /\ Schema!OpenNext
          /\ UNCHANGED <<migrationOnly, claudeOnly, codexOnly, databaseOnly, cursorOnly, cacheOnly,
                         watchOnly, listOnly>>
       \/ /\ part = "list" /\ List!ListNext
          /\ UNCHANGED <<migrationOnly, claudeOnly, codexOnly, databaseOnly, cursorOnly, cacheOnly,
                         watchOnly, schemaOnly>>
dataVars == <<part, migrationOnly, claudeOnly, codexOnly, databaseOnly, cursorOnly, cacheOnly,
              watchOnly, schemaOnly, listOnly>>

DataSpec == DataInit /\ [][DataNext]_dataVars

(* Transcripts read in part are as if read from nothing.                   *)
TranscriptsExact ==
    /\ part = "claude" => Claude!ScanIsExact /\ Claude!TotalsAgree /\ Claude!ResultsStay
    /\ part = "codex" => Codex!RolloutScanIsExact /\ Codex!CountedOnce /\ Codex!TokensShown

(* What is kept of OpenCode's and of Cursor's database is what it holds.   *)
DatabaseExact ==
    /\ part = "database" => /\ Database!RefreshIsExact /\ Database!BodiesAreRead
                            /\ Database!PagesReachAll /\ Database!DeletedStaysDeleted
    /\ part = "cursor" => Synced!NothingMissed

(* The cache, its index, its snapshot, its cursors and the inventory agree. *)
CacheExact ==
    part = "cache" =>
        /\ Cache!SearchIsExact /\ Cache!SessionsAreWhole /\ Cache!CursorIsSound
        /\ Cache!SnapshotIsExact /\ Cache!InventoryIsHonest /\ Cache!MarkIsHonest

(* Watches stand where they should, and no change goes unnoticed.          *)
WatchesSound == part = "watch" => Watches!WatchesStand /\ Watches!ToldOrMissed

(* The move loses nothing and leaves nothing behind, and cuts over once.   *)
MoveSafe ==
    part = "migration" => Migration!NothingLost /\ Migration!NoOrphan /\ Migration!StateCarried
MoveCorrect == []MoveSafe /\ Migration!CutoverOnce

(* A cache is ready once open, and what an older program stored is kept    *)
(* and read again.                                                         *)
CachesOpen ==
    part = "schema" => Schema!OpenIsReady /\ Schema!OlderIsKept /\ Schema!OlderIsReadAgain

(* Families of sessions are whole, and the pages of a list are of one list. *)
ListCorrect ==
    part = "list" =>
        /\ List!FamiliesPartition /\ List!FamiliesStayTogether
        /\ List!PagesAreOneList /\ List!ListsLast
=============================================================================
