----------------------------- MODULE CacheSchema ----------------------------
(***************************************************************************)
(* storage/schema.rs, search_text.rs (rebuild, ensure_index), body.rs      *)
(* (compress_existing), Cache::open and cli cache_open.rs: opening         *)
(* codesesh.db.  Whatever version wrote it, it is backed up, migrated,     *)
(* patched and then filled in batches that a killed program resumes; the   *)
(* program that serves and one run with --json may do so at once.          *)
(*                                                                         *)
(* Every transaction is one action: it commits, or it leaves nothing.  A   *)
(* session has one message and they share a rowid.                         *)
(***************************************************************************)
EXTENDS Naturals, Sequences, SequencesExt, FiniteSetsExt, Functions, TLC

CONSTANTS Openers, Batch, CacheSchemaVersion,
    OpenBounds  \* bounds to choose from: each [opens, crashes, failures, publications,
                \* together, start], together being whether programs open the file at once
                \* and start what is in it


VARIABLES
    file,       \* what is committed to the database
    backups,    \* the files beside it: [version, rows, whole]
    opener,     \* each program: [at, version, cursor, total]
    used, limit
schemaVars == <<file, backups, opener, used, limit>>

Use(what) == used[what] < limit[what] /\ used' = [used EXCEPT ![what] = @ + 1]
Unset == 0
Rowids == DOMAIN file.rows
Total == Max(Rowids \cup {0})
At(p, at) == opener[p].at = at
Step(p, at) == opener' = [opener EXCEPT ![p].at = at]
Kept == UNCHANGED <<backups, used, limit>>

(* A session: whether its head metadata can be read, and is also where     *)
(* versions before 35 kept it; whether its search text, its body and its   *)
(* usage are as this version writes them; whether it is to be read again.  *)
Row(head, older, fresh) ==
    [head |-> head, older |-> older, text |-> fresh, packed |-> fresh, bucket |-> fresh,
     pending |-> FALSE]
Written == Row(TRUE, FALSE, TRUE)

----------------------------------------------------------------------------
(* ensure_with_progress: what the file is.                                 *)

Start(p) ==
    /\ At(p, "off") /\ Use("opens")
    /\ limit.together \/ \A q \in Openers : opener[q].at \in {"off", "open", "temporary"}
    /\ Step(p, "version") /\ UNCHANGED <<file, backups, limit>>
Refused(p) == Step(p, "failed") /\ UNCHANGED file
ReadVersion(p) ==
    /\ At(p, "version")
    /\ IF file.version > CacheSchemaVersion THEN Refused(p)
       ELSE /\ opener' = [opener EXCEPT ![p].version = file.version,
                                        ![p].at = IF file.version = 0 THEN "create"
                                                  ELSE IF file.version \in {36, 37} THEN "relabel"
                                                  ELSE IF file.version < CacheSchemaVersion
                                                  THEN "backup" ELSE "patch"]
            /\ UNCHANGED file
    /\ Kept
(* Another program may have created it since.                              *)
Create(p) ==
    /\ At(p, "create")
    /\ IF file.version # 0 THEN Refused(p)
       ELSE file' = [file EXCEPT !.version = CacheSchemaVersion] /\ Step(p, "patch")
    /\ Kept
Relabel(p) ==
    /\ At(p, "relabel") /\ file' = [file EXCEPT !.version = CacheSchemaVersion] /\ Step(p, "patch")
    /\ Kept
(* The copy is made under another name and renamed when it is whole.       *)
CopyPages(p) ==
    /\ At(p, "backup") /\ Step(p, "rename")
    /\ backups' = backups \cup {[by |-> p, version |-> opener[p].version, rows |-> {},
                                 whole |-> FALSE]}
    /\ UNCHANGED <<file, used, limit>>
RenameBackup(p) ==
    /\ At(p, "rename") /\ Step(p, "migrate")
    /\ backups' = (backups \ {b \in backups : b.by = p /\ ~b.whole})
                  \cup {[by |-> p, version |-> opener[p].version, rows |-> Rowids, whole |-> TRUE]}
    /\ UNCHANGED <<file, used, limit>>

(* migrate: by the version that was read, in one transaction.              *)
(* Mutant of MigratedRow: a row in an older form is trusted.               *)
MigratedRowTrusted(row, version) == [row EXCEPT !.head = IF version < 35 THEN row.older ELSE @]
MigratedRow(row, version) ==
    [row EXCEPT !.pending = @ \/ version < 22,
                !.head = IF version < 35 THEN row.older ELSE @]
Migrated(content, version) ==
    [content EXCEPT !.version = CacheSchemaVersion, !.index = {}, !.titles = FALSE,
                    !.keys = @ \ {"index"}, !.indexed = Unset,
                    !.rows = [i \in DOMAIN @ |-> MigratedRow(@[i], version)]]
Migrate(p) ==
    /\ At(p, "migrate")
    /\ file' = Migrated(file, opener[p].version) /\ Step(p, "patch")
    /\ Kept

----------------------------------------------------------------------------
(* What is filled in afterwards, each under its key.                       *)

(* The patches: some agents' sessions are to be read again.                *)
Patch(p) ==
    /\ At(p, "patch")
    /\ file' = IF "patches" \in file.keys THEN file
               ELSE [file EXCEPT !.keys = @ \cup {"patches"},
                                 !.rows = [i \in DOMAIN @ |-> [@[i] EXCEPT !.pending = TRUE]]]
    /\ Step(p, "buckets") /\ Kept
Buckets(p) ==
    /\ At(p, "buckets")
    /\ file' = IF "buckets" \in file.keys THEN file
               ELSE [file EXCEPT !.keys = @ \cup {"buckets"},
                                 !.rows = [i \in DOMAIN @ |-> [@[i] EXCEPT !.bucket = TRUE]]]
    /\ Step(p, "text") /\ Kept

(* A batch is of the next rows, and moves the cursor to the last of them.  *)
NextRows(cursor, wanted) ==
    LET after == {i \in wanted : i > cursor}
    IN  {i \in after : Cardinality({j \in after : j < i}) < Batch}
LastOf(rows, total) == IF rows = {} THEN total ELSE Max(rows)
Enter(p, from, to, cursor) ==
    opener' = [opener EXCEPT ![p].at = to, ![p].cursor = cursor, ![p].total = Total]

(* search_text::rebuild.                                                   *)
StartText(p) ==
    /\ At(p, "text")
    /\ IF "text" \in file.keys THEN Step(p, "index") ELSE Enter(p, "text", "texts", file.texted)
    /\ UNCHANGED file /\ Kept
Retext(content, rows, last) ==
    [content EXCEPT
        !.rows = [i \in DOMAIN @ |-> [@[i] EXCEPT !.text = @ \/ i \in rows]],
        !.texted = last,
        !.keys = IF \A i \in rows : content.rows[i].text THEN @ ELSE @ \ {"index"}]
TextBatch(p) ==
    /\ At(p, "texts") /\ opener[p].cursor < opener[p].total
    /\ \E rows \in {NextRows(opener[p].cursor, Rowids)} :
          /\ file' = Retext(file, rows, LastOf(rows, opener[p].total))
          /\ opener' = [opener EXCEPT ![p].cursor = LastOf(rows, opener[p].total)]
    /\ Kept
ForgetTextCursor(p) ==
    /\ At(p, "texts") /\ opener[p].cursor >= opener[p].total
    /\ file' = [file EXCEPT !.texted = Unset] /\ Step(p, "textkey") /\ Kept
SetTextKey(p) ==
    /\ At(p, "textkey")
    /\ file' = [file EXCEPT !.keys = @ \cup {"text"}] /\ Step(p, "index") /\ Kept

(* search_text::ensure_index.                                              *)
PrepareIndex(p) ==
    /\ At(p, "index") /\ ~file.titles
    /\ file' = [file EXCEPT !.titles = TRUE, !.keys = @ \ {"index"}, !.indexed = Unset]
    /\ UNCHANGED opener /\ Kept
StartIndex(p) ==
    /\ At(p, "index") /\ file.titles
    /\ IF "index" \in file.keys THEN Step(p, "pack")
       ELSE Enter(p, "index", IF file.indexed = Unset THEN "clear" ELSE "indexes", file.indexed)
    /\ UNCHANGED file /\ Kept
ClearIndex(p) ==
    /\ At(p, "clear") /\ file' = [file EXCEPT !.index = {}] /\ Step(p, "indexes") /\ Kept
Indexed(content, rows, last, total) == [content EXCEPT !.indexed = last, !.index = @ \cup rows]
Entries(rows) == {<<i, file.rows[i].text>> : i \in rows}
IndexBatch(p) ==
    /\ At(p, "indexes") /\ opener[p].cursor < opener[p].total
    /\ \E rows \in {NextRows(opener[p].cursor, Rowids)} :
          /\ file' = Indexed(file, Entries(rows), LastOf(rows, opener[p].total), opener[p].total)
          /\ opener' = [opener EXCEPT ![p].cursor = LastOf(rows, opener[p].total)]
    /\ Kept
SetIndexKey(p) ==
    /\ At(p, "indexes") /\ opener[p].cursor >= opener[p].total
    /\ file' = [file EXCEPT !.keys = @ \cup {"index"}, !.indexed = Unset]
    /\ Step(p, "pack") /\ Kept

(* body::compress_existing.                                                *)
Unpacked == {i \in Rowids : ~file.rows[i].packed}
StartPack(p) ==
    /\ At(p, "pack")
    /\ IF "packed" \in file.keys THEN Step(p, "open")
       ELSE Enter(p, "pack", "packs", file.packing)
    /\ UNCHANGED file /\ Kept
PackBatch(p) ==
    /\ At(p, "packs") /\ opener[p].cursor < opener[p].total
    /\ \E rows \in {NextRows(opener[p].cursor, Unpacked)} :
          /\ file' = [file EXCEPT !.packing = LastOf(rows, opener[p].total),
                                  !.rows = [i \in DOMAIN @ |->
                                               [@[i] EXCEPT !.packed = @ \/ i \in rows]]]
          /\ opener' = [opener EXCEPT ![p].cursor = LastOf(rows, opener[p].total)]
    /\ Kept
ForgetPackCursor(p) ==
    /\ At(p, "packs") /\ opener[p].cursor >= opener[p].total
    /\ file' = [file EXCEPT !.packing = Unset] /\ Step(p, "packkey") /\ Kept
SetPackKey(p) ==
    /\ At(p, "packkey")
    /\ file' = [file EXCEPT !.keys = @ \cup {"packed"}] /\ Step(p, "open") /\ Kept

----------------------------------------------------------------------------
(* A session is written, new or read again.                                *)
Publish(p) ==
    /\ At(p, "open") /\ Use("publications")
    /\ \E i \in Rowids \cup {Total + 1} :
          file' = [file EXCEPT !.rows = (i :> Written) @@ @,
                               !.index = {entry \in @ : entry[1] # i} \cup {<<i, TRUE>>}]
    /\ UNCHANGED <<backups, opener, limit>>
(* The progress callback stops it, the database is busy, or the disk full. *)
FailOpening(p) ==
    /\ opener[p].at \notin {"off", "open", "failed", "temporary"} /\ Use("failures")
    /\ Refused(p) /\ UNCHANGED <<backups, limit>>
(* choose: a program that does not serve as a hub uses another cache.      *)
Fallback(p) == At(p, "failed") /\ Step(p, "temporary") /\ UNCHANGED file /\ Kept
Crash(p) ==
    /\ ~At(p, "off") /\ Use("crashes") /\ Step(p, "off") /\ UNCHANGED <<file, backups, limit>>
Close(p) == opener[p].at \in {"open", "temporary"} /\ Step(p, "off") /\ UNCHANGED file /\ Kept

OpenInit ==
    /\ limit \in OpenBounds /\ file = limit.start /\ backups = {}
    /\ opener = [p \in Openers |-> [at |-> "off", version |-> 0, cursor |-> 0, total |-> 0]]
    /\ used = [opens |-> 0, crashes |-> 0, failures |-> 0, publications |-> 0]
OpenNext ==
    \E p \in Openers :
       \/ Start(p) \/ ReadVersion(p) \/ Create(p) \/ Relabel(p) \/ CopyPages(p) \/ RenameBackup(p)
       \/ Migrate(p) \/ Patch(p) \/ Buckets(p)
       \/ StartText(p) \/ TextBatch(p) \/ ForgetTextCursor(p) \/ SetTextKey(p)
       \/ PrepareIndex(p) \/ StartIndex(p) \/ ClearIndex(p) \/ IndexBatch(p) \/ SetIndexKey(p)
       \/ StartPack(p) \/ PackBatch(p) \/ ForgetPackCursor(p) \/ SetPackKey(p)
       \/ Publish(p) \/ FailOpening(p) \/ Fallback(p) \/ Crash(p) \/ Close(p)
OpenSpec == OpenInit /\ [][OpenNext]_schemaVars

----------------------------------------------------------------------------

(* However often opening was killed or failed half way, the program that   *)
(* has the file open, no other being in the middle of it, finds every      *)
(* message with its text, its body and its usage as this version writes    *)
(* them, indexed by that text and by nothing else (schema.rs:355).         *)
OpenIsReady ==
    (\E p \in Openers : At(p, "open"))
      /\ (\A p \in Openers : opener[p].at \in {"off", "open", "failed", "temporary"}) =>
    /\ file.version = CacheSchemaVersion
    /\ \A i \in Rowids : file.rows[i].text /\ file.rows[i].packed /\ file.rows[i].bucket
    /\ file.index = {<<i, TRUE>> : i \in Rowids}

(* Nothing an older version stored is lost, and before it is migrated a    *)
(* whole copy of it is beside it (schema.rs:228).                          *)
OlderIsKept ==
    /\ DOMAIN limit.start.rows \subseteq Rowids
    /\ file.version = CacheSchemaVersion =>
          \A i \in DOMAIN limit.start.rows :
              limit.start.rows[i].head \/ limit.start.rows[i].older => file.rows[i].head
    /\ limit.start.version \in 1 .. 35 /\ file.version # limit.start.version =>
          \E b \in backups : /\ b.whole /\ b.version = limit.start.version
                             /\ b.rows = DOMAIN limit.start.rows

(* What a version wrote in another form than this one reads is read again  *)
(* from its source or was written since (schema.rs:119, 297).              *)
OlderIsReadAgain ==
    \A i \in DOMAIN limit.start.rows :
        limit.start.version < 22 /\ file.version = CacheSchemaVersion =>
            file.rows[i].pending \/ file.rows[i] = Written
=============================================================================
