--------------------------- MODULE DataMigration ---------------------------
(***************************************************************************)
(* data_migration: at its first start this version moves what an older     *)
(* version left in other directories.  Each item is copied, checked,       *)
(* recorded in a journal and only then removed at its old place; the run   *)
(* may stop at any step and the next start continues from the journal.     *)
(*                                                                         *)
(* A file is the set of what was written to it.  A database has a main     *)
(* file and a write-ahead log; an empty log counts as none.  The lock      *)
(* (migration.lock) lets one run go at a time: there is one run.  Progress *)
(* reports and warnings are left out.                                      *)
(***************************************************************************)
EXTENDS Naturals, Sequences, SequencesExt, FiniteSets, TLC

CONSTANTS NoFile,
    MigrationBounds     \* bounds to choose from: each
                        \* [items, there, writes, crashes, faults, launches, deletes, careful]

VARIABLES
    legacy,     \* the files at the old places: item -> [main, wal]
    target,     \* the files at the new places
    journal,    \* migration-v1.json
    run,        \* the run, and the journal it holds
    using,      \* the items the started program uses
    written,    \* what somebody wrote to an item and nobody deleted
    clock, faults, launches, crashes, limits

migrationVars ==
    <<legacy, target, journal, run, using, written, clock, faults, launches, crashes, limits>>

(* In the order of the candidates.                                         *)
Items == <<"cache", "pricing", "state", "log">>
Database(i) == i \in {"cache", "state"}
Parts == {"main", "wal"}

Exists(i) == legacy[i].main # NoFile
Content(f) == UNION {f[p] : p \in {q \in Parts : f[q] # NoFile}}
Held(i) == IF target[i] = NoFile THEN {} ELSE target[i]

(* files::fingerprints; "stable" leaves out an empty log.                  *)
Fingerprints(i) == {<<p, legacy[i][p]>> : p \in {q \in Parts : legacy[i][q] # NoFile}}
Stable(prints) == prints \ {<<"wal", {}>>}

NoJournal == [items |-> <<>>, logsScanned |-> FALSE, directory |-> FALSE]
Idle == [pc |-> "off", journal |-> NoJournal, pending |-> <<>>, prints |-> {}, copy |-> {},
         tried |-> {}, wanted |-> {}]
Item(cleanup, prints) == [cleanup |-> cleanup, prints |-> prints]
WithItem(j, i, item) == [j EXCEPT !.items = (i :> item) @@ @]

OthersOfMigration == <<legacy, target, using, written, clock, limits>>
Fault == faults < limits.faults /\ faults' = faults + 1
NoFault == UNCHANGED faults
Still == UNCHANGED <<crashes, launches>>

----------------------------------------------------------------------------
(* run: what is still to be moved.                                         *)

(* Mutant of Candidates: what was given up is tried again.                 *)
CandidatesAgain(j, wanted) ==
    {i \in wanted : /\ i \in limits.items
                    /\ i \notin DOMAIN j.items \/ j.items[i].cleanup = "retained"
                    /\ i = "log" => ~j.logsScanned}
Candidates(j, wanted) ==
    {i \in wanted : /\ i \in limits.items /\ i \notin DOMAIN j.items
                    /\ i = "log" => ~j.logsScanned}

(* A place already taken is left alone; nothing to move is done.           *)
Settled(j, found) ==
    LET here == {i \in found : target[i] # NoFile \/ ~Exists(i)}
    IN  [j EXCEPT !.items =
            @ @@ [i \in here |-> Item(IF Exists(i) THEN "retained" ELSE "completed", {})]]

Launch(wanted, clear) ==
    /\ run.pc = "off" /\ launches < limits.launches /\ launches' = launches + 1
    /\ LET cleared == IF clear /\ "cache" \notin DOMAIN journal.items
                      THEN WithItem(journal, "cache", Item("retained", {})) ELSE journal
           found == Candidates(cleared, wanted \cup {"pricing"})
           settled == Settled(cleared, found)
           pending == SelectSeq(Items, LAMBDA i : i \in found /\ target[i] = NoFile /\ Exists(i))
       IN  run' = [Idle EXCEPT !.pc = IF pending = <<>> THEN "cutover" ELSE "confirm",
                               !.journal = settled, !.pending = pending, !.wanted = wanted]
    /\ UNCHANGED <<OthersOfMigration, journal, faults, crashes>>

(* The user says that no older instance runs, or the program ends.         *)
Confirm ==
    /\ run.pc = "confirm"
    /\ \/ run' = [run EXCEPT !.pc = "fingerprint"]
       \/ run' = Idle
    /\ UNCHANGED <<OthersOfMigration, journal, faults>> /\ Still

----------------------------------------------------------------------------
(* migrate.                                                                *)

Current == run.pending[1]
(* save: the whole record replaces the old one.                            *)
Save(j, pc) == journal' = j /\ run' = [run EXCEPT !.journal = j, !.pc = pc]
Recorded(item) ==
    /\ journal' = WithItem(run.journal, Current, item)
    /\ run' = [run EXCEPT !.journal = WithItem(@, Current, item), !.pending = Tail(@),
                          !.pc = IF Len(run.pending) = 1 THEN "cutover" ELSE "fingerprint"]

(* Without its user's data the program does not start; everything else may *)
(* begin anew.                                                             *)
Failed(i) ==
    IF i = "state" THEN run' = Idle /\ UNCHANGED journal ELSE Recorded(Item("retained", {}))

Fingerprint ==
    /\ run.pc = "fingerprint"
    /\ run' = [run EXCEPT !.prints = Fingerprints(Current), !.pc = "copy"]
    /\ UNCHANGED <<OthersOfMigration, journal, faults>> /\ Still

(* database::copy reads one snapshot and leaves an empty log behind;       *)
(* files::copy.                                                            *)
Copy ==
    /\ run.pc = "copy" /\ Exists(Current)
    /\ run' = [run EXCEPT !.copy = Content(legacy[Current]), !.pc = "compare"]
    /\ legacy' = IF Database(Current) /\ legacy[Current].wal = NoFile
                 THEN [legacy EXCEPT ![Current].wal = {}] ELSE legacy
    /\ UNCHANGED <<target, using, written, clock, limits, journal, faults>> /\ Still

Unchanged(before, after) == Stable(before) = Stable(after)
Compare ==
    /\ run.pc = "compare"
    /\ LET after == Fingerprints(Current)
       IN  IF Unchanged(run.prints, after)
           THEN run' = [run EXCEPT !.prints = after, !.pc = "place"] /\ UNCHANGED journal
           ELSE Failed(Current)
    /\ UNCHANGED <<OthersOfMigration, faults>> /\ Still

(* persist_noclobber                                                       *)
Place ==
    /\ run.pc = "place"
    /\ IF target[Current] = NoFile
       THEN /\ target' = [target EXCEPT ![Current] = run.copy]
            /\ run' = [run EXCEPT !.pc = "record"] /\ UNCHANGED journal
       ELSE Failed(Current) /\ UNCHANGED target
    /\ UNCHANGED <<legacy, using, written, clock, limits, faults>> /\ Still

Record ==
    /\ run.pc = "record" /\ Recorded(Item("pending", run.prints))
    /\ UNCHANGED <<OthersOfMigration, faults>> /\ Still

(* The disk is full, a file cannot be read, a check fails.                 *)
FailMigrate ==
    /\ run.pc \in {"fingerprint", "copy", "compare", "place"}
    /\ Fault /\ Failed(Current)
    /\ UNCHANGED OthersOfMigration /\ Still

(* The record is saved before anything is removed.                         *)
Cutover ==
    /\ run.pc = "cutover"
    /\ Save([run.journal EXCEPT !.logsScanned = @ \/ "log" \in run.wanted], "clean")
    /\ UNCHANGED <<OthersOfMigration, faults>> /\ Still

----------------------------------------------------------------------------
(* cleanup.                                                                *)

ToClean == {i \in DOMAIN run.journal.items : run.journal.items[i].cleanup = "pending"}
Marked(i, cleanup) == [run.journal EXCEPT !.items[i].cleanup = cleanup]

MayRemove(i) ==
    /\ target[i] # NoFile
    /\ Fingerprints(i) \subseteq run.journal.items[i].prints
Check(i) ==
    /\ run.pc = "clean" /\ i \in ToClean /\ i \notin run.tried
    /\ IF MayRemove(i)
       THEN run' = [run EXCEPT !.pc = "remove", !.pending = <<i>>] /\ UNCHANGED journal
       ELSE Save(Marked(i, "retained"), "clean")
    /\ UNCHANGED <<OthersOfMigration, faults>> /\ Still

(* The main file goes last: a log without it would be lost data.           *)
NextPart(f) == IF f.wal # NoFile THEN "wal" ELSE "main"
RemovePart ==
    /\ run.pc = "remove"
    /\ LET i == Current
           p == NextPart(legacy[i])
           rest == [legacy[i] EXCEPT ![p] = NoFile]
       IN  /\ legacy' = [legacy EXCEPT ![i] = rest]
           /\ IF rest = [main |-> NoFile, wal |-> NoFile]
              THEN Save([Marked(i, "completed") EXCEPT !.directory = TRUE], "clean")
              ELSE UNCHANGED <<run, journal>>
    /\ UNCHANGED <<target, using, written, clock, limits, faults>> /\ Still

(* A file that cannot be removed is tried again at the next start.         *)
FailRemove ==
    /\ run.pc = "remove" /\ Fault
    /\ run' = [run EXCEPT !.pc = "clean", !.tried = @ \cup {Current}]
    /\ journal' = run.journal
    /\ UNCHANGED OthersOfMigration /\ Still

(* An empty directory goes too; then the program starts.                   *)
CleanDirectories ==
    /\ run.pc = "clean" /\ ToClean \subseteq run.tried
    /\ journal' = [run.journal EXCEPT !.directory = FALSE]
    /\ run' = Idle /\ using' = using \cup run.wanted
    /\ UNCHANGED <<legacy, target, written, clock, limits, faults>> /\ Still

----------------------------------------------------------------------------
(* The rest of the machine.                                                *)

CrashMigration ==
    /\ run.pc # "off" /\ crashes < limits.crashes /\ crashes' = crashes + 1
    /\ run' = Idle /\ using' = {}
    /\ UNCHANGED <<legacy, target, journal, written, clock, limits, faults, launches>>

Tick(i) ==
    /\ clock < limits.writes /\ clock' = clock + 1
    /\ written' = [written EXCEPT ![i] = @ \cup {clock + 1}]

(* An older instance: stopped when the user says so or, if that was not    *)
(* true, writing at any moment but the one between a last look at a file   *)
(* and its removal.  It appends to the log, or to the main file.           *)
OlderWrites(i) ==
    /\ i \in limits.items /\ Tick(i)
    /\ run.pc # "remove"
    /\ limits.careful => run.pc \in {"off", "confirm"}
    /\ \/ /\ ~Exists(i)
          /\ legacy' = [legacy EXCEPT ![i].main = {clock + 1}]
       \/ /\ Exists(i) /\ Database(i)
          /\ legacy' = [legacy EXCEPT ![i].wal = (IF @ = NoFile THEN {} ELSE @) \cup {clock + 1}]
       \/ /\ Exists(i)
          /\ legacy' = [legacy EXCEPT ![i].main = Content(legacy[i]) \cup {clock + 1},
                                      ![i].wal = NoFile]
    /\ UNCHANGED <<target, journal, run, using, limits, faults>> /\ Still

(* The started program writes at the new place.                            *)
NewWrites(i) ==
    /\ i \in using \cap limits.items /\ Tick(i)
    /\ target' = [target EXCEPT ![i] = Held(i) \cup {clock + 1}]
    /\ UNCHANGED <<legacy, journal, run, using, limits, faults>> /\ Still

(* The user ends the program and deletes its file, with what only it held. *)
DeleteNew(i) ==
    /\ run.pc = "off" /\ i \in limits.deletes /\ target[i] # NoFile
    /\ target' = [target EXCEPT ![i] = NoFile] /\ using' = {}
    /\ written' = [written EXCEPT ![i] = @ \cap Content(legacy[i])]
    /\ UNCHANGED <<legacy, journal, run, clock, limits, faults>> /\ Still

MigrationInit ==
    /\ limits \in MigrationBounds
    /\ legacy = [i \in ToSet(Items) |->
                    [main |-> IF i \in limits.items THEN {0} ELSE NoFile, wal |-> NoFile]]
    /\ target = [i \in ToSet(Items) |-> IF i \in limits.there THEN {} ELSE NoFile]
    /\ journal = NoJournal /\ run = Idle /\ using = {}
    /\ written = [i \in ToSet(Items) |-> IF i \in limits.items THEN {0} ELSE {}]
    /\ clock = 0 /\ faults = 0 /\ launches = 0 /\ crashes = 0

(* --json and a state in memory leave the state alone, --no-cache the      *)
(* cache, CODESESH_LOG_DIR the logs.                                       *)
MigrationNext ==
    \/ \E wanted \in SUBSET {"cache", "state", "log"}, clear \in BOOLEAN : Launch(wanted, clear)
    \/ Confirm \/ Fingerprint \/ Copy \/ Compare \/ Place \/ Record \/ FailMigrate \/ Cutover
    \/ \E i \in ToSet(Items) : Check(i) \/ OlderWrites(i) \/ NewWrites(i) \/ DeleteNew(i)
    \/ RemovePart \/ FailRemove \/ CleanDirectories \/ CrashMigration
MigrationSpec == MigrationInit /\ [][MigrationNext]_migrationVars

----------------------------------------------------------------------------

(* Nothing that was written is lost, wherever a run stops: what an old     *)
(* file loses a new one has (data_migration.rs:287).                       *)
NothingLost ==
    \A i \in ToSet(Items) : written[i] \subseteq Content(legacy[i]) \cup Held(i)

(* A log is never left without its database (data_migration.rs:443).       *)
NoOrphan == \A i \in ToSet(Items) : legacy[i].wal # NoFile => legacy[i].main # NoFile

(* The program never begins with new user data while old data waits to be  *)
(* moved: it moved it or did not start (data_migration.rs:261).            *)
StateCarried ==
    ("state" \in limits.items \ limits.there /\ target["state"] # NoFile)
        => 0 \in target["state"]

(* The cutover happens once: a recorded item is never copied again, and a  *)
(* file of the new program is never replaced (data_migration.rs:222).      *)
CutoverOnce ==
    [][\A i \in ToSet(Items) :
          i \in DOMAIN journal.items \/ target[i] # NoFile =>
              target'[i] \in {target[i], NoFile} \/ clock' # clock]_migrationVars
=============================================================================
