------------------------------ MODULE Logging ------------------------------
(***************************************************************************)
(* logging.rs and logging/writer.rs: the threads of a program emit records *)
(* into a bounded queue, one writer thread appends them to the program's   *)
(* active file, rotates it and prunes the directory it shares with other   *)
(* running programs.                                                       *)
(*                                                                         *)
(* A record is [level, size, seq]; what it says is left out.  A file is    *)
(* the list of what was written to it, and the directory the list of files *)
(* by the time of their last write.  I/O may fail at every call of the     *)
(* writer.                                                                 *)
(***************************************************************************)
EXTENDS Naturals, Sequences, SequencesExt, FiniteSetsExt, TLC

CONSTANTS MaxQueue, MaxFile, MaxFiles,  \* the limits configured
    LogBounds   \* bounds to choose from: each [emits, flushes, faults, others, records],
                \* records being pairs of a level and a size

VARIABLES
    queue,      \* Queue::entries
    dropped,    \* Queue::dropped, by level
    sequence, closed, finished, error,
    writer,     \* Writer, and the command it has taken
    directory,
    living,     \* the other program runs
    journal,    \* history: every line handed to append and its outcome
    emitted,    \* history: the records emitted, by level
    used, limit \* what was used of the bounds

logVars == <<queue, dropped, sequence, closed, finished, error, writer, directory,
             living, journal, emitted, used, limit>>

Levels == 0 .. 3
Warn == 2
NoneDropped == [l \in Levels |-> 0]
Use(what) == used[what] < limit[what] /\ used' = [used EXCEPT ![what] = @ + 1]

----------------------------------------------------------------------------
(* AppLogger: emit, flush, shutdown.                                       *)

IsEntry(c) == c.kind = "entry"
SizeOf(commands) ==
    FoldLeft(LAMBDA n, c : n + (IF IsEntry(c) THEN c.size ELSE 0), 0, commands)
Fits(commands, size) == SizeOf(commands) + size <= MaxQueue

(* A warning or an error takes the place of lower levels, the lowest and   *)
(* oldest first, provided that makes enough room.                          *)
Reclaimable(level) == SizeOf(SelectSeq(queue, LAMBDA c : IsEntry(c) /\ c.level < level))
Evictable(level, size) ==
    level >= Warn /\ SizeOf(queue) - Reclaimable(level) + size <= MaxQueue
Candidates(level) == SelectSeq(<<0, 1, 2>>, LAMBDA l : l < level)
Evict(commands, candidate, size) ==
    FoldLeft(LAMBDA s, i :
                 IF /\ IsEntry(commands[i]) /\ commands[i].level = candidate
                    /\ s.size + size > MaxQueue
                 THEN [s EXCEPT !.size = @ - commands[i].size]
                 ELSE [s EXCEPT !.kept = Append(@, commands[i])],
             [size |-> SizeOf(commands), kept |-> <<>>],
             [i \in DOMAIN commands |-> i]).kept
Room(level, size) ==
    IF Fits(queue, size) \/ ~Evictable(level, size) THEN queue
    ELSE FoldLeft(LAMBDA q, candidate : Evict(q, candidate, size), queue, Candidates(level))

Entries(commands) == {c \in ToSet(commands) : IsEntry(c)}
Dropped(gone, level, refused) ==
    [l \in Levels |-> dropped[l] + Cardinality({c \in gone : c.level = l})
                      + (IF refused /\ l = level THEN 1 ELSE 0)]

Emit(level, size) ==
    /\ ~closed /\ Use("emits")
    /\ sequence' = sequence + 1
    /\ emitted' = [emitted EXCEPT ![level] = @ + 1]
    /\ LET room == Room(level, size)
           put == size <= MaxQueue /\ Fits(room, size)
           entry == [kind |-> "entry", level |-> level, size |-> size, seq |-> sequence + 1]
       IN  /\ queue' = IF put THEN Append(room, entry) ELSE room
           /\ dropped' = Dropped(Entries(queue) \ Entries(room), level, ~put)
    /\ UNCHANGED <<closed, finished, error, writer, directory, living, journal, limit>>

(* flush: the answer comes from the writer, or from its end.               *)
Flush ==
    /\ ~closed /\ Use("flushes")
    /\ queue' = Append(queue, [kind |-> "flush", upto |-> sequence])
    /\ UNCHANGED <<dropped, sequence, closed, finished, error, writer, directory, living,
                   journal, emitted, limit>>

ShutDown ==
    /\ ~closed /\ closed' = TRUE
    /\ queue' = Append(queue, [kind |-> "shutdown"])
    /\ UNCHANGED <<dropped, sequence, finished, error, writer, directory, living, journal,
                   emitted, used, limit>>

----------------------------------------------------------------------------
(* The directory.  A file is [owner, active, old, lines]; a line is the    *)
(* seq of a record, Torn, or 0 for the newline that ends a torn one.       *)

Torn == 1000
Bytes(file) == FoldLeft(LAMBDA n, line : n + line.size, 0, file.lines)
IsOwn(file) == file.owner = "own" /\ file.active
OwnBytes(files) == FoldLeft(LAMBDA n, f : n + (IF IsOwn(f) THEN Bytes(f) ELSE 0), 0, files)

Protected(file) == IsOwn(file) \/ (file.active /\ living)
(* prune: old files go, then the oldest until the limit is kept.           *)
Trimmed(files) ==
    LET young == SelectSeq(files, LAMBDA f : Protected(f) \/ ~f.old)
    IN  FoldLeft(LAMBDA s, f :
                     IF s.count > MaxFiles /\ ~Protected(f) THEN [s EXCEPT !.count = @ - 1]
                     ELSE [s EXCEPT !.kept = Append(@, f)],
                 [count |-> Len(young), kept |-> <<>>], young).kept

----------------------------------------------------------------------------
(* Writer.  A step works on [w, files, ok]: once not ok, nothing follows.  *)

NewWriter == [pc |-> "idle", command |-> [kind |-> "none"], open |-> FALSE, created |-> FALSE,
              prepared |-> FALSE, recovery |-> FALSE]
Failed(s) == [s EXCEPT !.ok = FALSE]
NewFile == [owner |-> "own", active |-> TRUE, old |-> FALSE, lines |-> <<>>]

OpenFile(s, fault) ==
    IF ~s.ok \/ s.w.open THEN s
    ELSE IF fault = "prepare" /\ ~s.w.prepared THEN Failed(s)
    ELSE IF fault = "open" THEN Failed([s EXCEPT !.w.prepared = TRUE])
    ELSE LET files == IF \E i \in DOMAIN s.files : IsOwn(s.files[i]) THEN s.files
                      ELSE Append(s.files, NewFile)
             opened == [s EXCEPT !.w.prepared = TRUE, !.w.created = TRUE, !.w.open = TRUE,
                                 !.files = files]
         IN  IF fault = "prune" THEN Failed(opened)
             ELSE [opened EXCEPT !.files = Trimmed(files)]

Rotate(s, size, fault) ==
    IF ~s.ok \/ OwnBytes(s.files) = 0 \/ size <= MaxFile - OwnBytes(s.files) THEN s
    ELSE IF fault = "rename" THEN Failed([s EXCEPT !.w.open = FALSE])
    ELSE LET renamed == [i \in DOMAIN s.files |-> IF IsOwn(s.files[i])
                                                  THEN [s.files[i] EXCEPT !.active = FALSE]
                                                  ELSE s.files[i]]
         IN  OpenFile([s EXCEPT !.files = renamed, !.w.open = FALSE, !.w.created = FALSE],
                      IF fault = "reopen" THEN "open" ELSE fault)

(* write_all: the file becomes the newest of the directory.                *)
Put(files, lines) ==
    LET own == SelectSeq(files, IsOwn)
    IN  Append(SelectSeq(files, LAMBDA f : ~IsOwn(f)),
               [own[1] EXCEPT !.lines = @ \o lines, !.old = FALSE])
Separates(s) == s.w.recovery /\ OwnBytes(s.files) > 0
Newline == [seq |-> 0, size |-> 1]
WriteLine(s, line, fault) ==
    IF ~s.ok THEN s
    ELSE IF fault = "newline" /\ Separates(s) THEN Failed(s)
    ELSE LET parted == IF Separates(s) THEN Put(s.files, <<Newline>>) ELSE s.files
             ready == [s EXCEPT !.files = parted, !.w.recovery = FALSE]
         IN  CASE fault = "write" -> Failed(ready)
               [] fault = "torn" -> Failed([ready EXCEPT
                     !.files = Put(@, <<[seq |-> Torn, size |-> 1]>>)])
               [] OTHER -> [ready EXCEPT
                     !.files = Put(@, <<[seq |-> line.seq, size |-> line.size]>>)]

Faults == {"prepare", "open", "prune", "rename", "reopen", "newline", "write", "torn"}
(* Writer::append; each of its three parts works on what the one before it *)
(* left.                                                                   *)
Opening(fault) == OpenFile([w |-> writer, files |-> directory, ok |-> TRUE], fault)
Closed(s) == IF s.ok THEN s.w ELSE [s.w EXCEPT !.recovery = TRUE, !.open = FALSE]

----------------------------------------------------------------------------
(* drain                                                                   *)

(* Mutant of Next command: the newest is taken.                            *)
NewestCommand(commands) == Last(commands)
NextCommand(commands) == Head(commands)
Report == [kind |-> "report", counts |-> dropped, size |-> 1, seq |-> sequence + 1]

(* Drops are reported before anything else is taken.                       *)
TakeCommand ==
    /\ writer.pc = "idle" /\ ~finished
    /\ IF dropped # NoneDropped
       THEN /\ writer' = [writer EXCEPT !.pc = "append", !.command = Report]
            /\ dropped' = NoneDropped /\ sequence' = sequence + 1 /\ UNCHANGED queue
       ELSE /\ queue # <<>>
            /\ LET next == NextCommand(queue)
               IN  /\ writer' = [writer EXCEPT !.command = next,
                                   !.pc = IF IsEntry(next) THEN "append" ELSE next.kind]
                   /\ queue' = SelectSeq(queue, LAMBDA c : c # next)
            /\ UNCHANGED <<dropped, sequence>>
    /\ UNCHANGED <<closed, finished, error, directory, living, journal, emitted, used, limit>>

Took(fault) == IF fault = "none" THEN UNCHANGED used ELSE Use("faults")
(* report: what fails stays reported until an append succeeds.             *)
Outcome(ok, recover) == IF ok THEN error /\ ~recover ELSE TRUE
Rest(w) == [w EXCEPT !.pc = "idle", !.command = [kind |-> "none"]]

WriterAppends(fault) ==
    /\ writer.pc = "append" /\ Took(fault)
    /\ \E opened \in {Opening(fault)} :
       \E rotated \in {Rotate(opened, writer.command.size, fault)} :
       \E s \in {WriteLine(rotated, writer.command, fault)} :
          /\ fault # "none" => ~s.ok
          /\ writer' = Rest(Closed(s)) /\ directory' = s.files
          /\ error' = Outcome(s.ok, TRUE)
          /\ journal' = Append(journal, [line |-> writer.command, ok |-> s.ok])
    /\ UNCHANGED <<queue, dropped, sequence, closed, finished, living, emitted, limit>>

WriterFlushes(fault) ==
    /\ writer.pc = "flush" /\ fault \in {"none", "write"} /\ Took(fault)
    /\ fault = "write" => writer.open
    /\ writer' = Rest(writer)
    /\ error' = Outcome(fault = "none", FALSE)
    /\ UNCHANGED <<queue, dropped, sequence, closed, finished, directory, living, journal,
                   emitted, limit>>

Finishes(ok) == TRUE
WriterCloses(fault) ==
    /\ writer.pc = "shutdown" /\ fault \in {"none", "write", "prune"} /\ Took(fault)
    /\ fault = "write" => writer.open
    /\ fault = "prune" => writer.prepared
    /\ writer' = [Rest(writer) EXCEPT !.open = FALSE]
    /\ directory' = IF fault = "none" /\ writer.prepared THEN Trimmed(directory) ELSE directory
    /\ error' = Outcome(fault = "none", FALSE)
    /\ finished' = Finishes(fault = "none")
    /\ UNCHANGED <<queue, dropped, sequence, closed, living, journal, emitted, limit>>

----------------------------------------------------------------------------
(* The other programs.                                                     *)

OthersFile(active) == [owner |-> "other", active |-> active, old |-> FALSE,
                       lines |-> <<[seq |-> 0, size |-> 1]>>]
OtherLeaves(active) ==
    /\ Use("others")
    /\ active => living
    /\ \A i \in DOMAIN directory : ~(active /\ directory[i].owner = "other" /\ directory[i].active)
    /\ directory' = Append(directory, OthersFile(active))
    /\ UNCHANGED living
OtherEnds == living /\ Use("others") /\ living' = FALSE /\ UNCHANGED directory
Ages == /\ Use("others") /\ directory # <<>> /\ ~directory[1].old
        /\ directory' = [directory EXCEPT ![1].old = TRUE] /\ UNCHANGED living
Outside ==
    /\ (\E active \in BOOLEAN : OtherLeaves(active)) \/ OtherEnds \/ Ages
    /\ UNCHANGED <<queue, dropped, sequence, closed, finished, error, writer, journal,
                   emitted, limit>>

LogInit ==
    /\ queue = <<>> /\ dropped = NoneDropped /\ sequence = 0 /\ closed = FALSE
    /\ finished = FALSE /\ error = FALSE /\ writer = NewWriter /\ directory = <<>>
    /\ living = TRUE /\ journal = <<>> /\ emitted = NoneDropped
    /\ used = [emits |-> 0, flushes |-> 0, faults |-> 0, others |-> 0]
    /\ limit \in LogBounds

WriterSteps == TakeCommand \/ \E fault \in Faults \cup {"none"} :
                   WriterAppends(fault) \/ WriterFlushes(fault) \/ WriterCloses(fault)
LogNext ==
    \/ \E r \in limit.records : Emit(r[1], r[2])
    \/ Flush \/ ShutDown \/ WriterSteps \/ Outside
LogFairness == WF_logVars(WriterSteps)
LogSpec == LogInit /\ [][LogNext]_logVars /\ LogFairness

----------------------------------------------------------------------------

Held == IF writer.command.kind \in {"entry", "report"} THEN <<[line |-> writer.command]>> ELSE <<>>
CountIn(line, l) ==
    IF line.kind = "report" THEN line.counts[l] ELSE IF line.level = l THEN 1 ELSE 0
(* Nothing disappears: every record emitted is waiting, or was written or  *)
(* lost to an error that was reported, or stands in a count of drops that  *)
(* was or will be written itself (logging.rs:342).                         *)
Accounted ==
    \A l \in Levels :
        emitted[l] = Cardinality({c \in Entries(queue) : c.level = l}) + dropped[l]
                     + FoldLeft(LAMBDA n, e : n + CountIn(e.line, l), 0, journal \o Held)

(* The file has the records in the order they were emitted.                *)
Lines == SelectSeq(journal, LAMBDA e : e.ok /\ e.line.kind = "entry")
InOrder == \A i, j \in DOMAIN Lines : i < j => Lines[i].line.seq < Lines[j].line.seq

(* A record never shares its line with the remains of another one.         *)
LinesWhole ==
    \A i \in DOMAIN directory : \A n \in DOMAIN directory[i].lines :
        directory[i].lines[n].seq = Torn /\ n < Len(directory[i].lines)
            => directory[i].lines[n + 1].seq = 0

(* Once the logger has ended well, the directory keeps its limit, or has   *)
(* nothing left that may go (writer.rs:208).                               *)
DirectoryBounded ==
    finished /\ ~error /\ journal # <<>> /\ used.others = 0 =>
        Len(directory) <= MaxFiles \/ \A i \in DOMAIN directory : Protected(directory[i])

(* The lowest levels make room first, and only for a more severe record    *)
(* that does get in (logging.rs:241).                                      *)
EvictsLowest ==
    [][\A c \in Entries(queue) \ Entries(queue') :
          \/ writer' # writer
          \/ /\ \A k \in Entries(queue) \cap Entries(queue') : k.level >= c.level
             /\ \E k \in Entries(queue') \ Entries(queue) : k.level > c.level]_logVars

(* An answer of success is an honest one: everything emitted before the    *)
(* flush has left the queue, nothing waits to be reported as dropped, and  *)
(* the last append succeeded (logging.rs:357).                             *)
FlushHonest ==
    [][writer.pc = "flush" /\ writer'.pc = "idle" /\ ~error' =>
          /\ \A c \in Entries(queue) : c.seq > writer.command.upto
          /\ journal # <<>> => Last(journal).ok]_logVars

(* The active file of a running program is never pruned (writer.rs:181).   *)
OthersKept ==
    [][living /\ living' => \A i \in DOMAIN directory :
          directory[i].owner = "other" /\ directory[i].active =>
              \E j \in DOMAIN directory' : directory'[j].owner = "other" /\ directory'[j].active]_logVars

(* A shutdown ends, after whatever was queued before it and whatever fails *)
(* (logging.rs:312).                                                       *)
LogEnds == closed ~> finished
=============================================================================
