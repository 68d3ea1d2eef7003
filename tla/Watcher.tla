------------------------------ MODULE Watcher ------------------------------
(***************************************************************************)
(* watch_paths: how a change of a coding agent's files is told of, where   *)
(* the directory it is in may not exist yet, goes away, or is replaced.    *)
(* Three processes share the watches: the operating system, which reports  *)
(* what happens in watched directories; the thread that handles its        *)
(* events; the task that registers watches anew.  The directories are one  *)
(* chain, of which the first `depth' exist:                                *)
(*                                                                         *)
(*      home / parent / root / day / log        root: one source           *)
(*      home / parent / db, db-wal              db: another                *)
(*                                                                         *)
(* A directory that is removed and made again is another one: the watch of *)
(* the old one, in `seen', is gone, while the task's own list, `watched',  *)
(* still has the path.  The polling of macOS is not modelled.              *)
(***************************************************************************)
EXTENDS Naturals, Sequences, SequencesExt

CONSTANTS
    MaxQueue,       \* events the operating system keeps before it drops them
    NoEvent,
    WatchBounds     \* each [depth, standing, dirs, writes, saves, errors]

Dirs == 1..4
Sources == {"files", "db"}
Files == {"log", "wal"}
PathOf(d) == SubSeq(<<"home", "parent", "root", "day">>, 1, d)
DirOf == [log |-> 4, wal |-> 2]
FilePath == [log |-> Append(PathOf(4), "log"), wal |-> Append(PathOf(2), "db-wal")]
RootOf == [files |-> PathOf(3), db |-> Append(PathOf(2), "db")]
Journals == [files |-> {}, db |-> {FilePath.wal}]
FilesOf == [files |-> {"log"}, db |-> {"wal"}]

VARIABLES
    depth, present, changes,    \* the file system; how often each file changed
    seen,       \* how the operating system watches the directory that exists now
    queue,      \* events not yet handled
    handling, stage,            \* the event being handled and the next step of that
    reset, revised,             \* reset_watches; the channel `reconcile' has news
    watched,    \* the task's list of what it has registered
    pc, desired,                \* the task: its next step, and what it wants watched
    scanned,    \* sources whose first scan has read their files
    told,       \* file -> the change at which its source was last told of it
    missed,     \* files that changed where nobody was watching, not told of since
    blind,      \* why the task cannot know how the directories are now
    ops, watchScope

fsVars == <<depth, present, changes>>
handlerVars == <<handling, stage>>
taskVars == <<watched, pc, desired>>
tellVars == <<scanned, told>>
watchVars == <<fsVars, seen, queue, handlerVars, reset, revised, taskVars, tellVars,
               missed, blind, ops, watchScope>>

----------------------------------------------------------------------------
(* What should be watched.                                                 *)

(* existing_watch_root                                                     *)
Nearest(path) == CHOOSE d \in 1..depth :
    /\ IsPrefix(PathOf(d), path)
    /\ \A e \in (d + 1)..depth : ~IsPrefix(PathOf(e), path)
IsDir(root) == PathOf(Nearest(root)) = root

(* A root that is a directory is watched with all below it, and its parent *)
(* for its replacement; any other root through the nearest directory.      *)
Desired ==
    LET whole == {Nearest(RootOf[s]) : s \in {r \in Sources : IsDir(RootOf[r])}}
        around == {d - 1 : d \in whole}
                  \cup {Nearest(RootOf[s]) : s \in {r \in Sources : ~IsDir(RootOf[r])}}
    IN [d \in Dirs |-> IF d \in whole THEN "deep" ELSE IF d \in around THEN "flat" ELSE "none"]

Unwatched(ds) == [d \in Dirs |->
    IF d \in ds \/ \E e \in ds : e < d /\ watched[e] = "deep" THEN "none" ELSE seen[d]]
Registered == {d \in Dirs : watched[d] # "none"}
Wanting == {d \in Dirs : desired[d] # "none" /\ watched[d] = "none"}

----------------------------------------------------------------------------
(* The file system and the operating system's events.                      *)

Seen(d) == seen[d] # "none"
Event(kind, path) == [kind |-> kind, path |-> path]
Full == Len(queue) >= MaxQueue
Overflow == Event("rescan", <<>>)
Structural(kind) == kind \in {"create", "gone", "name"}

Happens(event, files, visible, top) ==
    /\ changes' = [f \in Files |-> IF f \in files THEN changes[f] + 1 ELSE changes[f]]
    /\ missed' = IF visible THEN missed ELSE missed \cup files
    /\ queue' = IF ~visible \/ (Full /\ Last(queue) = Overflow) THEN queue
                ELSE Append(queue, IF Full THEN Overflow ELSE event)
    /\ blind' = blind \cup (IF ~visible /\ pc = "watch" /\ top THEN {"race"} ELSE {})
                      \cup (IF visible /\ Full /\ Structural(event.kind) THEN {"overflow"} ELSE {})
    /\ UNCHANGED <<handlerVars, reset, revised, taskVars, tellVars, watchScope>>
Spends(what) == ops[what] > 0 /\ ops' = [ops EXCEPT ![what] = @ - 1]

(* An agent writes a file in place, or saves it by renaming a new one.     *)
Write(f) ==
    /\ DirOf[f] <= depth /\ Spends("writes") /\ present' = present \cup {f}
    /\ Happens(Event(IF f \in present THEN "data" ELSE "create", FilePath[f]), {f},
               Seen(DirOf[f]), FALSE)
    /\ UNCHANGED <<depth, seen>>
Save(f) ==
    /\ DirOf[f] <= depth /\ Spends("saves") /\ present' = present \cup {f}
    /\ Happens(Event("name", FilePath[f]), {f}, Seen(DirOf[f]), FALSE)
    /\ UNCHANGED <<depth, seen>>

(* A directory is made, or moved here with what it holds.                  *)
MakeDir ==
    /\ depth < 4 /\ Spends("dirs") /\ depth' = depth + 1
    /\ Happens(Event("create", PathOf(depth + 1)), {}, Seen(depth), depth < 3)
    /\ UNCHANGED <<present, seen>>
MoveIn(to) ==
    /\ to > depth /\ Spends("dirs") /\ depth' = to
    /\ \E files \in SUBSET {f \in Files : DirOf[f] \in (depth + 1)..to} :
        /\ present' = present \cup files
        /\ Happens(Event("name", PathOf(depth + 1)), files, Seen(depth), depth < 3)
    /\ UNCHANGED seen

(* A directory is removed, or moved elsewhere.  What watched it or its     *)
(* parent reports it; the event stands for those of everything below.      *)
Vanish(d) ==
    LET gone == {f \in present : DirOf[f] >= d}
        witness == {e \in d..depth : Seen(e) \/ (e = d /\ Seen(d - 1))}
        first == IF witness = {} THEN d ELSE CHOOSE e \in witness : \A o \in witness : e <= o
    IN /\ d \in 2..depth /\ Spends("dirs") /\ depth' = d - 1 /\ present' = present \ gone
       /\ seen' = [e \in Dirs |-> IF e >= d THEN "none" ELSE seen[e]]
       /\ Happens(Event("gone", PathOf(first)), gone, witness # {}, d <= 3)

BackendFails ==
    /\ Spends("errors") /\ queue' = Append(queue, Event("error", <<>>))
    /\ UNCHANGED <<fsVars, seen, handlerVars, reset, revised, taskVars, tellVars, missed, blind,
                   watchScope>>

----------------------------------------------------------------------------
(* The handler.                                                            *)

(* source_paths: the file, or the root where the path is above it.         *)
(* Mutant of SourcePaths: a path above the root is nobody's.               *)
SourcePathsBelow(s, path) ==
    IF path \in Journals[s] \/ IsPrefix(RootOf[s], path) THEN {path} ELSE {}
SourcePaths(s, path) ==
    IF path \in Journals[s] \/ IsPrefix(RootOf[s], path) THEN {path}
    ELSE IF IsPrefix(path, RootOf[s]) THEN {RootOf[s]} ELSE {}

(* dispatch: on_change(s, paths) has the source look at what lies there;   *)
(* on_change(s, None) at everything.                                       *)
Told(s, event) ==
    IF event.kind \in {"rescan", "error"} THEN FilesOf[s]
    ELSE {f \in FilesOf[s] : \E p \in SourcePaths(s, event.path) :
                                p = RootOf[s] \/ IsPrefix(p, FilePath[f])}

Take ==
    /\ handling = NoEvent /\ queue # <<>>
    /\ handling' = Head(queue) /\ queue' = Tail(queue) /\ stage' = "flag"
    /\ UNCHANGED <<fsVars, seen, reset, revised, taskVars, tellVars, missed, blind, ops, watchScope>>

Replaces(event) == event.kind \in {"gone", "name"}
Flag ==
    /\ handling # NoEvent /\ stage = "flag" /\ stage' = "notify"
    /\ reset' = (reset \/ Replaces(handling))
    /\ UNCHANGED <<fsVars, seen, queue, handling, revised, taskVars, tellVars, missed, blind, ops,
                   watchScope>>
Notify ==
    /\ handling # NoEvent /\ stage = "notify" /\ stage' = "dispatch"
    /\ revised' = (revised \/ handling.kind # "data")
    /\ UNCHANGED <<fsVars, seen, queue, handling, reset, taskVars, tellVars, missed, blind, ops,
                   watchScope>>

(* After the handler, the library watches a directory that has appeared    *)
(* under one watched with all below it.                                    *)
Entered(event) == {d \in 2..depth : \E e \in 2..d :
    event.kind \in {"create", "name"} /\ event.path = PathOf(e) /\ seen[e - 1] = "deep"}
Dispatch ==
    /\ handling # NoEvent /\ stage = "dispatch" /\ handling' = NoEvent
    /\ LET news == UNION {Told(s, handling) : s \in Sources}
       IN /\ told' = [f \in Files |-> IF f \in news THEN changes[f] ELSE told[f]]
          /\ missed' = missed \ news
    /\ seen' = [d \in Dirs |-> IF d \in Entered(handling) THEN "deep" ELSE seen[d]]
    /\ UNCHANGED <<fsVars, queue, stage, reset, revised, taskVars, scanned, blind, ops, watchScope>>

----------------------------------------------------------------------------
(* The task.                                                               *)

(* The loops start before the watches are registered.                      *)
FirstScan(s) ==
    /\ s \notin scanned /\ scanned' = scanned \cup {s}
    /\ told' = [f \in Files |-> IF f \in FilesOf[s] THEN changes[f] ELSE told[f]]
    /\ missed' = missed \ FilesOf[s]
    /\ UNCHANGED <<fsVars, seen, queue, handlerVars, reset, revised, taskVars, blind, ops, watchScope>>

Wake ==
    /\ pc = "idle" /\ revised /\ revised' = FALSE /\ pc' = "reset"
    /\ UNCHANGED <<fsVars, seen, queue, handlerVars, reset, watched, desired, tellVars, missed,
                   blind, ops, watchScope>>
Reset ==
    /\ pc = "reset" /\ pc' = "desire" /\ reset' = FALSE
    /\ IF reset THEN /\ seen' = Unwatched(Registered) /\ watched' = [d \in Dirs |-> "none"]
                     /\ blind' = blind \ {"overflow"}
                ELSE UNCHANGED <<seen, watched, blind>>
    /\ UNCHANGED <<fsVars, queue, handlerVars, revised, desired, tellVars, missed, ops, watchScope>>

(* reconcile_watches: first what is no longer wanted, then one by one what *)
(* is, from the top down; a directory gone in between ends it.             *)
Retained(d) == watched[d] = Desired[d]
Reconcile ==
    /\ pc = "desire" /\ pc' = "watch" /\ desired' = Desired
    /\ LET dropped == {d \in Registered : ~Retained(d)}
       IN /\ watched' = [d \in Dirs |-> IF d \in dropped THEN "none" ELSE watched[d]]
          /\ seen' = Unwatched(dropped)
    /\ blind' = blind \ {"race"}
    /\ UNCHANGED <<fsVars, queue, handlerVars, reset, revised, tellVars, missed, ops, watchScope>>
Watch(d) ==
    /\ pc = "watch" /\ d \in Wanting /\ \A e \in Wanting : d <= e
    /\ IF d <= depth
       THEN /\ watched' = [watched EXCEPT ![d] = desired[d]] /\ UNCHANGED pc
            /\ seen' = [e \in Dirs |-> IF e = d \/ (e \in d..depth /\ desired[d] = "deep")
                                       THEN desired[d] ELSE seen[e]]
       ELSE UNCHANGED <<seen, watched>> /\ pc' = "idle"
    /\ UNCHANGED <<fsVars, queue, handlerVars, reset, revised, desired, tellVars, missed, blind,
                   ops, watchScope>>
Done ==
    /\ pc = "watch" /\ Wanting = {} /\ pc' = "idle"
    /\ UNCHANGED <<fsVars, seen, queue, handlerVars, reset, revised, watched, desired, tellVars,
                   missed, blind, ops, watchScope>>

----------------------------------------------------------------------------
NoWatch == [d \in Dirs |-> "none"]
WatchInit ==
    /\ watchScope \in WatchBounds /\ ops = watchScope /\ depth = watchScope.depth
    /\ present = {f \in Files : DirOf[f] <= depth}
    /\ changes = [f \in Files |-> 0] /\ told = changes
    /\ queue = <<>> /\ handling = NoEvent /\ stage = "flag"
    /\ reset = FALSE /\ revised = FALSE /\ missed = {} /\ blind = {}
    /\ desired = NoWatch
    /\ scanned = IF watchScope.standing THEN Sources ELSE {}
    /\ pc = IF watchScope.standing THEN "idle" ELSE "desire"
    /\ watched = IF watchScope.standing THEN Desired ELSE NoWatch
    /\ seen = [d \in Dirs |-> IF watched[d] = "none" /\ d \in 4..depth /\ watched[3] = "deep"
                              THEN "deep" ELSE watched[d]]

Handle == Take \/ Flag \/ Notify \/ Dispatch
Task == Wake \/ Reset \/ Reconcile \/ (\E d \in Dirs : Watch(d)) \/ Done
Environment ==
    \/ \E f \in Files : Write(f) \/ Save(f)
    \/ MakeDir \/ BackendFails
    \/ \E d \in Dirs : MoveIn(d) \/ Vanish(d)
WatchNext == Environment \/ Handle \/ Task \/ \E s \in Sources : FirstScan(s)
WatchSpec == WatchInit /\ [][WatchNext]_watchVars

----------------------------------------------------------------------------
Settled == queue = <<>> /\ handling = NoEvent /\ ~revised /\ pc = "idle"

(* However directories came, went and were replaced: once the events are   *)
(* handled and the task rests, what exists now of every source is watched  *)
(* (a root with all below it and its parent, else the nearest directory),  *)
(* so the next change is reported.  Out of the code's reach, and `blind':  *)
(* a directory that changed unseen while the task was registering, and a   *)
(* change of directories whose events the operating system dropped.        *)
WatchesStand ==
    Settled /\ blind = {} => \A d \in 1..depth :
        /\ Desired[d] # "none" => Seen(d)
        /\ d >= 3 => seen[d] = "deep"

(* Every change of a source's file is told to that source once the events  *)
(* are handled, however it reached the file and although events were       *)
(* dropped; except those made where nothing was watching.                  *)
ToldOrMissed ==
    queue = <<>> /\ handling = NoEvent =>
        \A s \in scanned : \A f \in FilesOf[s] : told[f] = changes[f] \/ f \in missed
=============================================================================
