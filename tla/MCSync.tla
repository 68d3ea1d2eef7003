------------------------------- MODULE MCSync -------------------------------
(***************************************************************************)
(* A Worker and the Hub together, on small instances; the configurations   *)
(* differ in which of the hard events they allow, and how often.           *)
(***************************************************************************)
EXTENDS Sync, TLC

CONSTANTS a1, s1, x, y, t1, t2

OneSession == s1 :> a1
Short == [messages |-> <<x>>, title |-> t1]
Long == [messages |-> <<x, y>>, title |-> t1]
Renamed == [messages |-> <<x>>, title |-> t2]
Grow == {Short, Long}
GrowOrRename == {Short, Long, Renamed}
OneAgent == <<a1>>
MCTaskIds == (-1 .. 2) \X (0 .. 3)

Limit(edits0, faults0, epoch0, tasks0, captures0) ==
    [edits |-> edits0, faults |-> faults0, epoch |-> epoch0, tasks |-> tasks0,
     cancels |-> FALSE, captures |-> captures0, compatible |-> {TRUE}]
(* Two restores of the Hub's database; one, with renames; or faults and a  *)
(* task that users may cancel, and a Hub of another version for a while.   *)
RestoreOrFaults ==
    {Limit(2, 0, 2, 0, Grow), Limit(2, 0, 1, 0, GrowOrRename),
     [Limit(1, 2, 0, 1, Grow) EXCEPT !.cancels = TRUE],
     [Limit(1, 1, 0, 1, Grow) EXCEPT !.cancels = TRUE, !.compatible = {TRUE, FALSE}]}
(* A restore and a fault while a session changes twice.                    *)
Retries == {Limit(2, 1, 1, 0, Grow)}
=============================================================================
