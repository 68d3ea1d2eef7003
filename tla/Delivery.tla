------------------------------ MODULE Delivery ------------------------------
(***************************************************************************)
(* What synchronization promises, without streams, sequence numbers,       *)
(* receipts, tasks or requests: a queue of operations and the Hub's copy   *)
(* of the sessions.  Operations take effect in the order they were queued  *)
(* and once each; a recovery may queue again the chunks of an unfinished   *)
(* snapshot and the operation last applied; only restoring the Hub's files *)
(* changes the copy in any other way.                                      *)
(***************************************************************************)
EXTENDS Protocol

VARIABLES
    queue,  \* operations the Hub has yet to apply, oldest first
    copy    \* the Hub's content of each session, or None

Copies == [Sessions -> Contents \cup {None}]

DeliveryInit == queue = <<>> /\ copy = [s \in Sessions |-> None]

Submit ==
    /\ Len(queue') > Len(queue)
    /\ SubSeq(queue', 1, Len(queue)) = queue
    /\ UNCHANGED copy

(* A full snapshot always takes effect, and exactly.  A delta, or metadata,*)
(* either takes effect exactly or, where the Hub lacks what it builds on,  *)
(* not at all.                                                             *)
Effect(op) ==
    CASE op.kind = "chunk" -> {copy}
      [] op.kind = "commit" ->
           {[copy EXCEPT ![op.session] = op.capture]}
               \cup (IF op.base = None THEN {} ELSE {copy})
      [] op.kind = "metadata" ->
           IF copy[op.session] = None THEN {copy}
           ELSE {[copy EXCEPT ![op.session].title = op.title]}

Deliver ==
    /\ queue # <<>>
    /\ copy' \in Effect(Head(queue))
    /\ queue' = Tail(queue)

(* `again' operations are back in front; all but the last are chunks.      *)
Requeued ==
    LET again == Len(queue') - Len(queue)
    IN  /\ again >= 0
        /\ SubSeq(queue', again + 1, Len(queue')) = queue
        /\ \A i \in 1 .. again - 1 : queue'[i].kind = "chunk"

Replay == Requeued /\ UNCHANGED copy
Restore == Requeued /\ copy' \in Copies /\ copy' # copy

DeliveryNext == Submit \/ Deliver \/ Replay \/ Restore
DeliverySpec == DeliveryInit /\ [][DeliveryNext]_<<queue, copy>>
=============================================================================
