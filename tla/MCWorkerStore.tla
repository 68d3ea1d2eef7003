--------------------------- MODULE MCWorkerStore ---------------------------
(***************************************************************************)
(* The Worker's store alone, driven by every sequence of calls its callers *)
(* could make, within two bounds.                                          *)
(***************************************************************************)
EXTENDS WorkerStore, TLC

CONSTANTS a1, a2, s1, x, y, t1, t2, f, task1,
          MaxRows,    \* rows ever inserted in one stream
          MaxStreams  \* upload streams ever created

OneSession == s1 :> a1
MCCaptures == {[messages |-> <<x>>, title |-> t1],
               [messages |-> <<x, y>>, title |-> t1],
               [messages |-> <<x>>, title |-> t2]}
MCAdopted == {[NoSource EXCEPT !.complete = TRUE]}

MCNext == WorkerNext /\ lastSequence' <= MaxRows /\ streamId' <= MaxStreams
MCSpec == WorkerInit(0) /\ [][MCNext]_workerVars
============================================================================
