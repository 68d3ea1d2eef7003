----------------------------- MODULE MCScanning -----------------------------
(***************************************************************************)
(* Collection with every interleaving of edits, page reads, rescans,       *)
(* recoveries, pauses and restarts.  Nothing is uploaded: the queue only   *)
(* grows, and its bound follows from the other bounds.                     *)
(***************************************************************************)
EXTENDS Scanning, TLC

CONSTANTS a1, a2, s1, s2, s3, x, y, t1, task1, task2,
          MaxEdits,    \* edits of source files
          MaxEvents    \* failures, pauses, rescans, recoveries, restarts

VARIABLES edits, events
vars == <<workerVars, scanVars, edits, events>>

MCAgentOf == (s1 :> a1) @@ (s2 :> a1) @@ (s3 :> a2)
Short == [messages |-> <<x>>, title |-> t1]
Long == [messages |-> <<x, y>>, title |-> t1]
MCCaptures == {Short, Long}
MCSources == <<a1, a2>>

Init == WorkerInit(0) /\ ScanInit /\ edits = 0 /\ events = 0

EditAny ==
    /\ edits < MaxEdits
    /\ \E s \in Sessions, c \in Captures : Edit(s, c)
    /\ edits' = edits + 1 /\ UNCHANGED events
Work == Tick /\ UNCHANGED <<edits, events>>
Event(A) == events < MaxEvents /\ A /\ events' = events + 1 /\ UNCHANGED edits
Failure == Event(FailPage)
Instruction == \E id \in TaskIds, agents \in {{}} \cup {{a} : a \in Agents} :
    Event(Instructed(id, agents))
Epoch == \E e \in Epochs : Event(Recovered(e))
Pause == Event(Paused)
Restart == Event(Restarted)
Resume == (Resumed \/ EndRecovery) /\ UNCHANGED <<edits, events>>

Next == EditAny \/ Work \/ Failure \/ Instruction \/ Epoch \/ Pause \/ Restart \/ Resume

(* The loop ticks every 100 ms and a scan ends; a paused Worker is         *)
(* eventually told to go on, since its handshake is repeated.              *)
Fairness == WF_vars(Work) /\ WF_vars(Resume)
Spec == Init /\ [][Next]_vars /\ Fairness
============================================================================
