---------------------------- MODULE QueueProofs ----------------------------
(***************************************************************************)
(* What is queued is current and can be applied in order: SentIsQueued and *)
(* DeltaChain of the Worker's store, for any sessions and contents and     *)
(* queues of any length.  The two are inductive only together: the base of *)
(* a new delta is what worker_sessions says was sent, and only because     *)
(* that is what the last queued commit of the session holds does the       *)
(* delta follow it.                                                        *)
(***************************************************************************)
EXTENDS WorkerStoreProofs

TitleOf(op) == IF op.kind = "commit" THEN op.capture.title ELSE op.title

(* A session is sent as queued, and its deltas follow each other.          *)
SentOK(s) ==
    sent[s] \in Captures =>
        /\ \A q \in CommitsOf(s) : IsLast(q, CommitsOf(s)) =>
             outbox[q].capture.messages = sent[s].messages
        /\ \A q \in OpsOf(s) : IsLast(q, OpsOf(s)) => TitleOf(outbox[q]) = sent[s].title
ChainOK(s) ==
    \A p, q \in CommitsOf(s) :
        outbox[q].base # None /\ IsLast(p, {r \in CommitsOf(s) : r < q})
        => outbox[q].base.previous = outbox[p].capture.messages

(* The two conjuncts, one session at a time.                               *)
LEMMA QueueCurrentOfSession ==
    ASSUME QueueCurrent, NEW s \in Sessions
    PROVE  SentOK(s) /\ ChainOK(s)
BY DEF QueueCurrent, SentIsQueued, DeltaChain, SentOK, ChainOK, TitleOf

----------------------------------------------------------------------------
(* Removing a prefix, renumbering, forgetting.                             *)

(* Rows up to k are gone and the others are numbered d lower: nothing is   *)
(* last that was not last, and nothing follows what it did not follow.     *)
LEMMA SuffixStaysCurrent ==
    ASSUME QueueOK, QueueCurrent, NEW d \in Nat, NEW k \in Nat, d <= k, trimmed <= k,
           k <= lastSequence, trimmed' = k - d, lastSequence' = lastSequence - d,
           \A q \in Rows' : outbox'[q] = outbox[q + d],
           \A s \in Sessions : sent'[s] \in Captures => sent'[s] = sent[s]
    PROVE  QueueCurrent'
<1>0. trimmed \in Nat /\ lastSequence \in Nat
  BY DEF QueueOK
<1>1. ASSUME NEW q \in Rows'
      PROVE  q \in Nat /\ q + d \in Rows /\ q + d > k /\ outbox'[q] = outbox[q + d]
  BY <1>0 DEF Rows
<1>2. ASSUME NEW q \in Rows, q > k
      PROVE  q \in Nat /\ q - d \in Rows' /\ (q - d) + d = q
  BY <1>0, <1>2 DEF Rows
<1>3. ASSUME NEW s \in Sessions
      PROVE  SentOK(s)' /\ ChainOK(s)'
  <2>1. \A q \in Rows : q \in Nat
    BY <1>0 DEF Rows
  <2>2. \A q \in OpsOf(s)' : q \in Rows' /\ q \in Nat /\ q + d \in OpsOf(s) /\ q + d > k
    BY <1>1 DEF OpsOf
  <2>3. \A q \in CommitsOf(s)' : q \in Rows' /\ q \in Nat /\ q + d \in CommitsOf(s) /\ q + d > k
    BY <1>1, <2>2 DEF CommitsOf
  <2>4. \A q \in OpsOf(s) : q \in Nat /\ (q > k => q - d \in OpsOf(s)')
    BY <1>1, <1>2, <2>1 DEF OpsOf
  <2>5. \A q \in CommitsOf(s) : q \in Nat /\ (q > k => q - d \in CommitsOf(s)')
    BY <1>1, <1>2, <2>4 DEF CommitsOf, OpsOf
  <2>6. \A q : IsLast(q, OpsOf(s)') => IsLast(q + d, OpsOf(s))
    BY <2>2, <2>4 DEF IsLast
  <2>7. \A q : IsLast(q, CommitsOf(s)') => IsLast(q + d, CommitsOf(s))
    BY <2>3, <2>5 DEF IsLast
  <2>8. ASSUME NEW q \in CommitsOf(s)', NEW p \in CommitsOf(s)',
               IsLast(p, {r \in CommitsOf(s)' : r < q})
        PROVE  IsLast(p + d, {r \in CommitsOf(s) : r < q + d})
    <3>1. p + d \in CommitsOf(s) /\ p + d < q + d /\ q \in Nat /\ p \in Nat
      BY <2>3, <2>8 DEF IsLast
    <3>2. ASSUME NEW r \in CommitsOf(s), r < q + d
          PROVE  r <= p + d
      <4>1. CASE r <= k
        BY <2>3, <2>5, <3>1, <4>1
      <4>2. CASE r > k
        <5>1. r - d \in CommitsOf(s)' /\ r - d < q /\ r \in Nat
          BY <2>5, <3>1, <3>2, <4>2
        <5>2. r - d <= p
          BY <2>8, <5>1 DEF IsLast
        <5> QED
          BY <3>1, <5>1, <5>2
      <4> QED
        BY <2>5, <4>1, <4>2
    <3> QED
      BY <3>1, <3>2 DEF IsLast
  <2>9. SentOK(s) /\ ChainOK(s)
    BY QueueCurrentOfSession
  <2>10. SentOK(s)'
    BY <1>1, <2>2, <2>3, <2>6, <2>7, <2>9 DEF SentOK
  <2>11. ChainOK(s)'
    <3>1. ASSUME NEW p \in CommitsOf(s)', NEW q \in CommitsOf(s)',
                 outbox'[q].base # None, IsLast(p, {r \in CommitsOf(s)' : r < q})
          PROVE  outbox'[q].base.previous = outbox'[p].capture.messages
      <4>1. /\ p + d \in CommitsOf(s) /\ q + d \in CommitsOf(s)
            /\ outbox'[q] = outbox[q + d] /\ outbox'[p] = outbox[p + d]
        BY <1>1, <2>3
      <4>2. IsLast(p + d, {r \in CommitsOf(s) : r < q + d})
        BY <2>8, <3>1
      <4> QED
        BY <2>9, <3>1, <4>1, <4>2 DEF ChainOK
    <3> QED
      BY <3>1 DEF ChainOK
  <2> QED
    BY <2>10, <2>11
<1>4. (\A s \in Sessions : SentOK(s) /\ ChainOK(s))'
  BY <1>3
<1> QED
  BY <1>4 DEF QueueCurrent, SentIsQueued, DeltaChain, SentOK, ChainOK, TitleOf

(* Calls that leave the queue alone and forget, or leave, what was sent.   *)
LEMMA SameQueueStaysCurrent ==
    ASSUME QueueOK, QueueCurrent, UNCHANGED <<trimmed, lastSequence, outbox>>,
           \A s \in Sessions : sent'[s] \in Captures => sent'[s] = sent[s]
    PROVE  QueueCurrent'
<1>1. /\ trimmed \in Nat /\ lastSequence \in Nat /\ trimmed <= lastSequence
      /\ confirmedSequence \in Nat
  BY DEF QueueOK, WatermarkInQueue
<1>2. trimmed' = trimmed - 0 /\ lastSequence' = lastSequence - 0
  BY <1>1
<1>3. \A q \in Rows' : outbox'[q] = outbox[q + 0]
  BY <1>1 DEF Rows
<1> QED
  BY <1>1, <1>2, <1>3, SuffixStaysCurrent

(* reset_queue renumbers by what was deleted.                              *)
LEMMA ResetStaysCurrent ==
    ASSUME QueueOK, QueueCurrent, NEW stream \in Nat, ResetQueue(stream), UNCHANGED sent
    PROVE  QueueCurrent'
<1>1. trimmed \in Nat /\ lastSequence \in Nat /\ trimmed <= lastSequence
  BY DEF QueueOK, WatermarkInQueue
<1>2. trimmed' = trimmed - trimmed /\ lastSequence' = lastSequence - trimmed
  BY <1>1 DEF ResetQueue
<1>3. \A q \in Rows' : outbox'[q] = outbox[q + trimmed]
  BY <1>1, <1>2 DEF Rows, ResetQueue
<1> QED
  BY <1>1, <1>2, <1>3, SuffixStaysCurrent

(* An acknowledged operation is the first unconfirmed one; what is deleted *)
(* with it is a prefix of the queue.                                       *)
LEMMA AcknowledgeStaysCurrent ==
    ASSUME QueueOK, QueueCurrent, NEW q \in Unconfirmed, Acknowledge(streamId, q, outbox[q])
    PROVE  QueueCurrent'
<1>1. /\ trimmed \in Nat /\ lastSequence \in Nat /\ trimmed <= q /\ q <= lastSequence
      /\ q \in Nat
  BY DEF QueueOK, WatermarkInQueue, Unconfirmed
<1>2. UNCHANGED <<lastSequence, sent>>
  BY DEF Acknowledge, sessionVars
<1>3. CASE outbox[q].kind = "chunk"
  <2>1. UNCHANGED <<trimmed, outbox>>
    BY <1>3 DEF Acknowledge
  <2> QED
    BY <1>2, <2>1, SameQueueStaysCurrent
<1>4. CASE outbox[q].kind # "chunk"
  <2>1. trimmed' = q /\ outbox' = [r \in (q + 1) .. lastSequence |-> outbox[r]]
    BY <1>4 DEF Acknowledge
  <2>2. trimmed' = q - 0 /\ lastSequence' = lastSequence - 0
    BY <1>1, <1>2, <2>1
  <2>3. \A r \in Rows' : outbox'[r] = outbox[r + 0]
    BY <1>1, <1>2, <2>1 DEF Rows
  <2> QED
    BY <1>1, <1>2, <2>2, <2>3, SuffixStaysCurrent
<1> QED
  BY <1>3, <1>4

----------------------------------------------------------------------------
(* Queueing.                                                               *)

(* What a session queues: chunks, and at the end one operation of its own, *)
(* which brings the Hub from what was sent to the new capture.             *)
Brings(op, s, c) ==
    /\ op.kind \in {"commit", "metadata"} /\ op.session = s /\ TitleOf(op) = c.title
    /\ op.kind = "commit" => op.capture.messages = c.messages
    /\ op.kind = "commit" /\ op.base # None =>
         sent[s] \in Captures /\ op.base.previous = sent[s].messages
    /\ op.kind = "metadata" => sent[s] \in Captures /\ sent[s].messages = c.messages

(* Where the operations of each session lie after n rows were inserted.    *)
LEMMA AppendedOps ==
    ASSUME QueueOK, NEW n \in Nat \ {0}, NEW ops, Enqueue(n, ops), UNCHANGED trimmed,
           NEW s \in Sessions, NEW c, Brings(ops[n], s, c),
           \A k \in 1 .. n : k < n => ops[k].kind = "chunk"
    PROVE  /\ \A q \in Rows : q \in Nat /\ q < lastSequence' /\ outbox'[q] = outbox[q]
           /\ lastSequence' \in Nat /\ outbox'[lastSequence'] = ops[n]
           /\ \A x \in Sessions :
                /\ OpsOf(x)' = OpsOf(x) \cup (IF x = s THEN {lastSequence'} ELSE {})
                /\ CommitsOf(x)' = CommitsOf(x) \cup
                     (IF x = s /\ ops[n].kind = "commit" THEN {lastSequence'} ELSE {})
<1>0. /\ trimmed \in Nat /\ lastSequence \in Nat /\ trimmed <= lastSequence
      /\ lastSequence' = lastSequence + n
  BY DEF QueueOK, WatermarkInQueue, Enqueue
<1>1. ASSUME NEW q \in Rows
      PROVE  q \in Nat /\ q < lastSequence' /\ q \in Rows' /\ outbox'[q] = outbox[q]
  BY <1>0 DEF Rows, Enqueue
<1>2. lastSequence' \in Rows' /\ outbox'[lastSequence'] = ops[n]
  <2>1. lastSequence + n \in (trimmed + 1) .. (lastSequence + n)
        /\ ~(lastSequence + n <= lastSequence) /\ (lastSequence + n) - lastSequence = n
    BY <1>0
  <2> QED
    BY <1>0, <2>1 DEF Rows, Enqueue
<1>3. ASSUME NEW q \in Rows', q \notin Rows, q # lastSequence'
      PROVE  outbox'[q].kind = "chunk"
  <2>1. q - lastSequence \in 1 .. n /\ q - lastSequence < n /\ ~(q <= lastSequence)
    BY <1>0, <1>3 DEF Rows
  <2>2. outbox'[q] = ops[q - lastSequence]
    BY <1>0, <2>1 DEF Rows, Enqueue
  <2> QED
    BY <2>1, <2>2
<1>4. ASSUME NEW x \in Sessions
      PROVE  OpsOf(x)' = OpsOf(x) \cup (IF x = s THEN {lastSequence'} ELSE {})
  BY <1>1, <1>2, <1>3 DEF OpsOf, Brings
<1>5. ASSUME NEW x \in Sessions
      PROVE  CommitsOf(x)' = CommitsOf(x) \cup
               (IF x = s /\ ops[n].kind = "commit" THEN {lastSequence'} ELSE {})
  <2>1. \A q \in OpsOf(x) : outbox'[q] = outbox[q]
    BY <1>1 DEF OpsOf
  <2> QED
    BY <1>2, <1>4, <2>1 DEF CommitsOf
<1> QED
  BY <1>0, <1>1, <1>2, <1>4, <1>5

(* An operation at the end of the queue is the last of its session, and    *)
(* nothing is between it and what was the last.                            *)
LEMMA AppendedStaysCurrent ==
    ASSUME QueueOK, TablesOK, QueueCurrent, NEW n \in Nat \ {0}, NEW ops, Enqueue(n, ops),
           UNCHANGED trimmed, NEW s \in Sessions, NEW c, Brings(ops[n], s, c),
           \A k \in 1 .. n : k < n => ops[k].kind = "chunk",
           sent' = [sent EXCEPT ![s] = c]
    PROVE  QueueCurrent'
<1> DEFINE last == lastSequence'
           op == ops[n]
<1>1. /\ \A q \in Rows : q \in Nat /\ q < last /\ outbox'[q] = outbox[q]
      /\ last \in Nat /\ outbox'[last] = op
      /\ \A x \in Sessions :
            /\ OpsOf(x)' = OpsOf(x) \cup (IF x = s THEN {last} ELSE {})
            /\ CommitsOf(x)' = CommitsOf(x) \cup
                 (IF x = s /\ op.kind = "commit" THEN {last} ELSE {})
  BY AppendedOps
<1>2. sent'[s] = c /\ \A x \in Sessions \ {s} : sent'[x] = sent[x]
  BY DEF TablesOK
<1>3. ASSUME NEW x \in Sessions
      PROVE  /\ OpsOf(x) \subseteq Rows /\ CommitsOf(x) \subseteq OpsOf(x)
             /\ SentOK(x) /\ ChainOK(x)
  BY QueueCurrentOfSession DEF OpsOf, CommitsOf
<1> HIDE DEF last, op
<1>4. Brings(op, s, c)
  BY DEF op
<1>5. ASSUME NEW x \in Sessions \ {s}
      PROVE  SentOK(x)' /\ ChainOK(x)'
  <2>1. OpsOf(x)' = OpsOf(x) /\ CommitsOf(x)' = CommitsOf(x) /\ sent'[x] = sent[x]
    BY ZenonT(40), <1>1, <1>2
  <2>2. \A q \in OpsOf(x) : outbox'[q] = outbox[q]
    BY <1>1, <1>3
  <2> QED
    BY <1>3, <2>1, <2>2 DEF SentOK, ChainOK
<1>6. SentOK(s)'
  <2>1. ASSUME NEW q \in OpsOf(s)', IsLast(q, OpsOf(s)')
        PROVE  TitleOf(outbox'[q]) = c.title
    <3>1. last \in OpsOf(s)' /\ \A r \in OpsOf(s) : r < last
      BY <1>1, <1>3
    <3>2. q = last
      BY <1>1, <1>3, <2>1, <3>1 DEF IsLast
    <3> QED
      BY <1>1, <1>4, <3>2 DEF Brings
  <2>2. ASSUME NEW q \in CommitsOf(s)', IsLast(q, CommitsOf(s)')
        PROVE  outbox'[q].capture.messages = c.messages
    <3>1. CASE op.kind = "commit"
      <4>1. last \in CommitsOf(s)' /\ \A r \in CommitsOf(s) : r < last
        BY <1>1, <1>3, <3>1
      <4>2. q = last
        BY <1>1, <1>3, <2>2, <3>1, <4>1 DEF IsLast
      <4> QED
        BY <1>1, <1>4, <3>1, <4>2 DEF Brings
    <3>2. CASE op.kind = "metadata"
      <4>1. CommitsOf(s)' = CommitsOf(s) /\ outbox'[q] = outbox[q]
        BY <1>1, <1>3, <2>2, <3>2
      <4>2. sent[s] \in Captures /\ sent[s].messages = c.messages
        BY <1>4, <3>2 DEF Brings
      <4> QED
        BY <1>3, <2>2, <4>1, <4>2 DEF SentOK
    <3> QED
      BY <1>4, <3>1, <3>2 DEF Brings
  <2> QED
    BY <1>2, <2>1, <2>2 DEF SentOK
<1>7. ChainOK(s)'
  <2>1. ASSUME NEW p \in CommitsOf(s)', NEW q \in CommitsOf(s)', outbox'[q].base # None,
               IsLast(p, {r \in CommitsOf(s)' : r < q})
        PROVE  outbox'[q].base.previous = outbox'[p].capture.messages
    <3>1. p \in CommitsOf(s) /\ p < q /\ outbox'[p] = outbox[p]
      BY <1>1, <1>3, <2>1 DEF IsLast
    <3>2. CASE q \in CommitsOf(s)
      <4>1. {r \in CommitsOf(s)' : r < q} = {r \in CommitsOf(s) : r < q}
        BY <1>1, <1>3, <3>2
      <4>2. outbox'[q] = outbox[q]
        BY <1>1, <1>3, <3>2
      <4> QED
        BY <1>3, <2>1, <3>1, <3>2, <4>1, <4>2 DEF ChainOK
    <3>3. CASE q \notin CommitsOf(s)
      <4>1. q = last /\ op.kind = "commit" /\ outbox'[q] = op
        BY <1>1, <2>1, <3>3
      <4>2. \A r \in CommitsOf(s) : r \in CommitsOf(s)' /\ r < q
        BY <1>1, <1>3, <4>1
      <4>3. IsLast(p, CommitsOf(s))
        BY <2>1, <3>1, <4>2 DEF IsLast
      <4>4. sent[s] \in Captures /\ op.base.previous = sent[s].messages
        BY <1>4, <2>1, <4>1 DEF Brings
      <4> QED
        BY <1>3, <3>1, <4>1, <4>3, <4>4 DEF SentOK
    <3> QED
      BY <3>2, <3>3
  <2> QED
    BY <2>1 DEF ChainOK
<1>8. (\A x \in Sessions : SentOK(x) /\ ChainOK(x))'
  BY <1>5, <1>6, <1>7
<1> QED
  BY <1>8 DEF QueueCurrent, SentIsQueued, DeltaChain, SentOK, ChainOK, TitleOf

(* save_batch, whichever way the session changed.                          *)
LEMMA SavedBrings ==
    ASSUME TablesOK, NEW s \in Sessions, NEW c \in Captures, NEW n \in ChunkCounts,
           SaveSession(s, c, n)
    PROVE  /\ sent' = [sent EXCEPT ![s] = c]
           /\ \/ UNCHANGED <<lastSequence, outbox, sent>> /\ sent[s] = c
              \/ \E m \in Nat \ {0} : \E ops :
                   /\ Enqueue(m, ops) /\ Brings(ops[m], s, c)
                   /\ \A k \in 1 .. m : k < m => ops[k].kind = "chunk"
<1>0. sent' = [sent EXCEPT ![s] = c] /\ n \in Nat \ {0}
  BY WorkerAssumption DEF SaveSession
<1>1. CASE EnqueueSnapshot(s, c, n)
  <2> DEFINE t == <<streamId, lastSequence + 1>>
             base == DeltaBase(sent[s], c)
             ops == Snapshot(t, n, s, base, c)
  <2>1. Enqueue(n + 1, ops)
    BY <1>1 DEF EnqueueSnapshot
  <2>2. \A k \in 1 .. n + 1 : k < n + 1 => ops[k].kind = "chunk"
    BY <1>0 DEF Snapshot, Chunk
  <2>3. ops[n + 1] = Commit(t, n, s, base, c)
    BY <1>0 DEF Snapshot
  <2>4. base # None => sent[s] \in Captures /\ base.previous = sent[s].messages
    BY DEF DeltaBase
  <2>5. Brings(ops[n + 1], s, c)
    <3> HIDE DEF ops, base
    <3> QED
      BY <2>3, <2>4 DEF Brings, Commit, TitleOf
  <2>6. n + 1 \in Nat \ {0}
    BY <1>0
  <2> HIDE DEF ops
  <2> QED
    BY <1>0, <2>1, <2>2, <2>5, <2>6
<1>2. CASE /\ ~NeedsSnapshot(s, c) /\ TitleChanged(s, c)
           /\ Enqueue(1, <<Metadata(s, c.title)>>)
  <2> DEFINE ops == <<Metadata(s, c.title)>>
  <2>1. ops[1] = Metadata(s, c.title) /\ \A k \in 1 .. 1 : k < 1 => ops[k].kind = "chunk"
    OBVIOUS
  <2>2. sent[s] \in Captures /\ sent[s].messages = c.messages
    BY <1>2 DEF NeedsSnapshot, ContentChanged
  <2>3. Brings(ops[1], s, c)
    BY <2>1, <2>2 DEF Brings, Metadata, TitleOf
  <2>4. Enqueue(1, ops)
    BY <1>2
  <2>5. 1 \in Nat \ {0}
    OBVIOUS
  <2> HIDE DEF ops
  <2> QED
    BY <1>0, <2>1, <2>3, <2>4, <2>5
<1>3. CASE /\ ~NeedsSnapshot(s, c) /\ ~TitleChanged(s, c)
           /\ UNCHANGED <<lastSequence, outbox>>
  <2>1. sent[s] \in Captures /\ sent[s].messages = c.messages /\ sent[s].title = c.title
    BY <1>3 DEF NeedsSnapshot, ContentChanged, TitleChanged
  <2>2. sent[s] = c
    BY <2>1, CaptureAssumption DEF Contents
  <2>3. UNCHANGED sent
    BY <1>0, <2>2 DEF TablesOK
  <2> QED
    BY <1>0, <1>3, <2>2, <2>3
<1> QED
  BY <1>1, <1>2, <1>3 DEF SaveSession

LEMMA SavedStaysCurrent ==
    ASSUME QueueOK, TablesOK, QueueCurrent, NEW s \in Sessions, NEW c \in Captures,
           NEW n \in ChunkCounts, SaveSession(s, c, n), UNCHANGED trimmed
    PROVE  QueueCurrent'
<1>1. sent' = [sent EXCEPT ![s] = c]
  BY SavedBrings
<1>2. CASE UNCHANGED <<lastSequence, outbox, sent>>
  BY <1>2, SameQueueStaysCurrent
<1>3. CASE \E m \in Nat \ {0} : \E ops :
             /\ Enqueue(m, ops) /\ Brings(ops[m], s, c)
             /\ \A k \in 1 .. m : k < m => ops[k].kind = "chunk"
  BY <1>1, <1>3, AppendedStaysCurrent
<1> QED
  BY <1>2, <1>3, SavedBrings

----------------------------------------------------------------------------
(* Every call.                                                             *)

(* What is forgotten is no capture.                                        *)
LEMMA ForgettingKeeps ==
    ASSUME TablesOK, NEW agents, Forget(agents)
    PROVE  \A s \in Sessions : sent'[s] \in Captures => sent'[s] = sent[s]
BY WorkerAssumption DEF Forget, sessionVars, TablesOK

(* Every call of the store keeps the queue current.                        *)
LEMMA StepStaysCurrent ==
    ASSUME IInv, QueueCurrent, [WorkerNext]_workerVars
    PROVE  QueueCurrent'
<1>0. QueueOK /\ TablesOK /\ streamId \in Nat
  BY DEF IInv, QueueOK
<1>1. CASE AnyBatch
  <2>1. PICK a \in Agents, n \in ChunkCounts, complete \in BOOLEAN :
          \E page \in Pages(a) \cup {None} : SaveBatch(a, page, n, complete)
    BY <1>1 DEF AnyBatch
  <2>2. PICK page \in Pages(a) \cup {None} : SaveBatch(a, page, n, complete)
    BY <2>1
  <2>3. CASE page = None
    BY <1>0, <2>2, <2>3, SameQueueStaysCurrent DEF SaveBatch
  <2>4. CASE page # None
    <3>1. page.session \in Sessions /\ page.capture \in Captures
      BY <2>4 DEF Pages
    <3>2. SaveSession(page.session, page.capture, n) /\ UNCHANGED trimmed
      BY <2>2, <2>4 DEF SaveBatch
    <3> QED
      BY <1>0, <3>1, <3>2, SavedStaysCurrent
  <2> QED
    BY <2>3, <2>4
<1>2. CASE AnyReceipt
  BY <1>0, <1>2, AcknowledgeStaysCurrent DEF AnyReceipt
<1>3. CASE AnyRecovery
  <2>1. PICK e \in Epochs : PrepareRecovery(e)
    BY <1>3 DEF AnyRecovery
  <2>2. CASE UNCHANGED workerVars
    BY <1>0, <2>2, SameQueueStaysCurrent DEF workerVars, queueVars, sessionVars
  <2>3. CASE ResetQueue(streamId + 1) /\ UNCHANGED sent
    BY <1>0, <2>3, ResetStaysCurrent
  <2> QED
    BY <2>1, <2>2, <2>3 DEF PrepareRecovery, sessionVars
<1>4. CASE FinishRecovery
  BY <1>0, <1>4, SameQueueStaysCurrent DEF FinishRecovery, queueVars, sessionVars
<1>5. CASE AnyRescan
  BY <1>0, <1>5, ForgettingKeeps, SameQueueStaysCurrent DEF AnyRescan, BeginRescan, queueVars
<1>6. CASE AnyPause
  BY <1>0, <1>6, SameQueueStaysCurrent DEF AnyPause, SetPause, queueVars, sessionVars
<1>7. CASE AnyRebind
  BY <1>0, <1>7, ResetStaysCurrent DEF AnyRebind, Rebind, sessionVars
<1>8. CASE AnyAdoption
  <2>1. PICK held \in SUBSET Sessions, state \in [Agents -> AdoptedStates] :
          AdoptLocalHistory(binding, held, state)
    BY <1>8 DEF AnyAdoption
  <2>2. \A s \in Sessions : sent'[s] \notin Captures
    BY <2>1, WorkerAssumption, CaptureAssumption DEF AdoptLocalHistory
  <2> QED
    BY <1>0, <2>1, <2>2, SameQueueStaysCurrent DEF AdoptLocalHistory, queueVars
<1>9. CASE UNCHANGED workerVars
  BY <1>0, <1>9, SameQueueStaysCurrent DEF workerVars, queueVars, sessionVars
<1> QED
  BY <1>1, <1>2, <1>3, <1>4, <1>5, <1>6, <1>7, <1>8, <1>9 DEF WorkerNext

(* The queue ends, for every session, in what worker_sessions says was     *)
(* sent, and each queued delta is based on what the commit before it       *)
(* leaves, so that in-order delivery can apply every one: also after any   *)
(* number of rescans, renumberings and lost receipts                       *)
(* (delta_base, worker_store.rs:631).                                     *)
THEOREM CurrentQueue == WorkerSpec => []QueueCurrent
<1>1. WorkerInit(0) => QueueCurrent
  BY CaptureAssumption
  DEF WorkerInit, QueueCurrent, SentIsQueued, DeltaChain, OpsOf, CommitsOf, Rows
<1> QED
  BY <1>1, StepStaysCurrent, Invariant, PTL DEF WorkerSpec

----------------------------------------------------------------------------
(* Every queued delta says what it keeps truly, so a Hub that has its base *)
(* can rebuild the capture.                                                *)
SoundRow(op) == op.kind = "commit" => op.base = None \/ Extends(op)
DeltasExtend == \A q \in Rows : SoundRow(outbox[q])

(* A delta made of what was sent and what is sent now.                     *)
LEMMA DeltaBaseExtends ==
    ASSUME TablesOK, NEW t, NEW n, NEW s \in Sessions, NEW c \in Captures
    PROVE  SoundRow(Commit(t, n, s, DeltaBase(sent[s], c), c))
<1> DEFINE op == Commit(t, n, s, DeltaBase(sent[s], c), c)
<1>1. CASE sent[s] \in Captures /\ Kept(sent[s].messages, c.messages) > 0
  <2>1. sent[s].messages \in Seq(Messages) /\ c.messages \in Seq(Messages)
    BY <1>1, CaptureAssumption DEF Contents
  <2>2. /\ op.base.keep = Kept(sent[s].messages, c.messages)
        /\ op.base.previous = sent[s].messages /\ op.capture = c
    BY <1>1 DEF DeltaBase, Commit
  <2> QED
    BY <2>1, <2>2, KeptPrefix DEF SoundRow, Extends
<1>2. CASE ~(sent[s] \in Captures /\ Kept(sent[s].messages, c.messages) > 0)
  BY <1>2 DEF DeltaBase, Commit, SoundRow
<1> QED
  BY <1>1, <1>2

(* Rows added to a queue.                                                  *)
LEMMA AddedExtend ==
    ASSUME QueueOK, DeltasExtend, NEW n \in Nat, NEW ops, Enqueue(n, ops), UNCHANGED trimmed,
           \A k \in 1 .. n : SoundRow(ops[k])
    PROVE  DeltasExtend'
<1>1. trimmed \in Nat /\ lastSequence \in Nat
  BY DEF QueueOK
<1>2. ASSUME NEW q \in Rows'
      PROVE  SoundRow(outbox'[q])
  <2>1. q \in (trimmed + 1) .. (lastSequence + n)
    BY <1>1 DEF Rows, Enqueue
  <2>2. CASE q <= lastSequence
    BY <1>1, <2>1, <2>2 DEF Rows, Enqueue, DeltasExtend
  <2>3. CASE ~(q <= lastSequence)
    <3>1. q - lastSequence \in 1 .. n /\ outbox'[q] = ops[q - lastSequence]
      BY <1>1, <2>1, <2>3 DEF Enqueue
    <3> QED
      BY <3>1
  <2> QED
    BY <2>2, <2>3
<1> QED
  BY <1>2 DEF DeltasExtend, SoundRow, Extends

(* Saving a session.                                                       *)
LEMMA SavedExtends ==
    ASSUME QueueOK, TablesOK, DeltasExtend, NEW s \in Sessions, NEW c \in Captures,
           NEW n \in ChunkCounts, SaveSession(s, c, n), UNCHANGED trimmed
    PROVE  DeltasExtend'
<1>1. CASE EnqueueSnapshot(s, c, n)
  <2> DEFINE t == <<streamId, lastSequence + 1>>
             ops == Snapshot(t, n, s, DeltaBase(sent[s], c), c)
  <2>1. n \in Nat /\ n + 1 \in Nat
    BY WorkerAssumption
  <2>2. SoundRow(Commit(t, n, s, DeltaBase(sent[s], c), c))
    BY DeltaBaseExtends
  <2>3. ASSUME NEW k \in 1 .. n + 1
        PROVE  SoundRow(ops[k])
    <3>1. CASE k <= n
      <4>1. ops[k].kind = "chunk"
        BY <3>1, <2>3 DEF Snapshot, Chunk
      <4> QED
        BY <4>1 DEF SoundRow
    <3>2. CASE ~(k <= n)
      BY <2>2, <2>3, <3>2 DEF Snapshot
    <3> QED
      BY <3>1, <3>2
  <2>4. Enqueue(n + 1, ops)
    BY <1>1 DEF EnqueueSnapshot
  <2> HIDE DEF ops
  <2> QED
    BY <2>1, <2>3, <2>4, AddedExtend
<1>2. CASE Enqueue(1, <<Metadata(s, c.title)>>)
  <2> DEFINE ops == <<Metadata(s, c.title)>>
  <2>1. \A k \in 1 .. 1 : SoundRow(ops[k])
    BY DEF SoundRow, Metadata
  <2> HIDE DEF ops
  <2> QED
    BY <1>2, <2>1, AddedExtend DEF ops
<1>3. CASE UNCHANGED <<lastSequence, outbox>>
  BY <1>3 DEF DeltasExtend, Rows, SoundRow, Extends
<1> QED
  BY <1>1, <1>2, <1>3 DEF SaveSession

(* Rows renumbered or deleted.                                             *)
LEMMA KeptExtend ==
    ASSUME QueueOK, DeltasExtend,
           \/ \E stream : ResetQueue(stream)
           \/ \E q \in Unconfirmed : Acknowledge(streamId, q, outbox[q])
           \/ UNCHANGED <<trimmed, lastSequence, outbox>>
    PROVE  DeltasExtend'
<1>1. trimmed \in Nat /\ lastSequence \in Nat /\ trimmed <= lastSequence
      /\ confirmedSequence \in Nat /\ trimmed <= confirmedSequence
  BY DEF QueueOK, WatermarkInQueue
<1>2. CASE \E stream : ResetQueue(stream)
  <2>1. \A q \in Rows' : trimmed + q \in Rows /\ outbox'[q] = outbox[trimmed + q]
    BY <1>1, <1>2 DEF Rows, ResetQueue
  <2> QED
    BY SMTT(30), <2>1 DEF DeltasExtend, SoundRow, Extends
<1>3. CASE \E q \in Unconfirmed : Acknowledge(streamId, q, outbox[q])
  <2>1. PICK q \in Unconfirmed : Acknowledge(streamId, q, outbox[q])
    BY <1>3
  <2>2. \A r \in Rows' : r \in Rows /\ outbox'[r] = outbox[r]
    BY <1>1, <2>1 DEF Rows, Acknowledge, Unconfirmed
  <2> QED
    BY SMTT(30), <2>2 DEF DeltasExtend, SoundRow, Extends
<1>4. CASE UNCHANGED <<trimmed, lastSequence, outbox>>
  BY <1>4 DEF DeltasExtend, Rows, SoundRow, Extends
<1> QED
  BY <1>2, <1>3, <1>4

(* Every call of the store.                                                *)
LEMMA StepExtends ==
    ASSUME IInv, DeltasExtend, [WorkerNext]_workerVars
    PROVE  DeltasExtend'
<1>0. QueueOK /\ TablesOK
  BY DEF IInv
<1>1. CASE AnyBatch
  <2>1. PICK a \in Agents, n \in ChunkCounts, complete \in BOOLEAN :
          \E page \in Pages(a) \cup {None} : SaveBatch(a, page, n, complete)
    BY <1>1 DEF AnyBatch
  <2>2. PICK page \in Pages(a) \cup {None} : SaveBatch(a, page, n, complete)
    BY <2>1
  <2>3. CASE page = None
    BY <1>0, <2>2, <2>3, KeptExtend DEF SaveBatch
  <2>4. CASE page # None
    <3>1. page.session \in Sessions /\ page.capture \in Captures
      BY <2>4 DEF Pages
    <3>2. SaveSession(page.session, page.capture, n) /\ UNCHANGED trimmed
      BY <2>2, <2>4 DEF SaveBatch
    <3> QED
      BY <1>0, <3>1, <3>2, SavedExtends
  <2> QED
    BY <2>3, <2>4
<1>2. CASE AnyReceipt
  BY <1>0, <1>2, KeptExtend DEF AnyReceipt
<1>3. CASE AnyRecovery \/ AnyRebind
  BY <1>0, <1>3, KeptExtend
  DEF AnyRecovery, PrepareRecovery, AnyRebind, Rebind, workerVars, queueVars
<1>4. CASE FinishRecovery \/ AnyRescan \/ AnyPause \/ AnyAdoption \/ UNCHANGED workerVars
  BY <1>0, <1>4, KeptExtend
  DEF FinishRecovery, AnyRescan, BeginRescan, AnyPause, SetPause, AnyAdoption,
      AdoptLocalHistory, workerVars, queueVars
<1> QED
  BY <1>1, <1>2, <1>3, <1>4 DEF WorkerNext

(* A queued delta never claims more than its base and the new content      *)
(* share (delta_base, worker_store.rs:631).                                *)
THEOREM DeltasAreSound == WorkerSpec => []DeltasExtend
<1>1. WorkerInit(0) => DeltasExtend
  BY DEF WorkerInit, DeltasExtend, Rows
<1> QED
  BY <1>1, StepExtends, Invariant, PTL DEF WorkerSpec
=============================================================================
