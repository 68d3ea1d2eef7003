------------------------- MODULE WorkerStoreProofs -------------------------
(***************************************************************************)
(* Safety of the Worker's store, for every set of sessions, every content, *)
(* every sequence of operations and queues of any length.                  *)
(***************************************************************************)
EXTENDS WorkerStore, FiniteSetTheorems, TLAPS

----------------------------------------------------------------------------
(* What the operators build has the type the queue expects.                *)

(* The number of messages kept is the length of a common prefix.           *)
LEMMA KeptPrefix ==
    ASSUME NEW old \in Seq(Messages), NEW new \in Seq(Messages)
    PROVE  LET k == Kept(old, new)
           IN  /\ k \in Nat /\ k <= Len(old) /\ k <= Len(new)
               /\ \A i \in 1 .. k : old[i] = new[i]
<1> DEFINE K == {k \in DOMAIN old : k <= Len(new) /\ \A i \in 1 .. k : old[i] = new[i]}
           c == Cardinality(K)
<1>1. /\ Len(old) \in Nat /\ Len(new) \in Nat /\ DOMAIN old = 1 .. Len(old)
      /\ K \in SUBSET (1 .. Len(old))
  OBVIOUS
<1>2. IsFiniteSet(K) /\ c \in Nat
  <2>1. IsFiniteSet(1 .. Len(old))
    BY <1>1, FS_Interval
  <2>2. IsFiniteSet(K)
    BY <1>1, <2>1, FS_Subset
  <2> QED
    BY <2>2, FS_CardinalityType
<1>3. ASSUME NEW x \in K
      PROVE  x <= c
  <2>1. x \in 1 .. Len(old) /\ 1 .. x \in SUBSET K
    BY <1>1
  <2>2. Cardinality(1 .. x) = x
    BY <2>1, FS_Interval
  <2> QED
    BY <1>2, <2>1, <2>2, FS_Subset
<1>4. K \in SUBSET (1 .. c)
  BY <1>1, <1>3
<1>5. /\ IsFiniteSet(1 .. c) /\ Cardinality(1 .. c) = c
  BY <1>2, FS_Interval
<1>6. K = 1 .. c
  BY <1>4, <1>5, FS_Subset
<1>7. \A k \in K : k <= Len(new) /\ \A i \in 1 .. k : old[i] = new[i]
  OBVIOUS
<1>8. Kept(old, new) = c
  BY DEF Kept
<1> HIDE DEF K, c
<1>9. c <= Len(old) /\ c <= Len(new) /\ \A i \in 1 .. c : old[i] = new[i]
  BY <1>1, <1>2, <1>6, <1>7
<1> QED
  BY <1>2, <1>8, <1>9

(* A delta base is a row of the previous messages, or there is none.       *)
LEMMA DeltaBaseType ==
    ASSUME NEW previous \in Captures \cup {None, Cleared}, NEW c \in Captures
    PROVE  DeltaBase(previous, c) \in Bases \cup {None}
<1>1. CASE previous \in Captures
  <2>1. previous.messages \in Seq(Messages) /\ c.messages \in Seq(Messages)
    BY <1>1, CaptureAssumption DEF Contents
  <2>2. Kept(previous.messages, c.messages) \in Nat
    BY <2>1, KeptPrefix
  <2> QED
    BY <2>1, <2>2 DEF DeltaBase, Bases
<1>2. CASE previous \notin Captures
  BY <1>2 DEF DeltaBase
<1> QED
  BY <1>1, <1>2

(* What enqueue_snapshot inserts: operations, and whole by themselves.     *)
LEMMA SnapshotWhole ==
    ASSUME NEW t \in Transfers, NEW n \in ChunkCounts, NEW s \in Sessions,
           NEW base \in Bases \cup {None}, NEW c \in Captures
    PROVE  /\ Snapshot(t, n, s, base, c) \in [1 .. n + 1 -> Operations]
           /\ Whole(Snapshot(t, n, s, base, c), 1, n + 1)
<1> DEFINE ops == Snapshot(t, n, s, base, c)
<1>1. n \in Nat /\ n > 0
  BY WorkerAssumption
<1>2. \A k \in 1 .. n : ops[k] = Chunk(t, k - 1) /\ ops[k] \in Operations
  BY <1>1 DEF Snapshot, Chunk, Operations
<1>3. ops[n + 1] = Commit(t, n, s, base, c) /\ ops[n + 1] \in Operations
  BY <1>1 DEF Snapshot, Commit, Operations
<1>4. ops \in [1 .. n + 1 -> Operations]
  <2>1. \A k \in 1 .. n + 1 : ops[k] \in Operations
    BY <1>1, <1>2, <1>3
  <2> QED
    BY <2>1 DEF Snapshot
<1>5. ASSUME NEW k \in 1 .. n
      PROVE  ops[k].kind = "chunk" /\ ops[k].transfer = t /\ ops[k].index = k - 1
  <2>1. ops[k] = Chunk(t, k - 1)
    BY <1>2
  <2>2. /\ Chunk(t, k - 1).kind = "chunk" /\ Chunk(t, k - 1).transfer = t
        /\ Chunk(t, k - 1).index = k - 1
    BY DEF Chunk
  <2> HIDE DEF ops
  <2> QED
    BY <2>1, <2>2
<1>6. ops[n + 1].kind = "commit" /\ ops[n + 1].transfer = t /\ ops[n + 1].chunks = n
  BY <1>3 DEF Commit
<1>7. Whole(ops, 1, n + 1)
  <2> HIDE DEF ops
  <2>1. ASSUME NEW k \in 1 .. n
        PROVE  ChunkFits(ops, 1, n + 1, k)
    <3>1. CASE k < n
      <4>1. k + 1 \in 1 .. n
        BY <1>1, <3>1
      <4>2. k - 1 > 0 => k - 1 \in 1 .. n
        BY <1>1
      <4> QED
        BY <1>1, <1>5, <4>1, <4>2 DEF ChunkFits
    <3>2. CASE k = n
      <4>1. k - 1 > 0 => k - 1 \in 1 .. n
        BY <1>1
      <4> QED
        BY <1>1, <1>5, <1>6, <3>2, <4>1 DEF ChunkFits
    <3> QED
      BY <1>1, <3>1, <3>2
  <2>2. CommitFits(ops, 1, n + 1)
    <3>1. n \in 1 .. n
      BY <1>1
    <3> QED
      BY <1>1, <1>5, <1>6, <3>1 DEF CommitFits
  <2>3. \A k \in 1 .. n : ops[k].kind # "commit"
    BY <1>5
  <2> QED
    BY <1>1, <1>6, <2>1, <2>2, <2>3 DEF Whole
<1> QED
  BY <1>4, <1>7

(* A metadata operation is whole by itself: it needs no neighbours.        *)
LEMMA MetadataWhole ==
    ASSUME NEW s \in Sessions, NEW title \in Titles
    PROVE  /\ <<Metadata(s, title)>> \in [1 .. 1 -> Operations]
           /\ Whole(<<Metadata(s, title)>>, 1, 1)
BY DEF Metadata, Operations, Whole
----------------------------------------------------------------------------
(* The queue.                                                              *)

QueueOK ==
    /\ streamId \in Nat /\ confirmedSequence \in Nat
    /\ trimmed \in Nat /\ lastSequence \in Nat
    /\ outbox \in [Rows -> Operations]
    /\ WatermarkInQueue
    /\ WholeTransfers

(* Inserting whole operations at the end keeps the queue in order.         *)
LEMMA EnqueueKeepsQueue ==
    ASSUME QueueOK, NEW n \in Nat, NEW ops \in [1 .. n -> Operations],
           Whole(ops, 1, n), Enqueue(n, ops),
           UNCHANGED <<streamId, confirmedSequence, trimmed>>
    PROVE  QueueOK' /\ lastSequence' >= lastSequence
<1>1. /\ streamId' \in Nat /\ confirmedSequence' \in Nat /\ trimmed' \in Nat
      /\ lastSequence' \in Nat /\ lastSequence' = lastSequence + n
  BY DEF QueueOK, Enqueue
<1>2. ASSUME NEW q \in Rows
      PROVE  q \in Rows' /\ outbox'[q] = outbox[q]
  BY DEF QueueOK, Enqueue, Rows
<1>3. ASSUME NEW q \in Rows', q > lastSequence
      PROVE  q - lastSequence \in 1 .. n /\ outbox'[q] = ops[q - lastSequence]
  BY <1>3 DEF QueueOK, Enqueue, Rows
<1>4. ASSUME NEW q \in Rows', q <= lastSequence
      PROVE  q \in Rows
  BY <1>4 DEF QueueOK, Enqueue, Rows
<1>5. outbox' \in [Rows' -> Operations]
  <2>1. \A q \in Rows' : outbox'[q] \in Operations
    BY <1>1, <1>2, <1>3, <1>4 DEF QueueOK, Rows
  <2> QED
    BY <1>1, <2>1 DEF Enqueue, Rows
<1>6. WatermarkInQueue'
  BY <1>1, <1>2, <1>4 DEF QueueOK, WatermarkInQueue, Rows
<1>7. WholeTransfers'
  <2>1. ASSUME NEW q \in Rows', q <= lastSequence
        PROVE  /\ outbox'[q].kind = "chunk" => ChunkFits(outbox', trimmed + 1, lastSequence + n, q)
               /\ outbox'[q].kind = "commit" => CommitFits(outbox', trimmed + 1, q)
    <3>1. q \in Rows /\ outbox'[q] = outbox[q]
      BY <1>2, <1>4, <2>1
    <3>2. q + 1 <= lastSequence => outbox'[q + 1] = outbox[q + 1]
      BY <1>2, <3>1 DEF QueueOK, Rows
    <3>3. q - 1 > trimmed => outbox'[q - 1] = outbox[q - 1]
      BY <1>2, <3>1 DEF QueueOK, Rows
    <3>4. /\ outbox[q].kind = "chunk" => ChunkFits(outbox, trimmed + 1, lastSequence, q)
          /\ outbox[q].kind = "commit" => CommitFits(outbox, trimmed + 1, q)
      BY <3>1 DEF QueueOK, WholeTransfers, Whole, Rows
    <3> QED
      BY <3>1, <3>2, <3>3, <3>4 DEF QueueOK, ChunkFits, CommitFits, Rows
  <2>2. ASSUME NEW q \in Rows', q > lastSequence
        PROVE  /\ outbox'[q].kind = "chunk" => ChunkFits(outbox', trimmed + 1, lastSequence + n, q)
               /\ outbox'[q].kind = "commit" => CommitFits(outbox', trimmed + 1, q)
    <3> DEFINE k == q - lastSequence
    <3>1. k \in 1 .. n /\ outbox'[q] = ops[k] /\ q \in Nat /\ q <= lastSequence + n
      BY <1>1, <1>3, <2>2 DEF QueueOK, Rows
    <3>2. k + 1 <= n => outbox'[q + 1] = ops[k + 1]
      <4>1. SUFFICES ASSUME k + 1 <= n PROVE outbox'[q + 1] = ops[k + 1]
        OBVIOUS
      <4>2. q + 1 \in Rows' /\ q + 1 > lastSequence
        BY <1>1, <3>1, <4>1, <2>2 DEF QueueOK, Rows
      <4>3. (q + 1) - lastSequence = k + 1
        BY <3>1 DEF QueueOK
      <4> QED
        BY <1>3, <4>2, <4>3
    <3>3. k - 1 >= 1 => outbox'[q - 1] = ops[k - 1]
      <4>1. SUFFICES ASSUME k - 1 >= 1 PROVE outbox'[q - 1] = ops[k - 1]
        OBVIOUS
      <4>2. q - 1 \in Rows' /\ q - 1 > lastSequence
        BY <1>1, <3>1, <4>1, <2>2 DEF QueueOK, WatermarkInQueue, Rows
      <4>3. (q - 1) - lastSequence = k - 1
        BY <3>1 DEF QueueOK
      <4> QED
        BY <1>3, <4>2, <4>3
    <3>4. /\ ops[k].kind = "chunk" => ChunkFits(ops, 1, n, k)
          /\ ops[k].kind = "commit" => CommitFits(ops, 1, k)
      BY <3>1 DEF Whole
    <3>5. trimmed <= lastSequence /\ trimmed \in Nat /\ lastSequence \in Nat
      BY DEF QueueOK, WatermarkInQueue
    <3>6. q = lastSequence + k
      BY <3>1, <3>5
    <3> HIDE DEF k
    <3> QED
      BY <3>1, <3>2, <3>3, <3>4, <3>5, <3>6 DEF ChunkFits, CommitFits
  <2> QED
    BY <1>1, <2>1, <2>2 DEF WholeTransfers, Whole, Rows, QueueOK
<1> QED
  BY <1>1, <1>5, <1>6, <1>7 DEF QueueOK

(* reset_queue renumbers rows without separating the parts of a snapshot.  *)
LEMMA ResetKeepsQueue ==
    ASSUME QueueOK, NEW stream \in Nat, ResetQueue(stream)
    PROVE  QueueOK'
<1>1. /\ streamId' = stream /\ confirmedSequence' = 0 /\ trimmed' = 0
      /\ lastSequence' = lastSequence - trimmed /\ lastSequence' \in Nat
      /\ trimmed \in Nat /\ lastSequence \in Nat
  BY DEF QueueOK, WatermarkInQueue, ResetQueue
<1>2. ASSUME NEW q \in Rows'
      PROVE  q \in Nat \ {0} /\ trimmed + q \in Rows /\ outbox'[q] = outbox[trimmed + q]
  BY <1>1 DEF ResetQueue, Rows
<1>3. outbox' \in [Rows' -> Operations]
  <2>1. \A q \in Rows' : outbox'[q] \in Operations
    BY <1>2 DEF QueueOK
  <2>2. Rows' = 1 .. (lastSequence - trimmed)
    BY <1>1 DEF Rows
  <2> QED
    BY <2>1, <2>2 DEF ResetQueue
<1>4. WatermarkInQueue'
  BY <1>1 DEF WatermarkInQueue, Rows
<1>5. WholeTransfers'
  <2>1. ASSUME NEW q \in Rows'
        PROVE  /\ outbox'[q].kind = "chunk" => ChunkFits(outbox', 1, lastSequence', q)
               /\ outbox'[q].kind = "commit" => CommitFits(outbox', 1, q)
    <3> DEFINE p == trimmed + q
    <3>1. q \in Nat \ {0} /\ p \in Rows /\ outbox'[q] = outbox[p] /\ q <= lastSequence'
      BY <1>1, <1>2 DEF Rows
    <3>2. p < lastSequence => q + 1 \in Rows' /\ outbox'[q + 1] = outbox[p + 1]
      <4>1. SUFFICES ASSUME p < lastSequence
                     PROVE  q + 1 \in Rows' /\ outbox'[q + 1] = outbox[p + 1]
        OBVIOUS
      <4>2. q + 1 \in Rows' /\ trimmed + (q + 1) = p + 1
        BY <1>1, <3>1, <4>1 DEF Rows
      <4> QED
        BY <1>2, <4>2
    <3>3. p > trimmed + 1 => q - 1 \in Rows' /\ outbox'[q - 1] = outbox[p - 1]
      <4>1. SUFFICES ASSUME p > trimmed + 1
                     PROVE  q - 1 \in Rows' /\ outbox'[q - 1] = outbox[p - 1]
        OBVIOUS
      <4>2. q - 1 \in Rows' /\ trimmed + (q - 1) = p - 1
        BY <1>1, <3>1, <4>1 DEF Rows
      <4> QED
        BY <1>2, <4>2
    <3>4. /\ outbox[p].kind = "chunk" => ChunkFits(outbox, trimmed + 1, lastSequence, p)
          /\ outbox[p].kind = "commit" => CommitFits(outbox, trimmed + 1, p)
      BY <3>1 DEF QueueOK, WholeTransfers, Whole, Rows
    <3>5. p = trimmed + q
      OBVIOUS
    <3> HIDE DEF p
    <3> QED
      BY <1>1, <3>1, <3>2, <3>3, <3>4, <3>5 DEF ChunkFits, CommitFits
  <2> QED
    BY <1>1, <2>1 DEF WholeTransfers, Whole, Rows
<1> QED
  BY <1>1, <1>3, <1>4, <1>5 DEF QueueOK

(* An acknowledged commit is the last row of its snapshot, so the rows     *)
(* deleted with it are all of that snapshot and of those before it.        *)
LEMMA AcknowledgeKeepsQueue ==
    ASSUME QueueOK, NEW q \in Unconfirmed, Acknowledge(streamId, q, outbox[q])
    PROVE  QueueOK'
<1>1. /\ q = confirmedSequence + 1 /\ confirmedSequence' = q
      /\ UNCHANGED <<streamId, lastSequence>>
  BY DEF Acknowledge, NextUpload
<1>2. /\ q \in Nat /\ q <= lastSequence /\ q \in Rows
      /\ trimmed \in Nat /\ lastSequence \in Nat /\ trimmed <= confirmedSequence
  BY <1>1 DEF QueueOK, WatermarkInQueue, Unconfirmed, Rows
<1>3. CASE outbox[q].kind = "chunk"
  <2>1. UNCHANGED <<trimmed, outbox>>
    BY <1>3 DEF Acknowledge
  <2>2. WatermarkInQueue'
    BY <1>1, <1>2, <1>3, <2>1 DEF QueueOK, WatermarkInQueue, Rows
  <2> QED
    BY <1>1, <1>2, <2>1, <2>2 DEF QueueOK, WholeTransfers, Whole, Rows
<1>4. CASE outbox[q].kind # "chunk"
  <2>1. /\ trimmed' = q
        /\ outbox' = [r \in (q + 1) .. lastSequence |-> outbox[r]]
    BY <1>4 DEF Acknowledge
  <2>2. ASSUME NEW r \in Rows'
        PROVE  r \in Rows /\ r > q /\ outbox'[r] = outbox[r]
    BY <1>1, <1>2, <2>1 DEF Rows
  <2>3. outbox' \in [Rows' -> Operations]
    <3>1. \A r \in Rows' : outbox'[r] \in Operations
      BY <2>2 DEF QueueOK
    <3> QED
      BY <1>1, <2>1, <3>1 DEF Rows
  <2>4. WatermarkInQueue'
    BY <1>1, <1>2, <2>1, <2>2 DEF WatermarkInQueue, Rows
  <2>5. WholeTransfers'
    <3>1. ASSUME NEW r \in Rows'
          PROVE  /\ outbox'[r].kind = "chunk" => ChunkFits(outbox', q + 1, lastSequence, r)
                 /\ outbox'[r].kind = "commit" => CommitFits(outbox', q + 1, r)
      <4>1. r \in Rows /\ r > q /\ outbox'[r] = outbox[r]
        BY <2>2
      <4>2. r < lastSequence => outbox'[r + 1] = outbox[r + 1]
        BY <1>2, <2>1, <4>1 DEF Rows
      <4>3. r > q + 1 => outbox'[r - 1] = outbox[r - 1]
        BY <1>2, <2>1, <4>1 DEF Rows
      <4>4. /\ outbox[r].kind = "chunk" => ChunkFits(outbox, trimmed + 1, lastSequence, r)
            /\ outbox[r].kind = "commit" => CommitFits(outbox, trimmed + 1, r)
        BY <4>1 DEF QueueOK, WholeTransfers, Whole, Rows
      <4>5. r = q + 1 => outbox[r - 1].kind # "chunk"
        BY <1>2, <1>4
      <4> QED
        BY <1>2, <4>1, <4>2, <4>3, <4>4, <4>5 DEF ChunkFits, CommitFits, Rows
    <3> QED
      BY <1>1, <2>1, <3>1 DEF WholeTransfers, Whole, Rows
  <2> QED
    BY <1>1, <1>2, <2>1, <2>3, <2>4, <2>5 DEF QueueOK
<1> QED
  BY <1>3, <1>4
----------------------------------------------------------------------------
(* The inductive invariant: the queue as above, the types of the other     *)
(* tables, and completion targets inside the stream.  WatermarkInQueue is  *)
(* needed for the types (renumbering subtracts `trimmed'), WholeTransfers  *)
(* is inductive with it only.  None of it depends on who calls the store:  *)
(* epochs, tasks and agents are the caller's, and NamesOK is about them.   *)

ProgressOK ==
    rescan # None =>
        /\ rescan = Progress(rescan.id, rescan.pending, rescan.target, rescan.failed)
        /\ rescan.target \in Nat \cup {None} /\ rescan.failed \in BOOLEAN

TablesOK ==
    /\ recovery \in [epoch : Nat, previousStream : Nat, newStream : Nat] \cup {None}
    /\ ProgressOK
    /\ binding \in Nat
    /\ sent \in [Sessions -> Captures \cup {None, Cleared}]
    /\ sources \in [Agents -> SourceStates]
    /\ pauseSaved \in BOOLEAN

IInv == QueueOK /\ TablesOK /\ TargetInStream

NamesOK ==
    /\ recovery # None => recovery.epoch \in Epochs
    /\ rescan # None => rescan.id \in TaskIds /\ rescan.pending \subseteq Agents
    /\ binding \in Epochs

(* A source remembers one more fingerprint.                                *)
LEMMA WithKnownType ==
    ASSUME NEW src \in SourceStates, NEW s \in Sessions, NEW f \in Fingerprints,
           NEW complete \in BOOLEAN
    PROVE  /\ [known |-> WithKnown(src.known, s, f), complete |-> complete] \in SourceStates
           /\ [known |-> src.known, complete |-> complete] \in SourceStates
<1>1. PICK S \in SUBSET Sessions : src.known \in [S -> Fingerprints]
  BY DEF SourceStates
<1>2. WithKnown(src.known, s, f) \in [S \cup {s} -> Fingerprints]
  BY <1>1 DEF WithKnown
<1>3. S \cup {s} \in SUBSET Sessions
  OBVIOUS
<1> QED
  BY <1>1, <1>2, <1>3 DEF SourceStates

(* An agent without a checkpoint has a source state.                       *)
LEMMA NoSourceType == NoSource \in SourceStates
<1>1. [s \in {} |-> None] \in [{} -> Fingerprints]
  OBVIOUS
<1> QED
  BY <1>1 DEF NoSource, SourceStates

(* What a session adds to the queue, whichever way it changed.             *)
LEMMA SaveSessionKeepsQueue ==
    ASSUME QueueOK, TablesOK, NEW s \in Sessions, NEW c \in Captures, NEW n \in ChunkCounts,
           SaveSession(s, c, n), UNCHANGED <<streamId, confirmedSequence, trimmed>>
    PROVE  /\ QueueOK' /\ lastSequence' >= lastSequence
           /\ sent' \in [Sessions -> Captures \cup {None, Cleared}]
<1>1. sent' \in [Sessions -> Captures \cup {None, Cleared}]
  BY DEF SaveSession, TablesOK
<1>2. CASE EnqueueSnapshot(s, c, n)
  <2> DEFINE t == <<streamId, lastSequence + 1>>
             ops == Snapshot(t, n, s, DeltaBase(sent[s], c), c)
  <2>1. t \in Transfers
    BY DEF QueueOK, Transfers
  <2>2. DeltaBase(sent[s], c) \in Bases \cup {None}
    BY DeltaBaseType DEF TablesOK
  <2>3. ops \in [1 .. n + 1 -> Operations] /\ Whole(ops, 1, n + 1)
    BY <2>1, <2>2, SnapshotWhole
  <2>4. n + 1 \in Nat
    BY WorkerAssumption
  <2>5. Enqueue(n + 1, ops)
    BY <1>2 DEF EnqueueSnapshot
  <2> HIDE DEF ops
  <2> QED
    BY <1>1, <2>3, <2>4, <2>5, EnqueueKeepsQueue
<1>3. CASE Enqueue(1, <<Metadata(s, c.title)>>)
  <2>1. c.title \in Titles
    BY CaptureAssumption DEF Contents
  <2>2. /\ <<Metadata(s, c.title)>> \in [1 .. 1 -> Operations]
        /\ Whole(<<Metadata(s, c.title)>>, 1, 1)
    BY <2>1, MetadataWhole
  <2> QED
    BY <1>1, <1>3, <2>2, EnqueueKeepsQueue
<1>4. CASE UNCHANGED <<lastSequence, outbox>>
  BY <1>1, <1>4 DEF QueueOK, Rows, WatermarkInQueue, WholeTransfers
<1> QED
  BY <1>2, <1>3, <1>4 DEF SaveSession

(* Finishing an agent sets the target, if at all, inside the queue.        *)
LEMMA AgentCompleteInStream ==
    ASSUME IInv, QueueOK', lastSequence' >= lastSequence,
           UNCHANGED <<confirmedSequence, trimmed>>,
           NEW a \in Agents, AgentComplete(a) \/ UNCHANGED rescan
    PROVE  ProgressOK' /\ TargetInStream'
<1>1. /\ lastSequence \in Nat /\ lastSequence' \in Nat /\ confirmedSequence \in Nat
      /\ confirmedSequence <= lastSequence
  BY DEF IInv, QueueOK, WatermarkInQueue
<1>2. RescanTarget \in Nat /\ RescanTarget <= lastSequence'
  BY <1>1 DEF RescanTarget
<1>3. CASE UNCHANGED rescan
  BY <1>1, <1>3 DEF IInv, TablesOK, ProgressOK, TargetInStream
<1>4. CASE AgentComplete(a) /\ rescan # None /\ ~rescan.failed /\ rescan.target = None
  <2> DEFINE left == rescan.pending \ {a}
             target == IF left = {} THEN RescanTarget ELSE None
  <2>1. rescan' = Progress(rescan.id, left, target, FALSE)
    BY <1>4 DEF AgentComplete
  <2>2. /\ rescan'.id = rescan.id /\ rescan'.pending = left
        /\ rescan'.target = target /\ rescan'.failed = FALSE
    BY <2>1 DEF Progress
  <2>3. target \in Nat \cup {None}
    BY <1>2
  <2> HIDE DEF target, left
  <2>4. ProgressOK'
    BY <2>1, <2>2, <2>3 DEF ProgressOK
  <2>5. TargetInStream'
    BY <1>2, <2>2 DEF TargetInStream, target
  <2> QED
    BY <2>4, <2>5
<1> QED
  BY <1>3, <1>4 DEF AgentComplete

(* The invariant holds of an empty store.                                  *)
LEMMA InitInvariant == WorkerInit(0) => IInv
<1> SUFFICES ASSUME WorkerInit(0) PROVE IInv
  OBVIOUS
<1>1. QueueOK
  BY DEF WorkerInit, QueueOK, Rows, WatermarkInQueue, WholeTransfers, Whole
<1>2. TablesOK
  BY NoSourceType DEF WorkerInit, TablesOK, ProgressOK
<1>3. TargetInStream
  BY DEF WorkerInit, TargetInStream
<1> QED
  BY <1>1, <1>2, <1>3 DEF IInv
(* One page saved.                                                         *)
LEMMA BatchInvariant ==
    ASSUME IInv, NEW a \in Agents, NEW n \in ChunkCounts, NEW complete \in BOOLEAN,
           NEW page \in Pages(a) \cup {None}, SaveBatch(a, page, n, complete)
    PROVE  IInv'
<1>1. QueueOK /\ TablesOK
  BY DEF IInv
<1>2. UNCHANGED <<streamId, confirmedSequence, trimmed, recovery, binding, pauseSaved>>
  BY DEF SaveBatch
<1>3. /\ QueueOK' /\ lastSequence' >= lastSequence
      /\ sent' \in [Sessions -> Captures \cup {None, Cleared}]
  <2>1. CASE page = None
    <3>1. UNCHANGED <<lastSequence, outbox, sent>>
      BY <2>1 DEF SaveBatch
    <3> QED
      BY <1>1, <1>2, <3>1
      DEF QueueOK, TablesOK, Rows, WatermarkInQueue, WholeTransfers
  <2>2. CASE page # None
    <3>1. page.session \in Sessions /\ page.capture \in Captures
      BY <2>2 DEF Pages
    <3>2. SaveSession(page.session, page.capture, n)
      BY <2>2 DEF SaveBatch
    <3> QED
      BY <1>1, <1>2, <3>1, <3>2, SaveSessionKeepsQueue
  <2> QED
    BY <2>1, <2>2
<1>4. sources' \in [Agents -> SourceStates]
  <2>1. sources[a] \in SourceStates
    BY <1>1 DEF TablesOK
  <2>2. [known |-> IF page = None THEN sources[a].known
                   ELSE WithKnown(sources[a].known, page.session, page.fingerprint),
         complete |-> complete] \in SourceStates
    <3>1. CASE page = None
      <4>1. [known |-> sources[a].known, complete |-> complete] \in SourceStates
        BY <2>1 DEF SourceStates
      <4> QED
        BY <3>1, <4>1
    <3>2. CASE page # None
      <4>1. page.session \in Sessions /\ page.fingerprint \in Fingerprints
        BY <3>2 DEF Pages
      <4> QED
        BY <2>1, <3>2, <4>1, WithKnownType
    <3> QED
      BY <3>1, <3>2
  <2> QED
    BY <1>1, <2>2 DEF SaveBatch, TablesOK
<1>5. AgentComplete(a) \/ UNCHANGED rescan
  BY DEF SaveBatch
<1>6. ProgressOK' /\ TargetInStream'
  BY <1>2, <1>3, <1>5, AgentCompleteInStream
<1> QED
  BY <1>1, <1>2, <1>3, <1>4, <1>6 DEF IInv, TablesOK

(* A new stream, and with it no rescan target of the old one.              *)
LEMMA RecoveryInvariant ==
    ASSUME IInv, NEW e \in Nat, PrepareRecovery(e)
    PROVE  IInv'
<1>1. QueueOK /\ TablesOK /\ TargetInStream
  BY DEF IInv
<1>2. CASE UNCHANGED workerVars
  BY <1>1, <1>2
  DEF IInv, QueueOK, TablesOK, TargetInStream, Rows, WatermarkInQueue, WholeTransfers,
      workerVars, queueVars, sessionVars, ProgressOK
<1>3. CASE recovery = None \/ recovery.epoch # e
  <2> DEFINE previous == IF recovery = None THEN streamId ELSE recovery.previousStream
  <2>1. /\ recovery' = Recovery(e, previous, streamId + 1)
        /\ ResetQueue(streamId + 1) /\ rescan' = None
        /\ UNCHANGED <<binding, sessionVars, pauseSaved>>
    BY <1>3 DEF PrepareRecovery
  <2>2. streamId + 1 \in Nat /\ previous \in Nat
    BY <1>1 DEF QueueOK, TablesOK
  <2>3. QueueOK'
    BY <1>1, <2>1, <2>2, ResetKeepsQueue
  <2> QED
    BY <1>1, <2>1, <2>2, <2>3
    DEF IInv, TablesOK, ProgressOK, TargetInStream, Recovery, sessionVars
<1> QED
  BY <1>2, <1>3 DEF PrepareRecovery

(* Forgetting what was sent leaves the tables well-typed.                  *)
LEMMA ForgetTypes ==
    ASSUME TablesOK, NEW agents, Forget(agents)
    PROVE  /\ sent' \in [Sessions -> Captures \cup {None, Cleared}]
           /\ sources' \in [Agents -> SourceStates]
BY NoSourceType DEF Forget, TablesOK, sessionVars

(* A rescan begins with everything before it and no target.                *)
LEMMA RescanInvariant ==
    ASSUME IInv, NEW id, NEW agents, Forget(agents),
           rescan' = Progress(id, Scope(agents), None, Unavailable(agents) # {}),
           UNCHANGED <<queueVars, recovery, binding>>, pauseSaved' \in BOOLEAN
    PROVE  IInv'
<1>1. QueueOK /\ TablesOK
  BY DEF IInv
<1>2. /\ rescan'.id = id /\ rescan'.pending = Scope(agents) /\ rescan'.target = None
      /\ rescan'.failed = (Unavailable(agents) # {})
  BY DEF Progress
<1>3. ProgressOK' /\ TargetInStream'
  BY <1>2 DEF ProgressOK, TargetInStream
<1> QED
  BY <1>1, <1>3, ForgetTypes
  DEF IInv, QueueOK, TablesOK, queueVars, Rows, WatermarkInQueue, WholeTransfers

(* The end of a recovery and a pause touch neither queue nor sessions.     *)
LEMMA FinishInvariant ==
    ASSUME IInv, FinishRecovery
    PROVE  IInv'
BY DEF FinishRecovery, IInv, QueueOK, TablesOK, ProgressOK, TargetInStream, queueVars,
    sessionVars, Rows, WatermarkInQueue, WholeTransfers

LEMMA PauseInvariant ==
    ASSUME IInv, NEW paused0 \in BOOLEAN, SetPause(paused0)
    PROVE  IInv'
BY DEF SetPause, IInv, QueueOK, TablesOK, ProgressOK, TargetInStream, queueVars, sessionVars,
    Rows, WatermarkInQueue, WholeTransfers

(* A receipt shortens the queue only.                                      *)
LEMMA ReceiptInvariant ==
    ASSUME IInv, NEW q \in Unconfirmed, Acknowledge(streamId, q, outbox[q])
    PROVE  IInv'
<1>1. QueueOK'
  BY AcknowledgeKeepsQueue DEF IInv
<1> QED
  BY <1>1 DEF Acknowledge, IInv, TablesOK, ProgressOK, TargetInStream, sessionVars

(* A call that changes nothing.                                            *)
LEMMA SameInvariant ==
    ASSUME IInv, UNCHANGED workerVars
    PROVE  IInv'
BY DEF IInv, QueueOK, TablesOK, ProgressOK, TargetInStream, Rows, WatermarkInQueue,
    WholeTransfers, workerVars, queueVars, sessionVars

(* Every step of the store keeps the invariant.                            *)
LEMMA StepInvariant == IInv /\ [WorkerNext]_workerVars => IInv'
<1> SUFFICES ASSUME IInv, [WorkerNext]_workerVars PROVE IInv'
  OBVIOUS
<1>0. QueueOK /\ TablesOK /\ TargetInStream
  BY DEF IInv
<1>1. CASE AnyBatch
  BY <1>1, BatchInvariant DEF AnyBatch
<1>2. CASE AnyReceipt
  BY <1>2, ReceiptInvariant DEF AnyReceipt
<1>3. CASE AnyRecovery
  BY <1>3, RecoveryInvariant, WorkerAssumption DEF AnyRecovery
<1>4. CASE FinishRecovery
  BY <1>4, FinishInvariant
<1>5. CASE AnyRescan
  <2>1. PICK id \in TaskIds, agents \in SUBSET Agents : BeginRescan(id, agents)
    BY <1>5 DEF AnyRescan
  <2>2. pauseSaved' \in BOOLEAN
    BY <1>0, <2>1 DEF BeginRescan, TablesOK
  <2> QED
    BY <2>1, <2>2, RescanInvariant DEF BeginRescan
<1>6. CASE AnyPause
  BY <1>6, PauseInvariant DEF AnyPause
<1>7. CASE AnyRebind
  <2>1. PICK e \in Epochs : Rebind(e)
    BY <1>7 DEF AnyRebind
  <2>2. /\ QueueOK' /\ streamId \in Nat /\ streamId + 1 \in Nat /\ e \in Nat
    BY <1>0, <2>1, ResetKeepsQueue, WorkerAssumption DEF Rebind, QueueOK
  <2> QED
    BY <1>0, <2>1, <2>2
    DEF Rebind, Recovery, IInv, TablesOK, ProgressOK, TargetInStream, sessionVars
<1>8. CASE AnyAdoption
  <2>1. PICK held \in SUBSET Sessions, state \in [Agents -> AdoptedStates] :
          AdoptLocalHistory(binding, held, state)
    BY <1>8 DEF AnyAdoption
  <2>2. sources' \in [Agents -> SourceStates]
    BY <2>1, AdoptedAssumption DEF AdoptLocalHistory
  <2> QED
    BY <1>0, <2>1, <2>2
    DEF AdoptLocalHistory, IInv, QueueOK, TablesOK, ProgressOK, TargetInStream, queueVars,
        Rows, WatermarkInQueue, WholeTransfers
<1>9. CASE UNCHANGED workerVars
  BY <1>9, SameInvariant
<1> QED
  BY <1>1, <1>2, <1>3, <1>4, <1>5, <1>6, <1>7, <1>8, <1>9 DEF WorkerNext

(* Epochs, task identities and agents are those the caller names.          *)
LEMMA NamesStep ==
    ASSUME NamesOK, ProgressOK, TablesOK', [WorkerNext]_workerVars
    PROVE  NamesOK'
<1>1. CASE AnyBatch
  <2>1. PICK a \in Agents : AgentComplete(a) \/ UNCHANGED rescan
    BY <1>1 DEF AnyBatch, SaveBatch
  <2>2. UNCHANGED <<recovery, binding>>
    BY <1>1 DEF AnyBatch, SaveBatch
  <2>3. CASE UNCHANGED rescan
    BY <2>2, <2>3 DEF NamesOK
  <2>4. CASE AgentComplete(a) /\ rescan # None /\ rescan' # rescan
    <3>1. rescan'.id = rescan.id /\ rescan'.pending = rescan.pending \ {a}
      BY <2>4 DEF AgentComplete, Progress
    <3> QED
      BY <2>2, <2>4, <3>1 DEF NamesOK
  <2> QED
    BY <2>1, <2>3, <2>4 DEF AgentComplete
<1>2. CASE AnyReceipt \/ AnyPause \/ AnyAdoption \/ FinishRecovery
  BY <1>2
  DEF AnyReceipt, Acknowledge, AnyPause, SetPause, AnyAdoption, AdoptLocalHistory,
      FinishRecovery, NamesOK
<1>3. CASE AnyRecovery
  <2>1. PICK e \in Epochs : PrepareRecovery(e)
    BY <1>3 DEF AnyRecovery
  <2>2. CASE recovery # None /\ recovery.epoch = e
    BY <2>1, <2>2 DEF PrepareRecovery, workerVars, NamesOK
  <2>3. CASE recovery = None \/ recovery.epoch # e
    BY <2>1, <2>3 DEF PrepareRecovery, Recovery, NamesOK
  <2> QED
    BY <2>2, <2>3
<1>4. CASE AnyRescan
  <2>1. PICK id \in TaskIds, agents \in SUBSET Agents : BeginRescan(id, agents)
    BY <1>4 DEF AnyRescan
  <2>2. rescan'.id = id /\ rescan'.pending = Scope(agents)
    BY <2>1 DEF BeginRescan, Progress
  <2>3. Scope(agents) \subseteq Agents
    BY WorkerAssumption DEF Scope
  <2> QED
    BY <2>1, <2>2, <2>3 DEF BeginRescan, NamesOK
<1>5. CASE AnyRebind
  BY <1>5 DEF AnyRebind, Rebind, Recovery, NamesOK
<1>6. CASE UNCHANGED workerVars
  BY <1>6 DEF workerVars, NamesOK
<1> QED
  BY <1>1, <1>2, <1>3, <1>4, <1>5, <1>6 DEF WorkerNext

----------------------------------------------------------------------------
(* The invariant holds in every reachable state of the store.              *)
THEOREM Invariant == WorkerSpec => []IInv
BY InitInvariant, StepInvariant, PTL DEF WorkerSpec

(* worker.db keeps its types.                                              *)
THEOREM TypeCorrect == WorkerSpec => []WorkerTypeOK
<1>1. WorkerInit(0) => NamesOK
  BY WorkerAssumption DEF WorkerInit, NamesOK
<1>2. NamesOK /\ IInv /\ IInv' /\ [WorkerNext]_workerVars => NamesOK'
  BY NamesStep DEF IInv, TablesOK
<1>3. IInv /\ NamesOK => WorkerTypeOK
  <2> SUFFICES ASSUME IInv, NamesOK PROVE WorkerTypeOK
    OBVIOUS
  <2>1. rescan \in RescanProgress \cup {None}
    BY DEF IInv, TablesOK, ProgressOK, NamesOK, RescanProgress, Progress
  <2> QED
    BY <2>1 DEF IInv, QueueOK, TablesOK, NamesOK, WorkerTypeOK
<1> QED
  BY <1>1, <1>2, <1>3, Invariant, PTL DEF WorkerSpec

(* acknowledge and reset_queue never strand a row below the watermark      *)
(* other than the chunks of a snapshot still being uploaded.               *)
THEOREM Watermark == WorkerSpec => []WatermarkInQueue
<1>1. IInv => WatermarkInQueue
  BY DEF IInv, QueueOK
<1> QED
  BY <1>1, Invariant, PTL

(* Whatever is acknowledged, renumbered or appended, stored snapshots stay *)
(* whole, so they can be replayed from their first chunk.                  *)
THEOREM Transfers_Whole == WorkerSpec => []WholeTransfers
<1>1. IInv => WholeTransfers
  BY DEF IInv, QueueOK
<1> QED
  BY <1>1, Invariant, PTL

(* A completion target is a position of the current stream.                *)
THEOREM Targets == WorkerSpec => []TargetInStream
<1>1. IInv => TargetInStream
  BY DEF IInv
<1> QED
  BY <1>1, Invariant, PTL
----------------------------------------------------------------------------
(* No step loses an unacknowledged operation.                              *)

Survives(q) ==
    \/ q - Shift \in Unconfirmed' /\ outbox'[q - Shift] = outbox[q]
    \/ streamId' = streamId /\ q = confirmedSequence + 1 /\ confirmedSequence' = q

(* Rows that are neither deleted nor renumbered.                           *)
LEMMA EnqueueSurvives ==
    ASSUME QueueOK, NEW n \in Nat, NEW ops, Enqueue(n, ops),
           UNCHANGED <<streamId, confirmedSequence, trimmed>>, NEW q \in Unconfirmed
    PROVE  Survives(q)
BY DEF QueueOK, Enqueue, Survives, Shift, Unconfirmed, WatermarkInQueue, Rows

(* A call that leaves the queue and its numbers alone drops nothing.       *)
LEMMA SameQueueSurvives ==
    ASSUME QueueOK, UNCHANGED <<streamId, confirmedSequence, lastSequence, outbox>>,
           NEW q \in Unconfirmed
    PROVE  Survives(q)
BY DEF QueueOK, Survives, Shift, Unconfirmed

(* Rows renumbered into a new stream.                                      *)
LEMMA ResetSurvives ==
    ASSUME QueueOK, ResetQueue(streamId + 1), NEW q \in Unconfirmed
    PROVE  Survives(q)
<1>1. streamId' # streamId /\ Shift = trimmed
  BY DEF QueueOK, ResetQueue, Shift
<1>2. /\ trimmed <= confirmedSequence /\ q \in Nat /\ trimmed \in Nat
      /\ confirmedSequence \in Nat /\ lastSequence \in Nat
      /\ q > confirmedSequence /\ q <= lastSequence
  BY DEF QueueOK, WatermarkInQueue, Unconfirmed
<1>3. q - trimmed \in 1 .. (lastSequence - trimmed) /\ trimmed + (q - trimmed) = q
  BY <1>2
<1>4. q - trimmed \in Unconfirmed' /\ outbox'[q - trimmed] = outbox[q]
  BY <1>2, <1>3 DEF ResetQueue, Unconfirmed
<1> QED
  BY <1>1, <1>4 DEF Survives

(* Every call of the store keeps what is not acknowledged.                 *)
LEMMA StepSurvives ==
    ASSUME IInv, WorkerNext, NEW q \in Unconfirmed
    PROVE  Survives(q)
<1>0. QueueOK
  BY DEF IInv
<1>1. CASE AnyBatch
  <2>0. PICK a \in Agents, n \in ChunkCounts, complete \in BOOLEAN :
          \E page \in Pages(a) \cup {None} : SaveBatch(a, page, n, complete)
    BY <1>1 DEF AnyBatch
  <2>1. PICK page \in Pages(a) \cup {None} : SaveBatch(a, page, n, complete)
    BY <2>0
  <2>2. UNCHANGED <<streamId, confirmedSequence, trimmed>>
    BY <2>1 DEF SaveBatch
  <2>3. CASE page = None
    BY <1>0, <2>1, <2>2, <2>3, SameQueueSurvives DEF SaveBatch
  <2>4. CASE page # None
    <3>1. SaveSession(page.session, page.capture, n)
      BY <2>1, <2>4 DEF SaveBatch
    <3>2. n + 1 \in Nat
      BY WorkerAssumption
    <3>3. CASE EnqueueSnapshot(page.session, page.capture, n)
      BY <1>0, <2>2, <3>2, <3>3, EnqueueSurvives DEF EnqueueSnapshot
    <3>4. CASE Enqueue(1, <<Metadata(page.session, page.capture.title)>>)
      BY <1>0, <2>2, <3>4, EnqueueSurvives
    <3>5. CASE UNCHANGED <<lastSequence, outbox>>
      BY <1>0, <2>2, <3>5, SameQueueSurvives
    <3> QED
      BY <3>1, <3>3, <3>4, <3>5 DEF SaveSession
  <2> QED
    BY <2>3, <2>4
<1>2. CASE AnyReceipt
  <2>1. PICK r \in Unconfirmed : Acknowledge(streamId, r, outbox[r])
    BY <1>2 DEF AnyReceipt
  <2>2. /\ confirmedSequence' = confirmedSequence + 1
        /\ UNCHANGED <<streamId, lastSequence>>
        /\ \/ UNCHANGED outbox
           \/ outbox' = [x \in (confirmedSequence + 2) .. lastSequence |-> outbox[x]]
    BY <1>0, <2>1 DEF Acknowledge, NextUpload, QueueOK
  <2> QED
    BY <1>0, <2>2 DEF QueueOK, Survives, Shift, Unconfirmed
<1>3. CASE AnyRecovery
  <2>1. PICK e \in Epochs : PrepareRecovery(e)
    BY <1>3 DEF AnyRecovery
  <2>2. CASE UNCHANGED workerVars
    BY <1>0, <2>2, SameQueueSurvives DEF workerVars, queueVars
  <2>3. CASE ResetQueue(streamId + 1)
    BY <1>0, <2>3, ResetSurvives
  <2> QED
    BY <2>1, <2>2, <2>3 DEF PrepareRecovery
<1>4. CASE FinishRecovery
  BY <1>0, <1>4, SameQueueSurvives DEF FinishRecovery, queueVars
<1>5. CASE AnyRescan
  BY <1>0, <1>5, SameQueueSurvives DEF AnyRescan, BeginRescan, queueVars
<1>6. CASE AnyPause
  BY <1>0, <1>6, SameQueueSurvives DEF AnyPause, SetPause, queueVars
<1>7. CASE AnyRebind
  BY <1>0, <1>7, ResetSurvives DEF AnyRebind, Rebind
<1>8. CASE AnyAdoption
  BY <1>0, <1>8, SameQueueSurvives DEF AnyAdoption, AdoptLocalHistory, queueVars
<1> QED
  BY <1>1, <1>2, <1>3, <1>4, <1>5, <1>6, <1>7, <1>8 DEF WorkerNext

(* An operation leaves the unconfirmed queue by being acknowledged, at its *)
(* turn, and in no other way: not by a scan, a rescan or a recovery.       *)
THEOREM QueueDurable == WorkerSpec => NothingDropped
<1>1. IInv /\ [WorkerNext]_workerVars =>
        [\A q \in Unconfirmed : Survives(q)]_workerVars
  BY StepSurvives
<1>2. WorkerSpec => [][\A q \in Unconfirmed : Survives(q)]_workerVars
  BY <1>1, Invariant, PTL DEF WorkerSpec
<1> QED
  BY <1>2 DEF NothingDropped, Survives
============================================================================
