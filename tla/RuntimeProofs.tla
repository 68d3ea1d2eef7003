---------------------------- MODULE RuntimeProofs ----------------------------
(***************************************************************************)
(* The runtime's permits, prices, lists and types, for any number of       *)
(* agents, sessions, edits, failures, new price tables and restarts.       *)
(***************************************************************************)
EXTENDS Runtime, FiniteSetTheorems, SequenceTheorems, TLAPS

Pcs == {"wait", "start", "begin", "head", "acquire", "scanning", "submit", "awaiting", "retake",
        "leave", "ended"}
LoopFields == {"pc", "paths", "taken", "check", "expected", "fetched", "complete"}
Scanning == {"scanning", "submit", "awaiting"}

(* A page is read ahead only from a publication to the end of the round or *)
(* the next page.                                                          *)
GoodLoop(l) ==
    /\ l = [field \in LoopFields |-> l[field]]
    /\ l.pc \in Pcs /\ l.fetched \in BOOLEAN
    /\ l.fetched => l.pc \in {"awaiting", "head", "leave"}
LoopsHold == loop = [a \in Agents |-> loop[a]] /\ \A a \in Agents : GoodLoop(loop[a])

(* The permits of a loop: one for the scan at hand, one for that ahead.    *)
Held(l) == (IF l.pc \in Scanning THEN 1 ELSE 0) + (IF l.fetched THEN 1 ELSE 0)

(* A step of one loop changes that loop only, and takes or returns the     *)
(* permits it is about.                                                    *)
Moves(a) ==
    /\ loop' = [loop EXCEPT ![a] = loop'[a]]
    /\ GoodLoop(loop'[a])
    /\ free' = free + Held(loop[a]) - Held(loop'[a])

LEMMA LoopsMove ==
    ASSUME NEW a \in Agents, LoopsHold, free \in Int, Round(a) \/ BeginFails(a)
    PROVE  Moves(a)
  <1> DEFINE l == loop[a]
  <1>0. loop = [b \in Agents |-> loop[b]] /\ GoodLoop(l)
    BY DEF LoopsHold
  <1>1. CASE Wake(a)
    <2>1. loop' = [loop EXCEPT ![a] = loop'[a]]
      BY <1>0, <1>1 DEF Wake, Goto, At
    <2>2. GoodLoop(loop'[a])
      BY <1>0, <1>1 DEF Wake, Goto, At, GoodLoop, LoopFields, Pcs
    <2>3. free' = free + Held(l) - Held(loop'[a])
      BY <1>0, <1>1 DEF Wake, Goto, At, GoodLoop, LoopFields, Held, Scanning, loopRest
    <2> QED
      BY <2>1, <2>2, <2>3 DEF Moves
  <1>2. CASE Leave(a)
    <2>1. loop' = [loop EXCEPT ![a] = loop'[a]]
      BY <1>0, <1>2 DEF Leave, Goto
    <2>2. GoodLoop(loop'[a])
      BY <1>0, <1>2 DEF Leave, Goto, GoodLoop, LoopFields, Pcs
    <2>3. free' = free + Held(l) - Held(loop'[a])
      BY <1>0, <1>2 DEF Leave, Goto, GoodLoop, LoopFields, Held, Scanning, loopRest
    <2> QED
      BY <2>1, <2>2, <2>3 DEF Moves
  <1>3. CASE Start(a)
    <2>1. loop' = [loop EXCEPT ![a] = loop'[a]]
      BY <1>0, <1>3 DEF Start, CopyPending, At
    <2>2. GoodLoop(loop'[a])
      BY <1>0, <1>3 DEF Start, CopyPending, At, GoodLoop, LoopFields, Pcs
    <2>3. free' = free + Held(l) - Held(loop'[a])
      BY <1>0, <1>3 DEF Start, CopyPending, At, GoodLoop, LoopFields, Held, Scanning, loopRest
    <2> QED
      BY <2>1, <2>2, <2>3 DEF Moves
  <1>4. CASE Begin(a)
    <2>1. loop' = [loop EXCEPT ![a] = loop'[a]]
      BY <1>0, <1>4 DEF Begin, At
    <2>2. GoodLoop(loop'[a])
      BY <1>0, <1>4 DEF Begin, At, GoodLoop, LoopFields, Pcs
    <2>3. free' = free + Held(l) - Held(loop'[a])
      BY <1>0, <1>4 DEF Begin, At, GoodLoop, LoopFields, Held, Scanning, loopRest
    <2> QED
      BY <2>1, <2>2, <2>3 DEF Moves
  <1>5. CASE BeginFails(a)
    <2>1. loop' = [loop EXCEPT ![a] = loop'[a]]
      BY <1>0, <1>5 DEF BeginFails, At
    <2>2. GoodLoop(loop'[a])
      BY <1>0, <1>5 DEF BeginFails, At, GoodLoop, LoopFields, Pcs
    <2>3. free' = free + Held(l) - Held(loop'[a])
      BY <1>0, <1>5 DEF BeginFails, At, GoodLoop, LoopFields, Held, Scanning, loopRest
    <2> QED
      BY <2>1, <2>2, <2>3 DEF Moves
  <1>6. CASE NextPage(a)
    <2>1. /\ l.pc = "head" /\ free' = free
          /\ \/ loop' = [loop EXCEPT ![a].pc = "leave"]
             \/ l.fetched /\ loop' = [loop EXCEPT ![a].pc = "scanning", ![a].fetched = FALSE]
             \/ ~l.fetched /\ loop' = [loop EXCEPT ![a].pc = "acquire"]
      BY <1>6 DEF NextPage, Goto, At, loopRest
    <2>2. CASE loop' = [loop EXCEPT ![a].pc = "leave"]
      BY <1>0, <2>1, <2>2 DEF Moves, GoodLoop, LoopFields, Pcs, Held, Scanning
    <2>3. CASE l.fetched /\ loop' = [loop EXCEPT ![a].pc = "scanning", ![a].fetched = FALSE]
      <3>1. loop'[a] = [l EXCEPT !.pc = "scanning", !.fetched = FALSE]
        BY <1>0, <2>3
      <3>2. /\ loop' = [loop EXCEPT ![a] = loop'[a]] /\ GoodLoop(loop'[a])
            /\ loop'[a].pc = "scanning" /\ loop'[a].fetched = FALSE
        BY <1>0, <2>3, <3>1 DEF GoodLoop, LoopFields, Pcs
      <3> QED
        BY <2>1, <2>3, <3>2 DEF Moves, Held, Scanning
    <2>4. CASE ~l.fetched /\ loop' = [loop EXCEPT ![a].pc = "acquire"]
      BY <1>0, <2>1, <2>4 DEF Moves, GoodLoop, LoopFields, Pcs, Held, Scanning
    <2> QED
      BY <2>1, <2>2, <2>3, <2>4
  <1>7. CASE Acquire(a)
    <2>1. loop' = [loop EXCEPT ![a] = loop'[a]]
      BY <1>0, <1>7 DEF Acquire, At
    <2>2. GoodLoop(loop'[a])
      BY <1>0, <1>7 DEF Acquire, At, GoodLoop, LoopFields, Pcs
    <2>4. l.pc = "acquire" /\ free' = free - 1
         /\ loop'[a].pc = "scanning" /\ loop'[a].fetched = l.fetched
      BY <1>0, <1>7 DEF Acquire, At, GoodLoop, LoopFields, loopRest
    <2>3. free' = free + Held(l) - Held(loop'[a])
      BY <1>0, <2>2, <2>4 DEF Held, Scanning, GoodLoop
    <2> QED
      BY <2>1, <2>2, <2>3 DEF Moves
  <1>8. CASE ScanLost(a)
    <2>1. loop' = [loop EXCEPT ![a] = loop'[a]]
      BY <1>0, <1>8 DEF ScanLost, Goto, At
    <2>2. GoodLoop(loop'[a])
      BY <1>0, <1>8 DEF ScanLost, Goto, At, GoodLoop, LoopFields, Pcs
    <2>3. free' = free + Held(l) - Held(loop'[a])
      BY <1>0, <1>8 DEF ScanLost, Goto, At, GoodLoop, LoopFields, Held, Scanning, loopRest
    <2> QED
      BY <2>1, <2>2, <2>3 DEF Moves
  <1>9. CASE ScanWon(a)
    <2>1. loop' = [loop EXCEPT ![a] = loop'[a]]
      BY <1>0, <1>9 DEF ScanWon, At
    <2>2. GoodLoop(loop'[a])
      BY <1>0, <1>9 DEF ScanWon, At, GoodLoop, LoopFields, Pcs
    <2>4. l.pc = "scanning" /\ free' = free
         /\ loop'[a].pc = "submit" /\ loop'[a].fetched = l.fetched
      BY <1>0, <1>9 DEF ScanWon, At, GoodLoop, LoopFields, loopRest
    <2>3. free' = free + Held(l) - Held(loop'[a])
      BY <1>0, <2>2, <2>4 DEF Held, Scanning, GoodLoop
    <2> QED
      BY <2>1, <2>2, <2>3 DEF Moves
  <1>10. CASE Submit(a)
    <2>1. loop' = [loop EXCEPT ![a] = loop'[a]]
      BY <1>0, <1>10 DEF Submit, At, ReadAhead
    <2>2. GoodLoop(loop'[a])
      BY <1>0, <1>10 DEF Submit, At, ReadAhead, GoodLoop, LoopFields, Pcs
    <2>4. l.pc = "submit" /\ ~l.fetched /\ loop'[a].pc = "awaiting"
         /\ (loop'[a].fetched <=> ReadAhead(a, scan[a].batch.complete))
         /\ free' = IF ReadAhead(a, scan[a].batch.complete) THEN free - 1 ELSE free
      BY <1>0, <1>10 DEF Submit, At, GoodLoop, LoopFields, loopRest
    <2>3. free' = free + Held(l) - Held(loop'[a])
      BY <1>0, <2>2, <2>4 DEF Held, Scanning, GoodLoop
    <2> QED
      BY <2>1, <2>2, <2>3 DEF Moves
  <1>11. CASE SubmitFails(a)
    <2>1. loop' = [loop EXCEPT ![a] = loop'[a]]
      BY <1>0, <1>11 DEF SubmitFails, Goto, At
    <2>2. GoodLoop(loop'[a])
      BY <1>0, <1>11 DEF SubmitFails, Goto, At, GoodLoop, LoopFields, Pcs
    <2>3. free' = free + Held(l) - Held(loop'[a])
      BY <1>0, <1>11 DEF SubmitFails, Goto, At, GoodLoop, LoopFields, Held, Scanning, loopRest
    <2> QED
      BY <2>1, <2>2, <2>3 DEF Moves
  <1>12. CASE PublishedLast(a)
    <2>1. loop' = [loop EXCEPT ![a] = loop'[a]]
      BY <1>0, <1>12 DEF PublishedLast, TakeReply, Goto, At
    <2>2. GoodLoop(loop'[a])
      BY <1>0, <1>12 DEF PublishedLast, TakeReply, Goto, At, GoodLoop, LoopFields, Pcs
    <2>3. free' = free + Held(l) - Held(loop'[a])
      BY <1>0, <1>12 DEF PublishedLast, TakeReply, Goto, At, GoodLoop, LoopFields, Held, Scanning, loopRest
    <2> QED
      BY <2>1, <2>2, <2>3 DEF Moves
  <1>13. CASE PublishedPage(a)
    <2>1. loop' = [loop EXCEPT ![a] = loop'[a]]
      BY <1>0, <1>13 DEF PublishedPage, TakeReply, CopyPending, Goto, At
    <2>2. GoodLoop(loop'[a])
      BY <1>0, <1>13 DEF PublishedPage, TakeReply, CopyPending, Goto, At, GoodLoop, LoopFields, Pcs
    <2>3. free' = free + Held(l) - Held(loop'[a])
      BY <1>0, <1>13 DEF PublishedPage, TakeReply, CopyPending, Goto, At, GoodLoop, LoopFields, Held, Scanning, loopRest
    <2> QED
      BY <2>1, <2>2, <2>3 DEF Moves
  <1>14. CASE Retake(a)
    <2>1. loop' = [loop EXCEPT ![a] = loop'[a]]
      BY <1>0, <1>14 DEF Retake, At
    <2>2. GoodLoop(loop'[a])
      BY <1>0, <1>14 DEF Retake, At, GoodLoop, LoopFields, Pcs
    <2>4. l.pc = "retake" /\ free' = free
         /\ loop'[a].pc = "head" /\ loop'[a].fetched = l.fetched
      BY <1>0, <1>14 DEF Retake, At, GoodLoop, LoopFields, loopRest
    <2>3. free' = free + Held(l) - Held(loop'[a])
      BY <1>0, <2>2, <2>4 DEF Held, Scanning, GoodLoop
    <2> QED
      BY <2>1, <2>2, <2>3 DEF Moves
  <1>15. CASE PublicationLost(a)
    <2>1. loop' = [loop EXCEPT ![a] = loop'[a]]
      BY <1>0, <1>15 DEF PublicationLost, TakeReply, Goto, At
    <2>2. GoodLoop(loop'[a])
      BY <1>0, <1>15 DEF PublicationLost, TakeReply, Goto, At, GoodLoop, LoopFields, Pcs
    <2>3. free' = free + Held(l) - Held(loop'[a])
      BY <1>0, <1>15 DEF PublicationLost, TakeReply, Goto, At, GoodLoop, LoopFields, Held, Scanning, loopRest
    <2> QED
      BY <2>1, <2>2, <2>3 DEF Moves
  <1>16. CASE EndRound(a)
    <2>1. loop' = [loop EXCEPT ![a] = loop'[a]]
      BY <1>0, <1>16 DEF EndRound, At
    <2>2. GoodLoop(loop'[a])
      BY <1>0, <1>16 DEF EndRound, At, GoodLoop, LoopFields, Pcs
    <2>4. l.pc = "leave" /\ loop'[a].pc = "wait" /\ ~loop'[a].fetched
         /\ free' = IF l.fetched THEN free + 1 ELSE free
      BY <1>0, <1>16 DEF EndRound, At, GoodLoop, LoopFields, loopRest
    <2>3. free' = free + Held(l) - Held(loop'[a])
      BY <1>0, <2>2, <2>4 DEF Held, Scanning, GoodLoop
    <2> QED
      BY <2>1, <2>2, <2>3 DEF Moves
  <1> QED
    BY <1>1, <1>2, <1>3, <1>4, <1>5, <1>6, <1>7, <1>8, <1>9, <1>10, <1>11, <1>12, <1>13, <1>14, <1>15, <1>16 DEF Round

(* Every other step but a restart leaves loops and permits alone.          *)
LEMMA LoopsStay ==
    ASSUME [RuntimeNext]_vars, ~Restart, \A a \in Agents : ~Round(a) /\ ~BeginFails(a)
    PROVE  UNCHANGED <<loop, free>>
  <1>1. CASE UNCHANGED vars
    BY <1>1 DEF vars, runtimeVars
  <1>2. ASSUME NEW s \in Sessions, Edit(s) \/ Delete(s) PROVE UNCHANGED <<loop, free>>
    BY <1>2 DEF Edit, Delete, Touch
  <1>3. ASSUME NEW a \in Agents, Vanish(a) \/ Watched(a) \/ Overflowed(a)
        PROVE  UNCHANGED <<loop, free>>
    BY <1>3 DEF Vanish, Watched, Overflowed, Notify
  <1>4. ASSUME NEW a \in Agents, Refresh(a) \/ RefreshFails(a) PROVE UNCHANGED <<loop, free>>
    BY <1>4 DEF Refresh, RefreshFails, runtimeVars
  <1>5. CASE Write
    BY <1>5 DEF Write, WriteStatus, Publish, PublishRefused, Refuse, Reprice, Stop
  <1>6. CASE PublishFails \/ CommittedThenFails \/ RepriceFails
    BY <1>6 DEF PublishFails, CommittedThenFails, RepriceFails, Refuse
  <1>7. CASE Pricing
    BY <1>7 DEF Pricing, CheckPrices, ApplyPrices, AskReprice, Cancel, Tell
  <1>8. CASE NewPrices \/ Shutdown \/ AskStop
    BY <1>8 DEF NewPrices, Shutdown, AskStop, runtimeVars
  <1> QED
    BY <1>1, <1>2, <1>3, <1>4, <1>5, <1>6, <1>7, <1>8 DEF RuntimeNext

Holding == {a \in Agents : loop[a].pc \in Scanning}
Ahead == {a \in Agents : loop[a].fetched}

(* A permit accounted for at one loop is counted once.                     *)
LEMMA CountOne ==
    ASSUME NEW A, NEW B, NEW a, IsFiniteSet(A), B = A \cup {a} \/ B = A \ {a}
    PROVE  /\ Cardinality(A) \in Int /\ Cardinality(B) \in Int
           /\ Cardinality(B) - Cardinality(A) =
                (IF a \in B THEN 1 ELSE 0) - (IF a \in A THEN 1 ELSE 0)
  <1>1. Cardinality(A) \in Nat
    BY FS_CardinalityType
  <1>2. /\ Cardinality(A \cup {a}) = IF a \in A THEN Cardinality(A) ELSE Cardinality(A) + 1
        /\ Cardinality(A \ {a}) = IF a \in A THEN Cardinality(A) - 1 ELSE Cardinality(A)
    BY FS_AddElement, FS_RemoveElement, Zenon
  <1>3. CASE B = A \cup {a}
    BY <1>1, <1>2, <1>3
  <1>4. CASE B = A \ {a}
    BY <1>1, <1>2, <1>4
  <1> QED
    BY <1>3, <1>4

PermitsInv == LoopsHold /\ free \in Int /\ PermitsAccounted

LEMMA PermitsStep ==
    PermitsInv /\ [RuntimeNext]_vars => PermitsInv'
  <1> SUFFICES ASSUME PermitsInv, [RuntimeNext]_vars PROVE PermitsInv'
    OBVIOUS
  <1>1. ASSUME NEW a \in Agents, Round(a) \/ BeginFails(a) PROVE PermitsInv'
    <2>1. Moves(a)
      BY <1>1, LoopsMove DEF PermitsInv
    <2>2. LoopsHold'
      BY <2>1 DEF PermitsInv, LoopsHold, Moves
    <2>3. /\ Holding' = Holding \cup {a} \/ Holding' = Holding \ {a}
          /\ Ahead' = Ahead \cup {a} \/ Ahead' = Ahead \ {a}
          /\ (a \in Holding <=> loop[a].pc \in Scanning)
          /\ (a \in Holding' <=> loop'[a].pc \in Scanning)
          /\ (a \in Ahead <=> loop[a].fetched) /\ (a \in Ahead' <=> loop'[a].fetched)
      BY <2>1 DEF Moves, Holding, Ahead, PermitsInv, LoopsHold
    <2>4. IsFiniteSet(Holding) /\ IsFiniteSet(Ahead)
      BY ScannerAssumption, FS_Subset DEF ScannerAssumption, Holding, Ahead
    <2>5. /\ Cardinality(Holding) \in Int /\ Cardinality(Holding') \in Int
          /\ Cardinality(Holding') - Cardinality(Holding) =
               (IF loop'[a].pc \in Scanning THEN 1 ELSE 0)
               - (IF loop[a].pc \in Scanning THEN 1 ELSE 0)
      BY <2>3, <2>4, CountOne
    <2>6. /\ Cardinality(Ahead) \in Int /\ Cardinality(Ahead') \in Int
          /\ Cardinality(Ahead') - Cardinality(Ahead) =
               (IF loop'[a].fetched THEN 1 ELSE 0) - (IF loop[a].fetched THEN 1 ELSE 0)
      BY <2>3, <2>4, CountOne
    <2>7. free = Concurrency - Cardinality(Holding) - Cardinality(Ahead)
      BY DEF PermitsInv, PermitsAccounted, Holding, Ahead, Scanning
    <2>8. free' = Concurrency - Cardinality(Holding') - Cardinality(Ahead') /\ free' \in Int
      BY <2>1, <2>5, <2>6, <2>7, RuntimeAssumption DEF Moves, Held, RuntimeAssumption, PermitsInv
    <2> QED
      BY <2>2, <2>8 DEF PermitsInv, PermitsAccounted, Holding, Ahead, Scanning
  <1>2. CASE Restart
    <2>1. loop' = [a \in Agents |-> NewLoop] /\ free' = Concurrency
      BY <1>2 DEF Restart
    <2>2. LoopsHold'
      BY <2>1 DEF LoopsHold, GoodLoop, NewLoop, LoopFields, Pcs
    <2>3. Holding' = {} /\ Ahead' = {}
      BY <2>1 DEF Holding, Ahead, NewLoop, Scanning
    <2>4. Cardinality(Holding') = 0 /\ Cardinality(Ahead') = 0
      BY <2>3, FS_EmptySet
    <2>5. free' = Concurrency - Cardinality(Holding') - Cardinality(Ahead') /\ free' \in Int
      BY <2>1, <2>4, RuntimeAssumption DEF RuntimeAssumption
    <2> QED
      BY <2>2, <2>5 DEF PermitsInv, PermitsAccounted, Holding, Ahead, Scanning
  <1>3. CASE ~Restart /\ \A a \in Agents : ~Round(a) /\ ~BeginFails(a)
    <2>1. UNCHANGED <<loop, free>>
      BY <1>3, LoopsStay
    <2> QED
      BY <2>1 DEF PermitsInv, LoopsHold, PermitsAccounted
  <1> QED
    BY <1>1, <1>2, <1>3

LEMMA PermitsInit ==
    ASSUME NEW initial \in [Sessions -> Nat], RuntimeInit(initial) PROVE PermitsInv
  <1>1. loop = [a \in Agents |-> NewLoop] /\ free = Concurrency
    BY DEF RuntimeInit, Booted
  <1>2. LoopsHold
    BY <1>1 DEF LoopsHold, GoodLoop, NewLoop, LoopFields, Pcs
  <1>3. Holding = {} /\ Ahead = {}
    BY <1>1 DEF Holding, Ahead, NewLoop, Scanning
  <1>4. Cardinality(Holding) = 0 /\ Cardinality(Ahead) = 0
    BY <1>3, FS_EmptySet
  <1>5. free = Concurrency - Cardinality(Holding) - Cardinality(Ahead) /\ free \in Int
    BY <1>1, <1>4, RuntimeAssumption DEF RuntimeAssumption
  <1> QED
    BY <1>2, <1>5 DEF PermitsInv, PermitsAccounted, Holding, Ahead, Scanning

(* However rounds end (lost, refused, cancelled, failed, restarted), each  *)
(* permit comes back: the ones that are out are held by a scan.            *)
THEOREM PermitsHold == RuntimeSpec => []PermitsAccounted
  <1>1. RuntimeInitially => PermitsInv
    BY PermitsInit DEF RuntimeInitially
  <1>2. PermitsInv => PermitsAccounted
    BY DEF PermitsInv
  <1> QED
    BY <1>1, <1>2, PermitsStep, PTL DEF RuntimeSpec

----------------------------------------------------------------------------
(* Prices.                                                                 *)

(* What the database holds of an agent has these fields, and each of its   *)
(* sessions a content and a cost.                                          *)
GoodRecord(a, record) ==
    /\ record = [field \in {"stored", "cost", "state", "check"} |-> record[field]]
    /\ record.stored = [s \in SessionsOf(a) |-> record.stored[s]]
    /\ record.cost = [s \in SessionsOf(a) |-> record.cost[s]]
CacheShape == cache = [a \in Agents |-> cache[a]] /\ \A a \in Agents : GoodRecord(a, cache[a])

PricedAt(a, record, p) == \A s \in SessionsOf(a) : record.stored[s] # 0 => record.cost[s] = p

PricesInv ==
    /\ price \in Nat /\ repriced \in Nat /\ CacheShape
    /\ repriced = price => \A a \in Agents : PricedAt(a, cache[a], price)

LEMMA AppliedRecord ==
    ASSUME NEW a, NEW record, NEW batch, NEW p, GoodRecord(a, record)
    PROVE  /\ GoodRecord(a, Applied(record, batch))
           /\ PricedAt(a, record, p) /\ batch.ticket = p =>
                PricedAt(a, Applied(record, batch), p)
  BY DEF GoodRecord, Applied, PricedAt

LEMMA PricedRecord ==
    ASSUME NEW a, NEW record, GoodRecord(a, record)
    PROVE  /\ GoodRecord(a, Priced(record)) /\ PricedAt(a, Priced(record), price)
           /\ Priced(record).stored = record.stored /\ Priced(record).state = record.state
           /\ Priced(record).check = record.check
  BY DEF GoodRecord, Priced, PricedAt

LEMMA CommittedRecord ==
    ASSUME NEW a \in Agents, NEW batch, PricesInv, batch.ticket = price
    PROVE  /\ GoodRecord(a, Committed(a, batch))
           /\ GoodRecord(a, Repriced(Committed(a, batch)))
           /\ repriced = price => /\ PricedAt(a, Committed(a, batch), price)
                                  /\ PricedAt(a, Repriced(Committed(a, batch)), price)
  <1> DEFINE kept == IF RetainHistory THEN [batch EXCEPT !.removed = {}] ELSE batch
  <1>1. kept.ticket = price
    OBVIOUS
  <1>2. GoodRecord(a, cache[a]) /\ (repriced = price => PricedAt(a, cache[a], price))
    BY DEF PricesInv, CacheShape
  <1>3. /\ GoodRecord(a, Applied(cache[a], kept))
        /\ repriced = price => PricedAt(a, Applied(cache[a], kept), price)
    BY <1>1, <1>2, AppliedRecord
  <1>4. Committed(a, batch) = Applied(cache[a], kept)
    BY DEF Committed
  <1> QED
    BY <1>3, <1>4, PricedRecord DEF Repriced

(* The records that a step writes keep the invariant if each of them does. *)
LEMMA OneRecord ==
    ASSUME PricesInv, NEW a, NEW record, cache' = [cache EXCEPT ![a] = record],
           UNCHANGED <<price, repriced>>,
           a \in Agents => GoodRecord(a, record) /\ (repriced = price => PricedAt(a, record, price))
    PROVE  PricesInv'
  BY DEF PricesInv, CacheShape

LEMMA PricesStep ==
    PricesInv /\ [RuntimeNext]_vars => PricesInv'
  <1> SUFFICES ASSUME PricesInv, [RuntimeNext]_vars PROVE PricesInv'
    OBVIOUS
  <1> DEFINE same == UNCHANGED <<price, repriced, cache>>
  <1>1. same => PricesInv'
    BY DEF PricesInv, CacheShape
  <1>2. CASE UNCHANGED vars
    BY <1>1, <1>2 DEF vars, runtimeVars, scannerVars
  <1>3. ASSUME NEW s \in Sessions, Edit(s) \/ Delete(s) PROVE PricesInv'
    BY <1>1, <1>3 DEF Edit, Delete, Touch
  <1>4. ASSUME NEW a \in Agents, Vanish(a) \/ Watched(a) \/ Overflowed(a) PROVE PricesInv'
    BY <1>1, <1>4 DEF Vanish, Watched, Overflowed, Notify, scannerVars
  <1>5. ASSUME NEW a \in Agents, Refresh(a) \/ RefreshFails(a) PROVE PricesInv'
    BY <1>1, <1>5 DEF Refresh, RefreshFails, runtimeVars, List, Read, NotStarted, ReadFails, GiveUp
  <1>6. ASSUME NEW a \in Agents, Round(a) \/ BeginFails(a) PROVE PricesInv'
    <2>1. CASE Wake(a) \/ Leave(a) \/ Start(a) \/ Begin(a) \/ BeginFails(a) \/ NextPage(a)
      BY <1>1, <2>1 DEF Wake, Leave, Start, Begin, BeginFails, NextPage, scannerVars, loopRest
    <2>2. CASE Acquire(a) \/ ScanLost(a) \/ ScanWon(a) \/ Submit(a) \/ SubmitFails(a)
      BY <1>1, <2>2 DEF Acquire, ScanLost, ScanWon, Submit, SubmitFails, scannerVars, loopRest
    <2>3. CASE PublishedLast(a) \/ PublishedPage(a) \/ Retake(a) \/ PublicationLost(a)
               \/ EndRound(a)
      BY <1>1, <2>3
      DEF PublishedLast, PublishedPage, Retake, PublicationLost, EndRound, scannerVars, loopRest
    <2> QED
      BY <1>6, <2>1, <2>2, <2>3 DEF Round
  <1>7. CASE WriteStatus \/ PublishRefused \/ PublishFails \/ Stop
    BY <1>1, <1>7 DEF WriteStatus, PublishRefused, PublishFails, Refuse, Stop, scannerVars
  <1>8. CASE Publish
    <2> DEFINE a == First.agent
               record == Repriced(Committed(a, First.batch))
    <2>1. /\ cache' = [cache EXCEPT ![a] = record] /\ UNCHANGED <<price, repriced>>
          /\ First.batch.ticket = price
      BY <1>8 DEF Publish, Acceptable
    <2>2. a \in Agents => GoodRecord(a, record) /\ (repriced = price => PricedAt(a, record, price))
      BY <2>1, CommittedRecord
    <2> QED
      BY <2>1, <2>2, OneRecord
  <1>9. CASE CommittedThenFails
    <2> DEFINE a == First.agent
               record == Committed(a, First.batch)
    <2>1. /\ \/ cache' = [cache EXCEPT ![a] = record]
             \/ cache' = [cache EXCEPT ![a] = Repriced(record)]
          /\ UNCHANGED <<price, repriced>> /\ First.batch.ticket = price
      BY <1>9 DEF CommittedThenFails, Acceptable
    <2>2. a \in Agents =>
            /\ GoodRecord(a, record) /\ (repriced = price => PricedAt(a, record, price))
            /\ GoodRecord(a, Repriced(record))
            /\ repriced = price => PricedAt(a, Repriced(record), price)
      BY <2>1, CommittedRecord
    <2> QED
      BY <2>1, <2>2, OneRecord
  <1>10. CASE Reprice
    <2>1. /\ cache' = [a \in Agents |-> Priced(cache[a])]
          /\ price' = price /\ repriced' = price
      BY <1>10 DEF Reprice
    <2>2. \A a \in Agents : GoodRecord(a, Priced(cache[a])) /\ PricedAt(a, Priced(cache[a]), price)
      BY PricedRecord DEF PricesInv, CacheShape
    <2> QED
      BY <2>1, <2>2 DEF PricesInv, CacheShape
  <1>11. CASE RepriceFails
    <2>1. PICK done \in SUBSET Agents :
            cache' = [a \in Agents |-> IF a \in done THEN Priced(cache[a]) ELSE cache[a]]
      BY <1>11 DEF RepriceFails
    <2>2. UNCHANGED <<price, repriced>>
      BY <1>11 DEF RepriceFails
    <2>3. \A a \in Agents : GoodRecord(a, Priced(cache[a])) /\ PricedAt(a, Priced(cache[a]), price)
      BY PricedRecord DEF PricesInv, CacheShape
    <2> QED
      BY <2>1, <2>2, <2>3 DEF PricesInv, CacheShape
  <1>12. CASE NewPrices
    BY <1>12 DEF NewPrices, PricesInv, CacheShape
  <1>13. CASE Pricing
    BY <1>1, <1>13 DEF Pricing, CheckPrices, ApplyPrices, AskReprice, Cancel, Tell, scannerVars
  <1>14. CASE Shutdown \/ AskStop \/ Restart
    BY <1>1, <1>14 DEF Shutdown, AskStop, Restart, runtimeVars, scannerVars
  <1> QED
    BY <1>2, <1>3, <1>4, <1>5, <1>6, <1>7, <1>8, <1>9, <1>10, <1>11, <1>12, <1>13, <1>14
    DEF RuntimeNext, Write

LEMMA PricesInit ==
    ASSUME NEW initial \in [Sessions -> Nat], RuntimeInit(initial) PROVE PricesInv
  <1>1. price = 1 /\ repriced = 0 /\ cache = [a \in Agents |-> NoCache(a)]
    BY DEF RuntimeInit
  <1>2. \A a \in Agents : GoodRecord(a, NoCache(a))
    BY DEF GoodRecord, NoCache
  <1> QED
    BY <1>1, <1>2 DEF PricesInv, CacheShape

(* A price table marked as applied is the one that every stored session is *)
(* priced with, whatever batches, failures and newer tables come between.  *)
THEOREM PricesHold == RuntimeSpec => []PricesApplied
  <1>1. RuntimeInitially => PricesInv
    BY PricesInit DEF RuntimeInitially
  <1>2. PricesInv => PricesApplied
    BY DEF PricesInv, PricesApplied, PricedAt, Stored
  <1> QED
    BY <1>1, <1>2, PricesStep, PTL DEF RuntimeSpec

----------------------------------------------------------------------------
(* The lists of the backfill.                                              *)

StatusFields == {"phases", "active", "pending", "completed", "failed", "current"}
ListsHold == status = [field \in StatusFields |-> status[field]] /\ BackfillDisjoint

LEMMA ListsStep ==
    ListsHold /\ [RuntimeNext]_vars => ListsHold'
  <1> SUFFICES ASSUME ListsHold, [RuntimeNext]_vars PROVE ListsHold'
    OBVIOUS
  <1>1. UNCHANGED status => ListsHold'
    BY DEF ListsHold, BackfillDisjoint
  <1>2. CASE UNCHANGED vars
    BY <1>1, <1>2 DEF vars, runtimeVars
  <1>3. ASSUME NEW s \in Sessions, Edit(s) \/ Delete(s) PROVE ListsHold'
    BY <1>1, <1>3 DEF Edit, Delete, Touch
  <1>4. ASSUME NEW a \in Agents, Vanish(a) \/ Watched(a) \/ Overflowed(a) PROVE ListsHold'
    BY <1>1, <1>4 DEF Vanish, Watched, Overflowed, Notify
  <1>5. ASSUME NEW a \in Agents, Refresh(a) \/ RefreshFails(a) PROVE ListsHold'
    BY <1>1, <1>5 DEF Refresh, RefreshFails, runtimeVars
  <1>6. ASSUME NEW a \in Agents, Round(a) \/ BeginFails(a) PROVE ListsHold'
    <2>1. CASE Wake(a) \/ Leave(a) \/ Start(a) \/ Begin(a) \/ BeginFails(a) \/ NextPage(a)
      BY <1>1, <2>1 DEF Wake, Leave, Start, Begin, BeginFails, NextPage, loopRest
    <2>2. CASE Acquire(a) \/ ScanLost(a) \/ ScanWon(a) \/ Submit(a) \/ SubmitFails(a)
      BY <1>1, <2>2 DEF Acquire, ScanLost, ScanWon, Submit, SubmitFails, loopRest
    <2>3. CASE PublishedLast(a) \/ PublishedPage(a) \/ Retake(a) \/ PublicationLost(a)
               \/ EndRound(a)
      BY <1>1, <2>3
      DEF PublishedLast, PublishedPage, Retake, PublicationLost, EndRound, loopRest
    <2> QED
      BY <1>6, <2>1, <2>2, <2>3 DEF Round
  <1>7. CASE WriteStatus
    <2>1. status' = Reported(status, First.agent, First.phase)
      BY <1>7 DEF WriteStatus
    <2> QED
      BY <2>1 DEF Reported, ListsHold, BackfillDisjoint, StatusFields
  <1>8. CASE Publish
    <2>1. status' = Backfilled(status, First.agent, First.batch.complete)
      BY <1>8 DEF Publish
    <2>2. CASE First.batch.complete
      BY <2>1, <2>2 DEF Backfilled, ListsHold, BackfillDisjoint, StatusFields
    <2>3. CASE ~First.batch.complete
      BY <2>1, <2>3 DEF Backfilled, ListsHold, BackfillDisjoint, StatusFields
    <2> QED
      BY <2>2, <2>3
  <1>9. CASE PublishRefused \/ PublishFails \/ CommittedThenFails \/ Reprice \/ RepriceFails \/ Stop
    BY <1>1, <1>9
    DEF PublishRefused, PublishFails, Refuse, CommittedThenFails, Reprice, RepriceFails, Stop
  <1>10. CASE NewPrices \/ Pricing \/ Shutdown \/ AskStop
    BY <1>1, <1>10
    DEF NewPrices, Pricing, CheckPrices, ApplyPrices, AskReprice, Cancel, Tell, Shutdown, AskStop,
        runtimeVars
  <1>11. CASE Restart
    BY <1>11 DEF Restart, NewStatus, ListsHold, BackfillDisjoint, StatusFields
  <1> QED
    BY <1>2, <1>3, <1>4, <1>5, <1>6, <1>7, <1>8, <1>9, <1>10, <1>11 DEF RuntimeNext, Write

(* The lists of the backfill name an agent at most once, in whatever order *)
(* failures and pages of it are told.                                      *)
THEOREM ListsStayDisjoint == RuntimeSpec => []BackfillDisjoint
  <1>1. RuntimeInitially => ListsHold
    BY DEF RuntimeInitially, RuntimeInit, Booted, NewStatus, ListsHold, BackfillDisjoint,
           StatusFields
  <1>2. ListsHold => BackfillDisjoint
    BY DEF ListsHold
  <1> QED
    BY <1>1, <1>2, ListsStep, PTL DEF RuntimeSpec

----------------------------------------------------------------------------
(* Types and limits: what the scanners, their plans and batches, the       *)
(* database and the writer's queue may hold, whatever fails or restarts.   *)

(* The order of an inventory.                                              *)

(* Where no two members are of one age, each place in the order is taken.  *)
LEMMA Ranked ==
    ASSUME NEW list, NEW members, IsFiniteSet(members), \A s \in members : list[s] \in Int,
           \A s, t \in members : list[s] = list[t] => s = t,
           NEW i \in 1 .. Cardinality(members)
    PROVE  \E s \in members : Cardinality(Newer(list, members, s)) = i - 1
  <1> DEFINE n == Cardinality(members)
             places == 0 .. n - 1
             rank == [s \in members |-> Cardinality(Newer(list, members, s))]
  <1>1. n \in Nat /\ IsFiniteSet(places) /\ Cardinality(places) = n
    <2>1. n \in Nat
      BY FS_CardinalityType
    <2>2. ASSUME NEW k \in Nat
          PROVE  IsFiniteSet(0 .. k - 1) /\ Cardinality(0 .. k - 1) = k
      <3>1. 0 \in Int /\ k - 1 \in Int
        OBVIOUS
      <3>2. /\ IsFiniteSet(0 .. k - 1)
            /\ Cardinality(0 .. k - 1) = IF 0 > k - 1 THEN 0 ELSE (k - 1) - 0 + 1
        BY ONLY <3>1, FS_Interval
      <3> QED
        BY <3>2
    <2> QED
      BY <2>1, <2>2
  <1>2. ASSUME NEW s \in members
        PROVE  /\ IsFiniteSet(Newer(list, members, s))
               /\ Cardinality(Newer(list, members, s)) \in places
    <2>1. Newer(list, members, s) \subseteq members \ {s}
      BY DEF Newer
    <2>2. IsFiniteSet(members \ {s}) /\ Cardinality(members \ {s}) = n - 1
      BY FS_RemoveElement
    <2>3. /\ IsFiniteSet(Newer(list, members, s))
          /\ Cardinality(Newer(list, members, s)) <= n - 1
      BY <2>1, <2>2, FS_Subset
    <2> QED
      BY <1>1, <2>3, FS_CardinalityType
  <1>3. ASSUME NEW s \in members, NEW t \in members, list[s] < list[t]
        PROVE  Cardinality(Newer(list, members, t)) < Cardinality(Newer(list, members, s))
    <2>1. t \in Newer(list, members, s)
      BY <1>3 DEF Newer
    <2>2. Newer(list, members, t) \subseteq Newer(list, members, s) \ {t}
      BY <1>3 DEF Newer
    <2>3. /\ IsFiniteSet(Newer(list, members, s) \ {t})
          /\ Cardinality(Newer(list, members, s) \ {t}) = Cardinality(Newer(list, members, s)) - 1
      BY <1>2, <2>1, FS_RemoveElement
    <2>4. Cardinality(Newer(list, members, t)) <= Cardinality(Newer(list, members, s)) - 1
      BY <2>2, <2>3, FS_Subset
    <2> QED
      BY <1>1, <1>2, <2>4
  <1>4. rank \in Injection(members, places)
    <2>1. rank \in [members -> places]
      BY <1>2
    <2>2. ASSUME NEW s \in members, NEW t \in members, rank[s] = rank[t] PROVE s = t
      <3>1. ~(list[s] < list[t]) /\ ~(list[t] < list[s])
        BY <1>1, <1>2, <1>3, <2>2
      <3> QED
        BY <3>1
    <2> QED
      BY <2>1, <2>2 DEF Injection, IsInjective
  <1>5. rank \in Surjection(members, places)
    BY <1>1, <1>4, FS_Injection
  <1>6. i - 1 \in places
    BY <1>1
  <1> QED
    BY <1>5, <1>6 DEF Surjection

(* The items of an ordered inventory are its members, newest first.        *)
LEMMA OrderedItems ==
    ASSUME NEW list, NEW members, IsFiniteSet(members), \A s \in members : list[s] \in Int,
           \A s, t \in members : list[s] = list[t] => s = t
    PROVE  /\ Len(Ordered(list, members)) = Cardinality(members)
           /\ Ordered(list, members) \in
                Seq([session : members, stamp : {list[s] : s \in members}])
           /\ \A i \in 1 .. Cardinality(members) :
                LET item == Ordered(list, members)[i]
                IN  /\ item.session \in members /\ item.stamp = list[item.session]
                    /\ Cardinality(Newer(list, members, item.session)) = i - 1
  <1> DEFINE n == Cardinality(members)
             nth(i) == CHOOSE s \in members : Cardinality(Newer(list, members, s)) = i - 1
             item(i) == [session |-> nth(i), stamp |-> list[nth(i)]]
             Items == [session : members, stamp : {list[s] : s \in members}]
  <1>1. n \in Nat
    BY FS_CardinalityType
  <1>2. ASSUME NEW i \in 1 .. n
        PROVE  nth(i) \in members /\ Cardinality(Newer(list, members, nth(i))) = i - 1
    <2>1. \E s \in members : Cardinality(Newer(list, members, s)) = i - 1
      BY Ranked
    <2> QED
      BY <2>1
  <1>3. Ordered(list, members) = [i \in 1 .. n |-> item(i)]
    BY DEF Ordered
  <1>4. \A i \in 1 .. n : item(i) \in Items
    BY <1>2
  <1>5. Ordered(list, members) \in Seq(Items) /\ Len(Ordered(list, members)) = n
    <2> HIDE DEF item, Items
    <2>1. Ordered(list, members) \in [1 .. n -> Items]
      BY <1>3, <1>4
    <2> QED
      BY <1>1, <2>1, SeqDef, LenProperties
  <1>6. ASSUME NEW i \in 1 .. n
        PROVE  /\ Ordered(list, members)[i].session = nth(i)
               /\ Ordered(list, members)[i].stamp = list[nth(i)]
    BY <1>3
  <1> QED
    <2> HIDE DEF nth, n
    <2> QED
      BY <1>2, <1>5, <1>6 DEF n

(* Max of a finite set of numbers is one of them, and none is greater.     *)
LEMMA MaxIsGreatest ==
    ASSUME NEW S \in SUBSET Int, IsFiniteSet(S), S # {}
    PROVE  Max(S) \in S /\ \A x \in S : x <= Max(S)
  <1> DEFINE self == [x \in S |-> x]
  <1>1. Cardinality(S) \in Nat /\ Cardinality(S) # 0
    BY FS_CardinalityType, FS_EmptySet
  <1>2. \E s \in S : Cardinality(Newer(self, S, s)) = 0
    <2>1. 1 \in 1 .. Cardinality(S)
      BY <1>1
    <2>2. (\A s \in S : self[s] \in Int) /\ \A s, t \in S : self[s] = self[t] => s = t
      OBVIOUS
    <2>3. \E s \in S : Cardinality(Newer(self, S, s)) = 1 - 1
      BY <2>1, <2>2, Ranked
    <2>4. 1 - 1 = 0
      OBVIOUS
    <2> QED
      BY ONLY <2>3, <2>4
  <1>3. PICK s \in S : Cardinality(Newer(self, S, s)) = 0
    BY <1>2
  <1>4. Newer(self, S, s) = {}
    <2>1. Newer(self, S, s) \subseteq S
      BY DEF Newer
    <2> QED
      BY <1>3, <2>1, FS_Subset, FS_EmptySet
  <1>5. ASSUME NEW x \in S PROVE s >= x
    <2>1. ~(self[x] > self[s])
      BY <1>4 DEF Newer
    <2>2. self[x] = x /\ self[s] = s /\ x \in Int /\ s \in Int
      OBVIOUS
    <2> QED
      BY <2>1, <2>2
  <1> QED
    BY <1>5 DEF Max

----------------------------------------------------------------------------
(* What each piece of state may hold.                                      *)

Stamps(a) == [SessionsOf(a) -> 0 .. clock]
Items(a) == Seq([session : SessionsOf(a), stamp : 0 .. clock])
DifferInAge(list) == \A s, t \in DOMAIN list : list[s] = list[t] /\ list[s] # 0 => s = t

(* No two files are of one version, so that an inventory has an order.     *)
SourcesOK ==
    /\ clock \in Nat /\ files \in [Sessions -> 0 .. clock] /\ Aged(files)
    /\ root \in [Agents -> BOOLEAN]

(* A checkpoint, a plan, what is known of a source, and a batch.           *)
CheckOK(check) == check # None => check.offset \in Nat
PlanFields == {"signature", "items", "offset", "epoch", "price", "dirty", "refreshed"}
PlanOK(a, plan) ==
    /\ plan = [field \in PlanFields |-> plan[field]]
    /\ plan.items \in Items(a) /\ plan.offset \in 0 .. Len(plan.items)
StateOK(a, state) == state # None => state.known \in Stamps(a)
BatchOK(a, batch) ==
    /\ \A s \in SessionsOf(a) : s \in DOMAIN batch.read => batch.read[s] \in 0 .. clock
    /\ CheckOK(batch.check) /\ StateOK(a, batch.state)

MemoryFields == {"ready", "history", "base", "durable", "known", "plan", "rejected", "price"}
MemoryOK(a, m) ==
    /\ m = [field \in MemoryFields |-> m[field]]
    /\ m.base \subseteq m.durable /\ m.durable \subseteq SessionsOf(a)
    /\ m.known \in Stamps(a)
    /\ m.plan # None => PlanOK(a, m.plan)
MemoriesOK == memory = [a \in Agents |-> memory[a]] /\ \A a \in Agents : MemoryOK(a, memory[a])

(* A scan that has listed its source has what its second half needs.       *)
ScanFields == {"stage", "mode", "paged", "list", "ticket", "batch", "paths", "check", "expected"}
Ready(a, sc, m) ==
    /\ sc.mode \in {"page", "dirty", "live", "keep"}
    /\ sc.mode \in {"page", "dirty"} => PlanOK(a, m.plan)
    /\ sc.mode \in {"dirty", "live"} => sc.list \in Stamps(a) /\ DifferInAge(sc.list)
ScanOK(a, sc, m) ==
    sc # None =>
      /\ sc = [field \in ScanFields |-> sc[field]]
      /\ CheckOK(sc.check)
      /\ sc.stage = "listed" => Ready(a, sc, m)
      /\ sc.stage = "done" /\ sc.batch # None => BatchOK(a, sc.batch)
ScansOK ==
    scan = [a \in Agents |-> scan[a]] /\ \A a \in Agents : ScanOK(a, scan[a], memory[a])

RecordOK(a, record) ==
    /\ GoodRecord(a, record) /\ record.stored \in Stamps(a)
    /\ StateOK(a, record.state) /\ CheckOK(record.check)
RecordsOK == cache = [a \in Agents |-> cache[a]] /\ \A a \in Agents : RecordOK(a, cache[a])

(* A batch is submitted that has been read.                                *)
LoopOK(l, a, sc) ==
    /\ CheckOK(l.check)
    /\ l.pc = "submit" => sc # None /\ sc.stage = "done" /\ BatchOK(a, sc.batch)
LoopsOK == \A a \in Agents : LoopOK(loop[a], a, scan[a])

NewsFields == {"revision", "paths"}
NewsOK ==
    /\ pending = [a \in Agents |-> pending[a]]
    /\ unseen \in [Agents -> SUBSET Sessions]
    /\ \A a \in Agents :
         /\ pending[a] = [field \in NewsFields |-> pending[a][field]]
         /\ pending[a].paths # None => pending[a].paths \subseteq SessionsOf(a)
         /\ unseen[a] \subseteq SessionsOf(a)

(* The writer's queue holds at most what its channel can, and batches that *)
(* can be applied.                                                         *)
CommandOK(command) ==
    command.kind = "publish" => command.agent \in Agents /\ BatchOK(command.agent, command.batch)
QueueOK ==
    /\ queue \in Seq({queue[i] : i \in DOMAIN queue}) /\ Len(queue) <= QueueLimit
    /\ \A i \in DOMAIN queue : CommandOK(queue[i])

TypesInv ==
    SourcesOK /\ MemoriesOK /\ ScansOK /\ RecordsOK /\ LoopsOK /\ NewsOK /\ QueueOK

----------------------------------------------------------------------------
(* The scanner.                                                            *)

LEMMA OwnSessions ==
    ASSUME NEW a \in Agents
    PROVE  /\ SessionsOf(a) \subseteq Sessions /\ IsFiniteSet(SessionsOf(a))
           /\ SourcesOK => Listing(a) \in Stamps(a) /\ DifferInAge(Listing(a))
  <1>1. SessionsOf(a) \subseteq Sessions
    BY DEF SessionsOf
  <1>2. IsFiniteSet(SessionsOf(a))
    BY <1>1, ScannerAssumption, FS_Subset DEF ScannerAssumption
  <1>3. ASSUME SourcesOK PROVE Listing(a) \in Stamps(a) /\ DifferInAge(Listing(a))
    BY <1>1, <1>3 DEF SourcesOK, Listing, Stamps, DifferInAge, Aged
  <1> QED
    BY <1>1, <1>2, <1>3

(* What is listed of an agent makes items of it.                           *)
LEMMA ListedItems ==
    ASSUME NEW a \in Agents, clock \in Nat, NEW list \in Stamps(a), DifferInAge(list),
           NEW members \in SUBSET Present(list)
    PROVE  Ordered(list, members) \in Items(a) /\ Len(Ordered(list, members)) \in Nat
  <1>1. members \subseteq SessionsOf(a) /\ IsFiniteSet(members)
    <2>1. members \subseteq SessionsOf(a)
      BY DEF Present, Stamps
    <2> QED
      BY <2>1, OwnSessions, FS_Subset
  <1>2. /\ \A s \in members : list[s] \in 0 .. clock /\ list[s] \in Int
        /\ \A s, t \in members : list[s] = list[t] => s = t
    BY <1>1 DEF Present, Stamps, DifferInAge
  <1> DEFINE here == [session : members, stamp : {list[s] : s \in members}]
             all == [session : SessionsOf(a), stamp : 0 .. clock]
  <1>3. Ordered(list, members) \in Seq(here)
    BY <1>1, <1>2, OrderedItems
  <1>4. here \subseteq all
    BY <1>1, <1>2
  <1>5. Ordered(list, members) \in Seq(all)
    <2> HIDE DEF here, all
    <2> QED
      BY <1>3, <1>4, SeqMonotonic
  <1>6. Len(Ordered(list, members)) \in Nat
    <2> HIDE DEF all
    <2> QED
      BY <1>5, LenProperties
  <1> QED
    BY <1>5, <1>6 DEF Items

LEMMA NewPlanOK ==
    ASSUME NEW a \in Agents, clock \in Nat, NEW list \in Stamps(a), DifferInAge(list),
           NEW check, CheckOK(check)
    PROVE  PlanOK(a, NewPlan(list, check))
  <1> DEFINE items == Ordered(list, Present(list))
             resume == Resumable(list, check)
             offset == IF resume THEN Min({check.offset, Len(items)}) ELSE 0
  <1>1. items \in Items(a) /\ Len(items) \in Nat
    BY ListedItems
  <1>2. offset \in 0 .. Len(items)
    <2>1. CASE resume
      <3>1. check.offset \in Nat
        BY <2>1 DEF CheckOK, Resumable
      <3>2. ASSUME NEW m \in Nat, NEW n \in Nat PROVE Min({m, n}) \in 0 .. n
        <4>1. Min({m, n}) = IF m <= n THEN m ELSE n
          BY DEF Min
        <4> QED
          BY <4>1
      <3> QED
        BY <1>1, <2>1, <3>1, <3>2
    <2>2. CASE ~resume
      BY <1>1, <2>2
    <2> QED
      BY <2>1, <2>2
  <1> DEFINE epoch == CASE check = None -> 0 [] resume -> check.epoch [] OTHER -> check.epoch + 1
             dirty == IF resume THEN check.dirty ELSE {}
             refreshed == resume /\ check.refreshed
             plan == [signature |-> list, items |-> items, offset |-> offset, epoch |-> epoch,
                      price |-> price, dirty |-> dirty, refreshed |-> refreshed]
  <1>4. NewPlan(list, check) = plan
    BY Zenon DEF NewPlan
  <1> HIDE DEF items, offset, epoch, dirty, refreshed
  <1>3. /\ NewPlan(list, check).items = items /\ NewPlan(list, check).offset = offset
        /\ NewPlan(list, check) = [field \in PlanFields |-> NewPlan(list, check)[field]]
    BY <1>4 DEF PlanFields
  <1> QED
    BY <1>1, <1>2, <1>3 DEF PlanOK

LEMMA OpenedOK ==
    ASSUME NEW a \in Agents, clock \in Nat, NEW list \in Stamps(a), DifferInAge(list),
           NEW check, CheckOK(check), NEW m, MemoryOK(a, m)
    PROVE  /\ MemoryOK(a, Opened(m, list, check))
           /\ PlanOK(a, Opened(m, list, check).plan)
  <1>1. CASE m.plan # None
    BY <1>1 DEF Opened, MemoryOK
  <1>2. CASE m.plan = None
    <2> DEFINE n == [m EXCEPT !.known = [s \in DOMAIN list |-> IF list[s] = 0 THEN 0 ELSE @[s]],
                              !.plan = NewPlan(list, check)]
    <2>1. Opened(m, list, check) = n
      BY <1>2 DEF Opened
    <2>2. PlanOK(a, NewPlan(list, check))
      BY NewPlanOK
    <2>3. /\ n = [field \in MemoryFields |-> n[field]]
          /\ n.base = m.base /\ n.durable = m.durable /\ n.plan = NewPlan(list, check)
          /\ n.known = [s \in DOMAIN list |-> IF list[s] = 0 THEN 0 ELSE m.known[s]]
      BY DEF MemoryOK, MemoryFields
    <2> HIDE DEF n
    <2>4. n.known \in Stamps(a)
      BY <2>3 DEF Stamps, MemoryOK
    <2>5. Opened(m, list, check) = n /\ n.plan = NewPlan(list, check)
      BY <2>1, <2>3 DEF n
    <2> QED
      BY <2>2, <2>3, <2>4, <2>5 DEF MemoryOK
  <1> QED
    BY <1>1, <1>2

LEMMA HintedOK ==
    ASSUME NEW a, NEW m, NEW paths, MemoryOK(a, m), PlanOK(a, m.plan)
    PROVE  MemoryOK(a, Hinted(m, paths)) /\ PlanOK(a, Hinted(m, paths).plan)
  <1> DEFINE dirty == [m.plan EXCEPT !.dirty = @ \cup paths]
             n == [m EXCEPT !.plan = dirty]
  <1>1. PlanOK(a, dirty)
    BY DEF PlanOK, PlanFields
  <1>2. MemoryOK(a, n) /\ n.plan = dirty
    <2> HIDE DEF dirty
    <2> QED
      BY <1>1 DEF MemoryOK, MemoryFields
  <1>3. Hinted(m, paths) = IF paths = None THEN m ELSE n
    BY DEF Hinted
  <1> QED
    BY <1>1, <1>2, <1>3

LEMMA PreparedOK ==
    ASSUME clock \in Nat, MemoriesOK, RecordsOK, NEW a \in Agents, NEW repriced_ \in BOOLEAN
    PROVE  MemoryOK(a, Prepared(a, repriced_))
  <1> DEFINE m == Forgotten(memory[a])
             lost == repriced_ \/ ~m.ready \/ (m.base = {} /\ m.durable # {})
             n == IF lost THEN Restored(a, m) ELSE m
  <1>1. MemoryOK(a, memory[a]) /\ RecordOK(a, cache[a])
    BY DEF MemoriesOK, RecordsOK
  <1>2. MemoryOK(a, m)
    BY <1>1 DEF Forgotten, MemoryOK, MemoryFields
  <1>3. MemoryOK(a, Restored(a, m))
    <2> DEFINE r == Restored(a, m)
               state == cache[a].state
    <2> HIDE DEF m
    <2>1. /\ r = [field \in MemoryFields |-> r[field]]
          /\ r.base = Stored(a) /\ r.durable = Stored(a) /\ r.plan = m.plan
          /\ r.known = IF state = None THEN [s \in SessionsOf(a) |-> 0] ELSE state.known
      BY <1>2 DEF Restored, MemoryOK, MemoryFields
    <2>2. r.known \in Stamps(a)
      BY <1>1, <2>1 DEF RecordOK, StateOK, Stamps
    <2>3. Stored(a) \subseteq SessionsOf(a)
      BY DEF Stored
    <2>4. MemoryOK(a, r)
      <3> HIDE DEF r
      <3> QED
        BY <1>2, <2>1, <2>2, <2>3 DEF MemoryOK
    <2> QED
      BY <2>4
  <1>4. MemoryOK(a, n)
    <2> HIDE DEF m
    <2> QED
      BY <1>2, <1>3
  <1>5. Prepared(a, repriced_) = [n EXCEPT !.price = price]
    BY DEF Prepared
  <1>6. MemoryOK(a, [n EXCEPT !.price = price])
    <2> HIDE DEF n
    <2> QED
      BY <1>4 DEF MemoryOK, MemoryFields
  <1> QED
    BY <1>5, <1>6

(* One agent's scan goes on, and the others' do not.                       *)
ScansOn(a) ==
    /\ memory' = [memory EXCEPT ![a] = memory'[a]] /\ MemoryOK(a, memory'[a])
    /\ scan' = [scan EXCEPT ![a] = scan'[a]] /\ ScanOK(a, scan'[a], memory'[a])

LEMMA ListedOK ==
    ASSUME MemoriesOK, ScansOK, NEW a \in Agents, scan[a] # None,
           NEW m, NEW mode \in {"page", "dirty", "live", "keep"}, NEW paged, NEW list,
           MemoryOK(a, m), Listed(a, m, mode, paged, list),
           mode \in {"page", "dirty"} => PlanOK(a, m.plan),
           mode \in {"dirty", "live"} => list \in Stamps(a) /\ DifferInAge(list)
    PROVE  ScansOn(a)
  <1>1. /\ memory = [b \in Agents |-> memory[b]] /\ scan = [b \in Agents |-> scan[b]]
        /\ ScanOK(a, scan[a], memory[a])
    BY DEF MemoriesOK, ScansOK
  <1>2. memory' = [memory EXCEPT ![a] = memory'[a]] /\ memory'[a] = m
    BY <1>1 DEF Listed
  <1>3. /\ scan' = [scan EXCEPT ![a] = scan'[a]]
        /\ scan'[a] = [scan[a] EXCEPT !.stage = "listed", !.mode = mode, !.paged = paged,
                                      !.list = list, !.ticket = price]
    BY <1>1 DEF Listed
  <1>4. /\ scan'[a] = [field \in ScanFields |-> scan'[a][field]]
        /\ scan'[a].stage = "listed" /\ scan'[a].mode = mode /\ scan'[a].list = list
        /\ scan'[a].check = scan[a].check
    BY <1>1, <1>3 DEF ScanOK, ScanFields
  <1>5. ScanOK(a, scan'[a], m)
    <2>1. CheckOK(scan'[a].check)
      BY <1>1, <1>4 DEF ScanOK
    <2>2. Ready(a, scan'[a], m)
      BY <1>4 DEF Ready
    <2> QED
      BY <1>4, <2>1, <2>2 DEF ScanOK
  <1> QED
    BY <1>2, <1>3, <1>5 DEF ScansOn

LEMMA ListStep ==
    ASSUME SourcesOK, MemoriesOK, ScansOK, RecordsOK, NEW a \in Agents, List(a)
    PROVE  ScansOn(a)
  <1> DEFINE list == Listing(a)
  <1>1. clock \in Nat /\ list \in Stamps(a) /\ DifferInAge(list)
    BY OwnSessions DEF SourcesOK
  <1>2. scan[a] # None /\ CheckOK(scan[a].check) /\ CheckOK(None)
    BY DEF List, ScansOK, ScanOK, CheckOK
  <1>3. PICK repriced_ \in BOOLEAN :
          LET m == Prepared(a, repriced_) IN ListPaged(a, m, list) \/ ListLive(a, m, list)
    BY DEF List
  <1> DEFINE m == Prepared(a, repriced_)
  <1>4. MemoryOK(a, m)
    BY <1>1, PreparedOK
  <1> HIDE DEF m, list
  <1>5. CASE ListPaged(a, m, list)
    <2> DEFINE kept == [m EXCEPT !.known = [s \in DOMAIN list |-> 0]]
               n == Hinted(Opened(m, list, scan[a].check), scan[a].paths)
    <2>1. CASE m.plan = None /\ Missing(list, m)
      <3>1. Listed(a, kept, "keep", TRUE, None)
        BY <1>5, <2>1 DEF ListPaged
      <3>2. /\ kept = [field \in MemoryFields |-> kept[field]]
            /\ kept.base = m.base /\ kept.durable = m.durable /\ kept.plan = m.plan
            /\ kept.known = [s \in DOMAIN list |-> 0]
        BY <1>4 DEF MemoryOK, MemoryFields
      <3> HIDE DEF kept
      <3>3. kept.known \in Stamps(a)
        BY <1>1, <3>2 DEF Stamps
      <3>4. MemoryOK(a, kept)
        BY <1>4, <3>2, <3>3 DEF MemoryOK
      <3> QED
        BY <1>2, <3>1, <3>4, ListedOK
    <2>2. CASE ~(m.plan = None /\ Missing(list, m))
      <3>1. MemoryOK(a, n) /\ PlanOK(a, n.plan)
        BY <1>1, <1>2, <1>4, OpenedOK, HintedOK
      <3>2. \/ Listed(a, n, "dirty", TRUE, list)
            \/ Listed(a, n, "page", TRUE, None)
        BY <1>5, <2>2 DEF ListPaged
      <3> HIDE DEF n
      <3>3. CASE Listed(a, n, "dirty", TRUE, list)
        BY <1>1, <1>2, <3>1, <3>3, ListedOK
      <3>4. CASE Listed(a, n, "page", TRUE, None)
        BY <1>2, <3>1, <3>4, ListedOK
      <3> QED
        BY <3>2, <3>3, <3>4
    <2> QED
      BY <2>1, <2>2
  <1>6. CASE ListLive(a, m, list)
    <2> DEFINE n == Opened(m, list, None)
    <2>1. MemoryOK(a, n) /\ PlanOK(a, n.plan)
      BY <1>1, <1>2, <1>4, OpenedOK
    <2>2. \/ Listed(a, m, "keep", FALSE, None) \/ Listed(a, n, "page", FALSE, None)
          \/ Listed(a, m, "live", FALSE, list)
      BY <1>6 DEF ListLive
    <2> HIDE DEF n
    <2>3. CASE Listed(a, m, "keep", FALSE, None)
      BY <1>2, <1>4, <2>3, ListedOK
    <2>4. CASE Listed(a, n, "page", FALSE, None)
      BY <1>2, <2>1, <2>4, ListedOK
    <2>5. CASE Listed(a, m, "live", FALSE, list)
      BY <1>1, <1>2, <1>4, <2>5, ListedOK
    <2> QED
      BY <2>2, <2>3, <2>4, <2>5
  <1> QED
    BY <1>3, <1>5, <1>6 DEF m, list

LEMMA StampedOK ==
    ASSUME NEW a, NEW m, NEW stamps, MemoryOK(a, m),
           \A s \in SessionsOf(a) : stamps[s] \in 0 .. clock
    PROVE  /\ MemoryOK(a, Stamped(m, stamps))
           /\ Stamped(m, stamps).base = m.base /\ Stamped(m, stamps).durable = m.durable
           /\ Stamped(m, stamps).plan = m.plan
  <1> DEFINE n == Stamped(m, stamps)
  <1>1. /\ n = [field \in MemoryFields |-> n[field]]
        /\ n.base = m.base /\ n.durable = m.durable /\ n.plan = m.plan
        /\ n.known = [s \in DOMAIN m.known |-> IF stamps[s] # 0 THEN stamps[s] ELSE m.known[s]]
    BY DEF Stamped, MemoryOK, MemoryFields
  <1>3. MemoryOK(a, n)
    <2> HIDE DEF n
    <2>1. n.known \in Stamps(a)
      BY <1>1 DEF Stamps, MemoryOK
    <2> QED
      BY <1>1, <2>1 DEF MemoryOK
  <1> QED
    BY <1>1, <1>3

(* A refresh that ends with a batch or, cancelled, without.                *)
LEMMA EndedOK ==
    ASSUME SourcesOK, MemoriesOK, ScansOK, NEW a \in Agents, scan[a] # None,
           NEW m, MemoryOK(a, m), NEW read \in SUBSET SessionsOf(a), NEW gone,
           NEW complete \in BOOLEAN, complete \/ PlanOK(a, m.plan),
           Ended(a, m, read, gone, complete)
    PROVE  ScansOn(a)
  <1> DEFINE base == (m.base \ gone) \cup read
             left == IF scan[a].paged /\ complete THEN {} ELSE base
             n == [m EXCEPT !.ready = TRUE, !.durable = base, !.base = left]
             cancelled == Cancelled(a, scan[a].expected)
             batch == [read |-> [s \in read |-> files[s]],
                       removed |-> gone,
                       check |-> IF complete THEN None ELSE CheckpointOf(n),
                       state |-> [known |-> n.known, history |-> n.history \/ complete],
                       complete |-> complete,
                       ticket |-> scan[a].ticket]
  <1>1. /\ memory = [b \in Agents |-> memory[b]] /\ scan = [b \in Agents |-> scan[b]]
        /\ ScanOK(a, scan[a], memory[a])
    BY DEF MemoriesOK, ScansOK
  <1> DEFINE kept == [n EXCEPT !.rejected = @ \/ cancelled]
             given == IF cancelled THEN None ELSE batch
  <1>0. /\ memory' = [memory EXCEPT ![a] = kept]
        /\ scan' = [scan EXCEPT ![a].stage = "done", ![a].list = None, ![a].batch = given]
    BY DEF Ended
  <1>2. memory' = [memory EXCEPT ![a] = memory'[a]] /\ memory'[a] = kept
    <2> HIDE DEF kept, given
    <2> QED
      BY <1>0, <1>1
  <1>3. /\ scan' = [scan EXCEPT ![a] = scan'[a]]
        /\ scan'[a] = [scan[a] EXCEPT !.stage = "done", !.list = None, !.batch = given]
    <2> HIDE DEF kept, given
    <2> QED
      BY <1>0, <1>1
  <1>4. /\ n = [field \in MemoryFields |-> n[field]]
        /\ n.base = left /\ n.durable = base /\ n.known = m.known /\ n.plan = m.plan
    BY DEF MemoryOK, MemoryFields
  <1>5. left \subseteq base /\ base \subseteq SessionsOf(a)
    BY DEF MemoryOK
  <1>6. MemoryOK(a, n)
    <2> HIDE DEF n, base, left
    <2> QED
      BY <1>4, <1>5 DEF MemoryOK
  <1>7. MemoryOK(a, memory'[a])
    <2> HIDE DEF n, cancelled
    <2> QED
      BY <1>2, <1>6 DEF MemoryOK, MemoryFields
  <1>8. BatchOK(a, batch)
    <2>1. \A s \in SessionsOf(a) : s \in DOMAIN batch.read => batch.read[s] \in 0 .. clock
      BY OwnSessions DEF SourcesOK
    <2>2. CheckOK(batch.check)
      <3>1. complete => batch.check = None
        OBVIOUS
      <3>2. ~complete => batch.check.offset = n.plan.offset
        BY DEF CheckpointOf
      <3>3. ~complete => n.plan.offset \in Nat
        <4>1. ~complete => n.plan.items \in Items(a) /\ n.plan.offset \in 0 .. Len(n.plan.items)
          BY <1>4 DEF PlanOK
        <4> QED
          BY <4>1
      <3> QED
        BY <3>1, <3>2, <3>3 DEF CheckOK
    <2>3. StateOK(a, batch.state)
      <3>1. batch.state.known = n.known
        OBVIOUS
      <3> QED
        BY <1>4, <3>1 DEF StateOK, MemoryOK
    <2> QED
      BY <2>1, <2>2, <2>3 DEF BatchOK
  <1>9. ScanOK(a, scan'[a], memory'[a])
    <2> HIDE DEF batch, cancelled
    <2>1. /\ scan'[a] = [field \in ScanFields |-> scan'[a][field]]
          /\ scan'[a].stage = "done" /\ scan'[a].check = scan[a].check
          /\ scan'[a].batch = None \/ scan'[a].batch = batch
      BY <1>1, <1>3 DEF ScanOK, ScanFields
    <2> QED
      BY <1>1, <1>8, <2>1 DEF ScanOK
  <1> QED
    BY <1>2, <1>3, <1>7, <1>9 DEF ScansOn

LEMMA ItemsOfPlan ==
    ASSUME NEW a, NEW plan, PlanOK(a, plan)
    PROVE  /\ Len(plan.items) \in Nat /\ DOMAIN plan.items = 1 .. Len(plan.items)
           /\ plan.offset \in Nat /\ plan.offset <= Len(plan.items)
           /\ \A i \in 1 .. Len(plan.items) :
                plan.items[i].session \in SessionsOf(a) /\ plan.items[i].stamp \in 0 .. clock
  <1> DEFINE all == [session : SessionsOf(a), stamp : 0 .. clock]
  <1>1. plan.items \in Seq(all) /\ plan.offset \in 0 .. Len(plan.items)
    BY DEF PlanOK, Items
  <1>2. Len(plan.items) \in Nat /\ DOMAIN plan.items = 1 .. Len(plan.items)
    <2> HIDE DEF all
    <2> QED
      BY <1>1, LenProperties
  <1>3. \A i \in 1 .. Len(plan.items) : plan.items[i] \in all
    <2> HIDE DEF all
    <2> QED
      BY <1>1, ElementOfSeq
  <1> QED
    BY <1>1, <1>2, <1>3

LEMMA PlanMoves ==
    ASSUME NEW a, NEW plan, PlanOK(a, plan), NEW offset \in 0 .. Len(plan.items), NEW refreshed
    PROVE  PlanOK(a, [plan EXCEPT !.offset = offset, !.refreshed = refreshed])
  BY DEF PlanOK, PlanFields

LEMMA Replanned ==
    ASSUME NEW a, NEW m, MemoryOK(a, m), NEW plan, plan = None \/ PlanOK(a, plan)
    PROVE  /\ MemoryOK(a, [m EXCEPT !.plan = plan]) /\ [m EXCEPT !.plan = plan].plan = plan
           /\ [m EXCEPT !.plan = plan].base = m.base
  BY DEF MemoryOK, MemoryFields

LEMMA PageStep ==
    ASSUME SourcesOK, MemoriesOK, ScansOK, NEW a \in Agents, scan[a] # None,
           PlanOK(a, memory[a].plan), ReadPage(a)
    PROVE  ScansOn(a)
  <1> DEFINE m == memory[a]
             plan == m.plan
             Changed(i) == ~(plan.items[i].session \in m.base
                             /\ m.known[plan.items[i].session] = plan.items[i].stamp)
             Fits(n) == Cardinality({i \in plan.offset + 1 .. n : Changed(i)}) <= PageSize
             reach == {n \in plan.offset .. Len(plan.items) : Fits(n)}
             end == Max(reach)
             picked == {i \in plan.offset + 1 .. end : Changed(i)}
             chosen == {plan.items[i].session : i \in picked}
             Stamp(s) == plan.items[CHOOSE i \in picked : plan.items[i].session = s].stamp
             stamps == [s \in SessionsOf(a) |-> IF s \in chosen THEN Stamp(s) ELSE 0]
             read == {s \in chosen : files[s] # 0}
             exhausted == end = Len(plan.items)
             unlisted == m.base \ {plan.items[i].session : i \in DOMAIN plan.items}
             gone == (m.base \cap (chosen \ read)) \cup (IF exhausted THEN unlisted ELSE {})
             complete == exhausted /\ plan.dirty = {}
             after == [plan EXCEPT !.offset = end, !.refreshed = FALSE]
             next == IF complete THEN None ELSE after
             n == [Stamped(m, stamps) EXCEPT !.plan = next]
  <1>1. Ended(a, n, read, gone, complete)
    BY DEF ReadPage
  <1>2. /\ MemoryOK(a, m) /\ clock \in Nat
        /\ Len(plan.items) \in Nat /\ plan.offset \in Nat /\ plan.offset <= Len(plan.items)
        /\ \A i \in 1 .. Len(plan.items) :
             plan.items[i].session \in SessionsOf(a) /\ plan.items[i].stamp \in 0 .. clock
    BY ItemsOfPlan DEF MemoriesOK, SourcesOK
  <1> HIDE DEF Changed
  <1>3. end \in plan.offset .. Len(plan.items)
    <2>1. plan.offset \in reach
      <3>1. {i \in plan.offset + 1 .. plan.offset : Changed(i)} = {}
        BY <1>2
      <3>2. Fits(plan.offset)
        BY <3>1, FS_EmptySet, ScannerAssumption DEF ScannerAssumption
      <3> HIDE DEF Fits
      <3> QED
        BY <1>2, <3>2
    <2>2. IsFiniteSet(reach)
      <3>1. ASSUME NEW x \in Nat, NEW y \in Nat PROVE IsFiniteSet(x .. y)
        <4>1. x \in Int /\ y \in Int
          OBVIOUS
        <4> QED
          BY ONLY <4>1, FS_Interval
      <3> HIDE DEF Fits
      <3> QED
        BY <1>2, <3>1, FS_Subset
    <2>3. reach \subseteq Int
      BY <1>2
    <2>4. Max(reach) \in reach
      <3> HIDE DEF reach
      <3> QED
        BY <2>1, <2>2, <2>3, MaxIsGreatest
    <2> QED
      BY <2>4
  <1> HIDE DEF end
  <1>4. picked \subseteq 1 .. Len(plan.items) /\ chosen \subseteq SessionsOf(a)
    <2>1. picked \subseteq 1 .. Len(plan.items)
      BY <1>2, <1>3
    <2> QED
      BY <1>2, <2>1
  <1> HIDE DEF picked
  <1>5. \A s \in SessionsOf(a) : stamps[s] \in 0 .. clock
    <2>1. ASSUME NEW s \in chosen
          PROVE  Stamp(s) \in 0 .. clock
      <3>1. (CHOOSE i \in picked : plan.items[i].session = s) \in picked
        BY <2>1
      <3> QED
        BY <1>2, <1>4, <3>1
    <2> HIDE DEF chosen, Stamp
    <2> QED
      BY <1>2, <2>1
  <1> HIDE DEF chosen, stamps
  <1>6. PlanOK(a, after)
    <2>1. PlanOK(a, plan) /\ end \in 0 .. Len(plan.items)
      BY <1>2, <1>3
    <2> HIDE DEF plan
    <2> QED
      BY <2>1, PlanMoves
  <1>7. MemoryOK(a, Stamped(m, stamps))
    BY <1>2, <1>5, StampedOK
  <1>8. read \subseteq SessionsOf(a)
    BY <1>4
  <1>9. complete \in BOOLEAN
    OBVIOUS
  <1> HIDE DEF read, gone, complete, after
  <1>10. MemoryOK(a, n) /\ (complete \/ PlanOK(a, n.plan))
    <2>1. next = None \/ PlanOK(a, next)
      BY <1>6
    <2>2. MemoryOK(a, n) /\ n.plan = next
      BY <1>7, <2>1, Replanned
    <2> QED
      BY <1>6, <2>2
  <1> HIDE DEF n
  <1> QED
    BY <1>1, <1>8, <1>9, <1>10, EndedOK

LEMMA DirtyStep ==
    ASSUME SourcesOK, MemoriesOK, ScansOK, NEW a \in Agents, scan[a] # None,
           PlanOK(a, memory[a].plan), scan[a].list \in Stamps(a), DifferInAge(scan[a].list),
           ReadDirty(a)
    PROVE  ScansOn(a)
  <1> DEFINE m == memory[a]
             plan == m.plan
             list == scan[a].list
             original == {plan.items[i].session : i \in DOMAIN plan.items}
             added == Present(list) \ original
             eligible == {plan.items[i].session : i \in 1 .. plan.offset} \cup added
             due == {s \in eligible \cap Present(list) : m.known[s] # list[s]}
             keep == Missing(list, m)
  <1>1. PICK chosen \in SUBSET (IF keep THEN {} ELSE due) :
          LET stamps == [s \in SessionsOf(a) |-> IF s \in chosen THEN list[s] ELSE 0]
              read == {s \in chosen : files[s] # 0}
              gone == IF keep THEN {}
                      ELSE (m.base \cap (chosen \ read)) \cup (m.base \ Present(list))
              after == [plan EXCEPT
                          !.items = IF keep THEN @ ELSE @ \o Ordered(list, added),
                          !.dirty = IF keep THEN {} ELSE due \ chosen,
                          !.refreshed = TRUE, !.epoch = @ + 1]
              complete == after.offset = Len(after.items) /\ after.dirty = {}
          IN  Ended(a, [Stamped(m, stamps) EXCEPT !.plan = IF complete THEN None ELSE after],
                    read, gone, complete)
    BY DEF ReadDirty
  <1> DEFINE stamps == [s \in SessionsOf(a) |-> IF s \in chosen THEN list[s] ELSE 0]
             read == {s \in chosen : files[s] # 0}
             gone == IF keep THEN {}
                     ELSE (m.base \cap (chosen \ read)) \cup (m.base \ Present(list))
             items == IF keep THEN plan.items ELSE plan.items \o Ordered(list, added)
             dirty == IF keep THEN {} ELSE due \ chosen
             after == [plan EXCEPT !.items = items, !.dirty = dirty, !.refreshed = TRUE,
                                   !.epoch = @ + 1]
             complete == after.offset = Len(after.items) /\ after.dirty = {}
             next == IF complete THEN None ELSE after
             n == [Stamped(m, stamps) EXCEPT !.plan = next]
  <1>2. Ended(a, n, read, gone, complete)
    BY <1>1
  <1>3. /\ MemoryOK(a, m) /\ clock \in Nat /\ Present(list) \subseteq SessionsOf(a)
        /\ Len(plan.items) \in Nat /\ plan.offset \in Nat /\ plan.offset <= Len(plan.items)
        /\ plan.items \in Items(a)
    BY ItemsOfPlan DEF MemoriesOK, SourcesOK, Present, Stamps, PlanOK
  <1>4. chosen \subseteq SessionsOf(a)
    BY <1>3
  <1>5. items \in Items(a) /\ plan.offset \in 0 .. Len(items)
    <2>1. added \subseteq Present(list)
      OBVIOUS
    <2>2. Ordered(list, added) \in Items(a) /\ Len(Ordered(list, added)) \in Nat
      BY <1>3, <2>1, ListedItems
    <2> HIDE DEF added, keep
    <2>3. /\ plan.items \o Ordered(list, added) \in Items(a)
          /\ Len(plan.items \o Ordered(list, added)) =
               Len(plan.items) + Len(Ordered(list, added))
      BY <1>3, <2>2, ConcatProperties DEF Items
    <2>4. CASE keep
      BY <1>3, <2>4
    <2>5. CASE ~keep
      <3>1. items = plan.items \o Ordered(list, added)
        BY <2>5
      <3>2. Len(items) = Len(plan.items) + Len(Ordered(list, added))
        BY ONLY <2>3, <3>1
      <3>3. items \in Items(a)
        BY ONLY <2>3, <3>1
      <3>4. plan.offset <= Len(items) /\ Len(items) \in Nat
        <4>1. ASSUME NEW x \in Nat, NEW y \in Nat, NEW z \in Nat, NEW w, x <= y, w = y + z
              PROVE  x <= w /\ w \in Nat
          BY ONLY <4>1
        <4> HIDE DEF items, plan
        <4>2. /\ plan.offset \in Nat /\ Len(plan.items) \in Nat
              /\ Len(Ordered(list, added)) \in Nat /\ plan.offset <= Len(plan.items)
          BY ONLY <1>3, <2>2
        <4> QED
          BY ONLY <3>2, <4>1, <4>2, Zenon
      <3> HIDE DEF items, plan
      <3> QED
        BY ONLY <1>3, <3>3, <3>4
    <2> QED
      BY <2>4, <2>5
  <1> HIDE DEF added, eligible, due, keep
  <1>6. PlanOK(a, after)
    <2> HIDE DEF items, dirty
    <2> QED
      BY <1>5 DEF PlanOK, PlanFields
  <1>7. \A s \in SessionsOf(a) : stamps[s] \in 0 .. clock
    BY <1>3 DEF Stamps
  <1>8. MemoryOK(a, Stamped(m, stamps))
    <2> HIDE DEF stamps
    <2> QED
      BY <1>3, <1>7, StampedOK
  <1>9. read \subseteq SessionsOf(a) /\ complete \in BOOLEAN
    BY <1>4
  <1> HIDE DEF stamps, read, gone, complete, after
  <1>10. MemoryOK(a, n) /\ (complete \/ PlanOK(a, n.plan))
    <2>1. next = None \/ PlanOK(a, next)
      BY <1>6
    <2>2. MemoryOK(a, n) /\ n.plan = next
      BY <1>8, <2>1, Replanned
    <2> QED
      BY <1>6, <2>2
  <1> HIDE DEF n
  <1> QED
    BY <1>2, <1>9, <1>10, EndedOK

LEMMA LiveStep ==
    ASSUME SourcesOK, MemoriesOK, ScansOK, NEW a \in Agents, scan[a] # None,
           scan[a].list \in Stamps(a), ReadLive(a)
    PROVE  ScansOn(a)
  <1> DEFINE m == memory[a]
             list == scan[a].list
             chosen == OutOfDate(m, list)
             stamps == [s \in SessionsOf(a) |-> IF s \in chosen THEN list[s] ELSE 0]
             read == {s \in chosen : files[s] # 0}
             retained == (Present(list) \ chosen) \cup read
             gone == m.durable \ retained
             n == Stamped(m, stamps)
             left == [s \in DOMAIN n.known |-> IF list[s] = 0 THEN 0 ELSE n.known[s]]
             k == [n EXCEPT !.known = left]
  <1>1. Ended(a, k, read, gone, TRUE)
    BY DEF ReadLive
  <1>2. MemoryOK(a, m) /\ clock \in Nat /\ chosen \subseteq SessionsOf(a)
    BY DEF MemoriesOK, SourcesOK, OutOfDate, Present, Stamps
  <1>3. \A s \in SessionsOf(a) : stamps[s] \in 0 .. clock
    BY <1>2 DEF Stamps
  <1>4. MemoryOK(a, n)
    <2> HIDE DEF stamps
    <2> QED
      BY <1>2, <1>3, StampedOK
  <1>5. read \subseteq SessionsOf(a)
    BY <1>2
  <1> HIDE DEF n, read, gone
  <1>6. MemoryOK(a, k)
    <2>1. /\ k = [field \in MemoryFields |-> k[field]]
          /\ k.base = n.base /\ k.durable = n.durable /\ k.plan = n.plan /\ k.known = left
      <3> HIDE DEF left
      <3> QED
        BY <1>4 DEF MemoryOK, MemoryFields
    <2>2. left \in Stamps(a)
      BY <1>2, <1>4 DEF Stamps, MemoryOK
    <2> HIDE DEF k, left
    <2> QED
      BY <1>4, <2>1, <2>2 DEF MemoryOK
  <1> HIDE DEF k
  <1> QED
    BY <1>1, <1>5, <1>6, EndedOK

LEMMA ReadStep ==
    ASSUME SourcesOK, MemoriesOK, ScansOK, NEW a \in Agents, Read(a)
    PROVE  ScansOn(a)
  <1>1. scan[a] # None /\ Ready(a, scan[a], memory[a])
    BY DEF Read, ScansOK, ScanOK
  <1>2. CASE scan[a].mode = "page"
    <2>1. ReadPage(a)
      BY <1>2 DEF Read
    <2> QED
      BY <1>1, <1>2, <2>1, PageStep DEF Ready
  <1>3. CASE scan[a].mode = "dirty"
    <2>1. ReadDirty(a)
      BY <1>3 DEF Read
    <2> QED
      BY <1>1, <1>3, <2>1, DirtyStep DEF Ready
  <1>4. CASE scan[a].mode = "live"
    <2>1. ReadLive(a)
      BY <1>4 DEF Read
    <2> QED
      BY <1>1, <1>4, <2>1, LiveStep DEF Ready
  <1>5. CASE scan[a].mode = "keep"
    <2>1. Ended(a, memory[a], {}, {}, TRUE)
      BY <1>5 DEF Read
    <2>2. MemoryOK(a, memory[a]) /\ {} \subseteq SessionsOf(a)
      BY DEF MemoriesOK
    <2> QED
      BY <1>1, <2>1, <2>2, EndedOK
  <1> QED
    BY <1>1, <1>2, <1>3, <1>4, <1>5 DEF Ready

----------------------------------------------------------------------------
(* The runtime.                                                            *)

(* Time goes on: what was allowed before is so still.                      *)
LEMMA ClockGrows ==
    ASSUME clock \in Nat, clock' \in Nat, clock <= clock',
           UNCHANGED <<memory, scan, cache, loop, queue>>,
           MemoriesOK, ScansOK, RecordsOK, LoopsOK, QueueOK
    PROVE  MemoriesOK' /\ ScansOK' /\ RecordsOK' /\ LoopsOK' /\ QueueOK'
  <1>1. ASSUME NEW a, NEW items \in Items(a) PROVE items \in Items(a)'
    <2>1. [session : SessionsOf(a), stamp : 0 .. clock]
            \subseteq [session : SessionsOf(a), stamp : 0 .. clock']
      OBVIOUS
    <2> QED
      BY <2>1, SeqMonotonic DEF Items
  <1>2. ASSUME NEW a, NEW plan, PlanOK(a, plan) PROVE PlanOK(a, plan)'
    BY <1>1, <1>2 DEF PlanOK
  <1>3. ASSUME NEW a, NEW known \in Stamps(a) PROVE known \in Stamps(a)'
    BY DEF Stamps
  <1>4. ASSUME NEW a, NEW batch, BatchOK(a, batch) PROVE BatchOK(a, batch)'
    BY <1>3, <1>4 DEF BatchOK, StateOK, CheckOK
  <1>5. ASSUME NEW a, NEW m, MemoryOK(a, m) PROVE MemoryOK(a, m)'
    BY <1>2, <1>3, <1>5 DEF MemoryOK
  <1>6. MemoriesOK'
    BY <1>5 DEF MemoriesOK
  <1>7. ASSUME NEW a, NEW sc, NEW m, ScanOK(a, sc, m) PROVE ScanOK(a, sc, m)'
    BY <1>2, <1>3, <1>4, <1>7 DEF ScanOK, Ready, CheckOK, DifferInAge
  <1>8. ScansOK'
    BY <1>7 DEF ScansOK
  <1>9. ASSUME NEW a, NEW record, RecordOK(a, record) PROVE RecordOK(a, record)'
    BY <1>3, <1>9 DEF RecordOK, StateOK, CheckOK, GoodRecord
  <1>10. RecordsOK'
    BY <1>9 DEF RecordsOK
  <1>11. LoopsOK'
    BY <1>4 DEF LoopsOK, LoopOK, CheckOK
  <1>12. QueueOK'
    BY <1>4 DEF QueueOK, CommandOK
  <1> QED
    BY <1>6, <1>8, <1>10, <1>11, <1>12

(* A scan is as good for a memory of the same plan.                        *)
LEMMA ScanStays ==
    ASSUME UNCHANGED clock, NEW a, NEW sc, NEW m, NEW n, n.plan = m.plan, ScanOK(a, sc, m)
    PROVE  ScanOK(a, sc, n)'
  <1>1. ASSUME NEW plan, PlanOK(a, plan) PROVE PlanOK(a, plan)'
    BY <1>1 DEF PlanOK, Items
  <1>2. ASSUME NEW known \in Stamps(a) PROVE known \in Stamps(a)'
    BY DEF Stamps
  <1>3. ASSUME NEW batch, BatchOK(a, batch) PROVE BatchOK(a, batch)'
    BY <1>2, <1>3 DEF BatchOK, StateOK, CheckOK
  <1>4. Ready(a, sc, m) => Ready(a, sc, n)'
    BY <1>1, <1>2 DEF Ready, DifferInAge
  <1> QED
    BY <1>3, <1>4 DEF ScanOK, CheckOK

(* What a step does not touch stays as it was.                             *)
LEMMA Untouched ==
    ASSUME TypesInv, UNCHANGED clock
    PROVE  /\ UNCHANGED <<files, root>> => SourcesOK'
           /\ UNCHANGED memory => MemoriesOK'
           /\ UNCHANGED <<memory, scan>> => ScansOK'
           /\ UNCHANGED cache => RecordsOK'
           /\ UNCHANGED <<loop, scan>> => LoopsOK'
           /\ UNCHANGED <<pending, unseen>> => NewsOK'
           /\ UNCHANGED queue => QueueOK'
  <1>1. UNCHANGED <<files, root>> => SourcesOK'
    BY DEF TypesInv, SourcesOK, Aged
  <1>2. UNCHANGED memory => MemoriesOK'
    BY DEF TypesInv, MemoriesOK, MemoryOK, PlanOK, Items, Stamps
  <1>3. UNCHANGED <<memory, scan>> => ScansOK'
    BY ScanStays DEF TypesInv, ScansOK
  <1>4. UNCHANGED cache => RecordsOK'
    BY DEF TypesInv, RecordsOK, RecordOK, StateOK, CheckOK, Stamps
  <1>5. UNCHANGED <<loop, scan>> => LoopsOK'
    BY DEF TypesInv, LoopsOK, LoopOK, BatchOK, StateOK, CheckOK, Stamps
  <1>6. UNCHANGED <<pending, unseen>> => NewsOK'
    BY DEF TypesInv, NewsOK
  <1>7. UNCHANGED queue => QueueOK'
    BY DEF TypesInv, QueueOK, CommandOK, BatchOK, StateOK, CheckOK, Stamps
  <1> QED
    BY <1>1, <1>2, <1>3, <1>4, <1>5, <1>6, <1>7

(* The writer's queue.                                                     *)
LEMMA QueueGrows ==
    ASSUME TypesInv, NEW command, CommandOK(command), Len(queue) < QueueLimit,
           queue' = Append(queue, command), UNCHANGED clock
    PROVE  QueueOK'
  <1> DEFINE old == {queue[i] : i \in DOMAIN queue}
             new == {queue'[i] : i \in DOMAIN queue'}
  <1>1. queue \in Seq(old) /\ Len(queue) \in Nat
    <2>1. queue \in Seq(old)
      BY DEF TypesInv, QueueOK
    <2> HIDE DEF old
    <2> QED
      BY <2>1, LenProperties
  <1>2. /\ queue' \in Seq(old \cup {command}) /\ Len(queue') = Len(queue) + 1
        /\ DOMAIN queue = 1 .. Len(queue) /\ DOMAIN queue' = 1 .. Len(queue')
        /\ \A i \in 1 .. Len(queue') : queue'[i] = command \/
             (i \in 1 .. Len(queue) /\ queue'[i] = queue[i])
    <2> HIDE DEF old
    <2>1. queue \in Seq(old \cup {command})
      BY <1>1, SeqMonotonic
    <2> QED
      BY <1>1, <2>1, AppendProperties, LenProperties
  <1>3. queue' \in Seq(new)
    <2> HIDE DEF old
    <2>1. \A i \in 1 .. Len(queue') : queue'[i] \in new
      BY <1>2
    <2>2. queue' \in [1 .. Len(queue') -> old \cup {command}] /\ Len(queue') \in Nat
      BY <1>2, LenProperties
    <2> HIDE DEF new
    <2>3. queue' \in [1 .. Len(queue') -> new]
      BY <2>1, <2>2
    <2> QED
      BY <2>2, <2>3, SeqDef
  <1>4. \A i \in DOMAIN queue' : CommandOK(queue'[i])
    <2>1. \A i \in 1 .. Len(queue) : CommandOK(queue[i])
      BY <1>2 DEF TypesInv, QueueOK
    <2> QED
      BY <1>2, <2>1
  <1>5. Len(queue') <= QueueLimit
    BY <1>1, <1>2, RuntimeAssumption DEF RuntimeAssumption
  <1> HIDE DEF new
  <1>6. \A i \in DOMAIN queue' : CommandOK(queue[i])'
    BY <1>4 DEF CommandOK, BatchOK, CheckOK, StateOK, Stamps
  <1> QED
    BY <1>3, <1>5, <1>6 DEF QueueOK, new

LEMMA QueueShrinks ==
    ASSUME TypesInv, queue # <<>>, UNCHANGED clock
    PROVE  CommandOK(First) /\ (queue' = Tail(queue) => QueueOK')
  <1> DEFINE old == {queue[i] : i \in DOMAIN queue}
             new == {queue'[i] : i \in DOMAIN queue'}
  <1>1. queue \in Seq(old)
    BY DEF TypesInv, QueueOK
  <1>2. /\ Len(queue) \in Nat \ {0} /\ DOMAIN queue = 1 .. Len(queue) /\ First = queue[1]
        /\ Tail(queue) \in Seq(old) /\ Len(Tail(queue)) = Len(queue) - 1
        /\ \A i \in 1 .. Len(Tail(queue)) : Tail(queue)[i] = queue[i + 1]
    <2> HIDE DEF old
    <2> QED
      BY <1>1, HeadTailProperties, LenProperties, EmptySeq DEF First
  <1>3. \A i \in 1 .. Len(queue) : CommandOK(queue[i])
    BY <1>2 DEF TypesInv, QueueOK
  <1>4. CommandOK(First)
    BY <1>2, <1>3
  <1>5. ASSUME queue' = Tail(queue) PROVE QueueOK'
    <2>1. queue' \in [1 .. Len(queue') -> old] /\ DOMAIN queue' = 1 .. Len(queue')
          /\ Len(queue') \in Nat
      <3> HIDE DEF old
      <3> QED
        BY <1>2, <1>5, LenProperties
    <2>2. \A i \in DOMAIN queue' : CommandOK(queue'[i])
      BY <1>2, <1>3, <1>5, <2>1
    <2>3. queue' \in Seq(new)
      <3>1. \A i \in 1 .. Len(queue') : queue'[i] \in new
        BY <2>1
      <3> HIDE DEF old, new
      <3>2. queue' \in [1 .. Len(queue') -> new]
        BY <2>1, <3>1
      <3> QED
        BY <2>1, <3>2, SeqDef
    <2>4. Len(queue') <= QueueLimit
      BY <1>2, <1>5, RuntimeAssumption DEF RuntimeAssumption, TypesInv, QueueOK
    <2> HIDE DEF new, old
    <2>5. \A i \in DOMAIN queue' : CommandOK(queue[i])'
      BY <2>2 DEF CommandOK, BatchOK, CheckOK, StateOK, Stamps
    <2> QED
      BY <2>3, <2>4, <2>5 DEF QueueOK, new
  <1> QED
    BY <1>4, <1>5

LEMMA Sent ==
    ASSUME TypesInv, NEW command, CommandOK(command), Room, Send(command), UNCHANGED clock
    PROVE  QueueOK'
  <1>1. CASE writer = "running"
    BY <1>1, QueueGrows DEF Room, Send
  <1>2. CASE writer # "running"
    BY <1>2, Untouched DEF Send
  <1> QED
    BY <1>1, <1>2

LEMMA Reports ==
    ASSUME TypesInv, NEW a, NEW phase, Room, Report(a, phase), UNCHANGED clock
    PROVE  QueueOK'
  <1>1. CommandOK([kind |-> "status", agent |-> a, phase |-> phase])
    BY DEF CommandOK
  <1> QED
    BY <1>1, Sent DEF Report

(* A dropped batch marks its scanner, and nothing else.                    *)
Marked(b) == memory'[b] = memory[b] \/ \E flag : memory'[b] = [memory[b] EXCEPT !.rejected = flag]

LEMMA MarkedStay ==
    ASSUME TypesInv, UNCHANGED clock, memory' = [b \in Agents |-> memory'[b]],
           \A b \in Agents : Marked(b)
    PROVE  /\ MemoriesOK' /\ (UNCHANGED scan => ScansOK')
           /\ \A b \in Agents : memory'[b].plan = memory[b].plan
  <1>1. ASSUME NEW b \in Agents
        PROVE  MemoryOK(b, memory'[b]) /\ memory'[b].plan = memory[b].plan
    <2>1. MemoryOK(b, memory[b])
      BY DEF TypesInv, MemoriesOK
    <2>2. CASE memory'[b] = memory[b]
      BY <2>1, <2>2
    <2>3. ASSUME NEW flag, memory'[b] = [memory[b] EXCEPT !.rejected = flag]
          PROVE  MemoryOK(b, memory'[b]) /\ memory'[b].plan = memory[b].plan
      BY <2>1, <2>3 DEF MemoryOK, MemoryFields
    <2> QED
      BY <2>2, <2>3 DEF Marked
  <1>2. \A b \in Agents : MemoryOK(b, memory[b])'
    BY <1>1 DEF MemoryOK, PlanOK, Items, Stamps
  <1>3. UNCHANGED scan => ScansOK'
    BY <1>1, ScanStays DEF TypesInv, ScansOK
  <1> QED
    BY <1>1, <1>2, <1>3 DEF MemoriesOK

(* One agent's scan is replaced, and its loop goes on.                     *)
LEMMA ScanReplaced ==
    ASSUME TypesInv, UNCHANGED clock, NEW a \in Agents, NEW sc,
           memory' = [b \in Agents |-> memory'[b]],
           \A b \in Agents : Marked(b), scan' = [scan EXCEPT ![a] = sc],
           ScanOK(a, sc, memory[a])
    PROVE  ScansOK'
  <1>1. \A b \in Agents : memory'[b].plan = memory[b].plan
    BY MarkedStay
  <1>2. scan = [b \in Agents |-> scan[b]] /\ \A b \in Agents : ScanOK(b, scan[b], memory[b])
    BY DEF TypesInv, ScansOK
  <1>3. \A b \in Agents : ScanOK(b, scan'[b], memory[b])
    BY <1>2
  <1>4. \A b \in Agents : ScanOK(b, scan[b], memory[b])'
    BY <1>1, <1>3, ScanStays
  <1>5. scan' = [b \in Agents |-> scan'[b]]
    BY <1>2
  <1> QED
    BY <1>4, <1>5 DEF ScansOK

LEMMA LoopReplaced ==
    ASSUME TypesInv, LoopsHold, UNCHANGED clock, NEW a \in Agents,
           loop' = [loop EXCEPT ![a] = loop'[a]],
           \A b \in Agents \ {a} : scan'[b] = scan[b], LoopOK(loop'[a], a, scan'[a])
    PROVE  LoopsOK'
  <1>1. \A b \in Agents : LoopOK(loop'[b], b, scan'[b])
    BY DEF TypesInv, LoopsOK, LoopsHold
  <1> QED
    BY <1>1 DEF LoopsOK, LoopOK, BatchOK, StateOK, CheckOK, Stamps

LEMMA SpawnedOK ==
    ASSUME NEW a, NEW m, NEW paths, NEW check, NEW expected, CheckOK(check)
    PROVE  ScanOK(a, Spawned(paths, check, expected), m) /\ ScanOK(a, None, m)
  BY DEF ScanOK, ScanFields, Spawned

LEMMA LoopStep ==
    ASSUME TypesInv, LoopsHold, free \in Int, NEW a \in Agents, Round(a) \/ BeginFails(a)
    PROVE  TypesInv'
  <1> DEFINE l == loop[a]
  <1>0. /\ loop = [b \in Agents |-> loop[b]] /\ l = [field \in LoopFields |-> l[field]]
        /\ LoopOK(l, a, scan[a]) /\ CheckOK(None)
        /\ memory = [b \in Agents |-> memory[b]] /\ MemoryOK(a, memory[a])
        /\ scan = [b \in Agents |-> scan[b]] /\ ScanOK(a, scan[a], memory[a])
        /\ ScanOK(a, None, memory[a])
    BY DEF TypesInv, LoopsHold, GoodLoop, LoopsOK, CheckOK, MemoriesOK, ScansOK, ScanOK
  <1>1. loop' = [loop EXCEPT ![a] = loop'[a]]
    BY LoopsMove DEF Moves
  <1>2. UNCHANGED <<clock, files, root, unseen, cache>>
    <2>1. CASE Wake(a) \/ Leave(a) \/ Start(a) \/ Begin(a) \/ BeginFails(a) \/ NextPage(a)
      BY <2>1
      DEF Wake, Leave, Start, Begin, BeginFails, NextPage, scannerVars, sourceVars, loopRest
    <2>2. CASE Acquire(a) \/ ScanLost(a) \/ ScanWon(a) \/ Submit(a) \/ SubmitFails(a)
      BY <2>2
      DEF Acquire, ScanLost, ScanWon, Submit, SubmitFails, scannerVars, sourceVars, loopRest
    <2>3. CASE PublishedLast(a) \/ PublishedPage(a) \/ Retake(a) \/ PublicationLost(a)
               \/ EndRound(a)
      BY <2>3
      DEF PublishedLast, PublishedPage, Retake, PublicationLost, EndRound, scannerVars,
          sourceVars, loopRest
    <2> QED
      BY <2>1, <2>2, <2>3 DEF Round
  <1>3. SourcesOK' /\ RecordsOK'
    BY <1>2, Untouched
  (* What a loop is told of is kept or forgotten.                          *)
  <1>4. NewsOK'
    <2>1. UNCHANGED pending \/ ResetPending(a)
      <3>1. CASE Wake(a) \/ Leave(a) \/ Start(a) \/ Begin(a) \/ BeginFails(a) \/ NextPage(a)
        BY <3>1 DEF Wake, Leave, Start, Begin, BeginFails, NextPage
      <3>2. CASE Acquire(a) \/ ScanLost(a) \/ ScanWon(a) \/ Submit(a) \/ SubmitFails(a)
        BY <3>2 DEF Acquire, ScanLost, ScanWon, Submit, SubmitFails
      <3>3. CASE PublishedLast(a) \/ PublishedPage(a) \/ Retake(a) \/ PublicationLost(a)
                 \/ EndRound(a)
        BY <3>3 DEF PublishedLast, PublishedPage, Retake, PublicationLost, EndRound
      <3> QED
        BY <3>1, <3>2, <3>3 DEF Round
    <2>2. CASE UNCHANGED pending
      BY <1>2, <2>2, Untouched
    <2>3. CASE ResetPending(a)
      <3>1. CASE pending' = pending
        BY <1>2, <3>1, Untouched
      <3>2. CASE pending' = [pending EXCEPT ![a].paths = {}]
        <4>1. pending = [b \in Agents |-> pending[b]]
          BY DEF TypesInv, NewsOK
        <4>2. /\ pending' = [b \in Agents |-> pending'[b]]
              /\ pending'[a] = [pending[a] EXCEPT !.paths = {}]
              /\ \A b \in Agents \ {a} : pending'[b] = pending[b]
          BY <3>2, <4>1
        <4>3. /\ pending'[a] = [field \in NewsFields |-> pending'[a][field]]
              /\ pending'[a].paths = {}
          BY <4>2 DEF NewsFields, TypesInv, NewsOK
        <4> QED
          BY <1>2, <4>2, <4>3 DEF TypesInv, NewsOK
      <3> QED
        BY <2>3, <3>1, <3>2 DEF ResetPending
    <2> QED
      BY <2>1, <2>2, <2>3
  (* Its commands are statuses and the batches that it has read.           *)
  <1>5. QueueOK'
    <2>1. CASE Wake(a) \/ Leave(a) \/ Start(a) \/ Begin(a) \/ Acquire(a) \/ SubmitFails(a)
               \/ PublishedPage(a) \/ Retake(a) \/ EndRound(a)
      <3>1. UNCHANGED queue
        BY <2>1
        DEF Wake, Leave, Start, Begin, Acquire, SubmitFails, PublishedPage, Retake, EndRound
      <3> QED
        BY <1>2, <3>1, Untouched
    <2>2. CASE NextPage(a) \/ ScanLost(a) \/ PublicationLost(a)
      <3>1. UNCHANGED queue \/ \E phase : Room /\ Report(a, phase)
        BY <2>2 DEF NextPage, ScanLost, PublicationLost
      <3> QED
        BY <1>2, <3>1, Untouched, Reports
    <2>3. CASE BeginFails(a) \/ ScanWon(a) \/ PublishedLast(a)
      <3>1. \E phase : Room /\ Report(a, phase)
        BY <2>3 DEF BeginFails, ScanWon, PublishedLast
      <3> QED
        BY <1>2, <3>1, Reports
    <2>4. CASE Submit(a)
      <3> DEFINE command == [kind |-> "publish", agent |-> a, batch |-> scan[a].batch,
                             expected |-> l.expected]
      <3>1. queue' = Append(queue, command) /\ Len(queue) < QueueLimit /\ l.pc = "submit"
        BY <2>4 DEF Submit, Room, At
      <3>2. CommandOK(command)
        BY <1>0, <3>1 DEF LoopOK, CommandOK
      <3> HIDE DEF command
      <3> QED
        BY <1>2, <3>1, <3>2, QueueGrows
    <2> QED
      BY <2>1, <2>2, <2>3, <2>4 DEF Round
  (* The scan at hand is left, spawned, submitted or dropped.              *)
  <1>6. MemoriesOK' /\ ScansOK' /\ LoopsOK'
    <2> DEFINE Same == UNCHANGED <<memory, scan>>
               Dropped == memory' = memory \/ memory' = Rejected(a)
    <2>1. Same /\ LoopOK(loop'[a], a, scan[a]) => MemoriesOK' /\ ScansOK' /\ LoopsOK'
      <3> SUFFICES ASSUME Same, LoopOK(loop'[a], a, scan[a])
                   PROVE  MemoriesOK' /\ ScansOK' /\ LoopsOK'
        OBVIOUS
      <3>1. MemoriesOK' /\ ScansOK'
        BY <1>2, Untouched
      <3>2. LoopsOK'
        BY <1>1, <1>2, LoopReplaced
      <3> QED
        BY <3>1, <3>2
    <2>2. ASSUME NEW sc, Dropped, scan' = [scan EXCEPT ![a] = sc], ScanOK(a, sc, memory[a]),
                 CheckOK(loop'[a].check), loop'[a].pc # "submit"
          PROVE  MemoriesOK' /\ ScansOK' /\ LoopsOK'
      <3>1. memory' = [b \in Agents |-> memory'[b]] /\ \A b \in Agents : Marked(b)
        <4>1. memory' = [b \in Agents |-> memory'[b]]
          BY <1>0, <2>2 DEF Rejected
        <4>2. ASSUME NEW b \in Agents
              PROVE  \/ memory'[b] = memory[b]
                     \/ memory'[b] = [memory[b] EXCEPT !.rejected = TRUE]
          BY <1>0, <2>2 DEF Rejected
        <4> QED
          BY <4>1, <4>2 DEF Marked
      <3>2. MemoriesOK' /\ ScansOK'
        BY <1>2, <2>2, <3>1, MarkedStay, ScanReplaced
      <3>3. LoopOK(loop'[a], a, scan'[a]) /\ \A b \in Agents \ {a} : scan'[b] = scan[b]
        BY <1>0, <2>2 DEF LoopOK
      <3> QED
        BY <1>1, <1>2, <3>2, <3>3, LoopReplaced
    <2>3. CASE Wake(a) \/ Leave(a) \/ Start(a) \/ BeginFails(a) \/ NextPage(a)
               \/ PublishedLast(a) \/ PublishedPage(a) \/ Retake(a) \/ PublicationLost(a)
      <3>1. Same
        BY <2>3
        DEF Wake, Leave, Start, BeginFails, NextPage, PublishedLast, PublishedPage, Retake,
            PublicationLost, scannerVars
      <3>2. loop'[a].check = l.check /\ loop'[a].pc # "submit"
        <4>1. CASE Wake(a) \/ Leave(a) \/ PublishedLast(a) \/ PublicationLost(a)
          BY <1>0, <4>1 DEF Wake, Leave, PublishedLast, PublicationLost, Goto, LoopFields
        <4>2. CASE Start(a)
          BY <1>0, <4>2 DEF Start, CopyPending, LoopFields
        <4>3. CASE BeginFails(a)
          BY <1>0, <4>3 DEF BeginFails, LoopFields
        <4>4. CASE NextPage(a)
          BY <1>0, <4>4 DEF NextPage, Goto, LoopFields
        <4>5. CASE PublishedPage(a)
          BY <1>0, <4>5 DEF PublishedPage, CopyPending, Goto, LoopFields
        <4>6. CASE Retake(a)
          BY <1>0, <4>6 DEF Retake, LoopFields
        <4> QED
          BY <2>3, <4>1, <4>2, <4>3, <4>4, <4>5, <4>6
      <3>3. LoopOK(loop'[a], a, scan[a])
        BY <1>0, <3>2 DEF LoopOK
      <3> QED
        BY <2>1, <3>1, <3>3
    <2>4. CASE Begin(a)
      <3>1. Same
        BY <2>4 DEF Begin, scannerVars
      <3>2. loop'[a].check = cache[a].check /\ loop'[a].pc # "submit"
        BY <1>0, <2>4 DEF Begin, LoopFields
      <3>3. CheckOK(cache[a].check)
        BY DEF TypesInv, RecordsOK, RecordOK
      <3>4. LoopOK(loop'[a], a, scan[a])
        BY <3>2, <3>3 DEF LoopOK
      <3> QED
        BY <2>1, <3>1, <3>4
    <2>5. CASE ScanWon(a)
      <3>1. Same /\ Done(a) /\ scan[a].batch # None
        BY <2>5 DEF ScanWon, Publishable, scannerVars
      <3>2. loop'[a].check = scan[a].batch.check
        BY <1>0, <2>5 DEF ScanWon, LoopFields
      <3>3. BatchOK(a, scan[a].batch) /\ scan[a] # None /\ scan[a].stage = "done"
        BY <1>0, <3>1 DEF Done, ScanOK
      <3>4. LoopOK(loop'[a], a, scan[a])
        BY <3>2, <3>3 DEF LoopOK, BatchOK
      <3> QED
        BY <2>1, <3>1, <3>4
    <2>6. CASE Acquire(a)
      <3>1. /\ UNCHANGED memory
            /\ scan' = [scan EXCEPT ![a] = Spawned(l.paths, l.check, l.expected)]
        BY <2>6 DEF Acquire
      <3>2. loop'[a].check = l.check /\ loop'[a].pc # "submit"
        BY <1>0, <2>6 DEF Acquire, LoopFields
      <3>3. CheckOK(l.check)
        BY <1>0 DEF LoopOK
      <3>4. ScanOK(a, Spawned(l.paths, l.check, l.expected), memory[a])
        BY <3>3, SpawnedOK
      <3> QED
        BY <2>2, <3>1, <3>2, <3>3, <3>4
    <2>7. CASE Submit(a)
      <3> DEFINE ahead == ReadAhead(a, scan[a].batch.complete)
                 sc == IF ahead THEN Spawned(None, l.check, l.expected) ELSE None
      <3>1. UNCHANGED memory /\ scan' = [scan EXCEPT ![a] = sc]
        BY <2>7 DEF Submit
      <3>2. loop'[a].check = l.check /\ loop'[a].pc # "submit"
        BY <1>0, <2>7 DEF Submit, LoopFields
      <3>3. CheckOK(l.check)
        BY <1>0 DEF LoopOK
      <3>4. ScanOK(a, sc, memory[a])
        BY <1>0, <3>3, SpawnedOK
      <3> HIDE DEF sc
      <3> QED
        BY <2>2, <3>1, <3>2, <3>3, <3>4
    <2>8. CASE ScanLost(a) \/ SubmitFails(a)
      <3>1. Dropped /\ scan' = [scan EXCEPT ![a] = None]
        BY <2>8 DEF ScanLost, SubmitFails
      <3>2. loop'[a].check = l.check /\ loop'[a].pc # "submit"
        BY <1>0, <2>8 DEF ScanLost, SubmitFails, Goto, LoopFields
      <3>3. CheckOK(l.check)
        BY <1>0 DEF LoopOK
      <3> QED
        BY <1>0, <2>2, <3>1, <3>2, <3>3
    <2>9. CASE EndRound(a)
      <3>1. Dropped /\ scan' = [scan EXCEPT ![a] = None]
        BY <2>9 DEF EndRound
      <3>2. loop'[a].check = None /\ loop'[a].pc # "submit"
        BY <1>0, <2>9 DEF EndRound, LoopFields
      <3> QED
        BY <1>0, <2>2, <3>1, <3>2
    <2> QED
      BY <2>3, <2>4, <2>5, <2>6, <2>7, <2>8, <2>9 DEF Round
  <1> QED
    BY <1>3, <1>4, <1>5, <1>6 DEF TypesInv

(* A publication or a repricing writes records that are as they must be.   *)
LEMMA WrittenRecord ==
    ASSUME clock \in Nat, NEW a \in Agents, NEW record, RecordOK(a, record)
    PROVE  /\ RecordOK(a, Priced(record)) /\ RecordOK(a, Repriced(record))
           /\ \A batch : BatchOK(a, batch) => RecordOK(a, Applied(record, batch))
  <1>1. RecordOK(a, Priced(record))
    BY PricedRecord DEF RecordOK
  <1>2. RecordOK(a, Repriced(record))
    BY <1>1 DEF Repriced
  <1>3. ASSUME NEW batch, BatchOK(a, batch) PROVE RecordOK(a, Applied(record, batch))
    <2> DEFINE r == Applied(record, batch)
    <2>1. GoodRecord(a, r)
      BY AppliedRecord DEF RecordOK
    <2>2. r.stored \in Stamps(a)
      BY <1>3 DEF Applied, RecordOK, GoodRecord, BatchOK, Stamps
    <2>3. r.state = batch.state /\ (r.check = None \/ r.check = batch.check)
      BY DEF Applied
    <2>4. RecordOK(a, r)
      <3> HIDE DEF r
      <3> QED
        BY <1>3, <2>1, <2>2, <2>3 DEF RecordOK, BatchOK, CheckOK
    <2> QED
      BY <2>4
  <1> QED
    BY <1>1, <1>2, <1>3

LEMMA RecordReplaced ==
    ASSUME TypesInv, UNCHANGED clock,
           cache' = [b \in Agents |-> cache'[b]], \A b \in Agents : RecordOK(b, cache'[b])
    PROVE  RecordsOK'
  BY DEF RecordsOK, RecordOK, GoodRecord, StateOK, CheckOK, Stamps

LEMMA CommittedOK ==
    ASSUME TypesInv, NEW a \in Agents, NEW batch, BatchOK(a, batch)
    PROVE  RecordOK(a, Committed(a, batch)) /\ RecordOK(a, Repriced(Committed(a, batch)))
  <1> DEFINE kept == IF RetainHistory THEN [batch EXCEPT !.removed = {}] ELSE batch
  <1>1. kept.read = batch.read /\ kept.check = batch.check /\ kept.state = batch.state
    OBVIOUS
  <1>2. BatchOK(a, kept)
    <2> HIDE DEF kept
    <2> QED
      BY <1>1 DEF BatchOK
  <1>3. clock \in Nat /\ RecordOK(a, cache[a])
    BY DEF TypesInv, SourcesOK, RecordsOK
  <1>4. RecordOK(a, Applied(cache[a], kept))
    <2> HIDE DEF kept
    <2> QED
      BY <1>2, <1>3, WrittenRecord
  <1>5. Committed(a, batch) = Applied(cache[a], kept)
    BY DEF Committed
  <1> QED
    BY <1>3, <1>4, <1>5, WrittenRecord

(* The writer.                                                             *)
LEMMA WriterStep ==
    ASSUME TypesInv, Write \/ PublishFails \/ CommittedThenFails \/ RepriceFails
    PROVE  TypesInv'
  <1>1. UNCHANGED <<clock, files, root, scan, loop, pending, unseen>>
    BY DEF Write, WriteStatus, Publish, PublishRefused, PublishFails, Refuse, CommittedThenFails,
           Reprice, RepriceFails, Stop, scannerVars, sourceVars
  <1>2. SourcesOK' /\ LoopsOK' /\ NewsOK'
    BY <1>1, Untouched
  <1>3. /\ memory = [b \in Agents |-> memory[b]] /\ \A b \in Agents : MemoryOK(b, memory[b])
        /\ cache = [b \in Agents |-> cache[b]] /\ \A b \in Agents : RecordOK(b, cache[b])
        /\ clock \in Nat
    BY DEF TypesInv, MemoriesOK, RecordsOK, SourcesOK
  <1>4. QueueOK' /\ (Command("publish") => First.agent \in Agents
                                           /\ BatchOK(First.agent, First.batch))
    <2>1. CASE Stop
      <3>1. queue' = <<>> /\ ~Command("publish")
        BY <2>1 DEF Stop, Command
      <3>2. QueueOK'
        BY <3>1, EmptySeq, RuntimeAssumption DEF RuntimeAssumption, QueueOK
      <3> QED
        BY <3>1, <3>2
    <2>2. CASE ~Stop
      <3>1. queue # <<>> /\ queue' = Tail(queue)
        BY <2>2
        DEF Write, WriteStatus, Publish, PublishRefused, PublishFails, Refuse, Answer,
            CommittedThenFails, Reprice, RepriceFails, Command
      <3>2. QueueOK' /\ CommandOK(First)
        BY <1>1, <3>1, QueueShrinks
      <3> QED
        BY <3>2 DEF CommandOK, Command
    <2> QED
      BY <2>1, <2>2
  <1>5. MemoriesOK' /\ ScansOK'
    <2>1. memory' = [b \in Agents |-> memory'[b]] /\ \A b \in Agents : Marked(b)
      <3>1. CASE UNCHANGED memory
        BY <1>3, <3>1 DEF Marked
      <3>2. ASSUME NEW a \in Agents, memory' = Rejected(a)
            PROVE  memory' = [b \in Agents |-> memory'[b]] /\ \A b \in Agents : Marked(b)
        <4>1. memory' = [b \in Agents |-> memory'[b]]
          BY <1>3, <3>2 DEF Rejected
        <4>2. ASSUME NEW b \in Agents
              PROVE  \/ memory'[b] = memory[b]
                     \/ memory'[b] = [memory[b] EXCEPT !.rejected = TRUE]
          BY <1>3, <3>2 DEF Rejected
        <4> QED
          BY <4>1, <4>2 DEF Marked
      <3>3. CASE Stop
        <4> DEFINE dropped(b) == \E i \in DOMAIN queue :
                                   queue[i].kind = "publish" /\ queue[i].agent = b
        <4>1. memory' = [b \in Agents |->
                          [memory[b] EXCEPT !.rejected = @ \/ dropped(b)]]
          BY <3>3 DEF Stop
        <4> HIDE DEF dropped
        <4>2. memory' = [b \in Agents |-> memory'[b]]
          BY <4>1
        <4>3. ASSUME NEW b \in Agents
              PROVE  memory'[b] = [memory[b] EXCEPT !.rejected = memory[b].rejected \/ dropped(b)]
          BY <4>1
        <4> QED
          BY <4>2, <4>3 DEF Marked
      <3>4. CASE ~Stop
        <4>1. UNCHANGED memory \/ (Command("publish") /\ memory' = Rejected(First.agent))
          BY <3>4
          DEF Write, WriteStatus, Publish, PublishRefused, PublishFails, Refuse,
              CommittedThenFails, Reprice, RepriceFails, scannerVars
        <4> QED
          BY <1>4, <3>1, <3>2, <4>1
      <3> QED
        BY <3>3, <3>4
    <2> QED
      BY <1>1, <2>1, MarkedStay
  <1>6. RecordsOK'
    <2>1. CASE WriteStatus \/ PublishRefused \/ PublishFails \/ Stop
      <3>1. UNCHANGED cache
        BY <2>1 DEF WriteStatus, PublishRefused, PublishFails, Refuse, Stop, scannerVars
      <3> QED
        BY <1>1, <3>1, Untouched
    <2>2. CASE Publish \/ CommittedThenFails
      <3> DEFINE a == First.agent
                 record == Committed(a, First.batch)
      <3>1. /\ Command("publish")
            /\ \/ cache' = [cache EXCEPT ![a] = record]
               \/ cache' = [cache EXCEPT ![a] = Repriced(record)]
        BY <2>2 DEF Publish, CommittedThenFails
      <3>2. a \in Agents /\ RecordOK(a, record) /\ RecordOK(a, Repriced(record))
        BY <1>4, <3>1, CommittedOK
      <3>3. cache' = [b \in Agents |-> cache'[b]] /\ \A b \in Agents : RecordOK(b, cache'[b])
        <4> HIDE DEF a, record
        <4> QED
          BY <1>3, <3>1, <3>2
      <3> QED
        BY <1>1, <3>3, RecordReplaced
    <2>3. CASE Reprice \/ RepriceFails
      <3>1. \E done \in SUBSET Agents :
              cache' = [b \in Agents |-> IF b \in done THEN Priced(cache[b]) ELSE cache[b]]
        <4>1. CASE Reprice
          <5>1. cache' = [b \in Agents |-> IF b \in Agents THEN Priced(cache[b]) ELSE cache[b]]
            BY <4>1 DEF Reprice
          <5> QED
            BY <5>1
        <4>2. CASE RepriceFails
          BY <4>2 DEF RepriceFails
        <4> QED
          BY <2>3, <4>1, <4>2
      <3>2. \A b \in Agents : RecordOK(b, Priced(cache[b]))
        BY <1>3, WrittenRecord
      <3>3. cache' = [b \in Agents |-> cache'[b]] /\ \A b \in Agents : RecordOK(b, cache'[b])
        BY <1>3, <3>1, <3>2
      <3> QED
        BY <1>1, <3>3, RecordReplaced
    <2> QED
      BY <2>1, <2>2, <2>3 DEF Write
  <1> QED
    BY <1>2, <1>4, <1>5, <1>6 DEF TypesInv

(* Sessions are written and deleted, and a source goes away.               *)
LEMMA SourceStep ==
    ASSUME TypesInv, NEW a \in Agents, NEW s \in Sessions, Edit(s) \/ Delete(s) \/ Vanish(a)
    PROVE  TypesInv'
  <1>1. /\ clock \in Nat /\ files \in [Sessions -> 0 .. clock] /\ root \in [Agents -> BOOLEAN]
        /\ Aged(files)
    BY DEF TypesInv, SourcesOK
  <1>2. SourcesOK' /\ clock <= clock'
    <2>1. CASE Edit(s)
      <3>1. /\ clock' = clock + 1 /\ files' = [files EXCEPT ![s] = clock + 1]
            /\ root' = [root EXCEPT ![AgentOf[s]] = TRUE]
        BY <2>1 DEF Edit, Touch
      <3>2. files' \in [Sessions -> 0 .. clock'] /\ root' \in [Agents -> BOOLEAN]
        <4>1. \A t \in Sessions : files'[t] \in 0 .. clock'
          BY <1>1, <3>1
        <4>2. root' \in [Agents -> BOOLEAN]
          BY <1>1, <3>1
        <4>3. files' = [t \in Sessions |-> files'[t]]
          BY <1>1, <3>1
        <4> QED
          BY <4>1, <4>2, <4>3
      <3>3. Aged(files')
        BY <1>1, <3>1 DEF Aged
      <3> QED
        BY <1>1, <3>1, <3>2, <3>3 DEF SourcesOK, Aged
    <2>2. CASE Delete(s)
      <3>1. UNCHANGED <<clock, root>> /\ files' = [files EXCEPT ![s] = 0]
        BY <2>2 DEF Delete, Touch
      <3> QED
        BY <1>1, <3>1 DEF SourcesOK, Aged
    <2>3. CASE Vanish(a)
      <3>1. /\ UNCHANGED clock /\ root' = [root EXCEPT ![a] = FALSE]
            /\ files' = [t \in Sessions |-> IF AgentOf[t] = a THEN 0 ELSE files[t]]
        BY <2>3 DEF Vanish
      <3> QED
        BY <1>1, <3>1 DEF SourcesOK, Aged
    <2> QED
      BY <2>1, <2>2, <2>3
  <1>3. UNCHANGED <<memory, scan, cache, loop, queue, pending>>
    BY DEF Edit, Delete, Vanish, Touch
  <1>4. MemoriesOK' /\ ScansOK' /\ RecordsOK' /\ LoopsOK' /\ QueueOK'
    BY <1>1, <1>2, <1>3, ClockGrows DEF TypesInv, SourcesOK
  <1>5. NewsOK'
    <2>1. AgentOf[s] \in Agents /\ s \in SessionsOf(AgentOf[s])
      BY ScannerAssumption DEF ScannerAssumption, SessionsOf
    <2>2. \/ unseen' = [unseen EXCEPT ![AgentOf[s]] = @ \cup {s}]
          \/ unseen' = [unseen EXCEPT ![a] = @ \cup SessionsOf(a)]
      BY DEF Edit, Delete, Vanish, Touch
    <2>3. SessionsOf(a) \subseteq Sessions
      BY DEF SessionsOf
    <2>4. unseen \in [Agents -> SUBSET Sessions] /\ \A b \in Agents : unseen[b] \subseteq SessionsOf(b)
      BY DEF TypesInv, NewsOK
    <2>5. /\ unseen' \in [Agents -> SUBSET Sessions]
          /\ \A b \in Agents : unseen'[b] \subseteq SessionsOf(b)
      <3>1. CASE unseen' = [unseen EXCEPT ![AgentOf[s]] = @ \cup {s}]
        BY <2>1, <2>4, <3>1
      <3>2. CASE unseen' = [unseen EXCEPT ![a] = @ \cup SessionsOf(a)]
        BY <2>3, <2>4, <3>2
      <3> QED
        BY <2>2, <3>1, <3>2
    <2> QED
      BY <1>3, <2>5 DEF TypesInv, NewsOK
  <1> QED
    BY <1>2, <1>4, <1>5 DEF TypesInv

LEMMA Told ==
    ASSUME TypesInv, NEW a \in Agents, NEW paths, paths = None \/ paths \subseteq SessionsOf(a),
           Invalidate(a, paths), unseen' = unseen \/ unseen' = [unseen EXCEPT ![a] = {}]
    PROVE  NewsOK'
  <1> DEFINE p == [revision |-> pending[a].revision + 1, paths |-> Merged(pending[a].paths, paths)]
  <1>1. pending' = [pending EXCEPT ![a] = p]
    BY DEF Invalidate, TypesInv, NewsOK
  <1>2. p = [field \in NewsFields |-> p[field]]
    BY DEF NewsFields
  <1>3. p.paths # None => p.paths \subseteq SessionsOf(a)
    BY DEF Merged, TypesInv, NewsOK
  <1> HIDE DEF p
  <1> QED
    BY <1>1, <1>2, <1>3 DEF TypesInv, NewsOK

(* The scanners, the news, the prices and the end.                         *)
LEMMA ScannerStep ==
    ASSUME TypesInv, NEW a \in Agents, Refresh(a) \/ RefreshFails(a)
    PROVE  TypesInv'
  <1>1. UNCHANGED <<clock, files, root, cache, loop, pending, unseen, queue>>
    BY DEF Refresh, RefreshFails, List, Read, NotStarted, ReadFails, GiveUp, runtimeVars, sourceVars
  <1>2. SourcesOK' /\ RecordsOK' /\ NewsOK' /\ QueueOK'
    BY <1>1, Untouched
  <1>3. ScansOn(a) /\ scan[a] # None /\ scan[a].stage # "done"
    <2>1. scan[a] # None /\ scan[a].stage # "done"
      BY DEF Refresh, RefreshFails, List, Read, NotStarted, ReadFails
    <2>2. CASE List(a)
      BY <2>1, <2>2, ListStep DEF TypesInv
    <2>3. CASE Read(a)
      BY <2>1, <2>3, ReadStep DEF TypesInv
    <2>4. CASE NotStarted(a) \/ ReadFails(a)
      <3>1. /\ scan' = [scan EXCEPT ![a].stage = "done", ![a].list = None, ![a].batch = None]
            /\ UNCHANGED memory
        BY <2>4 DEF NotStarted, ReadFails, GiveUp
      <3>2. /\ scan = [b \in Agents |-> scan[b]] /\ ScanOK(a, scan[a], memory[a])
            /\ memory = [b \in Agents |-> memory[b]] /\ MemoryOK(a, memory[a])
        BY DEF TypesInv, ScansOK, MemoriesOK
      <3>3. /\ scan' = [scan EXCEPT ![a] = scan'[a]]
            /\ scan'[a] = [scan[a] EXCEPT !.stage = "done", !.list = None, !.batch = None]
        BY <3>1, <3>2
      <3>4. ScanOK(a, scan'[a], memory[a])
        <4>1. /\ scan'[a] = [field \in ScanFields |-> scan'[a][field]]
              /\ scan'[a].stage = "done" /\ scan'[a].batch = None
              /\ scan'[a].check = scan[a].check
          BY <2>1, <3>2, <3>3 DEF ScanOK, ScanFields
        <4> QED
          BY <2>1, <3>2, <4>1 DEF ScanOK
      <3> QED
        BY <2>1, <3>1, <3>2, <3>3, <3>4 DEF ScansOn
    <2> QED
      BY <2>2, <2>3, <2>4 DEF Refresh, RefreshFails
  <1>4. MemoriesOK'
    <2>1. memory' = [b \in Agents |-> memory'[b]] /\ \A b \in Agents : MemoryOK(b, memory'[b])
      BY <1>3 DEF ScansOn, TypesInv, MemoriesOK
    <2> QED
      BY <1>1, <2>1 DEF MemoriesOK, MemoryOK, PlanOK, Items, Stamps
  <1>5. ScansOK'
    <2>1. /\ scan' = [b \in Agents |-> scan'[b]]
          /\ \A b \in Agents : ScanOK(b, scan'[b], memory'[b])
      BY <1>3 DEF ScansOn, TypesInv, ScansOK, MemoriesOK
    <2> QED
      BY <1>1, <2>1
      DEF ScansOK, ScanOK, Ready, BatchOK, StateOK, CheckOK, PlanOK, Items, Stamps
  <1>6. LoopsOK'
    <2>1. \A b \in Agents : LoopOK(loop'[b], b, scan'[b])
      BY <1>1, <1>3 DEF ScansOn, TypesInv, ScansOK, LoopsOK, LoopOK
    <2> QED
      BY <1>1, <2>1 DEF LoopsOK, LoopOK, BatchOK, StateOK, CheckOK, Stamps
  <1> QED
    BY <1>2, <1>4, <1>5, <1>6 DEF TypesInv

LEMMA OtherStep ==
    ASSUME TypesInv,
           \/ UNCHANGED vars
           \/ \E a \in Agents : Watched(a) \/ Overflowed(a)
           \/ NewPrices \/ Pricing \/ Shutdown \/ AskStop
    PROVE  TypesInv'
  <1>1. UNCHANGED <<clock, files, root, cache, memory, scan, loop>>
    BY DEF vars, runtimeVars, scannerVars, sourceVars, Watched, Overflowed, Notify, NewPrices,
           Pricing, CheckPrices, ApplyPrices, AskReprice, Cancel, Tell, Shutdown, AskStop
  <1>2. SourcesOK' /\ MemoriesOK' /\ ScansOK' /\ RecordsOK' /\ LoopsOK'
    BY <1>1, Untouched
  <1>3. NewsOK'
    <2>1. ASSUME NEW a \in Agents, Watched(a) \/ Overflowed(a) PROVE NewsOK'
      <3>1. unseen' = [unseen EXCEPT ![a] = {}] /\ unseen[a] \subseteq SessionsOf(a)
        BY <2>1 DEF Watched, Overflowed, Notify, TypesInv, NewsOK
      <3>2. Invalidate(a, unseen[a]) \/ Invalidate(a, None)
        BY <2>1 DEF Watched, Overflowed, Notify
      <3> QED
        BY <3>1, <3>2, Told
    <2>2. ASSUME NEW a \in Agents, Tell(a) PROVE NewsOK'
      BY <2>2, Told DEF Tell
    <2>3. CASE UNCHANGED <<pending, unseen>>
      BY <1>1, <2>3, Untouched
    <2>4. CASE UNCHANGED vars \/ NewPrices \/ Shutdown \/ AskStop
      BY <2>3, <2>4 DEF vars, runtimeVars, NewPrices, Shutdown, AskStop
    <2>5. CASE Pricing
      BY <2>2, <2>3, <2>5 DEF Pricing, CheckPrices, ApplyPrices, AskReprice, Cancel
    <2> QED
      BY <2>1, <2>4, <2>5
  <1>4. QueueOK'
    <2>1. CASE UNCHANGED queue
      BY <1>1, <2>1, Untouched
    <2>2. CASE UNCHANGED vars \/ NewPrices \/ Shutdown
      BY <2>1, <2>2 DEF vars, runtimeVars, NewPrices, Shutdown
    <2>3. ASSUME NEW a \in Agents, Watched(a) \/ Overflowed(a) PROVE QueueOK'
      BY <2>1, <2>3 DEF Watched, Overflowed, Notify
    <2>4. CASE Pricing
      <3>1. ASSUME NEW then, AskReprice(then) PROVE QueueOK'
        <4> DEFINE command == [kind |-> "reprice", price |-> price, then |-> then]
        <4>1. CommandOK(command) /\ Room /\ Send(command)
          BY <3>1 DEF AskReprice, CommandOK
        <4> HIDE DEF command
        <4> QED
          BY <1>1, <4>1, Sent
      <3>2. ASSUME NEW a \in Agents, Cancel(a) \/ Tell(a) PROVE QueueOK'
        BY <2>1, <3>2 DEF Cancel, Tell
      <3> QED
        BY <2>4, <3>1, <3>2 DEF Pricing, CheckPrices, ApplyPrices
    <2>5. CASE AskStop
      <3> DEFINE command == [kind |-> "stop"]
      <3>1. CommandOK(command) /\ Room /\ Send(command)
        BY <2>5 DEF AskStop, CommandOK
      <3> HIDE DEF command
      <3> QED
        BY <1>1, <3>1, Sent
    <2> QED
      BY <2>2, <2>3, <2>4, <2>5
  <1> QED
    BY <1>2, <1>3, <1>4 DEF TypesInv

(* What a process starts with.                                             *)
LEMMA FreshOK ==
    ASSUME clock \in Nat, NEW a PROVE MemoryOK(a, Fresh(a))
  <1> DEFINE m == Fresh(a)
  <1>1. /\ m = [field \in MemoryFields |-> m[field]]
        /\ m.base = {} /\ m.durable = {} /\ m.plan = None
        /\ m.known = [s \in SessionsOf(a) |-> 0]
    BY DEF Fresh, MemoryFields
  <1> HIDE DEF m
  <1>2. m.known \in Stamps(a)
    BY <1>1 DEF Stamps
  <1>3. MemoryOK(a, m)
    BY <1>1, <1>2 DEF MemoryOK
  <1> QED
    BY <1>3 DEF m

LEMMA Begins ==
    ASSUME clock \in Nat, memory = [a \in Agents |-> Fresh(a)], scan = [a \in Agents |-> None],
           pending = [a \in Agents |-> NothingKnown], unseen = [a \in Agents |-> {}],
           loop = [a \in Agents |-> NewLoop], queue = <<>>
    PROVE  MemoriesOK /\ ScansOK /\ LoopsOK /\ NewsOK /\ QueueOK
  <1>1. MemoriesOK
    BY FreshOK DEF MemoriesOK
  <1>2. ScansOK
    BY DEF ScansOK, ScanOK
  <1>3. LoopsOK
    BY DEF LoopsOK, LoopOK, NewLoop, CheckOK
  <1>4. NewsOK
    BY DEF NewsOK, NothingKnown, NewsFields
  <1>5. QueueOK
    BY EmptySeq, RuntimeAssumption DEF RuntimeAssumption, QueueOK
  <1> QED
    BY <1>1, <1>2, <1>3, <1>4, <1>5

LEMMA TypesStep ==
    TypesInv /\ PermitsInv /\ [RuntimeNext]_vars => TypesInv'
  <1> SUFFICES ASSUME TypesInv, PermitsInv, [RuntimeNext]_vars PROVE TypesInv'
    OBVIOUS
  <1>1. ASSUME NEW s \in Sessions, Edit(s) \/ Delete(s) PROVE TypesInv'
    <2>1. AgentOf[s] \in Agents
      BY ScannerAssumption DEF ScannerAssumption
    <2> QED
      BY <1>1, <2>1, SourceStep
  <1>2. ASSUME NEW a \in Agents, Vanish(a) PROVE TypesInv'
    <2>1. CASE Sessions = {}
      <3>1. /\ UNCHANGED <<clock, memory, scan, cache, loop, queue, pending>>
            /\ files' = [t \in Sessions |-> IF AgentOf[t] = a THEN 0 ELSE files[t]]
            /\ root' = [root EXCEPT ![a] = FALSE]
            /\ unseen' = [unseen EXCEPT ![a] = @ \cup SessionsOf(a)]
        BY <1>2 DEF Vanish
      <3>2. SourcesOK' /\ NewsOK'
        BY <2>1, <3>1 DEF TypesInv, SourcesOK, NewsOK, Aged, SessionsOf
      <3>3. MemoriesOK' /\ ScansOK' /\ RecordsOK' /\ LoopsOK' /\ QueueOK'
        BY <3>1, Untouched
      <3> QED
        BY <3>2, <3>3 DEF TypesInv
    <2>2. CASE Sessions # {}
      BY <1>2, <2>2, SourceStep
    <2> QED
      BY <2>1, <2>2
  <1>3. ASSUME NEW a \in Agents, Round(a) \/ BeginFails(a) PROVE TypesInv'
    BY <1>3, LoopStep DEF PermitsInv
  <1>4. ASSUME NEW a \in Agents, Refresh(a) \/ RefreshFails(a) PROVE TypesInv'
    BY <1>4, ScannerStep
  <1>5. CASE Write \/ PublishFails \/ CommittedThenFails \/ RepriceFails
    BY <1>5, WriterStep
  <1>6. CASE \/ UNCHANGED vars
             \/ \E a \in Agents : Watched(a) \/ Overflowed(a)
             \/ NewPrices \/ Pricing \/ Shutdown \/ AskStop
    BY <1>6, OtherStep
  <1>7. CASE Restart
    <2>1. /\ UNCHANGED <<files, root, clock, cache>>
          /\ memory' = [a \in Agents |-> Fresh(a)] /\ scan' = [a \in Agents |-> None]
          /\ pending' = [a \in Agents |-> NothingKnown] /\ unseen' = [a \in Agents |-> {}]
          /\ loop' = [a \in Agents |-> NewLoop] /\ queue' = <<>>
      BY <1>7 DEF Restart, sourceVars
    <2>2. SourcesOK' /\ RecordsOK'
      BY <2>1, Untouched
    <2>3. clock' \in Nat
      BY <2>1 DEF TypesInv, SourcesOK
    <2>4. MemoriesOK'
      <3>1. \A a \in Agents : MemoryOK(a, memory'[a])
        BY <2>1, <2>3, FreshOK
      <3>2. memory' = [a \in Agents |-> memory'[a]]
        BY <2>1
      <3> QED
        BY <2>1, <3>1, <3>2 DEF MemoriesOK, MemoryOK, PlanOK, Items, Stamps
    <2>5. ScansOK' /\ LoopsOK' /\ NewsOK'
      BY <2>1
      DEF ScansOK, ScanOK, LoopsOK, LoopOK, NewLoop, CheckOK, NewsOK, NothingKnown, NewsFields
    <2>6. QueueOK'
      BY <2>1, EmptySeq, RuntimeAssumption DEF RuntimeAssumption, QueueOK
    <2> QED
      BY <2>2, <2>4, <2>5, <2>6 DEF TypesInv
  <1> QED
    BY <1>1, <1>2, <1>3, <1>4, <1>5, <1>6, <1>7 DEF RuntimeNext

LEMMA TypesInit ==
    ASSUME NEW initial \in [Sessions -> Nat], Aged(initial), RuntimeInit(initial)
    PROVE  TypesInv
  <1>1. files = initial /\ clock = Max({initial[s] : s \in Sessions} \cup {0})
    BY DEF RuntimeInit
  <1> DEFINE ages == {initial[s] : s \in Sessions} \cup {0}
  <1>2. clock \in ages /\ \A x \in ages : x <= clock
    <2>1. IsFiniteSet({initial[s] : s \in Sessions})
      <3>1. initial \in Surjection(Sessions, {initial[s] : s \in Sessions})
        BY DEF Surjection
      <3> QED
        BY <3>1, ScannerAssumption, FS_Surjection DEF ScannerAssumption
    <2>2. IsFiniteSet(ages) /\ ages \subseteq Int /\ ages # {}
      BY <2>1, FS_AddElement
    <2> HIDE DEF ages
    <2>3. Max(ages) \in ages /\ \A x \in ages : x <= Max(ages)
      BY <2>2, MaxIsGreatest
    <2> QED
      BY <1>1, <2>3 DEF ages
  <1>3. clock \in Nat
    BY <1>2
  <1>4. SourcesOK
    <2>1. files \in [Sessions -> 0 .. clock]
      BY <1>1, <1>2, <1>3
    <2> QED
      BY <1>1, <1>3, <2>1 DEF SourcesOK, RuntimeInit
  <1>5. RecordsOK
    <2>1. cache = [a \in Agents |-> NoCache(a)]
      BY DEF RuntimeInit
    <2>2. ASSUME NEW a \in Agents PROVE RecordOK(a, NoCache(a))
      BY <1>3 DEF RecordOK, GoodRecord, NoCache, StateOK, CheckOK, Stamps
    <2> QED
      BY <2>1, <2>2 DEF RecordsOK
  <1>6. MemoriesOK /\ ScansOK /\ LoopsOK /\ NewsOK /\ QueueOK
    BY <1>3, Begins DEF RuntimeInit, Booted
  <1> QED
    BY <1>4, <1>5, <1>6 DEF TypesInv

(* The runtime's state is as its types say, its channel never holds more   *)
(* than it can, and its lists name an agent at most once: for any number   *)
(* of agents and sessions, pages of any size, and whatever is edited,      *)
(* refused, repriced, cancelled, shut down or restarted in between.        *)
THEOREM RuntimeStateHolds == RuntimeSpec => []RuntimeStateOK
  <1> DEFINE Inv == TypesInv /\ PermitsInv /\ ListsHold
  <1>1. RuntimeInitially => Inv
    <2> SUFFICES ASSUME NEW initial \in [Sessions -> Nat], Aged(initial), RuntimeInit(initial)
                 PROVE  Inv
      BY DEF RuntimeInitially
    <2>1. ListsHold
      BY DEF RuntimeInit, Booted, NewStatus, ListsHold, BackfillDisjoint, StatusFields
    <2> QED
      BY <2>1, TypesInit, PermitsInit
  <1>2. Inv /\ [RuntimeNext]_vars => Inv'
    BY TypesStep, PermitsStep, ListsStep
  <1>3. Inv => RuntimeStateOK
    <2> SUFFICES ASSUME Inv PROVE RuntimeStateOK
      OBVIOUS
    <2>1. files \in [Sessions -> 0 .. clock] /\ root \in [Agents -> BOOLEAN]
      BY DEF TypesInv, SourcesOK
    <2>2. ASSUME NEW a \in Agents
          PROVE  /\ cache[a].stored \in [SessionsOf(a) -> 0 .. clock]
                 /\ memory[a].base \subseteq memory[a].durable
                 /\ memory[a].durable \subseteq SessionsOf(a)
                 /\ memory[a].known \in [SessionsOf(a) -> 0 .. clock]
                 /\ pending[a].paths # None => pending[a].paths \subseteq SessionsOf(a)
      BY DEF TypesInv, RecordsOK, RecordOK, MemoriesOK, MemoryOK, NewsOK, Stamps
    <2>3. \A a \in Agents : loop[a].pc \in Pcs
      BY DEF PermitsInv, LoopsHold, GoodLoop
    <2>4. Len(queue) <= QueueLimit /\ BackfillDisjoint
      BY DEF TypesInv, QueueOK, ListsHold
    <2> QED
      BY <2>1, <2>2, <2>3, <2>4 DEF RuntimeStateOK, RuntimeTypeOK, Pcs
  <1> QED
    BY <1>1, <1>2, <1>3, PTL DEF RuntimeSpec
=============================================================================
