--------------------------- MODULE ScanningProofs ---------------------------
(***************************************************************************)
(* Collection on a Worker is honest: what a round records, it has queued,  *)
(* and no agent is recorded as complete that still owes a session, for any *)
(* agents, sessions and contents and every interleaving of edits, page     *)
(* reads, rescans, recoveries, pauses, failures and restarts.              *)
(***************************************************************************)
EXTENDS Scanning, WorkerStoreProofs

(* What is left of a round, and the scan on the blocking thread.           *)
Rounds == UNION {[S -> Captures] : S \in SUBSET Sessions}
Scans == [index : DOMAIN SourceList, current : BOOLEAN, left : Rounds,
          page : [session : Sessions, capture : Captures, fingerprint : Captures] \cup {None}]
LoopTypeOK ==
    /\ changed \in [Agents -> BOOLEAN] /\ again \in [Agents -> BOOLEAN]
    /\ cursor \in DOMAIN SourceList /\ paused \in BOOLEAN
    /\ source \in [Sessions -> Captures \cup {None}]
    /\ round \in [Agents -> Rounds \cup {None}]
    /\ scan \in Scans \cup {None}

(* What a round still reads, and what is being read, is of its agent and   *)
(* exists.                                                                 *)
OfAgent(f, a) == \A s \in DOMAIN f : AgentOf[s] = a /\ source[s] # None
RoundsAreOwn ==
    /\ \A a \in Agents : round[a] # None => OfAgent(round[a], a)
    /\ scan # None => /\ OfAgent(scan.left, SourceList[scan.index])
                      /\ scan.page # None =>
                            /\ AgentOf[scan.page.session] = SourceList[scan.index]
                            /\ source[scan.page.session] # None

(* Whatever was sent was collected, so its file exists.                    *)
SentExists == \A s \in Sessions : sent[s] # None => source[s] # None

(* What is to be sent again is still to be read: a round that began before *)
(* a rescan is given up with its scan, and a later one lists it.           *)
Owed(a) == {s \in SessionsOf(a) : sent[s] = Cleared}
Reads == (IF scan.page = None THEN {} ELSE {scan.page.session}) \cup DOMAIN scan.left
RoundsCover ==
    /\ \A a \in Agents : round[a] # None => Owed(a) \subseteq DOMAIN round[a]
    /\ scan # None /\ scan.current => Owed(SourceList[scan.index]) \subseteq Reads

ScanInv ==
    /\ IInv /\ LoopTypeOK /\ RoundsAreOwn /\ SentExists /\ RoundsCover
    /\ ClearedMeansUnfinished /\ KnownMeansSent

----------------------------------------------------------------------------
(* The store is used through its operations only.                          *)

(* Every step of collection is a call of the store or leaves it alone.     *)
LEMMA ScanStepsAreCalls ==
    ASSUME LoopTypeOK, RoundsAreOwn, [ScanNext]_<<workerVars, scanVars>>
    PROVE  [WorkerNext]_workerVars
<1>1. CASE Tick
  <2>1. CASE SavePage
    <3> DEFINE a == SourceList[scan.index]
    <3>1. scan \in Scans /\ a \in Agents
      BY <2>1, SourceListAssumption DEF SavePage, LoopTypeOK, Scans
    <3>2. scan.page \in Pages(a) \cup {None}
      BY <2>1, <3>1, SourceListAssumption DEF SavePage, Scans, Pages, RoundsAreOwn
    <3>3. \E n \in ChunkCounts : SaveBatch(a, scan.page, n, scan.left = <<>>)
      BY <2>1 DEF SavePage
    <3>4. (scan.left = <<>>) \in BOOLEAN
      OBVIOUS
    <3> QED
      BY <3>1, <3>2, <3>3, <3>4 DEF WorkerNext, AnyBatch
  <2>2. CASE ~SavePage
    BY <1>1, <2>2 DEF Tick, StartScan, DropPage, TickPaused
  <2> QED
    BY <2>1, <2>2
<1>2. CASE FailPage \/ Restarted
  BY <1>2 DEF FailPage, Restarted
<1>3. CASE EndRecovery
  BY <1>3 DEF EndRecovery, WorkerNext
<1>4. CASE Paused \/ Resumed
  BY <1>4 DEF Paused, Resumed, WorkerNext, AnyPause
<1>5. ASSUME NEW s \in Sessions, NEW c \in Captures, Edit(s, c)
      PROVE  UNCHANGED workerVars
  BY <1>5 DEF Edit
<1>6. ASSUME NEW id \in TaskIds, NEW agents \in SUBSET Agents, Instructed(id, agents)
      PROVE  WorkerNext
  BY <1>6 DEF Instructed, WorkerNext, AnyRescan
<1>7. ASSUME NEW e \in Epochs, Recovered(e)
      PROVE  WorkerNext
  BY <1>7 DEF Recovered, WorkerNext, AnyRecovery
<1> QED
  BY <1>1, <1>2, <1>3, <1>4, <1>5, <1>6, <1>7 DEF ScanNext

----------------------------------------------------------------------------
(* Rounds.                                                                 *)

(* An empty round has nothing left.                                        *)
LEMMA EmptyRound ==
    ASSUME NEW left, left = <<>>
    PROVE  DOMAIN left = {}
OBVIOUS

(* An inventory lists what its agent has and worker.db does not know, and  *)
(* that covers all that is owed.                                           *)
LEMMA InventoryCovers ==
    ASSUME ScanInv, NEW a \in Agents
    PROVE  Inventory(a) \in Rounds /\ OfAgent(Inventory(a), a)
           /\ Owed(a) \subseteq DOMAIN Inventory(a)
<1> DEFINE stale == {s \in SessionsOf(a) : source[s] # None /\ source[s] # Known(sources[a], s)}
<1>1. Inventory(a) = [s \in stale |-> source[s]]
  BY DEF Inventory
<1>2. /\ source \in [Sessions -> Captures \cup {None}]
      /\ stale \subseteq Sessions /\ \A s \in stale : AgentOf[s] = a /\ source[s] # None
  BY DEF ScanInv, LoopTypeOK, SessionsOf
<1>3. \A s \in Owed(a) : s \in stale
  <2>1. SUFFICES ASSUME NEW s \in Owed(a) PROVE s \in stale
    OBVIOUS
  <2>2. s \in Sessions /\ AgentOf[s] = a /\ sent[s] = Cleared
    BY DEF Owed, SessionsOf
  <2>3. Known(sources[a], s) = None
    BY <2>2, WorkerAssumption DEF ScanInv, KnownMeansSent
  <2>4. source[s] # None
    BY <2>2, WorkerAssumption DEF ScanInv, SentExists
  <2> QED
    BY <2>2, <2>3, <2>4 DEF SessionsOf
<1> HIDE DEF stale
<1>4. Inventory(a) \in [stale -> Captures] /\ DOMAIN Inventory(a) = stale
  BY <1>1, <1>2
<1> QED
  BY <1>2, <1>3, <1>4 DEF Rounds, OfAgent

(* So does whatever is left of a round.                                    *)
LEMMA LeftCovers ==
    ASSUME ScanInv, NEW a \in Agents
    PROVE  Left(a) \in Rounds /\ OfAgent(Left(a), a) /\ Owed(a) \subseteq DOMAIN Left(a)
BY InventoryCovers DEF Left, ScanInv, LoopTypeOK, RoundsAreOwn, RoundsCover

(* Taking a session out of a round.                                        *)
LEMMA RestOfRound ==
    ASSUME NEW f \in Rounds, NEW s \in DOMAIN f
    PROVE  /\ s \in Sessions /\ f[s] \in Captures
           /\ [r \in DOMAIN f \ {s} |-> f[r]] \in Rounds
           /\ DOMAIN [r \in DOMAIN f \ {s} |-> f[r]] = DOMAIN f \ {s}
<1>1. PICK S \in SUBSET Sessions : f \in [S -> Captures]
  BY DEF Rounds
<1>2. [r \in DOMAIN f \ {s} |-> f[r]] \in [S \ {s} -> Captures]
  BY <1>1
<1> QED
  BY <1>1, <1>2 DEF Rounds

----------------------------------------------------------------------------
(* The steps.                                                              *)

(* What a step must leave alone for the store's half to stand, and what    *)
(* may change of the loop: files grow, rounds and scans are given up.      *)
Forgets ==
    /\ \A s \in Sessions : source[s] # None => source'[s] # None
    /\ \A a \in Agents : round'[a] \in {None, round[a]}
    /\ \/ scan' = None
       \/ scan # None /\ scan' = scan
       \/ scan # None /\ scan' = [scan EXCEPT !.current = FALSE]

(* Steps that leave what was sent and recorded alone keep the invariant.   *)
LEMMA ForgettingStays ==
    ASSUME ScanInv, IInv', LoopTypeOK', Forgets, UNCHANGED <<sent, sources>>
    PROVE  ScanInv'
<1>1. /\ scan \in Scans \cup {None} /\ scan' \in Scans \cup {None}
      /\ RoundsAreOwn /\ SentExists /\ RoundsCover /\ ClearedMeansUnfinished /\ KnownMeansSent
  BY DEF ScanInv, LoopTypeOK
<1>2. scan' # None => /\ scan # None /\ scan'.index = scan.index /\ scan'.left = scan.left
                      /\ scan'.page = scan.page /\ (scan'.current => scan.current)
  BY <1>1 DEF Forgets, Scans
<1>3. \A a \in Agents : Owed(a)' = Owed(a)
  BY DEF Owed
<1>4. RoundsAreOwn'
  <2>1. \A f, a : f \in Rounds /\ OfAgent(f, a) => OfAgent(f, a)'
    BY DEF OfAgent, Rounds, Forgets
  <2>2. \A a \in Agents : round[a] \in Rounds \cup {None}
    BY DEF ScanInv, LoopTypeOK
  <2>3. scan # None => scan.left \in Rounds
    BY <1>1 DEF Scans
  <2>4. \A a \in Agents : round'[a] # None => round'[a] = round[a]
    BY DEF Forgets
  <2>5. (\A a \in Agents : round[a] # None => OfAgent(round[a], a))'
    BY <1>1, <2>1, <2>2, <2>4 DEF RoundsAreOwn
  <2>6. (scan # None => OfAgent(scan.left, SourceList[scan.index]))'
    BY <1>1, <1>2, <2>1, <2>3 DEF RoundsAreOwn
  <2>7. (scan # None /\ scan.page # None =>
            /\ AgentOf[scan.page.session] = SourceList[scan.index]
            /\ source[scan.page.session] # None)'
    BY <1>1, <1>2 DEF RoundsAreOwn, Scans, Forgets
  <2> QED
    BY <2>5, <2>6, <2>7 DEF RoundsAreOwn
<1>5. SentExists'
  BY <1>1 DEF SentExists, Forgets
<1>6. RoundsCover'
  <2>1. scan' # None => Reads' = Reads
    BY <1>2 DEF Reads
  <2>2. scan # None => SourceList[scan.index] \in Agents
    BY <1>1, SourceListAssumption DEF Scans
  <2> QED
    BY <1>1, <1>2, <1>3, <2>1, <2>2 DEF RoundsCover, Forgets
<1>7. ClearedMeansUnfinished' /\ KnownMeansSent'
  BY <1>1 DEF ClearedMeansUnfinished, KnownMeansSent
<1> QED
  BY <1>4, <1>5, <1>6, <1>7 DEF ScanInv

(* A scan begins with a page of what is left, or with nothing left.        *)
Begun(i, s) ==
    [index |-> i, current |-> TRUE,
     page |-> [session |-> s, capture |-> source[s], fingerprint |-> Left(SourceList[i])[s]],
     left |-> [r \in DOMAIN Left(SourceList[i]) \ {s} |-> Left(SourceList[i])[r]]]

LEMMA StartedType ==
    ASSUME ScanInv, NEW i \in DOMAIN SourceList, StartScan(i)
    PROVE  /\ scan' \in Scans
           /\ \/ /\ Left(SourceList[i]) = <<>>
                 /\ scan' = [index |-> i, page |-> None, left |-> <<>>, current |-> TRUE]
              \/ \E s \in DOMAIN Left(SourceList[i]) : scan' = Begun(i, s) /\ scan'.page # None
<1> DEFINE left == Left(SourceList[i])
<1>1. left \in Rounds /\ OfAgent(left, SourceList[i])
  BY SourceListAssumption, LeftCovers
<1>2. CASE left = <<>>
           /\ scan' = [index |-> i, page |-> None, left |-> <<>>, current |-> TRUE]
  <2>1. <<>> \in Rounds
    BY <1>1, <1>2
  <2> QED
    BY <1>2, <2>1 DEF Scans
<1>3. ASSUME NEW s \in DOMAIN left, scan' = Begun(i, s)
      PROVE  scan' \in Scans /\ scan'.page # None
  <2> DEFINE page == [session |-> s, capture |-> source[s], fingerprint |-> left[s]]
             rest == [r \in DOMAIN left \ {s} |-> left[r]]
  <2>1. source[s] \in Captures
    BY <1>1, <1>3, RestOfRound DEF OfAgent, ScanInv, LoopTypeOK
  <2>2. page \in [session : Sessions, capture : Captures, fingerprint : Captures]
    BY <1>1, <2>1, RestOfRound
  <2>3. rest \in Rounds
    BY <1>1, RestOfRound
  <2>4. scan' = [index |-> i, current |-> TRUE, page |-> page, left |-> rest]
    BY <1>3 DEF Begun
  <2> HIDE DEF page, rest
  <2> QED
    BY <2>2, <2>3, <2>4, NoPageIsNone DEF Scans
<1> QED
  BY <1>2, <1>3 DEF StartScan, Begun

(* A reset, or a pause, keeps the types of the loop.                       *)
LEMMA LoopTypeReset ==
    ASSUME LoopTypeOK, UNCHANGED source, paused' \in BOOLEAN,
           ResetScanning \/ UNCHANGED <<changed, again, round, scan, cursor>>
    PROVE  LoopTypeOK'
<1>1. 1 \in DOMAIN SourceList
  BY SourceListAssumption, WorkerAssumption
<1>2. CASE ResetScanning
  <2>1. scan' \in Scans \cup {None}
    BY <1>2 DEF LoopTypeOK, ResetScanning, Scans
  <2> QED
    BY <1>1, <1>2, <2>1 DEF ResetScanning, LoopTypeOK
<1>3. CASE UNCHANGED <<changed, again, round, scan, cursor>>
  BY <1>3 DEF LoopTypeOK
<1> QED
  BY <1>2, <1>3

(* The types of the loop.                                                  *)
LEMMA LoopTypeStays ==
    ASSUME ScanInv, ScanNext
    PROVE  LoopTypeOK'
<1>0. LoopTypeOK /\ scan \in Scans \cup {None}
  BY DEF ScanInv, LoopTypeOK
<1>1. /\ \A i \in DOMAIN SourceList : SourceList[i] \in Agents
      /\ Len(SourceList) \in Nat /\ DOMAIN SourceList = 1 .. Len(SourceList)
      /\ Len(SourceList) > 0
  BY SourceListAssumption, WorkerAssumption
<1>2. ASSUME NEW i \in DOMAIN SourceList
      PROVE  (i % Len(SourceList)) + 1 \in DOMAIN SourceList
  BY <1>1, <1>2
<1>3. 1 \in DOMAIN SourceList
  BY <1>1
<1>4. ASSUME ResetScanning, UNCHANGED source, paused' \in BOOLEAN
      PROVE  LoopTypeOK'
  BY <1>0, <1>4, LoopTypeReset
<1>5. CASE Tick
  <2>1. ASSUME NEW i \in DOMAIN SourceList, StartScan(i)
        PROVE  LoopTypeOK'
    BY <1>0, <2>1, StartedType DEF StartScan, LoopTypeOK
  <2>2. CASE SavePage
    <3>1. scan \in Scans /\ scan.index \in DOMAIN SourceList /\ scan.left \in Rounds
      BY <1>0, <2>2 DEF SavePage, Scans
    <3> QED
      BY <1>0, <1>2, <2>2, <3>1 DEF SavePage, Finish, LoopTypeOK
  <2>3. CASE DropPage
    BY <1>0, <2>3 DEF DropPage, LoopTypeOK
  <2>4. CASE TickPaused
    BY <1>0, <1>4, <2>4 DEF TickPaused, LoopTypeOK
  <2> QED
    BY <1>5, <2>1, <2>2, <2>3, <2>4 DEF Tick
<1>6. CASE FailPage
  <2>1. scan \in Scans /\ scan.index \in DOMAIN SourceList
    BY <1>0, <1>6 DEF FailPage, Scans
  <2> QED
    BY <1>0, <1>2, <1>6, <2>1 DEF FailPage, Finish, LoopTypeOK
<1>7. CASE EndRecovery
  BY <1>0, <1>7 DEF EndRecovery, scanVars, LoopTypeOK
<1>8. CASE Paused \/ Resumed
  BY <1>0, <1>8 DEF Paused, Resumed, LoopTypeOK
<1>9. CASE Restarted
  <2>1. paused' \in BOOLEAN
    BY <1>9 DEF Restarted, RestartScanning, ScanInv, IInv, TablesOK
  <2> QED
    BY <1>0, <1>3, <1>9, <2>1 DEF Restarted, RestartScanning, LoopTypeOK
<1>10. ASSUME NEW s \in Sessions, NEW c \in Captures, Edit(s, c)
       PROVE  LoopTypeOK'
  BY <1>0, <1>10 DEF Edit, LoopTypeOK
<1>11. ASSUME NEW id \in TaskIds, NEW agents \in SUBSET Agents, Instructed(id, agents)
       PROVE  LoopTypeOK'
  BY <1>0, <1>4, <1>11 DEF Instructed, LoopTypeOK
<1>12. ASSUME NEW e \in Epochs, Recovered(e)
       PROVE  LoopTypeOK'
  BY <1>4, <1>12 DEF Recovered
<1> QED
  BY <1>5, <1>6, <1>7, <1>8, <1>9, <1>10, <1>11, <1>12 DEF ScanNext

(* A page is begun: it and what is left of its round cover what is owed.   *)
LEMMA StartedScan ==
    ASSUME ScanInv, IInv', LoopTypeOK', NEW i \in DOMAIN SourceList, StartScan(i)
    PROVE  ScanInv'
<1> DEFINE a == SourceList[i]
<1>1. /\ a \in Agents /\ Left(a) \in Rounds /\ OfAgent(Left(a), a)
      /\ Owed(a) \subseteq DOMAIN Left(a)
  BY SourceListAssumption, LeftCovers
<1>2. UNCHANGED <<source, round, sent, sources>>
  BY DEF StartScan, workerVars, sessionVars
<1>3. /\ scan'.index = i /\ scan'.left \in Rounds
      /\ DOMAIN scan'.left \subseteq DOMAIN Left(a)
      /\ scan'.page # None => scan'.page.session \in DOMAIN Left(a)
      /\ DOMAIN Left(a) \subseteq Reads'
  <2>1. ASSUME Left(a) = <<>>,
               scan' = [index |-> i, page |-> None, left |-> <<>>, current |-> TRUE]
        PROVE  /\ scan'.index = i /\ scan'.page = None
               /\ DOMAIN scan'.left = {} /\ DOMAIN Left(a) = {} /\ scan'.left \in Rounds
    BY <1>1, <2>1, EmptyRound
  <2>2. ASSUME NEW s \in DOMAIN Left(a), scan' = Begun(i, s), scan'.page # None
        PROVE  /\ scan'.index = i /\ scan'.page.session = s
               /\ DOMAIN scan'.left = DOMAIN Left(a) \ {s} /\ scan'.left \in Rounds
    BY <1>1, <2>2, RestOfRound DEF Begun
  <2> QED
    BY <2>1, <2>2, StartedType DEF Reads
<1> HIDE DEF a
<1>4. ScanInv /\ \A b \in Agents : Owed(b)' = Owed(b)
  BY <1>2 DEF Owed
<1>5. RoundsAreOwn'
  BY <1>1, <1>2, <1>3, <1>4 DEF RoundsAreOwn, OfAgent, ScanInv, a
<1>6. RoundsCover'
  BY <1>1, <1>2, <1>3, <1>4 DEF RoundsCover, ScanInv, a
<1> QED
  BY <1>2, <1>4, <1>5, <1>6
  DEF ScanInv, SentExists, ClearedMeansUnfinished, KnownMeansSent

(* A page is saved: what it held is queued and recorded, and the agent is  *)
(* complete only if nothing is left, hence nothing owed.                   *)
LEMMA SavedPage ==
    ASSUME ScanInv, IInv', LoopTypeOK', SavePage
    PROVE  ScanInv'
<1> DEFINE a == SourceList[scan.index]
           page == scan.page
           complete == scan.left = <<>>
<1>1. /\ a \in Agents /\ scan \in Scans /\ scan.left \in Rounds /\ scan.current /\ scan # None
      /\ OfAgent(scan.left, a) /\ Owed(a) \subseteq Reads
      /\ page # None => page.session \in Sessions /\ page.capture \in Captures
                        /\ page.fingerprint \in Captures /\ AgentOf[page.session] = a
                        /\ source[page.session] # None
  BY SourceListAssumption DEF SavePage, ScanInv, LoopTypeOK, Scans, RoundsAreOwn, RoundsCover
<1>2. /\ scan' = None /\ UNCHANGED source
      /\ round' = [round EXCEPT ![a] = IF complete THEN None ELSE scan.left]
  BY DEF SavePage, Finish
<1>3. /\ sources' = [sources EXCEPT ![a] =
                       [known |-> IF page = None THEN @.known
                                  ELSE WithKnown(@.known, page.session, page.fingerprint),
                        complete |-> complete]]
      /\ sent' = IF page = None THEN sent ELSE [sent EXCEPT ![page.session] = page.capture]
  BY DEF SavePage, SaveBatch, SaveSession
<1>4. ASSUME complete
      PROVE  \A s \in Owed(a) : page # None /\ s = page.session
  <2>1. DOMAIN scan.left = {}
    BY <1>4, EmptyRound
  <2> QED
    BY <1>1, <2>1 DEF Reads
<1>5. ASSUME NEW s \in Sessions
      PROVE  /\ sent'[s] = IF page # None /\ s = page.session THEN page.capture ELSE sent[s]
             /\ sources'[AgentOf[s]].complete =
                  IF AgentOf[s] = a THEN complete ELSE sources[AgentOf[s]].complete
             /\ Known(sources'[AgentOf[s]], s) =
                  IF page # None /\ s = page.session THEN page.fingerprint
                  ELSE Known(sources[AgentOf[s]], s)
  <2>0. /\ sources \in [Agents -> SourceStates]
        /\ sent \in [Sessions -> Captures \cup {None, Cleared}]
        /\ AgentOf[s] \in Agents
    BY AgentAssumption DEF ScanInv, IInv, TablesOK
  <2>1. sent'[s] = IF page # None /\ s = page.session THEN page.capture ELSE sent[s]
    BY <1>1, <1>3, <2>0
  <2>2. CASE AgentOf[s] # a
    <3>1. sources'[AgentOf[s]] = sources[AgentOf[s]]
      BY <1>1, <1>3, <2>0, <2>2
    <3> QED
      BY <1>1, <2>1, <2>2, <3>1
  <2>3. CASE AgentOf[s] = a /\ page = None
    <3>1. sources'[a] = [known |-> sources[a].known, complete |-> complete]
      BY <1>1, <1>3, <2>0, <2>3
    <3> QED
      BY <2>1, <2>3, <3>1 DEF Known
  <2>4. CASE AgentOf[s] = a /\ page # None
    <3> DEFINE known == WithKnown(sources[a].known, page.session, page.fingerprint)
    <3>1. sources'[a] = [known |-> known, complete |-> complete]
      BY <1>1, <1>3, <2>0, <2>4
    <3>2. /\ DOMAIN known = DOMAIN sources[a].known \cup {page.session}
          /\ s \in DOMAIN known =>
                known[s] = IF s = page.session THEN page.fingerprint ELSE sources[a].known[s]
      BY DEF WithKnown
    <3> HIDE DEF known
    <3> QED
      BY <2>1, <2>4, <3>1, <3>2 DEF Known
  <2> QED
    BY <2>2, <2>3, <2>4
<1>6. ScanInv /\ ClearedMeansUnfinished /\ KnownMeansSent /\ SentExists /\ RoundsAreOwn
      /\ RoundsCover
  BY DEF ScanInv
<1> HIDE DEF a, page, complete
<1>7. ClearedMeansUnfinished'
  <2>1. ASSUME NEW s \in Sessions, sent'[s] = Cleared
        PROVE  ~sources'[AgentOf[s]].complete
    <3>1. ~(page # None /\ s = page.session) /\ sent[s] = Cleared
      BY <1>1, <1>5, <2>1, WorkerAssumption
    <3>2. AgentOf[s] = a => s \in Owed(a)
      BY <3>1 DEF Owed, SessionsOf
    <3> QED
      BY <1>4, <1>5, <1>6, <3>1, <3>2 DEF ClearedMeansUnfinished
  <2> QED
    BY <2>1 DEF ClearedMeansUnfinished
<1>8. KnownMeansSent'
  BY <1>1, <1>5, <1>6 DEF KnownMeansSent
<1>9. SentExists'
  BY <1>1, <1>2, <1>5, <1>6 DEF SentExists
<1>10. /\ \A b \in Agents : round'[b] # None =>
             (b = a /\ round'[b] = scan.left) \/ (b # a /\ round'[b] = round[b])
       /\ \A b \in Agents : \A s \in Owed(b)' : s \in Owed(b)
             /\ ~(page # None /\ s = page.session)
  <2>1. round \in [Agents -> Rounds \cup {None}]
    BY <1>6 DEF ScanInv, LoopTypeOK
  <2>2. \A b \in Agents : \A s \in Owed(b)' : s \in Owed(b)
             /\ ~(page # None /\ s = page.session)
    BY <1>1, <1>5, WorkerAssumption DEF Owed, SessionsOf
  <2>3. ASSUME NEW b \in Agents, round'[b] # None
        PROVE  (b = a /\ round'[b] = scan.left) \/ (b # a /\ round'[b] = round[b])
    <3>1. CASE b = a
      <4>1. round'[a] \in {None, scan.left}
        <5>1. round' = [round EXCEPT ![a] = None] \/ round' = [round EXCEPT ![a] = scan.left]
          BY <1>2
        <5> QED
          BY <1>1, <2>1, <5>1
      <4> QED
        BY <2>3, <3>1, <4>1
    <3>2. CASE b # a
      BY <1>1, <1>2, <2>1, <3>2
    <3> QED
      BY <3>1, <3>2
  <2> QED
    BY <2>2, <2>3
<1>11. RoundsAreOwn'
  <2>1. \A b \in Agents : round'[b] # None => OfAgent(round'[b], b)
    BY <1>1, <1>6, <1>10 DEF RoundsAreOwn
  <2> QED
    BY <1>2, <2>1 DEF RoundsAreOwn, OfAgent
<1>12. RoundsCover'
  <2>1. ASSUME NEW b \in Agents, b = a, NEW s \in Owed(b)'
        PROVE  s \in DOMAIN scan.left
    <3>1. s \in Reads /\ ~(scan.page # None /\ s = scan.page.session)
      BY <1>1, <1>10, <2>1 DEF page
    <3> QED
      BY <3>1 DEF Reads
  <2> QED
    BY <1>2, <1>6, <1>10, <2>1 DEF RoundsCover
<1> QED
  BY <1>7, <1>8, <1>9, <1>11, <1>12 DEF ScanInv

(* A rescan is begun: everything in scope is owed, and no round or scan of *)
(* before goes on.                                                         *)
LEMMA InstructedStays ==
    ASSUME ScanInv, IInv', LoopTypeOK', NEW agents, Forget(agents), UNCHANGED source,
           IF Unavailable(agents) = {} THEN ResetScanning
           ELSE UNCHANGED <<changed, again, round, scan, cursor>>
    PROVE  ScanInv'
<1>0. /\ sources \in [Agents -> SourceStates]
      /\ sent \in [Sessions -> Captures \cup {None, Cleared}]
      /\ \A s \in Sessions : AgentOf[s] \in Agents
      /\ round \in [Agents -> Rounds \cup {None}] /\ scan \in Scans \cup {None}
      /\ RoundsAreOwn /\ SentExists /\ ClearedMeansUnfinished /\ KnownMeansSent
  BY AgentAssumption DEF ScanInv, IInv, TablesOK, LoopTypeOK
<1>1. CASE Unavailable(agents) # {}
  <2>1. UNCHANGED <<source, round, scan, sent, sources>>
    BY <1>1 DEF Forget, sessionVars
  <2>2. Forgets
    BY <2>1 DEF Forgets
  <2> QED
    BY <2>1, <2>2, ForgettingStays
<1>2. CASE Unavailable(agents) = {}
  <2>1. /\ UNCHANGED source /\ ResetScanning
        /\ sources' = [a \in Agents |-> IF a \in Scope(agents) THEN NoSource ELSE sources[a]]
        /\ sent' = [s \in Sessions |-> IF AgentOf[s] \in Scope(agents) /\ sent[s] # None
                                       THEN Cleared ELSE sent[s]]
    BY <1>2 DEF Forget
  <2>2. ASSUME NEW s \in Sessions
        PROVE  /\ AgentOf[s] \in Scope(agents) =>
                    /\ sources'[AgentOf[s]].complete = FALSE
                    /\ Known(sources'[AgentOf[s]], s) = None
               /\ AgentOf[s] \notin Scope(agents) =>
                    sources'[AgentOf[s]] = sources[AgentOf[s]] /\ sent'[s] = sent[s]
               /\ sent'[s] # None => sent[s] # None
    BY <1>0, <2>1 DEF NoSource, Known
  <2>3. ClearedMeansUnfinished'
    BY <1>0, <2>2 DEF ClearedMeansUnfinished
  <2>4. KnownMeansSent'
    BY <1>0, <2>2 DEF KnownMeansSent
  <2>5. SentExists'
    BY <1>0, <2>1, <2>2 DEF SentExists
  <2>6. /\ \A a \in Agents : round'[a] = None
        /\ scan' # None => /\ scan # None /\ scan'.left = scan.left /\ scan'.page = scan.page
                           /\ scan'.index = scan.index /\ scan'.current = FALSE
    BY <1>0, <2>1 DEF ResetScanning, Scans
  <2>7. RoundsAreOwn'
    BY <1>0, <2>1, <2>6 DEF RoundsAreOwn, OfAgent
  <2>8. RoundsCover'
    BY <2>6 DEF RoundsCover
  <2> QED
    BY <2>3, <2>4, <2>5, <2>7, <2>8 DEF ScanInv
<1> QED
  BY <1>1, <1>2

(* A reset gives every round up, and a scan that runs will be dropped.     *)
LEMMA ResetForgets ==
    ASSUME LoopTypeOK, ResetScanning, UNCHANGED source
    PROVE  Forgets
BY DEF LoopTypeOK, ResetScanning, Forgets

(* Every step keeps the invariant.                                         *)
LEMMA ScanStays ==
    ASSUME ScanInv, [ScanNext]_<<workerVars, scanVars>>
    PROVE  ScanInv'
<1>0. IInv /\ LoopTypeOK /\ RoundsAreOwn /\ scan \in Scans \cup {None}
      /\ round \in [Agents -> Rounds \cup {None}]
      /\ source \in [Sessions -> Captures \cup {None}]
      /\ SourceList \in Seq(Agents)
  BY SourceListAssumption DEF ScanInv, LoopTypeOK
<1>1. IInv'
  BY <1>0, ScanStepsAreCalls, StepInvariant
<1>2. LoopTypeOK'
  BY <1>0, LoopTypeStays DEF LoopTypeOK, scanVars
<1>3. ASSUME Forgets, UNCHANGED <<sent, sources>>
      PROVE  ScanInv'
  BY <1>1, <1>2, <1>3, ForgettingStays
<1>4. CASE Tick
  <2>1. CASE \E i \in DOMAIN SourceList : StartScan(i)
    BY <1>1, <1>2, <2>1, StartedScan
  <2>2. CASE SavePage
    BY <1>1, <1>2, <2>2, SavedPage
  <2>3. CASE DropPage
    BY <1>3, <2>3 DEF DropPage, Forgets, workerVars, sessionVars
  <2>4. CASE TickPaused
    BY <1>0, <1>3, <2>4, ResetForgets DEF TickPaused, workerVars, sessionVars
  <2> QED
    BY <1>4, <2>1, <2>2, <2>3, <2>4 DEF Tick
<1>5. CASE FailPage
  <2>1. Forgets
    BY <1>0, <1>5 DEF FailPage, Finish, Forgets
  <2> QED
    BY <1>3, <1>5, <2>1 DEF FailPage, workerVars, sessionVars
<1>6. CASE EndRecovery
  BY <1>3, <1>6 DEF EndRecovery, FinishRecovery, Forgets, scanVars, sessionVars
<1>7. CASE Paused \/ Resumed
  BY <1>3, <1>7 DEF Paused, Resumed, SetPause, Forgets, sessionVars
<1>8. CASE Restarted
  BY <1>0, <1>3, <1>8 DEF Restarted, RestartScanning, Forgets, workerVars, sessionVars
<1>9. ASSUME NEW s \in Sessions, NEW c \in Captures, Edit(s, c)
      PROVE  ScanInv'
  <2>1. Forgets
    BY <1>0, <1>9, CaptureAssumption DEF Edit, Forgets
  <2> QED
    BY <1>3, <1>9, <2>1 DEF Edit, workerVars, sessionVars
<1>10. ASSUME NEW id \in TaskIds, NEW agents \in SUBSET Agents, Instructed(id, agents)
       PROVE  ScanInv'
  BY <1>1, <1>2, <1>10, InstructedStays DEF Instructed, BeginRescan
<1>11. ASSUME NEW e \in Epochs, Recovered(e)
       PROVE  ScanInv'
  <2>1. UNCHANGED <<sent, sources>>
    BY <1>11 DEF Recovered, PrepareRecovery, workerVars, sessionVars
  <2> QED
    BY <1>0, <1>3, <1>11, <2>1, ResetForgets DEF Recovered
<1>12. CASE UNCHANGED <<workerVars, scanVars>>
  BY <1>3, <1>12 DEF Forgets, workerVars, scanVars, sessionVars
<1> QED
  BY <1>4, <1>5, <1>6, <1>7, <1>8, <1>9, <1>10, <1>11, <1>12 DEF ScanNext

(* Nothing is sent and nothing is read when the store is new.              *)
LEMMA ScanBegins == WorkerInit(0) /\ ScanInit => ScanInv
<1> SUFFICES ASSUME WorkerInit(0), ScanInit PROVE ScanInv
  OBVIOUS
<1>1. IInv
  BY InitInvariant
<1>2. Len(SourceList) \in Nat /\ Len(SourceList) > 0 /\ DOMAIN SourceList = 1 .. Len(SourceList)
  BY SourceListAssumption, WorkerAssumption
<1>3. LoopTypeOK
  <2>1. cursor \in DOMAIN SourceList
    BY <1>2 DEF ScanInit
  <2>2. changed \in [Agents -> BOOLEAN] /\ again \in [Agents -> BOOLEAN] /\ paused \in BOOLEAN
    BY DEF ScanInit
  <2>3. /\ source \in [Sessions -> Captures \cup {None}]
        /\ round \in [Agents -> Rounds \cup {None}] /\ scan \in Scans \cup {None}
    BY DEF ScanInit
  <2> QED
    BY <2>1, <2>2, <2>3 DEF LoopTypeOK
<1> QED
  BY <1>1, <1>3, WorkerAssumption, AgentAssumption
  DEF ScanInv, ScanInit, WorkerInit, RoundsAreOwn, SentExists, RoundsCover,
      ClearedMeansUnfinished, KnownMeansSent, NoSource, Known

----------------------------------------------------------------------------
(* Whatever happens while it scans, the Worker uses its store only through *)
(* the calls WorkerStore describes, so all that is proved of the store     *)
(* under any caller holds of collection.                                   *)
THEOREM CollectionUsesStore == ScanSpec => WorkerSpec
<1>1. WorkerInit(0) /\ ScanInit => ScanInv
  BY ScanBegins
<1>2. ScanInv /\ [ScanNext]_<<workerVars, scanVars>> => ScanInv' /\ [WorkerNext]_workerVars
  BY ScanStays, ScanStepsAreCalls DEF ScanInv
<1> QED
  BY <1>1, <1>2, PTL DEF ScanSpec, WorkerSpec

(* The invariant of collection.                                            *)
THEOREM Collecting == ScanSpec => []ScanInv
BY ScanBegins, ScanStays, PTL DEF ScanSpec

(* The scanner's tables, its thread and its place in the list are well     *)
(* formed (scanning.rs:22).                                                *)
THEOREM ScanTypes == ScanSpec => []ScanTypeOK
<1>1. ScanInv => ScanTypeOK
  <2> SUFFICES ASSUME ScanInv PROVE ScanTypeOK
    OBVIOUS
  <2>1. LoopTypeOK /\ RoundsAreOwn
    BY DEF ScanInv
  <2>2. ASSUME NEW a \in Agents, round[a] # None
        PROVE  round[a] \in UNION {[S -> Captures] : S \in SUBSET SessionsOf(a)}
    <3>1. PICK S \in SUBSET Sessions : round[a] \in [S -> Captures]
      BY <2>1, <2>2 DEF LoopTypeOK, Rounds
    <3>2. S \in SUBSET SessionsOf(a)
      BY <2>1, <2>2, <3>1 DEF RoundsAreOwn, OfAgent, SessionsOf
    <3> QED
      BY <3>1, <3>2
  <2>3. ASSUME scan # None
        PROVE  /\ scan.index \in DOMAIN SourceList /\ scan.current \in BOOLEAN
               /\ scan.page \in Pages(SourceList[scan.index]) \cup {None}
    <3>1. scan \in Scans
      BY <2>1, <2>3 DEF LoopTypeOK
    <3> QED
      BY <2>1, <2>3, <3>1, SourceListAssumption DEF Scans, RoundsAreOwn, Pages
  <2> QED
    BY <2>1, <2>2, <2>3 DEF ScanTypeOK, LoopTypeOK
<1> QED
  BY <1>1, Collecting, PTL

(* What a round records of a session, it has queued, and no agent is       *)
(* recorded as complete that still owes a session to a rescan, although    *)
(* pages are read on another thread while the Hub instructs                *)
(* (scanning.rs:96).                                                       *)
THEOREM HonestRounds == ScanSpec => []RoundsAreHonest
<1>1. ScanInv => RoundsAreHonest
  BY DEF ScanInv, RoundsAreHonest
<1> QED
  BY <1>1, Collecting, PTL
=============================================================================
