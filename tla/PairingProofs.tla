---------------------------- MODULE PairingProofs ----------------------------
(***************************************************************************)
(* Safety of pairing, for any Workers, tokens and nodes, any number of     *)
(* restores, copies, crashes and restarts.                                 *)
(***************************************************************************)
EXTENDS Pairing, FiniteSetTheorems, TLAPS

(* What a grant gave: its token's credential of the epoch it was used in.  *)
Granted == {<<g.token, g.epoch>> : g \in grants}

(* Each row of tokens, also a backed up one, is of a token that was issued *)
(* for what the row says.                                                  *)
RowsAreIssued(table) ==
    \A t \in Tokens :
        table[t] # None => issued[t] # None /\ issued[t].node = table[t].node
TokensIssued ==
    /\ RowsAreIssued(pairing)
    /\ backup # None => RowsAreIssued(backup.pairing)

(* A node that is to be replaced is there, also in a backup.               *)
ReplacedExist(tokens, table) ==
    \A t \in Tokens :
        tokens[t] # None /\ tokens[t].node # None => table[tokens[t].node] # None
ReplacementsExist ==
    /\ ReplacedExist(pairing, nodes)
    /\ backup # None => ReplacedExist(backup.pairing, backup.nodes)

(* A token that gave a grant in this epoch is used up.                     *)
TokensUsedUp ==
    \A g \in grants :
        /\ issued[g.token] # None /\ g.epoch <= epoch
        /\ g.epoch = epoch => pairing[g.token] = None

(* Every credential in a table was granted.                                *)
RowsAreGranted(table) == \A n \in Nodes : table[n] # None => table[n].credential \in Granted
CredentialsGranted ==
    /\ RowsAreGranted(nodes) /\ RowsAreGranted(registry)
    /\ backup # None => RowsAreGranted(backup.nodes)
    /\ retired \subseteq Granted

(* An instance is named by its Worker.                                     *)
InstancesNamed ==
    \A w \in Workers : worker[w].instance # None => worker[w].instance[1] = w

PairingInv ==
    /\ TablesSound /\ GrantsSound /\ RetiredStaysRetired
    /\ TokensIssued /\ ReplacementsExist /\ TokensUsedUp /\ CredentialsGranted /\ InstancesNamed

----------------------------------------------------------------------------
(* Types.                                                                  *)

(* A row that pairing or the registry makes is a row.                      *)
LEMMA FreshType ==
    ASSUME NEW c \in Credentials, NEW s \in Streams
    PROVE  Fresh(c, s) \in NodeRows
BY PairingAssumption DEF Fresh, NodeRows

(* What is brought back into use is a table, without leases.               *)
LEMMA InitializedType ==
    ASSUME NEW table \in [Nodes -> NodeRows \cup {None}],
           registry \in [Nodes -> RegistryRows \cup {None}]
    PROVE  /\ Initialized(table) \in [Nodes -> NodeRows \cup {None}]
           /\ Unleased(table) \in [Nodes -> NodeRows \cup {None}]
           /\ Unleased(Initialized(table)) \in [Nodes -> NodeRows \cup {None}]
<1>1. ASSUME NEW row \in NodeRows
      PROVE  [row EXCEPT !.instance = None, !.lease = 0] \in NodeRows
  <2>1. 0 \in 0 .. LeaseLife /\ None \in Streams \cup {None}
    BY PairingAssumption
  <2> QED
    BY <2>1 DEF NodeRows
<1>2. ASSUME NEW row \in NodeRows, NEW revoked \in BOOLEAN, NEW name \in {0, 1}
      PROVE  [row EXCEPT !.revoked = revoked, !.name = name] \in NodeRows
  BY DEF NodeRows
<1>3. ASSUME NEW other \in [Nodes -> NodeRows \cup {None}]
      PROVE  Unleased(other) \in [Nodes -> NodeRows \cup {None}]
  BY <1>1 DEF Unleased
<1>4. ASSUME NEW n \in Nodes
      PROVE  Initialized(table)[n] \in NodeRows \cup {None}
  <2>1. CASE registry[n] = None
    BY <2>1 DEF Initialized
  <2>2. CASE registry[n] # None
    <3>1. registry[n] \in RegistryRows
      BY <2>2
    <3>2. /\ registry[n].credential \in Credentials /\ registry[n].stream \in Streams
          /\ registry[n].revoked \in BOOLEAN /\ registry[n].name \in {0, 1}
      BY <3>1 DEF RegistryRows
    <3> QED
      BY <1>2, <2>2, <3>2, FreshType DEF Initialized
  <2> QED
    BY <2>1, <2>2
<1>5. Initialized(table) \in [Nodes -> NodeRows \cup {None}]
  BY <1>4 DEF Initialized
<1> QED
  BY <1>3, <1>5

(* A table whose leases were cleared has none that runs.                   *)
LEMMA UnleasedRests ==
    ASSUME NEW table \in [Nodes -> NodeRows \cup {None}]
    PROVE  \A n \in Nodes : Unleased(table)[n] # None => Unleased(table)[n].lease = 0
BY DEF Unleased, NodeRows

(* A row is replaced by one whose lease rests if nobody holds it.          *)
NodesOK(table) ==
    /\ table \in [Nodes -> NodeRows \cup {None}]
    /\ \A n \in Nodes : table[n] # None /\ table[n].instance = None => table[n].lease = 0

(* Replacing one row keeps a table well formed.                            *)
LEMMA RowReplaced ==
    ASSUME NEW table, NodesOK(table), NEW n \in Nodes, NEW row \in NodeRows,
           row.instance = None => row.lease = 0
    PROVE  NodesOK([table EXCEPT ![n] = row])
BY DEF NodesOK

(* Requests that wait are a finite set within its bound.                   *)
QueueOK == queue \subseteq Requests /\ IsFiniteSet(queue) /\ Cardinality(queue) <= MaxQueue

(* A request is added below the bound or taken away, or all are lost.      *)
LEMMA QueueKept ==
    ASSUME QueueOK,
           \/ queue' = {} \/ UNCHANGED queue
           \/ \E r \in queue : queue' = queue \ {r}
           \/ Cardinality(queue) < MaxQueue /\ \E r \in Requests : queue' = queue \cup {r}
    PROVE  QueueOK'
<1>1. Cardinality(queue) \in Nat /\ MaxQueue \in Nat
  BY FS_CardinalityType, PairingAssumption DEF QueueOK
<1>2. CASE queue' = {}
  <2>1. IsFiniteSet({}) /\ Cardinality({}) = 0
    BY FS_EmptySet
  <2> QED
    BY <1>1, <1>2, <2>1 DEF QueueOK
<1>3. CASE \E r \in queue : queue' = queue \ {r}
  <2>1. PICK r \in queue : queue' = queue \ {r}
    BY <1>3
  <2>2. IsFiniteSet(queue \ {r}) /\ Cardinality(queue \ {r}) = Cardinality(queue) - 1
    BY <2>1, FS_RemoveElement DEF QueueOK
  <2>3. queue' \subseteq Requests
    BY <2>1 DEF QueueOK
  <2> QED
    BY <1>1, <2>1, <2>2, <2>3 DEF QueueOK
<1>4. CASE Cardinality(queue) < MaxQueue /\ \E r \in Requests : queue' = queue \cup {r}
  <2>1. PICK r \in Requests : queue' = queue \cup {r}
    BY <1>4
  <2>2. /\ IsFiniteSet(queue \cup {r})
        /\ Cardinality(queue \cup {r}) \in {Cardinality(queue), Cardinality(queue) + 1}
    BY FS_AddElement DEF QueueOK
  <2>3. queue' \subseteq Requests
    BY <2>1 DEF QueueOK
  <2> QED
    BY <1>1, <1>4, <2>1, <2>2, <2>3 DEF QueueOK
<1> QED
  BY <1>2, <1>3, <1>4 DEF QueueOK

(* A Worker's memory stays well typed.                                     *)
LEMMA WorkerTypes ==
    ASSUME NEW s \in WorkerStates
    PROVE  /\ \A x \in Streams \cup {None} : /\ [s EXCEPT !.instance = x] \in WorkerStates
                                            /\ [s EXCEPT !.recovery = x] \in WorkerStates
           /\ \A x \in Streams : [s EXCEPT !.stream = x] \in WorkerStates
           /\ \A x \in Replies \cup {None} : /\ [s EXCEPT !.reply = x] \in WorkerStates
                                            /\ [s EXCEPT !.grant = x] \in WorkerStates
           /\ \A x \in Nat : /\ [s EXCEPT !.epoch = x] \in WorkerStates
                             /\ [s EXCEPT !.starts = x] \in WorkerStates
BY DEF WorkerStates

(* The row that pairing writes, free and with the new credential.          *)
LEMMA PairedRow ==
    ASSUME PairingTypeOK, ReplacementsExist,
           NEW w \in Workers, NEW t \in Tokens, NEW n \in Nodes, NEW torn \in BOOLEAN,
           HubPair(w, t, n, torn)
    PROVE  \E row \in NodeRows :
              /\ nodes' = [nodes EXCEPT ![n] = row]
              /\ row.credential = <<t, epoch>> /\ ~row.revoked
              /\ row.name = (IF pairing[t].node # None THEN nodes[n].name ELSE 0)
              /\ row.instance = None /\ row.lease = 0
<1> DEFINE fresh == Fresh(<<t, epoch>>, worker[w].stream)
           name == IF pairing[t].node # None THEN nodes[n].name ELSE 0
           row == [fresh EXCEPT !.name = name]
<1>1. /\ fresh \in NodeRows /\ fresh.credential = <<t, epoch>> /\ ~fresh.revoked
      /\ fresh.instance = None /\ fresh.lease = 0
  <2>1. epoch \in Nat /\ worker[w].stream \in Streams
    BY PairingAssumption DEF PairingTypeOK, WorkerStates
  <2>2. <<t, epoch>> \in Credentials
    BY <2>1 DEF Credentials
  <2> QED
    BY <2>1, <2>2, FreshType DEF Fresh
<1>2. name \in {0, 1}
  <2>1. CASE pairing[t].node = None
    BY <2>1
  <2>2. CASE pairing[t].node # None
    <3>1. n = pairing[t].node /\ pairing[t] # None
      BY <2>2 DEF HubPair, Targets, Usable
    <3>2. nodes[n] # None
      BY <2>2, <3>1 DEF ReplacementsExist, ReplacedExist
    <3>3. nodes[n] \in NodeRows
      BY <3>2 DEF PairingTypeOK
    <3> QED
      BY <3>3 DEF NodeRows
  <2> QED
    BY <2>1, <2>2
<1>3. row \in NodeRows
  BY <1>1, <1>2 DEF NodeRows
<1>4. /\ row.credential = <<t, epoch>> /\ ~row.revoked /\ row.name = name
      /\ row.instance = None /\ row.lease = 0
  BY <1>1 DEF NodeRows
<1>5. nodes' = [nodes EXCEPT ![n] = row]
  BY DEF HubPair
<1> HIDE DEF row
<1> QED
  BY <1>3, <1>4, <1>5

(* No action brings in a value of another type, and every lease that is    *)
(* given up stops running.                                                 *)
LEMMA TypesStay ==
    ASSUME PairingTypeOK, ReplacementsExist, PairingNext
    PROVE  PairingTypeOK'
<1> USE DEF PairingTypeOK, databaseVars, historyVars
<1>a. QueueOK
  BY DEF QueueOK
<1>b. ASSUME QueueOK'
      PROVE  queue' \subseteq Requests /\ IsFiniteSet(queue') /\ Cardinality(queue') <= MaxQueue
  BY <1>b DEF QueueOK
<1>f. /\ NodesOK(nodes)
      /\ \A n \in Nodes : nodes[n] # None /\ nodes[n].instance = None => nodes[n].lease = 0
  BY DEF NodesOK
<1>c. UNCHANGED bound /\ bound.restores \in Nat /\ epoch \in Nat
  BY PairingAssumption DEF PairingNext
<1>d. ASSUME NEW w \in Workers
      PROVE  worker[w] \in WorkerStates
  OBVIOUS
<1>e. ASSUME NEW w \in Workers
      PROVE  /\ worker[w].instance \in Streams \cup {None} /\ worker[w].stream \in Streams
             /\ worker[w].recovery \in Streams \cup {None} /\ worker[w].epoch \in Nat
             /\ worker[w].grant \in Replies \cup {None} /\ worker[w].reply \in Replies \cup {None}
             /\ worker[w].starts \in Nat /\ NextStream(w) \in Streams
  BY <1>d DEF WorkerStates, NextStream, Streams
<1>1. ASSUME NEW t \in Tokens, NEW n \in Nodes \cup {None}, CreateToken(t, n)
      PROVE  PairingTypeOK'
  <2>1. [left |-> TokenLife, node |-> n] \in TokenRows
    BY PairingAssumption DEF TokenRows
  <2>2. [node |-> n] \in Purposes
    BY DEF Purposes
  <2>3. Swept(n) \in [Tokens -> TokenRows \cup {None}]
    BY DEF Swept
  <2>4. /\ pairing' \in [Tokens -> TokenRows \cup {None}]
        /\ issued' \in [Tokens -> Purposes \cup {None}]
    BY <1>1, <2>1, <2>2, <2>3 DEF CreateToken
  <2> QED
    BY <1>1, <1>c, <2>4 DEF CreateToken
<1>2. ASSUME NEW w \in Workers, NEW t \in Tokens, NEW n \in Nodes, NEW torn \in BOOLEAN,
             HubPair(w, t, n, torn)
      PROVE  PairingTypeOK'
  <2> DEFINE credential == <<t, epoch>>
             name == IF pairing[t].node # None THEN nodes[n].name ELSE 0
  <2>1. PICK row \in NodeRows :
          /\ nodes' = [nodes EXCEPT ![n] = row]
          /\ row.name = name /\ row.instance = None /\ row.lease = 0
    BY <1>2, PairedRow
  <2>2. credential \in Credentials /\ worker[w].stream \in Streams /\ name \in {0, 1}
    BY <1>c, <1>e, <2>1 DEF Credentials, NodeRows
  <2>4. nodes' \in [Nodes -> NodeRows \cup {None}]
    BY <2>1
  <2>5. pairing' \in [Tokens -> TokenRows \cup {None}]
    BY <1>2 DEF HubPair, Consumed
  <2>6. grants' \subseteq Grants
    BY <1>2, <1>c DEF HubPair, Grants
  <2>7. \A m \in Nodes : nodes'[m] # None /\ nodes'[m].instance = None => nodes'[m].lease = 0
    BY <2>1
  <2>8. CASE torn
    BY <1>2, <1>a, <1>b, <1>c, <2>4, <2>5, <2>6, <2>7, <2>8, QueueKept DEF HubPair
  <2>9. CASE ~torn
    <3>0. [credential |-> credential, name |-> name, stream |-> worker[w].stream,
           revoked |-> FALSE] \in RegistryRows
      BY <2>2 DEF RegistryRows
    <3>1. registry' \in [Nodes -> RegistryRows \cup {None}]
      BY <1>2, <2>9, <3>0 DEF HubPair, Fresh
    <3>2. [node |-> n, credential |-> credential, epoch |-> epoch] \in Replies
      BY <1>c, <2>2 DEF Replies
    <3>3. worker' \in [Workers -> WorkerStates]
      <4>1. [worker[w] EXCEPT !.reply = [node |-> n, credential |-> credential,
                                         epoch |-> epoch]] \in WorkerStates
        BY <1>d, <3>2, WorkerTypes
      <4> QED
        BY <1>2, <2>9, <4>1 DEF HubPair
    <3>4. retired' \subseteq Credentials
      BY <1>2, <2>9 DEF HubPair, Live, RegistryRows
    <3> QED
      BY <1>2, <1>a, <1>b, <1>c, <2>4, <2>5, <2>6, <2>7, <2>9, <3>1, <3>3, <3>4 DEF HubPair
  <2> QED
    BY <2>8, <2>9
<1>3. ASSUME NEW w \in Workers, Bind(w) \/ StartWorker(w)
      PROVE  PairingTypeOK'
  <2>1. CASE Bind(w)
    <3> DEFINE paired == [worker[w] EXCEPT !.grant = worker[w].reply, !.reply = None,
                                           !.epoch = worker[w].reply.epoch]
    <3>1. worker[w].reply \in Replies /\ worker[w].reply.epoch \in Nat
      BY <2>1, <1>e DEF Bind, Replies
    <3>2. paired \in WorkerStates
      BY <1>d, <3>1 DEF WorkerStates
    <3>3. [paired EXCEPT !.recovery = worker[w].stream, !.stream = NextStream(w)] \in WorkerStates
      BY <1>e, <3>2 DEF WorkerStates
    <3>4. worker' \in [Workers -> WorkerStates]
      BY <2>1, <3>2, <3>3 DEF Bind
    <3> QED
      BY <2>1, <1>c, <3>4 DEF Bind
  <2>2. CASE StartWorker(w)
    <3>1. <<w, worker[w].starts + 1>> \in Streams /\ worker[w].starts + 1 \in Nat
      BY <1>e DEF Streams
    <3>2. [worker[w] EXCEPT !.instance = <<w, worker[w].starts + 1>>,
                            !.starts = @ + 1] \in WorkerStates
      BY <1>d, <3>1 DEF WorkerStates
    <3>3. worker' \in [Workers -> WorkerStates]
      BY <2>2, <3>2 DEF StartWorker
    <3> QED
      BY <2>2, <1>c, <3>3 DEF StartWorker
  <2> QED
    BY <1>3, <2>1, <2>2
<1>4. ASSUME NEW w \in Workers, NEW kind \in {"hello", "recover", "upload"}, Arrive(w, kind)
      PROVE  PairingTypeOK'
  <2>1. PICK n \in AcceptedFor(worker[w].grant.credential) :
          /\ Claimable(n, worker[w].instance)
          /\ nodes' = [nodes EXCEPT ![n].instance = worker[w].instance, ![n].lease = LeaseLife]
          /\ queue' = queue \cup {Request(w, kind, n)}
    BY <1>4 DEF Arrive
  <2>2. n \in Nodes /\ nodes[n] \in NodeRows
    BY <2>1 DEF AcceptedFor, Claimable
  <2>3. worker[w].instance \in Streams /\ worker[w].instance # None
        /\ worker[w].grant.credential \in Credentials
    BY <1>4, <1>e DEF Arrive, Replies
  <2>4. Request(w, kind, n) \in Requests
    BY <1>e, <2>2, <2>3 DEF Request, Requests
  <2>5. [nodes[n] EXCEPT !.instance = worker[w].instance, !.lease = LeaseLife] \in NodeRows
    <3>1. LeaseLife \in 0 .. LeaseLife
      BY PairingAssumption
    <3> QED
      BY <2>2, <2>3, <3>1 DEF NodeRows
  <2>6. nodes' = [nodes EXCEPT ![n] = [nodes[n] EXCEPT !.instance = worker[w].instance,
                                                       !.lease = LeaseLife]]
    BY <2>1, <2>2
  <2>7. nodes' \in [Nodes -> NodeRows \cup {None}]
    BY <2>5, <2>6
  <2>8. \A m \in Nodes : nodes'[m] # None /\ nodes'[m].instance = None => nodes'[m].lease = 0
    BY <2>2, <2>3, <2>6 DEF NodeRows
  <2>9. QueueOK'
    BY <1>4, <1>a, <2>1, <2>4, QueueKept DEF Arrive
  <2> QED
    BY <1>4, <1>b, <1>c, <2>7, <2>8, <2>9 DEF Arrive
<1>5. ASSUME NEW w \in Workers, NEW heard \in BOOLEAN, StopWorker(w, heard)
      PROVE  PairingTypeOK'
  <2>1. ASSUME NEW n \in Nodes
        PROVE  /\ Released(n, worker[w].instance) \in [Nodes -> NodeRows \cup {None}]
               /\ \A m \in Nodes :
                    LET row == Released(n, worker[w].instance)[m]
                    IN  row # None /\ row.instance = None => row.lease = 0
    <3>1. CASE nodes[n] # None /\ nodes[n].instance = worker[w].instance
      <4>1. nodes[n] \in NodeRows /\ 0 \in 0 .. LeaseLife
        BY <3>1, PairingAssumption
      <4>2. [nodes[n] EXCEPT !.instance = None, !.lease = 0] \in NodeRows
        BY <4>1 DEF NodeRows
      <4>3. Released(n, worker[w].instance)
              = [nodes EXCEPT ![n] = [nodes[n] EXCEPT !.instance = None, !.lease = 0]]
        BY <3>1 DEF Released
      <4>4. [nodes[n] EXCEPT !.instance = None, !.lease = 0].lease = 0
        BY <4>1 DEF NodeRows
      <4> QED
        BY <4>2, <4>3, <4>4
    <3>2. CASE ~(nodes[n] # None /\ nodes[n].instance = worker[w].instance)
      BY <3>2 DEF Released
    <3> QED
      BY <3>1, <3>2
  <2>2. /\ nodes' \in [Nodes -> NodeRows \cup {None}]
        /\ \A m \in Nodes : nodes'[m] # None /\ nodes'[m].instance = None => nodes'[m].lease = 0
    BY <1>5, <2>1 DEF StopWorker, AcceptedFor
  <2>3. [worker[w] EXCEPT !.instance = None, !.reply = None] \in WorkerStates
    BY <1>d DEF WorkerStates
  <2>4. worker' \in [Workers -> WorkerStates]
    BY <1>5, <2>3 DEF StopWorker
  <2> QED
    BY <1>5, <1>c, <2>2, <2>4 DEF StopWorker
<1>6. ASSUME NEW w \in Workers, NEW v \in Workers, Copy(w, v)
      PROVE  PairingTypeOK'
  <2>1. worker' \in [Workers -> WorkerStates]
    BY <1>6, <1>d, WorkerTypes DEF Copy
  <2> QED
    BY <1>6, <1>c, <2>1 DEF Copy
<1>7. ASSUME NEW r \in queue, Apply(r) \/ Refuse(r)
      PROVE  PairingTypeOK'
  <2>1. QueueOK'
    BY <1>7, <1>a, QueueKept DEF Apply, Refuse
  <2>2. CASE Refuse(r)
    BY <2>2, <1>b, <1>c, <2>1 DEF Refuse
  <2>3. CASE Apply(r)
    <3>1. r \in Requests /\ r.worker \in Workers /\ r.stream \in Streams
      BY DEF Requests
    <3>2. PICK n \in NodeOf(r) : \/ ApplyUpload(r, n) \/ ApplyHello(r, n) \/ ApplyRecover(r, n)
      BY <2>3 DEF Apply
    <3>3. n \in Nodes /\ nodes[n] \in NodeRows /\ nodes[n] # None
      BY <3>2 DEF NodeOf, AcceptedFor
    <3>4. /\ nodes' \in [Nodes -> NodeRows \cup {None}]
          /\ \A m \in Nodes : nodes'[m] # None /\ nodes'[m].instance = None => nodes'[m].lease = 0
      <4>1. [nodes[n] EXCEPT !.confirmed = 1 - @] \in NodeRows
        BY <3>3 DEF NodeRows
      <4>2. [nodes[n] EXCEPT !.stream = r.stream, !.recovered = epoch, !.confirmed = 0]
              \in NodeRows
        BY <1>c, <3>1, <3>3 DEF NodeRows
      <4>3. CASE ApplyUpload(r, n)
        <5> DEFINE row == [nodes[n] EXCEPT !.confirmed = 1 - @]
        <5>1. nodes' = [nodes EXCEPT ![n] = row]
          BY <4>3 DEF ApplyUpload
        <5>2. row \in NodeRows /\ (row.instance = None => row.lease = 0)
          BY <1>f, <3>3, <4>1 DEF NodeRows
        <5>3. NodesOK([nodes EXCEPT ![n] = row])
          <6> HIDE DEF row
          <6> QED
            BY <1>f, <3>3, <5>2, RowReplaced
        <5> QED
          BY <5>1, <5>3 DEF NodesOK
      <4>4. CASE ApplyHello(r, n)
        BY <4>4 DEF ApplyHello
      <4>5. CASE ApplyRecover(r, n)
        <5> DEFINE row == [nodes[n] EXCEPT !.stream = r.stream, !.recovered = epoch,
                                           !.confirmed = 0]
        <5>1. nodes' = nodes \/ nodes' = [nodes EXCEPT ![n] = row]
          BY <4>5 DEF ApplyRecover
        <5>2. row \in NodeRows /\ (row.instance = None => row.lease = 0)
          BY <1>f, <3>3, <4>2 DEF NodeRows
        <5>3. NodesOK([nodes EXCEPT ![n] = row])
          <6> HIDE DEF row
          <6> QED
            BY <1>f, <3>3, <5>2, RowReplaced
        <5> QED
          BY <1>f, <5>1, <5>3 DEF NodesOK
      <4> QED
        BY <3>2, <4>3, <4>4, <4>5
    <3>5. worker' \in [Workers -> WorkerStates]
      <4>1. Recovering(r.worker, epoch) \in WorkerStates
        <5>1. /\ NextStream(r.worker) \in Streams /\ worker[r.worker] \in WorkerStates
              /\ worker[r.worker].recovery \in Streams \cup {None}
              /\ worker[r.worker].stream \in Streams
          BY <1>d, <1>e, <3>1
        <5> QED
          BY <1>c, <5>1 DEF Recovering, WorkerStates
      <4>2. [worker[r.worker] EXCEPT !.recovery = None] \in WorkerStates
        BY <1>d, <3>1 DEF WorkerStates
      <4> QED
        BY <3>1, <3>2, <4>1, <4>2 DEF ApplyUpload, ApplyHello, ApplyRecover
    <3> QED
      BY <2>3, <1>b, <1>c, <2>1, <3>4, <3>5 DEF Apply
  <2> QED
    BY <1>7, <2>2, <2>3
<1>8. ASSUME StopHub \/ StartHub
      PROVE  PairingTypeOK'
  <2>1. CASE StopHub
    BY <2>1, <1>a, <1>b, <1>c, QueueKept DEF StopHub, CrashedHub
  <2>2. CASE StartHub
    <3>1. nodes' \in [Nodes -> NodeRows \cup {None}]
      BY <2>2, InitializedType DEF StartHub
    <3>2. \A m \in Nodes : nodes'[m] # None /\ nodes'[m].instance = None => nodes'[m].lease = 0
      BY <2>2, UnleasedRests, InitializedType DEF StartHub
    <3> QED
      BY <2>2, <1>c, <3>1, <3>2 DEF StartHub
  <2> QED
    BY <1>8, <2>1, <2>2
<1>9. ASSUME TakeBackup \/ Restore
      PROVE  PairingTypeOK'
  <2>1. QueueOK'
    BY <1>9, <1>a, QueueKept DEF TakeBackup, CrashedHub, Restore
  <2>2. CASE TakeBackup
    <3>1. Unleased(nodes) \in [Nodes -> NodeRows \cup {None}]
      BY InitializedType
    <3>2. backup' \in Tables
      BY <2>2, <3>1 DEF TakeBackup, Tables
    <3> QED
      BY <2>2, <1>b, <1>c, <2>1, <3>2 DEF TakeBackup, CrashedHub
  <2>3. CASE Restore
    <3>1. /\ backup.nodes \in [Nodes -> NodeRows \cup {None}]
          /\ backup.pairing \in [Tokens -> TokenRows \cup {None}]
      BY <2>3 DEF Restore, Tables
    <3>2. nodes' \in [Nodes -> NodeRows \cup {None}]
      BY <2>3, <3>1, InitializedType DEF Restore
    <3>3. \A m \in Nodes : nodes'[m] # None /\ nodes'[m].instance = None => nodes'[m].lease = 0
      BY <2>3, <3>1, UnleasedRests, InitializedType DEF Restore
    <3>4. epoch' \in 0 .. bound.restores
      BY <2>3, <1>c DEF Restore
    <3> QED
      BY <2>3, <1>b, <1>c, <2>1, <3>1, <3>2, <3>3, <3>4 DEF Restore
  <2> QED
    BY <1>9, <2>2, <2>3
<1>10. ASSUME NEW n \in Nodes, \/ \E done \in 1 .. 3 : Revoke(n, done)
                               \/ \E done \in 1 .. 2 : Rename(n, done)
      PROVE  PairingTypeOK'
  <2>1. QueueOK'
    BY <1>10, <1>a, QueueKept DEF Revoke, Rename, CrashedHub
  <2>2. nodes[n] \in NodeRows /\ nodes[n] # None
    BY <1>10 DEF Revoke, Rename
  <2>3. ASSUME registry[n] # None
        PROVE  /\ [registry[n] EXCEPT !.revoked = TRUE] \in RegistryRows
               /\ [registry[n] EXCEPT !.name = 1] \in RegistryRows
    BY <2>3 DEF RegistryRows
  <2>4. registry' \in [Nodes -> RegistryRows \cup {None}]
    BY <1>10, <2>3 DEF Revoke, Rename
  <2>5. /\ [nodes[n] EXCEPT !.revoked = TRUE] \in NodeRows
        /\ [nodes[n] EXCEPT !.name = 1] \in NodeRows
    BY <2>2 DEF NodeRows
  <2>6. /\ nodes' \in [Nodes -> NodeRows \cup {None}]
        /\ \A m \in Nodes : nodes'[m] # None /\ nodes'[m].instance = None => nodes'[m].lease = 0
    <3> DEFINE revoked == [nodes[n] EXCEPT !.revoked = TRUE]
               renamed == [nodes[n] EXCEPT !.name = 1]
    <3>1. \/ nodes' = nodes
          \/ nodes' = [nodes EXCEPT ![n] = revoked]
          \/ nodes' = [nodes EXCEPT ![n] = renamed]
      BY <1>10 DEF Revoke, Rename
    <3>2. /\ revoked \in NodeRows /\ (revoked.instance = None => revoked.lease = 0)
          /\ renamed \in NodeRows /\ (renamed.instance = None => renamed.lease = 0)
      BY <1>f, <2>2, <2>5 DEF NodeRows
    <3>3. NodesOK([nodes EXCEPT ![n] = revoked]) /\ NodesOK([nodes EXCEPT ![n] = renamed])
      <4> HIDE DEF revoked, renamed
      <4> QED
        BY <1>f, <3>2, RowReplaced
    <3> QED
      BY <1>f, <3>1, <3>3 DEF NodesOK
  <2>7. pairing' \in [Tokens -> TokenRows \cup {None}]
    BY <1>10 DEF Revoke, Rename
  <2>8. retired' \subseteq Credentials
    BY <1>10 DEF Revoke, Rename, Live, RegistryRows
  <2>9. UNCHANGED <<epoch, backup, worker, issued, grants>> /\ hubUp' \in BOOLEAN
    BY <1>10 DEF Revoke, Rename, CrashedHub
  <2> QED
    BY <1>b, <1>c, <2>1, <2>4, <2>6, <2>7, <2>8, <2>9
<1>11. ASSUME Tick
      PROVE  PairingTypeOK'
  <2>1. ASSUME NEW k \in Nat, NEW max \in Nat, k \in 0 .. max
        PROVE  Down(k) \in 0 .. max
    BY <2>1 DEF Down
  <2>2. ASSUME NEW table \in [Tokens -> TokenRows \cup {None}]
        PROVE  AgeTokens(table) \in [Tokens -> TokenRows \cup {None}]
    <3>1. ASSUME NEW row \in TokenRows
          PROVE  [row EXCEPT !.left = Down(@)] \in TokenRows
      BY PairingAssumption, <2>1 DEF TokenRows
    <3> QED
      BY <3>1 DEF AgeTokens
  <2>3. ASSUME NEW row \in NodeRows
        PROVE  /\ [row EXCEPT !.lease = Down(@)] \in NodeRows
               /\ row.lease = 0 => [row EXCEPT !.lease = Down(@)].lease = 0
               /\ [row EXCEPT !.lease = Down(@)].instance = row.instance
    BY PairingAssumption, <2>1 DEF NodeRows, Down
  <2>4. /\ nodes' \in [Nodes -> NodeRows \cup {None}]
        /\ \A m \in Nodes : nodes'[m] # None /\ nodes'[m].instance = None => nodes'[m].lease = 0
    BY <1>11, <2>3 DEF Tick, AgeLeases
  <2>5. backup' \in Tables \cup {None}
    BY <1>11, <2>2 DEF Tick, Tables
  <2>6. pairing' \in [Tokens -> TokenRows \cup {None}]
    BY <1>11, <2>2 DEF Tick
  <2> QED
    BY <1>11, <1>c, <2>4, <2>5, <2>6 DEF Tick
<1> QED
  BY <1>1, <1>2, <1>3, <1>4, <1>5, <1>6, <1>7, <1>8, <1>9, <1>10, <1>11
     DEF PairingNext, Operator, WorkerSteps

----------------------------------------------------------------------------
(* What steps do to the rows of nodes.                                     *)

(* The rows of the same nodes, with the same credentials, revocations and  *)
(* names.                                                                  *)
SameRow(old, new) ==
    /\ new # None
    /\ new.credential = old.credential /\ new.revoked = old.revoked /\ new.name = old.name
SameRows(before, after) ==
    \A n \in Nodes : IF before[n] = None THEN after[n] = None ELSE SameRow(before[n], after[n])

(* Replacing a row by one with the same credential, name and revocation is *)
(* no change to what the databases have to agree on.                       *)
LEMMA SameRowReplaced ==
    ASSUME NEW table \in [Nodes -> NodeRows \cup {None}], NEW n \in Nodes, table[n] # None,
           NEW row \in NodeRows, row.credential = table[n].credential,
           row.revoked = table[n].revoked, row.name = table[n].name
    PROVE  SameRows(table, [table EXCEPT ![n] = row])
BY NoRowIsNone DEF SameRows, SameRow

(* Clearing the leases changes nothing else.                               *)
LEMMA UnleasedSame ==
    ASSUME NEW table \in [Nodes -> NodeRows \cup {None}]
    PROVE  SameRows(table, Unleased(table))
<1>1. ASSUME NEW row \in NodeRows
      PROVE  SameRow(row, [row EXCEPT !.instance = None, !.lease = 0])
  <2>0. 0 \in 0 .. LeaseLife /\ None \in Streams \cup {None}
    BY PairingAssumption
  <2>1. [row EXCEPT !.instance = None, !.lease = 0] \in NodeRows
    BY <2>0 DEF NodeRows
  <2> QED
    BY <2>1, NoRowIsNone DEF SameRow, NodeRows
<1> QED
  BY <1>1 DEF Unleased, SameRows

(* A start brings back every node that the registry or the database knows, *)
(* with the name and the revocation of the registry.                       *)
LEMMA RestoredRows ==
    ASSUME NEW table \in [Nodes -> NodeRows \cup {None}],
           registry \in [Nodes -> RegistryRows \cup {None}],
           NEW n \in Nodes
    PROVE  LET row == Unleased(Initialized(table))[n]
           IN  /\ row # None <=> table[n] # None \/ registry[n] # None
               /\ table[n] # None => row.credential = table[n].credential
               /\ table[n] = None /\ registry[n] # None =>
                    row.credential = registry[n].credential
               /\ registry[n] # None => /\ row.revoked = registry[n].revoked
                                        /\ row.name = registry[n].name
<1> DEFINE first == Initialized(table)[n]
<1>1. Initialized(table) \in [Nodes -> NodeRows \cup {None}]
  BY InitializedType
<1>2. IF first = None THEN Unleased(Initialized(table))[n] = None
      ELSE SameRow(first, Unleased(Initialized(table))[n])
  BY <1>1, UnleasedSame DEF SameRows
<1>3. CASE registry[n] = None
  <2>1. first = table[n]
    BY <1>3 DEF Initialized
  <2> QED
    BY <1>2, <1>3, <2>1 DEF SameRow
<1>4. CASE registry[n] # None
  <2>1. /\ registry[n].credential \in Credentials /\ registry[n].stream \in Streams
        /\ registry[n].revoked \in BOOLEAN /\ registry[n].name \in {0, 1}
    BY <1>4 DEF RegistryRows
  <2>2. CASE table[n] = None
    <3> DEFINE fresh == Fresh(registry[n].credential, registry[n].stream)
    <3>1. fresh \in NodeRows /\ fresh.credential = registry[n].credential
      BY <2>1, FreshType DEF Fresh
    <3>2. first = [fresh EXCEPT !.revoked = registry[n].revoked, !.name = registry[n].name]
      BY <1>4, <2>2 DEF Initialized
    <3>3. first \in NodeRows
      BY <2>1, <3>1, <3>2 DEF NodeRows
    <3>4. /\ first.credential = registry[n].credential
          /\ first.revoked = registry[n].revoked /\ first.name = registry[n].name
      BY <3>1, <3>2 DEF NodeRows
    <3> QED
      BY <1>2, <1>4, <2>2, <3>3, <3>4, NoRowIsNone DEF SameRow
  <2>3. CASE table[n] # None
    <3>1. table[n] \in NodeRows
      BY <2>3
    <3>2. first = [table[n] EXCEPT !.revoked = registry[n].revoked, !.name = registry[n].name]
      BY <1>4, <2>3 DEF Initialized
    <3>3. first \in NodeRows
      BY <2>1, <3>1, <3>2 DEF NodeRows
    <3>4. /\ first.credential = table[n].credential
          /\ first.revoked = registry[n].revoked /\ first.name = registry[n].name
      BY <3>1, <3>2 DEF NodeRows
    <3> QED
      BY <1>2, <1>4, <2>3, <3>3, <3>4, NoRowIsNone DEF SameRow
  <2> QED
    BY <2>2, <2>3
<1> QED
  BY <1>3, <1>4

(* Steps that touch neither who has access nor who had it.                 *)
Quiet ==
    /\ SameRows(nodes, nodes') /\ (hubUp' => hubUp)
    /\ UNCHANGED <<epoch, pairing, registry, backup, issued, grants, retired>>

(* What Workers and their requests do leaves access alone, and so does     *)
(* stopping the Hub.                                                       *)
LEMMA QuietSteps ==
    ASSUME PairingTypeOK,
           \/ StopHub
           \/ \E r \in queue : Apply(r) \/ Refuse(r)
           \/ \E w \in Workers :
                \/ StartWorker(w) \/ Bind(w)
                \/ \E heard \in BOOLEAN : StopWorker(w, heard)
                \/ \E v \in Workers : Copy(w, v)
                \/ \E kind \in {"hello", "recover", "upload"} : Arrive(w, kind)
    PROVE  Quiet
<1> USE DEF databaseVars, historyVars
<1>1. nodes \in [Nodes -> NodeRows \cup {None}]
  BY DEF PairingTypeOK
<1>2. ASSUME UNCHANGED nodes
      PROVE  SameRows(nodes, nodes')
  BY <1>2 DEF SameRows, SameRow
<1>3. ASSUME NEW w \in Workers, \/ StartWorker(w) \/ Bind(w)
                                \/ \E v \in Workers : Copy(w, v)
      PROVE  Quiet
  <2>1. CASE StartWorker(w)
    BY <1>2, <2>1 DEF Quiet, StartWorker
  <2>2. CASE Bind(w)
    BY <1>2, <2>2 DEF Quiet, Bind
  <2>3. ASSUME NEW v \in Workers, Copy(w, v)
        PROVE  Quiet
    BY <1>2, <2>3 DEF Quiet, Copy
  <2> QED
    BY <1>3, <2>1, <2>2, <2>3
<1>4. ASSUME NEW r \in queue, Refuse(r)
      PROVE  Quiet
  BY <1>2, <1>4 DEF Quiet, Refuse
<1>5. CASE StopHub
  BY <1>2, <1>5 DEF Quiet, StopHub, CrashedHub
<1>6. ASSUME NEW r \in queue, Apply(r)
      PROVE  Quiet
  <2>1. PICK n \in NodeOf(r) : ApplyUpload(r, n) \/ ApplyHello(r, n) \/ ApplyRecover(r, n)
    BY <1>6 DEF Apply
  <2>2. n \in Nodes /\ nodes[n] # None /\ nodes[n] \in NodeRows
    BY <1>1, <2>1 DEF NodeOf, AcceptedFor
  <2>3. r.stream \in Streams /\ epoch \in Nat
    BY DEF PairingTypeOK, PairingAssumption, Requests
  <2> DEFINE confirmed == [nodes[n] EXCEPT !.confirmed = 1 - @]
             recovered == [nodes[n] EXCEPT !.stream = r.stream, !.recovered = epoch,
                                           !.confirmed = 0]
  <2>4. \/ nodes' = nodes
        \/ nodes' = [nodes EXCEPT ![n] = confirmed] \/ nodes' = [nodes EXCEPT ![n] = recovered]
    BY <2>1 DEF ApplyUpload, ApplyHello, ApplyRecover
  <2>5. /\ confirmed \in NodeRows /\ confirmed.credential = nodes[n].credential
        /\ confirmed.revoked = nodes[n].revoked /\ confirmed.name = nodes[n].name
    BY <2>2 DEF NodeRows
  <2>6. /\ recovered \in NodeRows /\ recovered.credential = nodes[n].credential
        /\ recovered.revoked = nodes[n].revoked /\ recovered.name = nodes[n].name
    BY <2>2, <2>3 DEF NodeRows
  <2>7. SameRows(nodes, nodes')
    <3> HIDE DEF confirmed, recovered
    <3> QED
      BY <1>1, <1>2, <2>2, <2>4, <2>5, <2>6, SameRowReplaced
  <2> QED
    BY <1>6, <2>7 DEF Quiet, Apply
<1>7. ASSUME NEW w \in Workers, NEW kind \in {"hello", "recover", "upload"}, Arrive(w, kind)
      PROVE  Quiet
  <2>1. PICK n \in Nodes :
          /\ nodes[n] # None
          /\ nodes' = [nodes EXCEPT ![n].instance = worker[w].instance, ![n].lease = LeaseLife]
    BY <1>7 DEF Arrive, AcceptedFor, Claimable
  <2>2. nodes[n] \in NodeRows /\ worker[w].instance \in Streams /\ LeaseLife \in 0 .. LeaseLife
    BY <1>1, <1>7, <2>1, PairingAssumption DEF Arrive, PairingTypeOK, WorkerStates
  <2> DEFINE leased == [nodes[n] EXCEPT !.instance = worker[w].instance, !.lease = LeaseLife]
  <2>3. n \in Nodes /\ nodes[n] # None /\ nodes' = [nodes EXCEPT ![n] = leased]
    BY <2>1
  <2>4. /\ leased \in NodeRows /\ leased.credential = nodes[n].credential
        /\ leased.revoked = nodes[n].revoked /\ leased.name = nodes[n].name
    BY <2>2 DEF NodeRows
  <2>5. SameRows(nodes, nodes')
    <3> HIDE DEF leased
    <3> QED
      BY <1>1, <2>3, <2>4, SameRowReplaced
  <2> QED
    BY <1>7, <2>5 DEF Quiet, Arrive
<1>8. ASSUME NEW w \in Workers, NEW heard \in BOOLEAN, StopWorker(w, heard)
      PROVE  Quiet
  <2>1. \/ nodes' = nodes
        \/ \E n \in Nodes : /\ nodes[n] # None
                            /\ nodes' = [nodes EXCEPT ![n].instance = None, ![n].lease = 0]
    BY <1>8 DEF StopWorker, Released, AcceptedFor
  <2>2. ASSUME NEW n \in Nodes, nodes[n] # None,
               nodes' = [nodes EXCEPT ![n].instance = None, ![n].lease = 0]
        PROVE  SameRows(nodes, nodes')
    <3> DEFINE released == [nodes[n] EXCEPT !.instance = None, !.lease = 0]
    <3>1. n \in Nodes /\ nodes[n] # None /\ nodes' = [nodes EXCEPT ![n] = released]
      BY <2>2
    <3>2. nodes[n] \in NodeRows /\ 0 \in 0 .. LeaseLife /\ None \in Streams \cup {None}
      BY <1>1, <2>2, PairingAssumption
    <3>3. /\ released \in NodeRows /\ released.credential = nodes[n].credential
          /\ released.revoked = nodes[n].revoked /\ released.name = nodes[n].name
      BY <3>2 DEF NodeRows
    <3>4. SameRows(nodes, [nodes EXCEPT ![n] = released])
      <4> HIDE DEF released
      <4> QED
        BY <1>1, <3>1, <3>3, SameRowReplaced
    <3> QED
      BY <3>1, <3>4
  <2> QED
    BY <1>2, <1>8, <2>1, <2>2 DEF Quiet, StopWorker
<1> QED
  BY <1>3, <1>4, <1>5, <1>6, <1>7, <1>8

(* Fewer tokens, for the same nodes.                                       *)
FewerRows(before, after) ==
    \A t \in Tokens : after[t] # None => before[t] # None /\ after[t].node = before[t].node

(* Time takes no token away and changes nothing but what is left of it.    *)
LEMMA AgedTokens ==
    ASSUME NEW table \in [Tokens -> TokenRows \cup {None}]
    PROVE  FewerRows(table, AgeTokens(table))
<1>1. ASSUME NEW row \in TokenRows
      PROVE  [row EXCEPT !.left = Down(@)].node = row.node
  BY DEF TokenRows
<1> QED
  BY <1>1 DEF FewerRows, AgeTokens

(* Time changes nothing of a node but what is left of its lease.           *)
LEMMA AgedLeases ==
    ASSUME NEW table \in [Nodes -> NodeRows \cup {None}]
    PROVE  SameRows(table, AgeLeases(table))
<1>1. ASSUME NEW row \in NodeRows
      PROVE  SameRow(row, [row EXCEPT !.lease = Down(@)])
  <2>1. Down(row.lease) \in 0 .. LeaseLife
    BY PairingAssumption DEF Down, NodeRows
  <2>2. [row EXCEPT !.lease = Down(@)] \in NodeRows
    BY <2>1 DEF NodeRows
  <2> QED
    BY <2>2, NoRowIsNone DEF SameRow, NodeRows
<1> QED
  BY <1>1 DEF AgeLeases, SameRows

(* The steps that matter for access, and the others.                       *)
LEMMA PairingCases ==
    ASSUME PairingTypeOK, PairingNext
    PROVE  \/ Quiet
           \/ \E t \in Tokens, n \in Nodes \cup {None} : CreateToken(t, n)
           \/ \E w \in Workers, t \in Tokens, n \in Nodes, torn \in BOOLEAN :
                 HubPair(w, t, n, torn)
           \/ StartHub \/ Tick \/ TakeBackup \/ Restore
           \/ \E n \in Nodes, done \in 1 .. 3 : Revoke(n, done)
           \/ \E n \in Nodes, done \in 1 .. 2 : Rename(n, done)
<1>1. ASSUME Operator
      PROVE  \/ StopHub
             \/ \E t \in Tokens, n \in Nodes \cup {None} : CreateToken(t, n)
             \/ TakeBackup \/ Restore
             \/ \E n \in Nodes, done \in 1 .. 3 : Revoke(n, done)
             \/ \E n \in Nodes, done \in 1 .. 2 : Rename(n, done)
  BY <1>1 DEF Operator
<1>2. ASSUME NEW w \in Workers, WorkerSteps(w)
      PROVE  \/ StartWorker(w) \/ Bind(w)
             \/ \E heard \in BOOLEAN : StopWorker(w, heard)
             \/ \E v \in Workers : Copy(w, v)
             \/ \E kind \in {"hello", "recover", "upload"} : Arrive(w, kind)
             \/ \E t \in Tokens, n \in Nodes, torn \in BOOLEAN : HubPair(w, t, n, torn)
  BY <1>2 DEF WorkerSteps
<1> QED
  BY <1>1, <1>2, QuietSteps DEF PairingNext

(* Which nodes there are only grows, but for a restore, and with it what   *)
(* a backup held and the registry knows.                                   *)
LEMMA NodesStay ==
    ASSUME PairingTypeOK, ReplacementsExist, PairingNext
    PROVE  \A n \in Nodes :
              /\ nodes[n] # None /\ ~Restore => nodes'[n] # None
              /\ Restore /\ backup.nodes[n] # None => nodes'[n] # None
<1> USE DEF databaseVars, historyVars
<1>1. nodes \in [Nodes -> NodeRows \cup {None}] /\ registry \in [Nodes -> RegistryRows \cup {None}]
  BY DEF PairingTypeOK
<1>2. CASE Restore
  <2>1. backup # None /\ backup.nodes \in [Nodes -> NodeRows \cup {None}]
        /\ nodes' = Unleased(Initialized(backup.nodes))
    BY <1>2 DEF Restore, PairingTypeOK, Tables
  <2> QED
    BY <1>1, <1>2, <2>1, RestoredRows
<1>3. ASSUME SameRows(nodes, nodes')
      PROVE  \A n \in Nodes : nodes[n] # None => nodes'[n] # None
  BY <1>3 DEF SameRows, SameRow
<1>4. ASSUME UNCHANGED nodes
      PROVE  \A n \in Nodes : nodes[n] # None => nodes'[n] # None
  BY <1>4
<1>5. ASSUME NEW t \in Tokens, NEW n \in Nodes \cup {None}, CreateToken(t, n)
      PROVE  UNCHANGED nodes
  BY <1>5 DEF CreateToken
<1>6. ASSUME TakeBackup
      PROVE  UNCHANGED nodes
  BY <1>6 DEF TakeBackup
<1>7. ASSUME Tick
      PROVE  \A n \in Nodes : nodes[n] # None => nodes'[n] # None
  <2>1. nodes' = AgeLeases(nodes)
    BY <1>7 DEF Tick
  <2> QED
    BY <1>1, <2>1, AgedLeases DEF SameRows, SameRow
<1>8. ASSUME StartHub
      PROVE  \A n \in Nodes : nodes[n] # None => nodes'[n] # None
  BY <1>1, <1>8, RestoredRows DEF StartHub
<1>9. ASSUME NEW w \in Workers, NEW t \in Tokens, NEW n \in Nodes, NEW torn \in BOOLEAN,
             HubPair(w, t, n, torn)
      PROVE  \A m \in Nodes : nodes[m] # None => nodes'[m] # None
  <2>1. PICK row \in NodeRows : nodes' = [nodes EXCEPT ![n] = row]
    BY <1>9, PairedRow
  <2> QED
    BY <1>1, <2>1, NoRowIsNone
<1>10. ASSUME NEW n \in Nodes, NEW done \in 1 .. 3, Revoke(n, done)
       PROVE  \A m \in Nodes : nodes[m] # None => nodes'[m] # None
  <2> DEFINE row == [nodes[n] EXCEPT !.revoked = TRUE]
  <2>1. nodes[n] \in NodeRows /\ (nodes' = nodes \/ nodes' = [nodes EXCEPT ![n] = row])
    BY <1>1, <1>10 DEF Revoke
  <2>2. row \in NodeRows
    BY <2>1 DEF NodeRows
  <2> HIDE DEF row
  <2> QED
    BY <1>1, <2>1, <2>2, NoRowIsNone
<1>11. ASSUME NEW n \in Nodes, NEW done \in 1 .. 2, Rename(n, done)
       PROVE  \A m \in Nodes : nodes[m] # None => nodes'[m] # None
  <2> DEFINE row == [nodes[n] EXCEPT !.name = 1]
  <2>1. nodes[n] \in NodeRows /\ (nodes' = nodes \/ nodes' = [nodes EXCEPT ![n] = row])
    BY <1>1, <1>11 DEF Rename
  <2>2. row \in NodeRows
    BY <2>1 DEF NodeRows
  <2> HIDE DEF row
  <2> QED
    BY <1>1, <2>1, <2>2, NoRowIsNone
<1> QED
  BY <1>2, <1>3, <1>4, <1>5, <1>6, <1>7, <1>8, <1>9, <1>10, <1>11, PairingCases DEF Quiet

----------------------------------------------------------------------------
(* Each part of the invariant is kept by every step.                       *)

(* No step makes a token row that was not issued, or changes what one was  *)
(* issued for.                                                             *)
LEMMA TokensIssuedStay ==
    ASSUME PairingTypeOK, TokensIssued, PairingNext
    PROVE  TokensIssued'
<1> USE DEF databaseVars, historyVars
<1>0. /\ pairing \in [Tokens -> TokenRows \cup {None}]
      /\ issued \in [Tokens -> Purposes \cup {None}]
      /\ backup # None => backup.pairing \in [Tokens -> TokenRows \cup {None}]
  BY DEF PairingTypeOK, Tables
<1>1. ASSUME UNCHANGED issued,
             FewerRows(pairing, pairing') \/ (backup # None /\ FewerRows(backup.pairing, pairing')),
             backup' # None =>
               \/ FewerRows(pairing, backup'.pairing)
               \/ backup # None /\ FewerRows(backup.pairing, backup'.pairing)
      PROVE  TokensIssued'
  BY <1>1 DEF TokensIssued, RowsAreIssued, FewerRows
<1>2. \A table : FewerRows(table, table)
  BY DEF FewerRows
<1>3. ASSUME NEW t \in Tokens, NEW n \in Nodes \cup {None}, CreateToken(t, n)
      PROVE  TokensIssued'
  <2>1. [node |-> n] \in Purposes /\ [node |-> n] # None
    BY NoRowIsNone DEF Purposes
  <2>2. /\ issued[t] = None /\ UNCHANGED backup
        /\ issued' = [issued EXCEPT ![t] = [node |-> n]]
        /\ pairing' = [Swept(n) EXCEPT ![t] = [left |-> TokenLife, node |-> n]]
    BY <1>3 DEF CreateToken
  <2>3. issued'[t] # None /\ issued'[t].node = n
    BY <1>0, <2>1, <2>2
  <2>4. pairing'[t].node = n /\ \A s \in Tokens \ {t} : pairing'[s] = Swept(n)[s]
    BY <2>2 DEF Swept
  <2>5. \A s \in Tokens : Swept(n)[s] # None => Swept(n)[s] = pairing[s]
    BY DEF Swept
  <2>6. \A s \in Tokens \ {t} : issued'[s] = issued[s]
    BY <1>0, <2>2
  <2>7. RowsAreIssued(pairing)'
    BY <2>3, <2>4, <2>5, <2>6 DEF TokensIssued, RowsAreIssued
  <2>8. (backup # None => RowsAreIssued(backup.pairing))'
    BY <2>2, <2>6 DEF TokensIssued, RowsAreIssued
  <2> QED
    BY <2>7, <2>8 DEF TokensIssued
<1>4. ASSUME NEW w \in Workers, NEW t \in Tokens, NEW n \in Nodes, NEW torn \in BOOLEAN,
             HubPair(w, t, n, torn)
      PROVE  TokensIssued'
  <2>1. UNCHANGED <<issued, backup>> /\ FewerRows(pairing, pairing')
    BY <1>0, <1>4 DEF HubPair, Consumed, FewerRows
  <2> QED
    BY <1>1, <1>2, <2>1
<1>5. CASE Tick
  <2>1. UNCHANGED issued /\ FewerRows(pairing, pairing')
    BY <1>0, <1>5, AgedTokens DEF Tick
  <2>2. ASSUME backup' # None
        PROVE  backup # None /\ FewerRows(backup.pairing, backup'.pairing)
    <3>1. backup # None /\ backup \in Tables
          /\ backup' = [backup EXCEPT !.pairing = AgeTokens(backup.pairing)]
      BY <1>5, <2>2 DEF Tick, PairingTypeOK
    <3>2. backup'.pairing = AgeTokens(backup.pairing)
      BY <3>1 DEF Tables
    <3> QED
      BY <1>0, <3>1, <3>2, AgedTokens
  <2> QED
    BY <1>1, <2>1, <2>2
<1>6. CASE TakeBackup \/ Restore
  <2>1. CASE TakeBackup
    BY <1>1, <1>2, <2>1 DEF TakeBackup
  <2>2. CASE Restore
    BY <1>1, <1>2, <2>2 DEF Restore
  <2> QED
    BY <1>6, <2>1, <2>2
<1>7. ASSUME NEW n \in Nodes, NEW done \in 1 .. 3, Revoke(n, done)
      PROVE  TokensIssued'
  <2>1. UNCHANGED <<issued, backup>> /\ FewerRows(pairing, pairing')
    BY <1>7 DEF Revoke, FewerRows
  <2> QED
    BY <1>1, <1>2, <2>1
<1>8. ASSUME UNCHANGED <<issued, pairing, backup>>
      PROVE  TokensIssued'
  BY <1>1, <1>2, <1>8
<1>9. ASSUME NEW n \in Nodes, NEW done \in 1 .. 2, Rename(n, done)
      PROVE  TokensIssued'
  BY <1>8, <1>9 DEF Rename
<1>10. CASE StartHub
  BY <1>8, <1>10 DEF StartHub
<1>11. CASE Quiet
  BY <1>8, <1>11 DEF Quiet
<1> QED
  BY <1>3, <1>4, <1>5, <1>6, <1>7, <1>9, <1>10, <1>11, PairingCases

(* A node that is to be replaced is never removed, and a backup is taken   *)
(* of both tables at once.                                                 *)
LEMMA ReplacementsExistStay ==
    ASSUME PairingTypeOK, ReplacementsExist, PairingNext
    PROVE  ReplacementsExist'
<1> USE DEF databaseVars, historyVars
<1>0. /\ pairing \in [Tokens -> TokenRows \cup {None}]
      /\ nodes \in [Nodes -> NodeRows \cup {None}]
      /\ backup # None => /\ backup.pairing \in [Tokens -> TokenRows \cup {None}]
                          /\ backup.nodes \in [Nodes -> NodeRows \cup {None}]
  BY DEF PairingTypeOK, Tables
<1>a. ASSUME NEW table \in [Tokens -> TokenRows \cup {None}], NEW t \in Tokens,
             table[t] # None, table[t].node # None
      PROVE  table[t].node \in Nodes
  <2>1. table[t] \in TokenRows
    BY <1>a
  <2> QED
    BY <1>a, <2>1 DEF TokenRows
<1>b. ~Restore => \A n \in Nodes : nodes[n] # None => nodes'[n] # None
  BY NodesStay
<1>1. ASSUME ~Restore, FewerRows(pairing, pairing'), UNCHANGED backup
      PROVE  ReplacementsExist'
  BY <1>0, <1>1, <1>a, <1>b DEF ReplacementsExist, ReplacedExist, FewerRows
<1>2. ASSUME ~Restore, UNCHANGED <<pairing, backup>>
      PROVE  ReplacementsExist'
  BY <1>1, <1>2 DEF FewerRows
<1>3. ASSUME ~Restore, NEW t \in Tokens, NEW n \in Nodes \cup {None}, CreateToken(t, n)
      PROVE  ReplacementsExist'
  <2>1. /\ UNCHANGED backup /\ UNCHANGED nodes /\ (n # None => nodes[n] # None)
        /\ pairing' = [Swept(n) EXCEPT ![t] = [left |-> TokenLife, node |-> n]]
    BY <1>3 DEF CreateToken
  <2>2. pairing'[t].node = n /\ \A s \in Tokens \ {t} : pairing'[s] = Swept(n)[s]
    BY <2>1 DEF Swept
  <2>3. \A s \in Tokens : Swept(n)[s] # None => Swept(n)[s] = pairing[s]
    BY DEF Swept
  <2> QED
    BY <2>1, <2>2, <2>3 DEF ReplacementsExist, ReplacedExist
<1>4. ASSUME ~Restore, NEW w \in Workers, NEW t \in Tokens, NEW n \in Nodes, NEW torn \in BOOLEAN,
             HubPair(w, t, n, torn)
      PROVE  ReplacementsExist'
  BY <1>0, <1>1, <1>4 DEF HubPair, Consumed, FewerRows
<1>5. ASSUME ~Restore, Tick
      PROVE  ReplacementsExist'
  <2>1. FewerRows(pairing, pairing')
    BY <1>0, <1>5, AgedTokens DEF Tick
  <2>2. ReplacedExist(pairing, nodes)'
    BY <1>0, <1>5, <1>a, <1>b, <2>1 DEF ReplacementsExist, ReplacedExist, FewerRows
  <2>3. ASSUME backup' # None
        PROVE  ReplacedExist(backup'.pairing, backup'.nodes)
    <3>1. backup # None /\ backup \in Tables
          /\ backup' = [backup EXCEPT !.pairing = AgeTokens(backup.pairing)]
      BY <1>5, <2>3 DEF Tick, PairingTypeOK
    <3>2. backup'.pairing = AgeTokens(backup.pairing) /\ backup'.nodes = backup.nodes
      BY <3>1 DEF Tables
    <3>3. FewerRows(backup.pairing, backup'.pairing)
      BY <1>0, <3>1, <3>2, AgedTokens
    <3> QED
      BY <3>1, <3>2, <3>3 DEF ReplacementsExist, ReplacedExist, FewerRows
  <2> QED
    BY <2>2, <2>3 DEF ReplacementsExist
<1>6. ASSUME ~Restore, TakeBackup
      PROVE  ReplacementsExist'
  <2>1. /\ UNCHANGED <<pairing, nodes>> /\ backup'.pairing = pairing
        /\ backup'.nodes = Unleased(nodes)
    BY <1>6 DEF TakeBackup
  <2>2. \A n \in Nodes : nodes[n] # None => Unleased(nodes)[n] # None
    BY <1>0, UnleasedSame DEF SameRows, SameRow
  <2> QED
    BY <1>0, <1>a, <2>1, <2>2 DEF ReplacementsExist, ReplacedExist
<1>7. CASE Restore
  <2>1. backup # None /\ pairing' = backup.pairing /\ backup' = None
    BY <1>7 DEF Restore
  <2> QED
    BY <1>0, <1>7, <1>a, <2>1, NodesStay DEF ReplacementsExist, ReplacedExist
<1>8. ASSUME ~Restore, NEW n \in Nodes, NEW done \in 1 .. 3, Revoke(n, done)
      PROVE  ReplacementsExist'
  BY <1>1, <1>8 DEF Revoke, FewerRows
<1>9. ASSUME ~Restore, NEW n \in Nodes, NEW done \in 1 .. 2, Rename(n, done)
      PROVE  ReplacementsExist'
  BY <1>2, <1>9 DEF Rename
<1>10. ASSUME ~Restore, StartHub
       PROVE  ReplacementsExist'
  BY <1>2, <1>10 DEF StartHub
<1>11. ASSUME ~Restore, Quiet
       PROVE  ReplacementsExist'
  BY <1>2, <1>11 DEF Quiet
<1> QED
  BY <1>3, <1>4, <1>5, <1>6, <1>7, <1>8, <1>9, <1>10, <1>11, PairingCases

(* What a step grants.                                                     *)
LEMMA GrantSteps ==
    ASSUME PairingTypeOK, PairingNext
    PROVE  \/ UNCHANGED grants
           \/ \E w \in Workers, t \in Tokens, n \in Nodes, torn \in BOOLEAN :
                 HubPair(w, t, n, torn)
BY PairingCases DEF Quiet, CreateToken, StartHub, Tick, TakeBackup, Restore, Revoke, Rename,
                    historyVars

(* A token that gave a grant is not usable again until a restore begins a  *)
(* new data epoch.                                                         *)
LEMMA TokensUsedUpStay ==
    ASSUME PairingTypeOK, TokensIssued, TokensUsedUp, PairingNext
    PROVE  TokensUsedUp'
<1> USE DEF databaseVars, historyVars
<1>0. /\ pairing \in [Tokens -> TokenRows \cup {None}]
      /\ issued \in [Tokens -> Purposes \cup {None}]
      /\ epoch \in Nat
      /\ \A g \in grants : g.token \in Tokens /\ g.epoch \in Nat
  BY PairingAssumption DEF PairingTypeOK, Grants
<1>1. ASSUME UNCHANGED <<grants, issued, epoch>>,
             \A t \in Tokens : pairing[t] = None => pairing'[t] = None
      PROVE  TokensUsedUp'
  BY <1>0, <1>1 DEF TokensUsedUp
<1>2. ASSUME NEW t \in Tokens, NEW n \in Nodes \cup {None}, CreateToken(t, n)
      PROVE  TokensUsedUp'
  <2>1. /\ issued[t] = None /\ UNCHANGED <<grants, epoch>>
        /\ issued' = [issued EXCEPT ![t] = [node |-> n]]
        /\ pairing' = [Swept(n) EXCEPT ![t] = [left |-> TokenLife, node |-> n]]
    BY <1>2 DEF CreateToken
  <2>2. \A s \in Tokens \ {t} : issued'[s] = issued[s] /\ pairing'[s] = Swept(n)[s]
    BY <1>0, <2>1 DEF Swept
  <2>3. \A s \in Tokens : pairing[s] = None => Swept(n)[s] = None
    BY DEF Swept
  <2>4. \A g \in grants : g.token \in Tokens \ {t}
    BY <1>0, <2>1 DEF TokensUsedUp
  <2> QED
    BY <1>0, <2>1, <2>2, <2>3, <2>4 DEF TokensUsedUp
<1>3. ASSUME NEW w \in Workers, NEW t \in Tokens, NEW n \in Nodes, NEW torn \in BOOLEAN,
             HubPair(w, t, n, torn)
      PROVE  TokensUsedUp'
  <2> DEFINE new == [token |-> t, epoch |-> epoch, node |-> n, worker |-> w]
  <2>1. /\ UNCHANGED <<issued, epoch>> /\ grants' = grants \cup {new}
        /\ pairing[t] # None /\ pairing' = [pairing EXCEPT ![t] = None]
    BY <1>3 DEF HubPair, Consumed, Usable
  <2>2. issued[t] # None
    BY <2>1 DEF TokensIssued, RowsAreIssued
  <2>3. \A s \in Tokens : s = t \/ pairing[s] = None => pairing'[s] = None
    BY <1>0, <2>1
  <2>4. new.token = t /\ new.epoch = epoch
    OBVIOUS
  <2> HIDE DEF new
  <2> QED
    BY <1>0, <2>1, <2>2, <2>3, <2>4 DEF TokensUsedUp
<1>4. CASE Restore
  BY <1>0, <1>4 DEF TokensUsedUp, Restore
<1>5. CASE Quiet
  BY <1>1, <1>5 DEF Quiet
<1>6. CASE StartHub
  BY <1>1, <1>6 DEF StartHub
<1>7. CASE TakeBackup
  BY <1>1, <1>7 DEF TakeBackup
<1>8. CASE Tick
  BY <1>1, <1>8 DEF Tick, AgeTokens
<1>9. ASSUME NEW n \in Nodes, NEW done \in 1 .. 3, Revoke(n, done)
      PROVE  TokensUsedUp'
  BY <1>1, <1>9 DEF Revoke
<1>10. ASSUME NEW n \in Nodes, NEW done \in 1 .. 2, Rename(n, done)
       PROVE  TokensUsedUp'
  BY <1>1, <1>10 DEF Rename
<1> QED
  BY <1>2, <1>3, <1>4, <1>5, <1>6, <1>7, <1>8, <1>9, <1>10, PairingCases

(* Steps while the Hub serves change both databases alike, and its start   *)
(* repairs what a crash left between them.                                 *)
LEMMA DatabasesAgreeStay ==
    ASSUME PairingTypeOK, ReplacementsExist, DatabasesAgree, PairingNext
    PROVE  DatabasesAgree'
<1> USE DEF databaseVars, historyVars
<1>0. /\ nodes \in [Nodes -> NodeRows \cup {None}]
      /\ registry \in [Nodes -> RegistryRows \cup {None}]
      /\ backup # None => backup.nodes \in [Nodes -> NodeRows \cup {None}]
  BY DEF PairingTypeOK, Tables
<1>1. ASSUME hubUp' => hubUp, SameRows(nodes, nodes'), UNCHANGED registry
      PROVE  DatabasesAgree'
  BY <1>1 DEF DatabasesAgree, SameRows, SameRow
<1>2. ASSUME ~hubUp'
      PROVE  DatabasesAgree'
  BY <1>2 DEF DatabasesAgree
<1>3. ASSUME NEW w \in Workers, NEW t \in Tokens, NEW n \in Nodes, NEW torn \in BOOLEAN,
             HubPair(w, t, n, torn)
      PROVE  DatabasesAgree'
  <2>1. CASE torn
    BY <1>2, <1>3, <2>1 DEF HubPair
  <2>2. CASE ~torn
    <3> DEFINE name == IF pairing[t].node # None THEN nodes[n].name ELSE 0
    <3>1. PICK row \in NodeRows :
            nodes' = [nodes EXCEPT ![n] = row] /\ ~row.revoked /\ row.name = name
      BY <1>3, PairedRow
    <3>2. registry' = [registry EXCEPT ![n] =
              [credential |-> <<t, epoch>>, name |-> name, stream |-> worker[w].stream,
               revoked |-> FALSE]]
      BY <1>3, <2>2 DEF HubPair, Fresh
    <3>3. registry'[n].revoked = FALSE /\ registry'[n].name = name
      BY <1>0, <3>2
    <3>4. nodes'[n] = row /\ \A m \in Nodes \ {n} : registry'[m] = registry[m]
                                                    /\ nodes'[m] = nodes[m]
      BY <1>0, <3>1, <3>2
    <3>5. row # None /\ row.revoked = FALSE
      BY <3>1, NoRowIsNone DEF NodeRows
    <3>6. hubUp
      BY <1>3 DEF HubPair
    <3> HIDE DEF name
    <3> QED
      BY <3>1, <3>3, <3>4, <3>5, <3>6 DEF DatabasesAgree
  <2> QED
    BY <2>1, <2>2
<1>4. CASE StartHub
  BY <1>0, <1>4, RestoredRows DEF StartHub, DatabasesAgree
<1>5. CASE Restore
  <2>1. backup.nodes \in [Nodes -> NodeRows \cup {None}] /\ UNCHANGED registry
        /\ nodes' = Unleased(Initialized(backup.nodes))
    BY <1>0, <1>5 DEF Restore
  <2> QED
    BY <1>0, <2>1, RestoredRows DEF DatabasesAgree
<1>6. CASE Tick
  BY <1>0, <1>1, <1>6, AgedLeases DEF Tick
<1>7. CASE TakeBackup
  BY <1>2, <1>7 DEF TakeBackup, CrashedHub
<1>8. CASE Quiet
  BY <1>1, <1>8 DEF Quiet
<1>9. ASSUME NEW t \in Tokens, NEW n \in Nodes \cup {None}, CreateToken(t, n)
      PROVE  DatabasesAgree'
  BY <1>9 DEF CreateToken, DatabasesAgree
<1>10. ASSUME NEW n \in Nodes, NEW done \in 1 .. 3, Revoke(n, done)
       PROVE  DatabasesAgree'
  <2>1. CASE done # 3
    BY <1>2, <1>10, <2>1 DEF Revoke, CrashedHub
  <2>2. CASE done = 3
    <3> DEFINE row == [nodes[n] EXCEPT !.revoked = TRUE]
               kept == [registry[n] EXCEPT !.revoked = TRUE]
    <3>1. /\ hubUp /\ nodes[n] \in NodeRows /\ nodes' = [nodes EXCEPT ![n] = row]
          /\ IF registry[n] # None THEN registry' = [registry EXCEPT ![n] = kept]
             ELSE registry' = registry
      BY <1>0, <1>10, <2>2 DEF Revoke
    <3>2. row \in NodeRows /\ row.revoked = TRUE /\ row.name = nodes[n].name
      BY <3>1 DEF NodeRows
    <3>3. registry[n] # None => kept.revoked = TRUE /\ kept.name = registry[n].name
      BY <1>0 DEF RegistryRows
    <3>4. registry[n] # None => nodes[n].name = registry[n].name
      BY <3>1 DEF DatabasesAgree
    <3> HIDE DEF row, kept
    <3>5. /\ nodes'[n] = row /\ row # None
          /\ registry[n] # None => registry'[n] = kept
          /\ registry[n] = None => registry'[n] = None
          /\ \A m \in Nodes \ {n} : nodes'[m] = nodes[m] /\ registry'[m] = registry[m]
      BY <1>0, <3>1, <3>2, NoRowIsNone
    <3>6. ASSUME registry'[n] # None
          PROVE  /\ nodes'[n] # None /\ nodes'[n].revoked = registry'[n].revoked
                 /\ nodes'[n].name = registry'[n].name
      <4>1. registry[n] # None
        BY <3>5, <3>6
      <4>2. nodes'[n] = row /\ registry'[n] = kept
        BY <3>5, <4>1
      <4> QED
        BY <3>2, <3>3, <3>4, <3>5, <4>1, <4>2
    <3>7. \A m \in Nodes \ {n} : registry'[m] # None =>
              /\ nodes'[m] # None /\ nodes'[m].revoked = registry'[m].revoked
              /\ nodes'[m].name = registry'[m].name
      BY <3>1, <3>5 DEF DatabasesAgree
    <3> QED
      BY <3>6, <3>7 DEF DatabasesAgree
  <2> QED
    BY <2>1, <2>2
<1>11. ASSUME NEW n \in Nodes, NEW done \in 1 .. 2, Rename(n, done)
       PROVE  DatabasesAgree'
  <2>1. CASE done # 2
    BY <1>2, <1>11, <2>1 DEF Rename, CrashedHub
  <2>2. CASE done = 2
    <3> DEFINE row == [nodes[n] EXCEPT !.name = 1]
               kept == [registry[n] EXCEPT !.name = 1]
    <3>1. /\ hubUp /\ nodes[n] \in NodeRows /\ nodes' = [nodes EXCEPT ![n] = row]
          /\ IF registry[n] # None THEN registry' = [registry EXCEPT ![n] = kept]
             ELSE registry' = registry
      BY <1>0, <1>11, <2>2 DEF Rename
    <3>2. row \in NodeRows /\ row.name = 1 /\ row.revoked = nodes[n].revoked
      BY <3>1 DEF NodeRows
    <3>3. registry[n] # None => kept.name = 1 /\ kept.revoked = registry[n].revoked
      BY <1>0 DEF RegistryRows
    <3>4. registry[n] # None => nodes[n].revoked = registry[n].revoked
      BY <3>1 DEF DatabasesAgree
    <3> HIDE DEF row, kept
    <3>5. /\ nodes'[n] = row /\ row # None
          /\ registry[n] # None => registry'[n] = kept
          /\ registry[n] = None => registry'[n] = None
          /\ \A m \in Nodes \ {n} : nodes'[m] = nodes[m] /\ registry'[m] = registry[m]
      BY <1>0, <3>1, <3>2, NoRowIsNone
    <3> QED
      BY <3>1, <3>2, <3>3, <3>4, <3>5 DEF DatabasesAgree
  <2> QED
    BY <2>1, <2>2
<1> QED
  BY <1>3, <1>4, <1>5, <1>6, <1>7, <1>8, <1>9, <1>10, <1>11, PairingCases

(* What a step does to the registry: nothing, a new credential for one     *)
(* node, or a mark on a row.                                               *)
NewlyRegistered(w, t, n) ==
    registry' = [registry EXCEPT ![n] =
        [credential |-> <<t, epoch>>, stream |-> worker[w].stream, revoked |-> FALSE,
         name |-> IF pairing[t].node # None THEN nodes[n].name ELSE 0]]
Marked ==
    \A n \in Nodes :
        /\ registry[n] = None => registry'[n] = None
        /\ registry'[n] # None /\ registry[n] # None =>
             /\ registry'[n].credential = registry[n].credential
             /\ registry[n].revoked => registry'[n].revoked

(* The steps that change the registry: none of them brings back a          *)
(* credential; a new pairing brings a new one.                             *)
LEMMA RegistrySteps ==
    ASSUME PairingTypeOK, PairingNext
    PROVE  \/ /\ Marked
              /\ \/ UNCHANGED retired /\ \A n \in Nodes :
                       registry'[n] # None /\ registry[n] # None =>
                          registry'[n].revoked = registry[n].revoked
                 \/ retired' = retired \cup (Live \ Live')
           \/ /\ retired' = retired \cup (Live \ Live')
              /\ \E w \in Workers, t \in Tokens, n \in Nodes, torn \in BOOLEAN :
                    HubPair(w, t, n, torn) /\ NewlyRegistered(w, t, n)
<1> USE DEF databaseVars, historyVars
<1>0. registry \in [Nodes -> RegistryRows \cup {None}]
  BY DEF PairingTypeOK
<1>1. ASSUME UNCHANGED <<registry, retired>>
      PROVE  Marked /\ UNCHANGED retired /\ \A n \in Nodes :
                registry'[n] # None /\ registry[n] # None =>
                    registry'[n].revoked = registry[n].revoked
  BY <1>1 DEF Marked
<1>2. ASSUME NEW w \in Workers, NEW t \in Tokens, NEW n \in Nodes, NEW torn \in BOOLEAN,
             HubPair(w, t, n, torn)
      PROVE  \/ UNCHANGED <<registry, retired>>
             \/ NewlyRegistered(w, t, n) /\ retired' = retired \cup (Live \ Live')
  <2>1. CASE torn
    BY <1>2, <2>1 DEF HubPair
  <2>2. CASE ~torn
    <3>1. registry' = [registry EXCEPT ![n] =
              [credential |-> <<t, epoch>>, stream |-> worker[w].stream, revoked |-> FALSE,
               name |-> IF pairing[t].node # None THEN nodes[n].name ELSE 0]]
      BY <1>2, <2>2 DEF HubPair, Fresh
    <3>2. retired' = retired \cup (Live \ Live')
      BY <1>2, <2>2 DEF HubPair
    <3> QED
      BY <3>1, <3>2 DEF NewlyRegistered
  <2> QED
    BY <2>1, <2>2
<1>3. ASSUME NEW n \in Nodes, NEW done \in 1 .. 3, Revoke(n, done)
      PROVE  Marked /\ retired' = retired \cup (Live \ Live')
  <2> DEFINE kept == [registry[n] EXCEPT !.revoked = TRUE]
  <2>1. registry[n] # None => kept.credential = registry[n].credential /\ kept.revoked = TRUE
    BY <1>0 DEF RegistryRows
  <2>2. \/ registry' = registry
        \/ registry[n] # None /\ registry' = [registry EXCEPT ![n] = kept]
    BY <1>3 DEF Revoke
  <2>3. retired' = retired \cup (Live \ Live')
    BY <1>3 DEF Revoke
  <2> HIDE DEF kept
  <2>4. Marked
    BY <1>0, <2>1, <2>2 DEF Marked
  <2> QED
    BY <2>3, <2>4
<1>4. ASSUME NEW n \in Nodes, NEW done \in 1 .. 2, Rename(n, done)
      PROVE  Marked /\ UNCHANGED retired /\ \A m \in Nodes :
                registry'[m] # None /\ registry[m] # None =>
                    registry'[m].revoked = registry[m].revoked
  <2> DEFINE kept == [registry[n] EXCEPT !.name = 1]
  <2>1. registry[n] # None => kept.credential = registry[n].credential
                              /\ kept.revoked = registry[n].revoked
    BY <1>0 DEF RegistryRows
  <2>2. \/ registry' = registry
        \/ registry[n] # None /\ registry' = [registry EXCEPT ![n] = kept]
    BY <1>4 DEF Rename
  <2>3. UNCHANGED retired
    BY <1>4 DEF Rename
  <2> HIDE DEF kept
  <2> QED
    BY <1>0, <2>1, <2>2, <2>3 DEF Marked
<1>5. CASE Quiet
  BY <1>1, <1>5 DEF Quiet
<1>6. ASSUME NEW t \in Tokens, NEW n \in Nodes \cup {None}, CreateToken(t, n)
      PROVE  UNCHANGED <<registry, retired>>
  BY <1>6 DEF CreateToken
<1>7. CASE StartHub \/ Tick \/ TakeBackup \/ Restore
  BY <1>1, <1>7 DEF StartHub, Tick, TakeBackup, Restore
<1> QED
  BY <1>1, <1>2, <1>3, <1>4, <1>5, <1>6, <1>7, PairingCases

(* A token that can be used has given no credential in this epoch.         *)
LEMMA NewCredential ==
    ASSUME PairingTypeOK, TokensUsedUp, NEW t \in Tokens, Usable(t)
    PROVE  <<t, epoch>> \notin Granted
BY DEF Granted, TokensUsedUp, Usable, PairingTypeOK, Grants

(* Accepted credentials are those of unrevoked rows of the registry.       *)
LEMMA AcceptedIffLive ==
    ASSUME NEW c
    PROVE  AcceptedFor(c) = {} <=> c \notin Live
BY DEF AcceptedFor, Accepts, Live

(* The same after a step.                                                  *)
LEMMA AcceptedIffLiveNext ==
    ASSUME NEW c
    PROVE  (AcceptedFor(c) = {})' <=> c \notin Live'
BY DEF AcceptedFor, Accepts, Live

(* A retired credential is not live after any step: a restore leaves the   *)
(* registry alone and a pairing draws a new secret.                        *)
LEMMA RetiredStaysSo ==
    ASSUME PairingTypeOK, TokensUsedUp, CredentialsGranted, RetiredStaysRetired, PairingNext
    PROVE  RetiredStaysRetired'
<1>1. /\ registry \in [Nodes -> RegistryRows \cup {None}]
      /\ \A c \in retired : c \notin Live
  BY AcceptedIffLive DEF PairingTypeOK, RetiredStaysRetired
<1>2. CASE Marked /\ UNCHANGED retired /\ \A n \in Nodes :
              registry'[n] # None /\ registry[n] # None =>
                  registry'[n].revoked = registry[n].revoked
  <2>1. Live' \subseteq Live
    BY <1>2 DEF Live, Marked
  <2> QED
    BY <1>1, <1>2, <2>1, AcceptedIffLiveNext DEF RetiredStaysRetired
<1>3. CASE Marked /\ retired' = retired \cup (Live \ Live')
  <2>1. Live' \subseteq Live
    BY <1>3 DEF Live, Marked
  <2> QED
    BY <1>1, <1>3, <2>1, AcceptedIffLiveNext DEF RetiredStaysRetired
<1>4. ASSUME retired' = retired \cup (Live \ Live'),
             NEW w \in Workers, NEW t \in Tokens, NEW n \in Nodes, NEW torn \in BOOLEAN,
             HubPair(w, t, n, torn), NewlyRegistered(w, t, n)
      PROVE  RetiredStaysRetired'
  <2>1. <<t, epoch>> \notin retired
    BY <1>4, NewCredential DEF HubPair, CredentialsGranted
  <2>2. /\ registry'[n].credential = <<t, epoch>>
        /\ \A m \in Nodes \ {n} : registry'[m] = registry[m]
    BY <1>1, <1>4 DEF NewlyRegistered
  <2>3. Live' \subseteq Live \cup {<<t, epoch>>}
    BY <2>2 DEF Live
  <2> QED
    BY <1>1, <1>4, <2>1, <2>3, AcceptedIffLiveNext DEF RetiredStaysRetired
<1> QED
  BY <1>2, <1>3, <1>4, RegistrySteps

(* No step writes a credential that no token gave.                         *)
LEMMA CredentialsGrantedStay ==
    ASSUME PairingTypeOK, ReplacementsExist, CredentialsGranted, PairingNext
    PROVE  CredentialsGranted'
<1> USE DEF databaseVars, historyVars
<1>0. /\ nodes \in [Nodes -> NodeRows \cup {None}]
      /\ registry \in [Nodes -> RegistryRows \cup {None}]
      /\ backup # None => backup \in Tables /\ backup.nodes \in [Nodes -> NodeRows \cup {None}]
  BY DEF PairingTypeOK, Tables
<1>1. grants \subseteq grants'
  <2>1. ASSUME NEW w \in Workers, NEW t \in Tokens, NEW n \in Nodes, NEW torn \in BOOLEAN,
               HubPair(w, t, n, torn)
        PROVE  grants \subseteq grants'
    BY <2>1 DEF HubPair
  <2> QED
    BY <2>1, GrantSteps
<1>2. Granted \subseteq Granted'
  BY <1>1 DEF Granted
<1>3. ASSUME NEW w \in Workers, NEW t \in Tokens, NEW n \in Nodes, NEW torn \in BOOLEAN,
             HubPair(w, t, n, torn)
      PROVE  <<t, epoch>> \in Granted'
  <2> DEFINE new == [token |-> t, epoch |-> epoch, node |-> n, worker |-> w]
  <2>1. new \in grants' /\ new.token = t /\ new.epoch = epoch
    BY <1>3 DEF HubPair
  <2> QED
    BY <2>1 DEF Granted
<1>4. RowsAreGranted(registry)'
  <2>1. CASE Marked
    BY <1>2, <2>1 DEF Marked, RowsAreGranted, CredentialsGranted
  <2>2. ASSUME NEW w \in Workers, NEW t \in Tokens, NEW n \in Nodes, NEW torn \in BOOLEAN,
               HubPair(w, t, n, torn), NewlyRegistered(w, t, n)
        PROVE  RowsAreGranted(registry)'
    <3>1. /\ registry'[n].credential = <<t, epoch>>
          /\ \A m \in Nodes \ {n} : registry'[m] = registry[m]
      BY <1>0, <2>2 DEF NewlyRegistered
    <3> QED
      BY <1>2, <1>3, <2>2, <3>1 DEF RowsAreGranted, CredentialsGranted
  <2> QED
    BY <2>1, <2>2, RegistrySteps
<1>5. retired' \subseteq Granted'
  <2>1. Live \subseteq Granted
    BY DEF Live, CredentialsGranted, RowsAreGranted
  <2>2. retired' \subseteq retired \cup Live
    BY RegistrySteps
  <2> QED
    BY <1>2, <2>1, <2>2 DEF CredentialsGranted
<1>6. RowsAreGranted(nodes)'
  <2>1. ASSUME SameRows(nodes, nodes')
        PROVE  RowsAreGranted(nodes)'
    BY <1>2, <2>1 DEF SameRows, SameRow, RowsAreGranted, CredentialsGranted
  <2>2. ASSUME UNCHANGED nodes
        PROVE  RowsAreGranted(nodes)'
    BY <1>2, <2>2 DEF RowsAreGranted, CredentialsGranted
  <2>3. ASSUME NEW w \in Workers, NEW t \in Tokens, NEW n \in Nodes, NEW torn \in BOOLEAN,
               HubPair(w, t, n, torn)
        PROVE  RowsAreGranted(nodes)'
    <3>1. PICK row \in NodeRows :
            nodes' = [nodes EXCEPT ![n] = row] /\ row.credential = <<t, epoch>>
      BY <2>3, PairedRow
    <3>2. nodes'[n] = row /\ \A m \in Nodes \ {n} : nodes'[m] = nodes[m]
      BY <1>0, <3>1
    <3>3. nodes'[n].credential \in Granted'
      BY <1>3, <2>3, <3>1, <3>2
    <3>4. \A m \in Nodes \ {n} : nodes'[m] # None => nodes'[m].credential \in Granted'
      BY <1>2, <3>2 DEF RowsAreGranted, CredentialsGranted
    <3> QED
      BY <3>3, <3>4 DEF RowsAreGranted
  <2>4. CASE StartHub
    <3>1. nodes' = Unleased(Initialized(nodes))
      BY <2>4 DEF StartHub
    <3> QED
      BY <1>0, <1>2, <3>1, RestoredRows DEF RowsAreGranted, CredentialsGranted
  <2>5. CASE Restore
    <3>1. backup # None /\ nodes' = Unleased(Initialized(backup.nodes))
      BY <2>5 DEF Restore
    <3> QED
      BY <1>0, <1>2, <3>1, RestoredRows DEF RowsAreGranted, CredentialsGranted
  <2>6. CASE Tick
    BY <1>0, <2>1, <2>6, AgedLeases DEF Tick
  <2>7. ASSUME NEW t \in Tokens, NEW n \in Nodes \cup {None}, CreateToken(t, n)
        PROVE  RowsAreGranted(nodes)'
    BY <2>2, <2>7 DEF CreateToken
  <2>8. CASE TakeBackup
    BY <2>2, <2>8 DEF TakeBackup
  <2>9. ASSUME NEW n \in Nodes, NEW done \in 1 .. 3, Revoke(n, done)
        PROVE  RowsAreGranted(nodes)'
    <3> DEFINE row == [nodes[n] EXCEPT !.revoked = TRUE]
    <3>1. nodes[n] # None /\ (nodes' = nodes \/ nodes' = [nodes EXCEPT ![n] = row])
      BY <2>9 DEF Revoke
    <3>2. row.credential = nodes[n].credential
      BY <1>0, <3>1 DEF NodeRows
    <3> HIDE DEF row
    <3> QED
      BY <1>0, <1>2, <3>1, <3>2 DEF RowsAreGranted, CredentialsGranted
  <2>10. ASSUME NEW n \in Nodes, NEW done \in 1 .. 2, Rename(n, done)
         PROVE  RowsAreGranted(nodes)'
    <3> DEFINE row == [nodes[n] EXCEPT !.name = 1]
    <3>1. nodes[n] # None /\ (nodes' = nodes \/ nodes' = [nodes EXCEPT ![n] = row])
      BY <2>10 DEF Rename
    <3>2. row.credential = nodes[n].credential
      BY <1>0, <3>1 DEF NodeRows
    <3> HIDE DEF row
    <3> QED
      BY <1>0, <1>2, <3>1, <3>2 DEF RowsAreGranted, CredentialsGranted
  <2> QED
    BY <2>1, <2>3, <2>4, <2>5, <2>6, <2>7, <2>8, <2>9, <2>10, PairingCases DEF Quiet
<1>7. ASSUME backup' # None
      PROVE  RowsAreGranted(backup.nodes)'
  <2>1. CASE TakeBackup
    <3>1. backup'.nodes = Unleased(nodes)
      BY <2>1 DEF TakeBackup
    <3> QED
      BY <1>0, <1>2, <3>1, UnleasedSame DEF SameRows, SameRow, RowsAreGranted, CredentialsGranted
  <2>2. CASE Tick
    <3>1. backup # None /\ backup \in Tables
          /\ backup' = [backup EXCEPT !.pairing = AgeTokens(backup.pairing)]
      BY <1>0, <1>7, <2>2 DEF Tick
    <3>2. backup'.nodes = backup.nodes
      BY <3>1 DEF Tables
    <3> QED
      BY <1>2, <3>1, <3>2 DEF RowsAreGranted, CredentialsGranted
  <2>3. CASE UNCHANGED backup
    BY <1>2, <1>7, <2>3 DEF RowsAreGranted, CredentialsGranted
  <2>4. TakeBackup \/ Tick \/ UNCHANGED backup
    BY ZenonT(40), <1>7, PairingCases DEF Quiet, CreateToken, HubPair, StartHub, Restore, Revoke, Rename
  <2> QED
    BY <2>1, <2>2, <2>3, <2>4
<1> QED
  BY <1>4, <1>5, <1>6, <1>7 DEF CredentialsGranted

(* A Worker draws instance ids of its own, and a copied data directory     *)
(* takes none along.                                                       *)
LEMMA InstancesNamedStay ==
    ASSUME PairingTypeOK, InstancesNamed, PairingNext
    PROVE  InstancesNamed'
<1> USE DEF databaseVars, historyVars
<1>1. worker \in [Workers -> WorkerStates]
  BY DEF PairingTypeOK
<1>2. ASSUME NEW w \in Workers, NEW state, worker' = [worker EXCEPT ![w] = state],
             state.instance # None => state.instance[1] = w
      PROVE  InstancesNamed'
  BY <1>1, <1>2 DEF InstancesNamed
<1>3. ASSUME UNCHANGED worker
      PROVE  InstancesNamed'
  BY <1>3 DEF InstancesNamed
<1>4. ASSUME NEW w \in Workers
      PROVE  worker[w] \in WorkerStates /\ (worker[w].instance # None => worker[w].instance[1] = w)
  BY <1>1 DEF InstancesNamed
<1>5. ASSUME NEW w \in Workers, StartWorker(w)
      PROVE  InstancesNamed'
  <2> DEFINE state == [worker[w] EXCEPT !.instance = <<w, worker[w].starts + 1>>,
                                        !.starts = @ + 1]
  <2>1. worker' = [worker EXCEPT ![w] = state]
    BY <1>5 DEF StartWorker
  <2>2. state.instance = <<w, worker[w].starts + 1>>
    BY <1>4 DEF WorkerStates
  <2> HIDE DEF state
  <2>3. state.instance[1] = w
    BY <2>2
  <2> QED
    BY <1>2, <2>1, <2>3
<1>6. ASSUME NEW w \in Workers, Bind(w)
      PROVE  InstancesNamed'
  <2> DEFINE paired == [worker[w] EXCEPT !.grant = worker[w].reply, !.reply = None,
                                         !.epoch = worker[w].reply.epoch]
             moved == [paired EXCEPT !.recovery = worker[w].stream, !.stream = NextStream(w)]
  <2>1. worker' = [worker EXCEPT ![w] = paired] \/ worker' = [worker EXCEPT ![w] = moved]
    BY <1>6 DEF Bind
  <2>2. paired.instance = worker[w].instance /\ moved.instance = worker[w].instance
    BY <1>4 DEF WorkerStates
  <2> HIDE DEF paired, moved
  <2> QED
    BY <1>2, <1>4, <2>1, <2>2
<1>7. ASSUME NEW w \in Workers, NEW heard \in BOOLEAN, StopWorker(w, heard)
      PROVE  InstancesNamed'
  <2> DEFINE state == [worker[w] EXCEPT !.instance = None, !.reply = None]
  <2>1. worker' = [worker EXCEPT ![w] = state] /\ state.instance = None
    BY <1>4, <1>7 DEF StopWorker, WorkerStates
  <2> HIDE DEF state
  <2> QED
    BY <1>2, <2>1
<1>8. ASSUME NEW w \in Workers, NEW v \in Workers, Copy(w, v)
      PROVE  InstancesNamed'
  <2> DEFINE state == [worker[w] EXCEPT !.starts = 0]
  <2>1. worker' = [worker EXCEPT ![v] = state] /\ state.instance = None
    BY <1>4, <1>8 DEF Copy, WorkerStates
  <2> HIDE DEF state
  <2> QED
    BY <1>2, <2>1
<1>9. ASSUME NEW w \in Workers, NEW t \in Tokens, NEW n \in Nodes, NEW torn \in BOOLEAN,
             HubPair(w, t, n, torn)
      PROVE  InstancesNamed'
  <2> DEFINE state == [worker[w] EXCEPT !.reply =
                           [node |-> n, credential |-> <<t, epoch>>, epoch |-> epoch]]
  <2>1. UNCHANGED worker \/ worker' = [worker EXCEPT ![w] = state]
    BY <1>9 DEF HubPair
  <2>2. state.instance = worker[w].instance
    BY <1>4 DEF WorkerStates
  <2> HIDE DEF state
  <2> QED
    BY <1>2, <1>3, <1>4, <2>1, <2>2
<1>10. ASSUME NEW r \in queue, Apply(r)
       PROVE  InstancesNamed'
  <2> DEFINE moved == Recovering(r.worker, epoch)
             done == [worker[r.worker] EXCEPT !.recovery = None]
  <2>1. r.worker \in Workers
    BY DEF PairingTypeOK, Requests
  <2>2. \/ UNCHANGED worker \/ worker' = [worker EXCEPT ![r.worker] = moved]
        \/ worker' = [worker EXCEPT ![r.worker] = done]
    BY <1>10 DEF Apply, ApplyUpload, ApplyHello, ApplyRecover
  <2>3. /\ moved.instance = worker[r.worker].instance
        /\ done.instance = worker[r.worker].instance
    BY <1>4, <2>1 DEF WorkerStates, Recovering
  <2> HIDE DEF moved, done
  <2> QED
    BY <1>2, <1>3, <1>4, <2>1, <2>2, <2>3
<1>11. ASSUME \/ \E t \in Tokens, n \in Nodes \cup {None} : CreateToken(t, n)
              \/ StartHub \/ Tick \/ TakeBackup \/ Restore \/ StopHub
              \/ \E n \in Nodes, done \in 1 .. 3 : Revoke(n, done)
              \/ \E n \in Nodes, done \in 1 .. 2 : Rename(n, done)
              \/ \E w \in Workers, kind \in {"hello", "recover", "upload"} : Arrive(w, kind)
              \/ \E r \in queue : Refuse(r)
       PROVE  UNCHANGED worker
  BY <1>11 DEF CreateToken, StartHub, Tick, TakeBackup, Restore, StopHub, Revoke, Rename, Arrive,
               Refuse
<1> QED
  BY <1>3, <1>5, <1>6, <1>7, <1>8, <1>9, <1>10, <1>11 DEF PairingNext, Operator, WorkerSteps

(* The second use of a token, a token of another node and a drawn id that  *)
(* is taken are refused.                                                   *)
LEMMA GrantsSoundStay ==
    ASSUME PairingTypeOK, TokensIssued, TokensUsedUp, GrantsSound, PairingNext
    PROVE  GrantsSound'
<1> USE DEF databaseVars, historyVars
<1>0. /\ issued \in [Tokens -> Purposes \cup {None}] /\ grants \subseteq Grants
      /\ \A g \in grants : g.token \in Tokens /\ issued[g.token] # None
  BY DEF PairingTypeOK, Grants, TokensUsedUp
<1>1. ASSUME UNCHANGED grants, \A t \in Tokens : issued[t] # None => issued'[t] = issued[t]
      PROVE  GrantsSound'
  BY <1>0, <1>1 DEF GrantsSound, OneGrantPerToken, GrantsFitTokens
<1>2. ASSUME NEW t \in Tokens, NEW n \in Nodes \cup {None}, CreateToken(t, n)
      PROVE  GrantsSound'
  <2>1. UNCHANGED grants /\ issued[t] = None /\ issued' = [issued EXCEPT ![t] = [node |-> n]]
    BY <1>2 DEF CreateToken
  <2> QED
    BY <1>0, <1>1, <2>1
<1>3. ASSUME NEW w \in Workers, NEW t \in Tokens, NEW n \in Nodes, NEW torn \in BOOLEAN,
             HubPair(w, t, n, torn)
      PROVE  GrantsSound'
  <2> DEFINE new == [token |-> t, epoch |-> epoch, node |-> n, worker |-> w]
  <2>1. /\ UNCHANGED issued /\ grants' = grants \cup {new} /\ pairing[t] # None
        /\ ProofFits(t, w) /\ n \in Targets(t, w)
    BY <1>3 DEF HubPair, Usable
  <2>2. new.token = t /\ new.epoch = epoch /\ new.node = n /\ new.worker = w
    OBVIOUS
  <2> HIDE DEF new
  <2>3. \A g \in grants : ~(g.token = t /\ g.epoch = epoch)
    BY <2>1 DEF TokensUsedUp
  <2>4. OneGrantPerToken'
    <3>1. \A g \in grants : ~(g.token = new.token /\ g.epoch = new.epoch)
      BY <2>2, <2>3
    <3> QED
      BY <2>1, <3>1 DEF GrantsSound, OneGrantPerToken
  <2>5. issued[t] # None /\ issued[t].node = pairing[t].node
    BY <2>1 DEF TokensIssued, RowsAreIssued
  <2>6. CASE pairing[t].node # None
    <3>1. n = pairing[t].node /\ (n = Local <=> w \in LocalWorkers)
      BY <2>1, <2>6 DEF Targets, ProofFits
    <3> QED
      BY <2>1, <2>2, <2>4, <2>5, <2>6, <3>1 DEF GrantsSound, GrantsFitTokens
  <2>7. CASE pairing[t].node = None /\ w \in LocalWorkers
    <3>1. n = Local
      BY <2>1, <2>7 DEF Targets
    <3> QED
      BY <2>1, <2>2, <2>4, <2>5, <2>7, <3>1 DEF GrantsSound, GrantsFitTokens
  <2>8. CASE pairing[t].node = None /\ w \notin LocalWorkers
    <3> DEFINE drawn == {m \in Remotes : nodes[m] = None /\ registry[m] = None
                                         /\ \A g \in grants : g.node # m}
    <3>1. n \in drawn
      <4>1. n \in (IF drawn = {} THEN {} ELSE {CHOOSE m \in drawn : TRUE})
        BY <2>1, <2>8 DEF Targets
      <4> QED
        BY <4>1
    <3>2. n # Local /\ \A g \in grants : g.node # n
      BY <3>1, PairingAssumption
    <3> QED
      BY <2>1, <2>2, <2>4, <2>5, <2>8, <3>2 DEF GrantsSound, GrantsFitTokens
  <2> QED
    BY <2>6, <2>7, <2>8
<1>4. CASE Quiet
  BY <1>1, <1>4 DEF Quiet
<1>5. CASE StartHub \/ Tick \/ TakeBackup \/ Restore
  BY <1>1, <1>5 DEF StartHub, Tick, TakeBackup, Restore
<1>6. ASSUME NEW n \in Nodes, NEW done \in 1 .. 3, Revoke(n, done)
      PROVE  GrantsSound'
  BY <1>1, <1>6 DEF Revoke
<1>7. ASSUME NEW n \in Nodes, NEW done \in 1 .. 2, Rename(n, done)
      PROVE  GrantsSound'
  BY <1>1, <1>7 DEF Rename
<1> QED
  BY <1>2, <1>3, <1>4, <1>5, <1>6, <1>7, PairingCases

----------------------------------------------------------------------------
(* Invariance.                                                             *)

(* The invariant holds when nothing is paired yet.                         *)
LEMMA PairingBegins ==
    ASSUME PairingInit
    PROVE  PairingInv
<1> USE DEF PairingInit
<1>1. PairingTypeOK
  <2>1. IsFiniteSet({}) /\ Cardinality({}) = 0 /\ MaxQueue \in Nat
    BY FS_EmptySet, PairingAssumption
  <2>2. epoch \in 0 .. bound.restores
    BY PairingAssumption
  <2>3. worker \in [Workers -> WorkerStates]
    <3>1. \A w \in Workers : <<w, 0>> \in Streams
      BY DEF Streams
    <3> QED
      BY <3>1 DEF WorkerStates
  <2> QED
    BY <2>1, <2>2, <2>3 DEF PairingTypeOK
<1>2. DatabasesAgree /\ GrantsSound /\ RetiredStaysRetired
  BY DEF DatabasesAgree, GrantsSound, OneGrantPerToken, GrantsFitTokens, RetiredStaysRetired
<1>3. TokensIssued /\ ReplacementsExist /\ TokensUsedUp
  BY DEF TokensIssued, RowsAreIssued, ReplacementsExist, ReplacedExist, TokensUsedUp
<1>4. CredentialsGranted /\ InstancesNamed
  BY DEF CredentialsGranted, RowsAreGranted, InstancesNamed
<1> QED
  BY <1>1, <1>2, <1>3, <1>4 DEF PairingInv, TablesSound

(* Every step keeps the invariant.                                         *)
LEMMA PairingStays ==
    ASSUME PairingInv, PairingNext
    PROVE  PairingInv'
<1> USE DEF PairingInv, TablesSound
<1>1. PairingTypeOK'
  BY TypesStay
<1>2. DatabasesAgree'
  BY DatabasesAgreeStay
<1>3. GrantsSound'
  BY GrantsSoundStay
<1>4. RetiredStaysRetired'
  BY RetiredStaysSo
<1>5. TokensIssued' /\ ReplacementsExist' /\ TokensUsedUp'
  BY TokensIssuedStay, ReplacementsExistStay, TokensUsedUpStay
<1>6. CredentialsGranted' /\ InstancesNamed'
  BY CredentialsGrantedStay, InstancesNamedStay
<1> QED
  BY <1>1, <1>2, <1>3, <1>4, <1>5, <1>6

(* So does a step that changes nothing.                                    *)
LEMMA PairingStutters ==
    ASSUME PairingInv, UNCHANGED pairingVars
    PROVE  PairingInv'
BY DEF pairingVars, databaseVars, historyVars, PairingInv, TablesSound, PairingTypeOK, QueueOK,
       DatabasesAgree, GrantsSound, OneGrantPerToken, GrantsFitTokens, RetiredStaysRetired,
       AcceptedFor, Accepts, TokensIssued, RowsAreIssued, ReplacementsExist, ReplacedExist,
       TokensUsedUp, CredentialsGranted, RowsAreGranted, Granted, InstancesNamed, Tables

(* The tables, the tokens, the credentials and the instances of pairing    *)
(* hang together, whatever is interrupted, copied or restored.             *)
THEOREM PairingHolds == PairingSpec => []PairingInv
<1>1. PairingInit => PairingInv
  BY PairingBegins
<1>2. PairingInv /\ [PairingNext]_pairingVars => PairingInv'
  BY PairingStays, PairingStutters
<1> QED
  BY <1>1, <1>2, PTL DEF PairingSpec

(* Both tables stay well formed and, while the Hub serves, they agree on   *)
(* who is revoked and how a node is called: start_runtime repairs whatever *)
(* a crash between two databases left (control.rs:372).                    *)
THEOREM TablesAreSound == PairingSpec => []TablesSound
<1>1. PairingInv => TablesSound
  BY DEF PairingInv
<1> QED
  BY <1>1, PairingHolds, PTL

(* A token gives one credential in a data epoch, for the node it was made  *)
(* for, and a Worker is the local node exactly if it proves to share the   *)
(* Hub's directory (control.rs:204).                                       *)
THEOREM GrantsAreSound == PairingSpec => []GrantsSound
<1>1. PairingInv => GrantsSound
  BY DEF PairingInv
<1> QED
  BY <1>1, PairingHolds, PTL

(* A credential that was replaced or revoked is never accepted again, over *)
(* any number of restores.                                                 *)
THEOREM RetiredCredentialsStayOut == PairingSpec => []RetiredStaysRetired
<1>1. PairingInv => RetiredStaysRetired
  BY DEF PairingInv
<1> QED
  BY <1>1, PairingHolds, PTL

----------------------------------------------------------------------------
(* What a step may never do.                                               *)

(* Most steps leave alone who holds a node's lease and what is confirmed.  *)
Untouched ==
    \A n \in Nodes :
        nodes[n] # None => /\ nodes'[n].instance = nodes[n].instance
                           /\ nodes'[n].confirmed = nodes[n].confirmed

(* The steps that change a row of hub_nodes while the Hub serves.          *)
LEMMA TouchingSteps ==
    ASSUME PairingTypeOK, PairingNext
    PROVE  \/ Untouched
           \/ StartHub \/ Restore
           \/ \E w \in Workers, t \in Tokens, n \in Nodes, torn \in BOOLEAN :
                 HubPair(w, t, n, torn)
           \/ \E w \in Workers, kind \in {"hello", "recover", "upload"} : Arrive(w, kind)
           \/ \E w \in Workers, heard \in BOOLEAN : StopWorker(w, heard)
           \/ \E r \in queue : Apply(r)
<1> USE DEF databaseVars, historyVars
<1>0. nodes \in [Nodes -> NodeRows \cup {None}]
  BY DEF PairingTypeOK
<1>1. ASSUME UNCHANGED nodes
      PROVE  Untouched
  BY <1>1 DEF Untouched
<1>2. ASSUME NEW n \in Nodes, NEW row, nodes' = nodes \/ nodes' = [nodes EXCEPT ![n] = row],
             row.instance = nodes[n].instance, row.confirmed = nodes[n].confirmed
      PROVE  Untouched
  BY <1>0, <1>2 DEF Untouched
<1>3. ASSUME NEW n \in Nodes, NEW done \in 1 .. 3, Revoke(n, done)
      PROVE  Untouched
  <2> DEFINE row == [nodes[n] EXCEPT !.revoked = TRUE]
  <2>1. nodes[n] \in NodeRows /\ (nodes' = nodes \/ nodes' = [nodes EXCEPT ![n] = row])
    BY <1>0, <1>3 DEF Revoke
  <2>2. row.instance = nodes[n].instance /\ row.confirmed = nodes[n].confirmed
    BY <2>1 DEF NodeRows
  <2> HIDE DEF row
  <2> QED
    BY <1>2, <2>1, <2>2
<1>4. ASSUME NEW n \in Nodes, NEW done \in 1 .. 2, Rename(n, done)
      PROVE  Untouched
  <2> DEFINE row == [nodes[n] EXCEPT !.name = 1]
  <2>1. nodes[n] \in NodeRows /\ (nodes' = nodes \/ nodes' = [nodes EXCEPT ![n] = row])
    BY <1>0, <1>4 DEF Rename
  <2>2. row.instance = nodes[n].instance /\ row.confirmed = nodes[n].confirmed
    BY <2>1 DEF NodeRows
  <2> HIDE DEF row
  <2> QED
    BY <1>2, <2>1, <2>2
<1>5. CASE Tick
  <2>1. \A row \in NodeRows : /\ [row EXCEPT !.lease = Down(@)].instance = row.instance
                              /\ [row EXCEPT !.lease = Down(@)].confirmed = row.confirmed
    BY DEF NodeRows
  <2> QED
    BY <1>0, <1>5, <2>1 DEF Tick, AgeLeases, Untouched
<1>6. ASSUME \/ \E t \in Tokens, n \in Nodes \cup {None} : CreateToken(t, n)
             \/ TakeBackup \/ StopHub
             \/ \E w \in Workers : StartWorker(w) \/ Bind(w) \/ \E v \in Workers : Copy(w, v)
             \/ \E r \in queue : Refuse(r)
      PROVE  UNCHANGED nodes
  BY <1>6 DEF CreateToken, TakeBackup, StopHub, StartWorker, Bind, Copy, Refuse
<1> QED
  BY <1>1, <1>3, <1>4, <1>5, <1>6 DEF PairingNext, Operator, WorkerSteps

(* Pairing gives a credential that no row has.                             *)
LEMMA PairingChangesCredential ==
    ASSUME PairingInv, NEW w \in Workers, NEW t \in Tokens, NEW n \in Nodes, NEW torn \in BOOLEAN,
           HubPair(w, t, n, torn), NEW m \in Nodes, nodes[m] # None
    PROVE  nodes'[m] = nodes[m] \/ nodes'[m].credential # nodes[m].credential
<1>1. PICK row \in NodeRows : nodes' = [nodes EXCEPT ![n] = row] /\ row.credential = <<t, epoch>>
  BY PairedRow DEF PairingInv, TablesSound
<1>2. <<t, epoch>> \notin Granted
  BY NewCredential DEF HubPair, PairingInv, TablesSound
<1>3. nodes[m].credential \in Granted
  BY DEF PairingInv, CredentialsGranted, RowsAreGranted
<1>4. nodes \in [Nodes -> NodeRows \cup {None}]
  BY DEF PairingInv, TablesSound, PairingTypeOK
<1> QED
  BY <1>1, <1>2, <1>3, <1>4

WriteIsCurrent ==
    \A n \in Nodes :
         hubUp /\ epoch' = epoch /\ nodes[n] # None /\ nodes'[n] # None
         /\ nodes'[n].confirmed # nodes[n].confirmed
         /\ nodes'[n].credential = nodes[n].credential /\ nodes'[n].stream = nodes[n].stream
         => \E r \in queue \ queue' : /\ r.stream = nodes[n].stream
                                      /\ Accepts(n, r.credential)

(* Only an upload that was authenticated again writes.                     *)
LEMMA WritingSteps ==
    ASSUME PairingInv, PairingNext
    PROVE  WriteIsCurrent
<1>0. PairingTypeOK /\ nodes \in [Nodes -> NodeRows \cup {None}]
  BY DEF PairingInv, TablesSound, PairingTypeOK
<1>1. ASSUME Untouched
      PROVE  WriteIsCurrent
  BY <1>1 DEF Untouched, WriteIsCurrent
<1>2. ASSUME NEW w \in Workers, NEW t \in Tokens, NEW n \in Nodes, NEW torn \in BOOLEAN,
             HubPair(w, t, n, torn)
      PROVE  WriteIsCurrent
  BY <1>2, PairingChangesCredential DEF WriteIsCurrent
<1>3. ASSUME StartHub \/ Restore
      PROVE  WriteIsCurrent
  <2>1. ~hubUp \/ epoch' # epoch
    BY <1>0, <1>3, PairingAssumption DEF StartHub, Restore, PairingTypeOK
  <2> QED
    BY <2>1 DEF WriteIsCurrent
<1>4. ASSUME NEW n \in Nodes, NEW row, nodes' = nodes \/ nodes' = [nodes EXCEPT ![n] = row],
             row.confirmed = nodes[n].confirmed
      PROVE  WriteIsCurrent
  BY <1>0, <1>4 DEF WriteIsCurrent
<1>5. ASSUME NEW w \in Workers, NEW kind \in {"hello", "recover", "upload"}, Arrive(w, kind)
      PROVE  WriteIsCurrent
  <2>1. PICK n \in Nodes :
          /\ nodes[n] # None
          /\ nodes' = [nodes EXCEPT ![n].instance = worker[w].instance, ![n].lease = LeaseLife]
    BY <1>5 DEF Arrive, AcceptedFor, Claimable
  <2> DEFINE row == [nodes[n] EXCEPT !.instance = worker[w].instance, !.lease = LeaseLife]
  <2>2. nodes' = [nodes EXCEPT ![n] = row]
    BY <2>1
  <2>3. row.confirmed = nodes[n].confirmed
    BY <1>0, <2>1 DEF NodeRows
  <2> HIDE DEF row
  <2> QED
    BY <1>4, <2>2, <2>3
<1>6. ASSUME NEW w \in Workers, NEW heard \in BOOLEAN, StopWorker(w, heard)
      PROVE  WriteIsCurrent
  <2>1. \/ nodes' = nodes
        \/ \E n \in Nodes : /\ nodes[n] # None
                            /\ nodes' = [nodes EXCEPT ![n].instance = None, ![n].lease = 0]
    BY <1>6 DEF StopWorker, Released, AcceptedFor
  <2>2. ASSUME NEW n \in Nodes, nodes[n] # None,
               nodes' = [nodes EXCEPT ![n].instance = None, ![n].lease = 0]
        PROVE  WriteIsCurrent
    <3> DEFINE row == [nodes[n] EXCEPT !.instance = None, !.lease = 0]
    <3>1. nodes' = [nodes EXCEPT ![n] = row]
      BY <2>2
    <3>2. row.confirmed = nodes[n].confirmed
      BY <1>0, <2>2 DEF NodeRows
    <3> HIDE DEF row
    <3> QED
      BY <1>4, <3>1, <3>2
  <2>3. ASSUME nodes' = nodes
        PROVE  WriteIsCurrent
    BY <2>3 DEF WriteIsCurrent
  <2> QED
    BY <2>1, <2>2, <2>3
<1>7. ASSUME NEW r \in queue, Apply(r)
      PROVE  WriteIsCurrent
  <2>1. PICK n \in NodeOf(r) : /\ Valid(r, n)
                               /\ \/ r.kind = "upload" /\ ApplyUpload(r, n)
                                  \/ r.kind = "hello" /\ ApplyHello(r, n)
                                  \/ r.kind = "recover" /\ ApplyRecover(r, n)
    BY <1>7 DEF Apply
  <2>2. n \in Nodes /\ nodes[n] \in NodeRows /\ Accepts(n, r.credential)
    BY <1>0, <2>1 DEF NodeOf, AcceptedFor
  <2>3. r \in queue \ queue'
    BY <1>7 DEF Apply
  <2>4. CASE r.kind = "upload" /\ ApplyUpload(r, n)
    <3> DEFINE row == [nodes[n] EXCEPT !.confirmed = 1 - @]
    <3>1. nodes' = [nodes EXCEPT ![n] = row]
      BY <2>4 DEF ApplyUpload
    <3>2. r.stream = nodes[n].stream
      BY <2>1, <2>4 DEF Valid
    <3> HIDE DEF row
    <3> QED
      BY <1>0, <2>2, <2>3, <3>1, <3>2 DEF WriteIsCurrent
  <2>5. CASE ApplyHello(r, n)
    BY <2>5 DEF ApplyHello, WriteIsCurrent
  <2>6. CASE ApplyRecover(r, n)
    <3> DEFINE row == [nodes[n] EXCEPT !.stream = r.stream, !.recovered = epoch, !.confirmed = 0]
    <3>1. \/ nodes' = nodes
          \/ nodes[n].stream # r.stream /\ nodes' = [nodes EXCEPT ![n] = row]
      BY <2>6 DEF ApplyRecover
    <3>2. row.stream = r.stream
      BY <2>2 DEF NodeRows
    <3> HIDE DEF row
    <3> QED
      BY <1>0, <2>2, <3>1, <3>2 DEF WriteIsCurrent
  <2> QED
    BY <2>1, <2>4, <2>5, <2>6
<1> QED
  BY <1>0, <1>1, <1>2, <1>3, <1>5, <1>6, <1>7, TouchingSteps

(* What is written is sent with the current credential on the current      *)
(* stream, however long the request waited and whatever happened meanwhile *)
(* (sync.rs:198).                                                          *)
THEOREM WritesStayCurrent == PairingSpec => WritesAreCurrent
<1>1. PairingInv /\ [PairingNext]_pairingVars => [WriteIsCurrent]_pairingVars
  BY WritingSteps
<1>2. PairingSpec => [][WriteIsCurrent]_pairingVars
  BY <1>1, PairingHolds, PTL DEF PairingSpec
<1> QED
  BY <1>2 DEF WritesAreCurrent, WriteIsCurrent

KeepsLease ==
    \A n \in Nodes :
         hubUp /\ hubUp' /\ epoch' = epoch /\ nodes[n] # None /\ nodes[n].instance # None
         /\ nodes[n].lease > 0 /\ nodes'[n].instance # nodes[n].instance
         => \/ nodes'[n].credential # nodes[n].credential
            \/ /\ nodes'[n].instance = None
               /\ worker'[nodes[n].instance[1]].instance # nodes[n].instance

(* Only its own end, its expiry or a new pairing takes a lease away.       *)
LEMMA LeasingSteps ==
    ASSUME PairingInv, PairingNext
    PROVE  KeepsLease
<1>0. /\ PairingTypeOK /\ nodes \in [Nodes -> NodeRows \cup {None}]
      /\ worker \in [Workers -> WorkerStates]
  BY DEF PairingInv, TablesSound, PairingTypeOK
<1>1. ASSUME Untouched
      PROVE  KeepsLease
  BY <1>1 DEF Untouched, KeepsLease
<1>2. ASSUME NEW w \in Workers, NEW t \in Tokens, NEW n \in Nodes, NEW torn \in BOOLEAN,
             HubPair(w, t, n, torn)
      PROVE  KeepsLease
  BY <1>2, PairingChangesCredential DEF KeepsLease
<1>3. ASSUME StartHub \/ Restore
      PROVE  KeepsLease
  <2>1. ~hubUp \/ epoch' # epoch
    BY <1>0, <1>3, PairingAssumption DEF StartHub, Restore, PairingTypeOK
  <2> QED
    BY <2>1 DEF KeepsLease
<1>4. ASSUME NEW n \in Nodes, NEW row, nodes' = nodes \/ nodes' = [nodes EXCEPT ![n] = row],
             row.instance = nodes[n].instance \/ nodes[n].instance = None \/ nodes[n].lease = 0
      PROVE  KeepsLease
  BY <1>0, <1>4 DEF KeepsLease
<1>5. ASSUME NEW w \in Workers, NEW kind \in {"hello", "recover", "upload"}, Arrive(w, kind)
      PROVE  KeepsLease
  <2>1. PICK n \in Nodes :
          /\ Claimable(n, worker[w].instance)
          /\ nodes' = [nodes EXCEPT ![n].instance = worker[w].instance, ![n].lease = LeaseLife]
    BY <1>5 DEF Arrive, AcceptedFor
  <2> DEFINE row == [nodes[n] EXCEPT !.instance = worker[w].instance, !.lease = LeaseLife]
  <2>2. nodes' = [nodes EXCEPT ![n] = row]
    BY <2>1
  <2>3. row.instance = worker[w].instance
    BY <1>0, <2>1 DEF NodeRows, Claimable
  <2>4. row.instance = nodes[n].instance \/ nodes[n].instance = None \/ nodes[n].lease = 0
    BY <2>1, <2>3 DEF Claimable
  <2> HIDE DEF row
  <2> QED
    BY <1>4, <2>2, <2>4
<1>6. ASSUME NEW w \in Workers, NEW heard \in BOOLEAN, StopWorker(w, heard)
      PROVE  KeepsLease
  <2>1. \/ nodes' = nodes
        \/ \E n \in Nodes : /\ nodes[n] # None /\ nodes[n].instance = worker[w].instance
                            /\ nodes' = [nodes EXCEPT ![n].instance = None, ![n].lease = 0]
    BY <1>6 DEF StopWorker, Released, AcceptedFor
  <2>2. ASSUME NEW n \in Nodes, nodes[n] # None, nodes[n].instance = worker[w].instance,
               nodes' = [nodes EXCEPT ![n].instance = None, ![n].lease = 0]
        PROVE  KeepsLease
    <3> DEFINE row == [nodes[n] EXCEPT !.instance = None, !.lease = 0]
               state == [worker[w] EXCEPT !.instance = None, !.reply = None]
    <3>1. nodes' = [nodes EXCEPT ![n] = row]
      BY <2>2
    <3>2. row.instance = None
      BY <1>0, <2>2 DEF NodeRows
    <3>3. worker' = [worker EXCEPT ![w] = state]
      BY <1>6 DEF StopWorker
    <3>4. state.instance = None
      BY <1>0 DEF WorkerStates
    <3>5. worker[w].instance # None /\ worker[w].instance[1] = w
      BY <1>6 DEF StopWorker, PairingInv, InstancesNamed
    <3> HIDE DEF row, state
    <3>6. worker'[w].instance = None /\ nodes'[n].instance = None
          /\ \A m \in Nodes \ {n} : nodes'[m] = nodes[m]
      BY <1>0, <3>1, <3>2, <3>3, <3>4
    <3> QED
      BY <2>2, <3>5, <3>6 DEF KeepsLease
  <2>3. ASSUME nodes' = nodes
        PROVE  KeepsLease
    BY <2>3 DEF KeepsLease
  <2> QED
    BY <2>1, <2>2, <2>3
<1>7. ASSUME NEW r \in queue, Apply(r)
      PROVE  KeepsLease
  <2>1. PICK n \in NodeOf(r) : ApplyUpload(r, n) \/ ApplyHello(r, n) \/ ApplyRecover(r, n)
    BY <1>7 DEF Apply
  <2>2. n \in Nodes /\ nodes[n] \in NodeRows
    BY <1>0, <2>1 DEF NodeOf, AcceptedFor
  <2> DEFINE confirmed == [nodes[n] EXCEPT !.confirmed = 1 - @]
             recovered == [nodes[n] EXCEPT !.stream = r.stream, !.recovered = epoch,
                                           !.confirmed = 0]
  <2>3. \/ nodes' = nodes \/ nodes' = [nodes EXCEPT ![n] = confirmed]
        \/ nodes' = [nodes EXCEPT ![n] = recovered]
    BY <2>1 DEF ApplyUpload, ApplyHello, ApplyRecover
  <2>4. confirmed.instance = nodes[n].instance /\ recovered.instance = nodes[n].instance
    BY <2>2 DEF NodeRows
  <2> HIDE DEF confirmed, recovered
  <2> QED
    BY <1>4, <2>2, <2>3, <2>4
<1> QED
  BY <1>0, <1>1, <1>2, <1>3, <1>5, <1>6, <1>7, TouchingSteps

(* While the Hub serves, a lease that runs is lost only by being paired    *)
(* anew or with the end of the process that holds it.                      *)
THEOREM LeasesAreKept == PairingSpec => LeaseIsKept
<1>1. PairingInv /\ [PairingNext]_pairingVars => [KeepsLease]_pairingVars
  BY LeasingSteps
<1>2. PairingSpec => [][KeepsLease]_pairingVars
  BY <1>1, PairingHolds, PTL DEF PairingSpec
<1> QED
  BY <1>2 DEF LeaseIsKept, KeepsLease
=============================================================================
