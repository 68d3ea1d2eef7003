------------------------------- MODULE Pairing -------------------------------
(***************************************************************************)
(* How a Worker obtains, uses and loses access to a Hub: pairing tokens,   *)
(* credentials and one-instance leases of storage/hub/control.rs, the      *)
(* handlers of http/sync.rs and the pairing half of worker.rs.             *)
(*                                                                         *)
(* The Hub keeps a node in two databases: hub_nodes in codesesh.db, which  *)
(* a restore brings back in an old state, and the registry hub-control.db, *)
(* which it does not.  A request is handled in two visits to the database: *)
(* one authenticates and claims the lease, a later one authenticates again *)
(* and applies it; anything may happen in between.  Time is counted down:  *)
(* "left" is what remains of a token, a result or a lease.                 *)
(***************************************************************************)
EXTENDS Naturals, FiniteSets, FiniteSetsExt

CONSTANTS
    None, Workers, Tokens,
    Local,          \* the reserved node of the Hub's own machine
    Remotes,        \* the ids pairing may draw for other nodes
    LocalWorkers,   \* Workers in the Hub's data directory: they hold its key
    LeaseLife, TokenLife,   \* 60 seconds and 10 minutes, in ticks
    MaxQueue,       \* bound on the requests that wait
    Bounds          \* bounds to choose from: each [workers, tokens, starts, restores,
                    \* faults], where stops of the Hub, copies and renames are faults

ASSUME PairingAssumption ==
    /\ LocalWorkers \subseteq Workers /\ Local \notin Remotes
    /\ LeaseLife \in Nat \ {0} /\ TokenLife \in Nat \ {0} /\ MaxQueue \in Nat
    /\ Bounds \subseteq [workers : SUBSET Workers, tokens : Nat, starts : Nat, restores : Nat,
                         faults : Nat]

(* What there is in a row, a request, and the memory of a Worker.  The     *)
(* streams and instances of a Worker are numbered.                         *)
Nodes == Remotes \cup {Local}
Streams == Workers \X Nat
Credentials == Tokens \X Nat
TokenRows == [left : 0 .. TokenLife, node : Nodes \cup {None}]
NodeRows == [credential : Credentials, stream : Streams, revoked : BOOLEAN, name : {0, 1},
             recovered : Nat \cup {None}, instance : Streams \cup {None},
             lease : 0 .. LeaseLife, confirmed : {0, 1}]
RegistryRows == [credential : Credentials, stream : Streams, revoked : BOOLEAN, name : {0, 1}]
Purposes == [node : Nodes \cup {None}]
Grants == [token : Tokens, epoch : Nat, node : Nodes, worker : Workers]
Replies == [node : Nodes, credential : Credentials, epoch : Nat]
Requests == [kind : {"hello", "recover", "upload"}, node : Nodes, worker : Workers,
             instance : Streams, credential : Credentials, stream : Streams,
             previous : Streams \cup {None}, epoch : Nat]
WorkerStates == [grant : Replies \cup {None}, epoch : Nat, stream : Streams,
                 recovery : Streams \cup {None}, reply : Replies \cup {None},
                 instance : Streams \cup {None}, starts : Nat]

ASSUME NoRowIsNone == None \notin NodeRows /\ None \notin Purposes

VARIABLES
    hubUp, epoch,
    pairing,    \* hub_pairing with hub_replacements: token -> [left, node]
    nodes,      \* hub_nodes
    registry,   \* hub_control.nodes
    backup,     \* a copy of codesesh.db, or None
    worker,     \* binding, stream, recovery and process of each Worker
    queue,      \* requests between their two visits
    issued, grants, retired,  \* history: what tokens were made for and gave
    bound, faults   \* the bounds chosen, and the faults so far

databaseVars == <<pairing, nodes>>
historyVars == <<issued, grants, retired>>
pairingVars == <<hubUp, epoch, databaseVars, registry, backup, worker, queue,
                 historyVars, bound, faults>>

Down(n) == IF n = 0 THEN 0 ELSE n - 1

(* Mutant of Accepts: the restorable table is asked.                       *)
AcceptsRestorable(n, credential) ==
    nodes[n] # None /\ ~nodes[n].revoked /\ nodes[n].credential = credential
(* authenticate_worker: the registry alone decides.                        *)
Accepts(n, credential) ==
    registry[n] # None /\ ~registry[n].revoked /\ registry[n].credential = credential
AcceptedFor(credential) == {n \in Nodes : Accepts(n, credential)}
Live == {registry[n].credential : n \in {m \in Nodes : registry[m] # None /\ ~registry[m].revoked}}

----------------------------------------------------------------------------
(* Tokens.                                                                 *)

(* What creating a token sweeps away: expired rows, and the replacement    *)
(* token this node already had.                                            *)
Swept(node) ==
    [t \in Tokens |-> IF \/ pairing[t] = None
                         \/ pairing[t].left = 0
                         \/ node # None /\ pairing[t].node = node
                      THEN None ELSE pairing[t]]

Issued == {t \in Tokens : issued[t] # None}
NewToken == CHOOSE t \in Tokens : t \notin Issued

(* create_pairing_token (node = None) and create_replacement_token.        *)
CreateToken(t, node) ==
    /\ hubUp /\ issued[t] = None /\ t = NewToken /\ Cardinality(Issued) < bound.tokens
    /\ node # None => nodes[node] # None /\ registry[node] # None
    /\ pairing' = [Swept(node) EXCEPT ![t] = [left |-> TokenLife, node |-> node]]
    /\ issued' = [issued EXCEPT ![t] = [node |-> node]]
    /\ UNCHANGED <<hubUp, epoch, nodes, registry, backup, worker, queue, grants,
                   retired, faults>>

Usable(t) == pairing[t] # None /\ pairing[t].left > 0

(* The node a token pairs: the one it replaces, the local one for a Worker *)
(* that proves it shares the Hub's directory, or a new one.                *)
Targets(t, w) ==
    IF pairing[t].node # None THEN {pairing[t].node}
    ELSE IF w \in LocalWorkers THEN {Local}
    ELSE LET drawn == {n \in Remotes : nodes[n] = None /\ registry[n] = None
                                       /\ \A g \in grants : g.node # n}
         IN  IF drawn = {} THEN {} ELSE {CHOOSE n \in drawn : TRUE}

ProofFits(t, w) == pairing[t].node # None => (pairing[t].node = Local) = (w \in LocalWorkers)

Fresh(credential, stream) ==
    [credential |-> credential, stream |-> stream, revoked |-> FALSE, name |-> 0,
     recovered |-> None, instance |-> None, lease |-> 0, confirmed |-> 0]

(* Mutant of Consumed: the row waits for the next sweep.                   *)
NotConsumed(t) == pairing
Consumed(t) == [pairing EXCEPT ![t] = None]

(* pair_worker_with_origin.  The transaction spans both databases; the     *)
(* main one is in WAL mode, so a crash inside the commit (torn) leaves it  *)
(* committed and the registry not.  The Worker waits for the reply.        *)
HubPair(w, t, n, torn) ==
    LET credential == <<t, epoch>>
        row == Fresh(credential, worker[w].stream)
        name == IF pairing[t].node # None THEN nodes[n].name ELSE 0
    IN  /\ hubUp
        /\ worker[w].instance # None /\ worker[w].reply = None
        /\ Usable(t) /\ ProofFits(t, w) /\ n \in Targets(t, w)
        /\ pairing' = Consumed(t)
        /\ nodes' = [nodes EXCEPT ![n] = [row EXCEPT !.name = name]]
        /\ grants' = grants \cup {[token |-> t, epoch |-> epoch, node |-> n, worker |-> w]}
        /\ IF torn
           THEN /\ faults < bound.faults
                /\ faults' = faults + 1
                /\ hubUp' = FALSE /\ queue' = {}
                /\ UNCHANGED <<registry, worker, retired>>
           ELSE /\ registry' = [registry EXCEPT ![n] = [credential |-> credential, name |-> name,
                                                        stream |-> row.stream,
                                                        revoked |-> FALSE]]
                /\ retired' = retired \cup (Live \ Live')
                /\ worker' = [worker EXCEPT ![w].reply =
                                  [node |-> n, credential |-> credential, epoch |-> epoch]]
                /\ UNCHANGED <<hubUp, queue, faults>>
        /\ UNCHANGED <<epoch, backup, issued>>

NextStream(w) == <<w, worker[w].stream[2] + 1>>

(* The reply arrives: bind, or rebind with a stream to recover onto.       *)
Bind(w) ==
    /\ worker[w].reply # None
    /\ worker' = [worker EXCEPT ![w] =
           LET paired == [worker[w] EXCEPT !.grant = worker[w].reply, !.reply = None,
                                          !.epoch = worker[w].reply.epoch]
           IN  IF worker[w].grant = None THEN paired
               ELSE [paired EXCEPT !.recovery = worker[w].stream, !.stream = NextStream(w)]]
    /\ UNCHANGED <<hubUp, epoch, databaseVars, registry, backup, queue, historyVars,
                   faults>>

----------------------------------------------------------------------------
(* Requests of a paired Worker.                                            *)

Request(w, kind, n) ==
    [kind |-> kind, node |-> n, worker |-> w, instance |-> worker[w].instance,
     credential |-> worker[w].grant.credential, stream |-> worker[w].stream,
     previous |-> worker[w].recovery, epoch |-> worker[w].epoch]

(* Mutant of Claimable: a lease of a process that is gone never ends.      *)
ClaimableOwn(n, instance) == nodes[n] # None /\ nodes[n].instance \in {None, instance}
(* Mutant of Claimable: the newest instance always wins.                   *)
ClaimableAlways(n, instance) == nodes[n] # None
(* claim_worker_instance: free, its own, or expired.                       *)
Claimable(n, instance) ==
    nodes[n] # None /\ (nodes[n].instance \in {None, instance} \/ nodes[n].lease = 0)
(* One upload of a node at a time; the slot is held until it is answered.  *)
UploadWaits(n) == \E r \in queue : r.kind = "upload" /\ r.node = n

(* hello, recover and upload arrive: authenticate and claim the lease.  A  *)
(* Worker that timed out sends again while its old request still waits.    *)
Arrive(w, kind) ==
    /\ hubUp
    /\ worker[w].instance # None /\ worker[w].reply = None /\ worker[w].grant # None
    /\ kind = "recover" => worker[w].recovery # None
    /\ kind = "upload" => worker[w].recovery = None
    /\ Cardinality(queue) < MaxQueue
    /\ \E n \in AcceptedFor(worker[w].grant.credential) :
          /\ Claimable(n, worker[w].instance)
          /\ kind = "upload" => ~UploadWaits(n)
          /\ nodes' = [nodes EXCEPT ![n].instance = worker[w].instance,
                                    ![n].lease = LeaseLife]
          /\ queue' = queue \cup {Request(w, kind, n)}
    /\ UNCHANGED <<hubUp, epoch, pairing, registry, backup, worker,
                   historyVars, faults>>

(* Mutant of NodeOf: what the first visit found is used.                   *)
NodeOfArrival(r) == {n \in {r.node} : nodes[n] # None}
(* The second visit looks the node up again.                               *)
NodeOf(r) == {n \in AcceptedFor(r.credential) : nodes[n] # None /\ ~nodes[n].revoked}
Waiting(r) == worker[r.worker].instance = r.instance /\ worker[r.worker].grant # None
              /\ worker[r.worker].grant.credential = r.credential

(* What each kind of request is refused for: receive_upload wants the      *)
(* right epoch and stream, worker_hello the right stream of this epoch,    *)
(* recover_worker this epoch and a stream it may leave.                    *)
Valid(r, n) ==
    CASE r.kind = "upload" -> r.epoch = epoch /\ r.stream = nodes[n].stream
      [] r.kind = "hello" -> r.epoch # epoch \/ r.stream = nodes[n].stream
      [] r.kind = "recover" ->
           /\ r.epoch = epoch
           /\ nodes[n].stream \in {r.stream, r.previous} \/ nodes[n].recovered # epoch

(* prepare_recovery keeps the stream the Hub may still have.               *)
Recovering(w, toEpoch) ==
    [worker[w] EXCEPT !.epoch = toEpoch, !.stream = NextStream(w),
                      !.recovery = IF @ = None THEN worker[w].stream ELSE @]

ApplyUpload(r, n) ==
    /\ nodes' = [nodes EXCEPT ![n].confirmed = 1 - @]
    /\ UNCHANGED worker

ApplyHello(r, n) ==
    /\ worker' = IF Waiting(r) /\ r.epoch # epoch
                 THEN [worker EXCEPT ![r.worker] = Recovering(r.worker, epoch)]
                 ELSE worker
    /\ UNCHANGED nodes

(* recover_worker, and finish_recovery when the Worker still waits.        *)
ApplyRecover(r, n) ==
    /\ nodes' = IF nodes[n].stream = r.stream THEN nodes
                ELSE [nodes EXCEPT ![n].stream = r.stream, ![n].recovered = epoch,
                                   ![n].confirmed = 0]
    /\ worker' = IF Waiting(r) /\ worker[r.worker].stream = r.stream
                 THEN [worker EXCEPT ![r.worker].recovery = None] ELSE worker

Apply(r) ==
    /\ hubUp /\ r \in queue
    /\ \E n \in NodeOf(r) :
          /\ Valid(r, n)
          /\ \/ r.kind = "upload" /\ ApplyUpload(r, n)
             \/ r.kind = "hello" /\ ApplyHello(r, n)
             \/ r.kind = "recover" /\ ApplyRecover(r, n)
    /\ queue' = queue \ {r}
    /\ UNCHANGED <<hubUp, epoch, pairing, registry, backup, historyVars, faults>>

(* The second visit refuses; the Worker pauses and says hello again later. *)
Refuse(r) ==
    /\ hubUp /\ r \in queue
    /\ \A n \in NodeOf(r) : ~Valid(r, n)
    /\ queue' = queue \ {r}
    /\ UNCHANGED <<hubUp, epoch, databaseVars, registry, backup, worker, historyVars, faults>>

----------------------------------------------------------------------------
(* Processes.                                                              *)

(* collector.lock: one process of a data directory at a time.  Every start *)
(* draws a new instance id.                                                *)
Starts == MapThenSumSet(LAMBDA w : worker[w].starts, Workers)
StartWorker(w) ==
    /\ w \in bound.workers /\ worker[w].instance = None
    /\ Starts < bound.starts
    /\ worker' = [worker EXCEPT ![w].instance = <<w, worker[w].starts + 1>>,
                                ![w].starts = @ + 1]
    /\ UNCHANGED <<hubUp, epoch, databaseVars, registry, backup, queue, historyVars, faults>>

(* release_worker_instance gives up the lease only of the caller.          *)
Released(n, instance) ==
    IF nodes[n] # None /\ nodes[n].instance = instance
    THEN [nodes EXCEPT ![n].instance = None, ![n].lease = 0] ELSE nodes

(* The process ends: killed, or stopped with a goodbye the Hub may miss.   *)
StopWorker(w, heard) ==
    /\ worker[w].instance # None
    /\ IF heard
       THEN /\ hubUp /\ worker[w].grant # None
            /\ \E n \in AcceptedFor(worker[w].grant.credential) :
                  nodes' = Released(n, worker[w].instance)
       ELSE UNCHANGED nodes
    /\ worker' = [worker EXCEPT ![w].instance = None, ![w].reply = None]
    /\ UNCHANGED <<hubUp, epoch, pairing, registry, backup, queue, historyVars,
                   faults>>

(* A data directory copied to another machine takes the binding along.     *)
Copy(w, v) ==
    /\ worker[w].instance = None /\ worker[w].grant # None
    /\ worker[v].starts = 0 /\ v \notin LocalWorkers
    /\ faults < bound.faults /\ faults' = faults + 1
    /\ worker' = [worker EXCEPT ![v] = [worker[w] EXCEPT !.starts = 0]]
    /\ UNCHANGED <<hubUp, epoch, databaseVars, registry, backup, queue, historyVars>>

CrashedHub == hubUp' = FALSE /\ queue' = {}

StopHub ==
    /\ hubUp /\ faults < bound.faults
    /\ faults' = faults + 1
    /\ CrashedHub
    /\ UNCHANGED <<epoch, databaseVars, registry, backup, worker, historyVars>>

(* Mutant of Initialized: the restored rows stand.                         *)
InitializedNewOnly(table) ==
    [n \in Nodes |->
        IF registry[n] # None /\ table[n] = None
        THEN [Fresh(registry[n].credential, registry[n].stream)
                EXCEPT !.revoked = registry[n].revoked, !.name = registry[n].name]
        ELSE table[n]]
(* initialize_hub: nodes the database does not know come from the registry,*)
(* and so do every known node's name and revocation.                       *)
Initialized(table) ==
    [n \in Nodes |->
        CASE registry[n] = None -> table[n]
          [] registry[n] # None /\ table[n] = None ->
               [Fresh(registry[n].credential, registry[n].stream)
                  EXCEPT !.revoked = registry[n].revoked, !.name = registry[n].name]
          [] OTHER -> [table[n] EXCEPT !.revoked = registry[n].revoked,
                                       !.name = registry[n].name]]
(* clear_worker_leases *)
Unleased(table) ==
    [n \in Nodes |-> IF table[n] = None THEN None
                     ELSE [table[n] EXCEPT !.instance = None, !.lease = 0]]

(* start_runtime of a Hub, before it serves requests.                      *)
StartHub ==
    /\ ~hubUp /\ hubUp' = TRUE
    /\ nodes' = Unleased(Initialized(nodes))
    /\ UNCHANGED <<epoch, pairing, registry, backup, worker, queue, historyVars,
                   faults>>

(* The Hub is stopped and codesesh.db is backed up; its leases will not    *)
(* outlive the next start, so they are left out.                           *)
TakeBackup ==
    /\ hubUp /\ backup = None /\ epoch < bound.restores /\ faults < bound.faults
    /\ faults' = faults + 1
    /\ CrashedHub
    /\ backup' = [pairing |-> pairing, nodes |-> Unleased(nodes)]
    /\ UNCHANGED <<epoch, databaseVars, registry, worker, historyVars>>

(* The documented restore: the registry stays, and the Hub is started once *)
(* with --recover-data, which rotates the data epoch.                      *)
Restore ==
    /\ backup # None /\ epoch < bound.restores
    /\ hubUp' = TRUE /\ epoch' = epoch + 1 /\ queue' = {}
    /\ pairing' = backup.pairing
    /\ nodes' = Unleased(Initialized(backup.nodes))
    /\ backup' = None
    /\ UNCHANGED <<registry, worker, historyVars, faults>>

----------------------------------------------------------------------------
(* The operator.                                                           *)

(* revoke_worker: statements on two databases, each committed by itself;   *)
(* a crash may leave any number of them undone.                            *)
Revoke(n, done) ==
    /\ hubUp /\ nodes[n] # None /\ ~nodes[n].revoked
    /\ done < 3 => faults < bound.faults
    /\ pairing' = [t \in Tokens |-> IF pairing[t] # None /\ pairing[t].node = n
                                    THEN None ELSE pairing[t]]
    /\ registry' = IF done >= 2 /\ registry[n] # None
                   THEN [registry EXCEPT ![n].revoked = TRUE] ELSE registry
    /\ nodes' = IF done = 3 THEN [nodes EXCEPT ![n].revoked = TRUE] ELSE nodes
    /\ retired' = retired \cup (Live \ Live')
    /\ IF done = 3 THEN UNCHANGED <<hubUp, queue, faults>>
       ELSE CrashedHub /\ faults' = faults + 1
    /\ UNCHANGED <<epoch, backup, worker, issued, grants>>

(* rename_worker: the registry first, then the database.                   *)
Rename(n, done) ==
    /\ hubUp /\ nodes[n] # None /\ nodes[n].name = 0
    /\ faults < bound.faults
    /\ registry' = IF registry[n] # None THEN [registry EXCEPT ![n].name = 1] ELSE registry
    /\ nodes' = IF done = 2 THEN [nodes EXCEPT ![n].name = 1] ELSE nodes
    /\ faults' = faults + 1
    /\ IF done = 2 THEN UNCHANGED <<hubUp, queue>> ELSE CrashedHub
    /\ UNCHANGED <<epoch, pairing, backup, worker, historyVars>>

(* Time passes.  A backup's tokens hold times of day, so they age as well. *)
AgeTokens(table) ==
    [t \in Tokens |-> IF table[t] = None THEN None ELSE [table[t] EXCEPT !.left = Down(@)]]
AgeLeases(table) ==
    [n \in Nodes |-> IF table[n] = None THEN None ELSE [table[n] EXCEPT !.lease = Down(@)]]

Tick ==
    /\ pairing' = AgeTokens(pairing) 
    /\ nodes' = AgeLeases(nodes)
    /\ backup' = IF backup = None THEN None
                 ELSE [backup EXCEPT !.pairing = AgeTokens(@)]
    /\ <<databaseVars, backup>>' # <<databaseVars, backup>>
    /\ UNCHANGED <<hubUp, epoch, registry, worker, queue, historyVars, faults>>

----------------------------------------------------------------------------

PairingInit ==
    /\ hubUp = TRUE /\ epoch = 0
    /\ pairing = [t \in Tokens |-> None]
    /\ nodes = [n \in Nodes |-> None] /\ registry = [n \in Nodes |-> None]
    /\ backup = None /\ queue = {}
    /\ worker = [w \in Workers |-> [grant |-> None, epoch |-> 0, stream |-> <<w, 0>>,
                                    recovery |-> None, reply |-> None, instance |-> None,
                                    starts |-> 0]]
    /\ issued = [t \in Tokens |-> None] /\ grants = {} /\ retired = {}
    /\ bound \in Bounds /\ faults = 0

Operator ==
    \/ \E t \in Tokens, n \in Nodes \cup {None} : CreateToken(t, n)
    \/ \E n \in Nodes, done \in 1 .. 3 : Revoke(n, done)
    \/ \E n \in Nodes, done \in 1 .. 2 : Rename(n, done)
    \/ StopHub \/ TakeBackup \/ Restore

WorkerSteps(w) ==
    \/ StartWorker(w) \/ Bind(w)
    \/ \E heard \in BOOLEAN : StopWorker(w, heard)
    \/ \E v \in Workers : Copy(w, v)
    \/ \E t \in Tokens, n \in Nodes, torn \in BOOLEAN : HubPair(w, t, n, torn)
    \/ \E kind \in {"hello", "recover", "upload"} : Arrive(w, kind)

PairingNext ==
    /\ \/ Operator \/ StartHub \/ Tick
       \/ \E w \in Workers : WorkerSteps(w)
       \/ \E r \in queue : Apply(r) \/ Refuse(r)
    /\ UNCHANGED bound

(* The Hub is started again and its writer keeps working, time passes, and *)
(* a Worker process says hello every fifteen seconds for as long as it     *)
(* runs and the Hub answers at all.                                        *)
PairingFairness ==
    /\ WF_pairingVars((StartHub \/ Tick) /\ UNCHANGED bound)
    /\ WF_pairingVars((\E r \in queue : Apply(r) \/ Refuse(r)) /\ UNCHANGED bound)
    /\ \A w \in Workers : SF_pairingVars(Arrive(w, "hello") /\ UNCHANGED bound)
PairingSpec == PairingInit /\ [][PairingNext]_pairingVars /\ PairingFairness

----------------------------------------------------------------------------

(* The types, and that a lease without a holder does not run.             *)
Tables == [pairing : [Tokens -> TokenRows \cup {None}], nodes : [Nodes -> NodeRows \cup {None}]]
PairingTypeOK ==
    /\ hubUp \in BOOLEAN /\ bound \in Bounds /\ epoch \in 0 .. bound.restores
    /\ pairing \in [Tokens -> TokenRows \cup {None}]
    /\ nodes \in [Nodes -> NodeRows \cup {None}]
    /\ registry \in [Nodes -> RegistryRows \cup {None}]
    /\ backup \in Tables \cup {None}
    /\ worker \in [Workers -> WorkerStates]
    /\ queue \subseteq Requests /\ IsFiniteSet(queue) /\ Cardinality(queue) <= MaxQueue
    /\ issued \in [Tokens -> Purposes \cup {None}]
    /\ grants \subseteq Grants /\ retired \subseteq Credentials
    /\ \A n \in Nodes : nodes[n] # None /\ nodes[n].instance = None => nodes[n].lease = 0

(* A one-time token gives one credential: whoever comes second, or late,   *)
(* is refused.  Only a restored database may give a token back, so grants  *)
(* are counted within one data epoch (control.rs:211).                     *)
OneGrantPerToken ==
    \A g, h \in grants : g.token = h.token /\ g.epoch = h.epoch => g = h

(* A grant is for what its token was made for: the node it replaces, the   *)
(* local node for a Worker of this directory and for no other, and         *)
(* otherwise a node nobody had before (control.rs:204).                    *)
GrantsFitTokens ==
    \A g \in grants :
        /\ issued[g.token].node # None => g.node = issued[g.token].node
        /\ g.node = Local <=> g.worker \in LocalWorkers
        /\ issued[g.token].node = None /\ g.node # Local =>
             \A h \in grants : h.node = g.node /\ h # g => issued[h.token].node = g.node

(* A credential that was replaced or revoked is never accepted again, not  *)
(* even after a restore of the database that still holds it.               *)
RetiredStaysRetired == \A c \in retired : AcceptedFor(c) = {}

(* While the Hub serves, the two databases agree on who is revoked and how *)
(* a node is called, whatever was interrupted before (control.rs:372).     *)
DatabasesAgree ==
    hubUp => \A n \in Nodes : registry[n] # None =>
                /\ nodes[n] # None
                /\ nodes[n].revoked = registry[n].revoked
                /\ nodes[n].name = registry[n].name

(* The tables of both databases are well formed and agree.                 *)
TablesSound == PairingTypeOK /\ DatabasesAgree

(* A token is good for one grant, of what it was made for.                 *)
GrantsSound == OneGrantPerToken /\ GrantsFitTokens

(* What is written is sent with the node's current, unrevoked credential   *)
(* on its current stream, however long the request waited (sync.rs:198).   *)
WritesAreCurrent ==
    [][\A n \in Nodes :
         hubUp /\ epoch' = epoch /\ nodes[n] # None /\ nodes'[n] # None
         /\ nodes'[n].confirmed # nodes[n].confirmed
         /\ nodes'[n].credential = nodes[n].credential /\ nodes'[n].stream = nodes[n].stream
         => \E r \in queue \ queue' : /\ r.stream = nodes[n].stream
                                      /\ Accepts(n, r.credential)]_pairingVars

(* A live instance keeps its lease: another takes it only when it ran out, *)
(* was released, or the node was paired anew.                              *)
LeaseIsKept ==
    [][\A n \in Nodes :
         hubUp /\ hubUp' /\ epoch' = epoch /\ nodes[n] # None /\ nodes[n].instance # None
         /\ nodes[n].lease > 0 /\ nodes'[n].instance # nodes[n].instance
         => \/ nodes'[n].credential # nodes[n].credential
            \/ /\ nodes'[n].instance = None
               /\ worker'[nodes[n].instance[1]].instance # nodes[n].instance]_pairingVars

(* A Worker restarted without a goodbye gets the lease in the end, if no   *)
(* other process of the same node runs.                                    *)
Alone(w) ==
    /\ worker[w].instance # None /\ worker[w].grant # None /\ worker[w].reply = None
    /\ AcceptedFor(worker[w].grant.credential) # {}
    /\ \A v \in Workers \ {w} : worker[v].instance = None
Holds(w) == \E n \in Nodes : nodes[n] # None /\ nodes[n].instance = worker[w].instance
LeaseObtained == \A w \in Workers : <>[]Alone(w) => []<>Holds(w)
=============================================================================
