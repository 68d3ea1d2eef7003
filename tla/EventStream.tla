---------------------------- MODULE EventStream ----------------------------
(***************************************************************************)
(* http/events.rs and http/event_buffer.rs: the streams of server-sent     *)
(* events.  A request takes one of the stream permits, subscribes to the   *)
(* runtime's broadcast, notes the sessions it knows and hands the buffer   *)
(* to two tasks: a producer that turns what the runtime publishes into     *)
(* frames, and the response body that pops them.  The buffer coalesces     *)
(* statuses that change nothing but progress, and gives up on a client     *)
(* that falls behind.                                                      *)
(*                                                                         *)
(* A session head is the number of its last change.  A client lists the    *)
(* sessions once its stream is open and then applies what it is sent; the  *)
(* scope of the server's queries is the set of sessions it shows.          *)
(***************************************************************************)
EXTENDS Naturals, Sequences, SequencesExt, FiniteSetsExt, Functions, TLC

CONSTANTS Clients, Sessions,
    MaxStreams, MaxCritical, Capacity,  \* 32 streams, 64 frames, 128 events in the code
    StreamBounds    \* bounds to choose from: each [clients, scope, changes, statuses, connects]

VARIABLES
    heads, status,  \* the runtime's watch channels
    unsent,         \* what the writer has still to broadcast
    published,      \* the broadcast channel
    stopping,       \* the runtime's shutdown flag
    stream,         \* per client: the permit, the Buffer, the producer, the body
    client,         \* per client: what it shows
    used, limit     \* what was used of the bounds

streamVars == <<heads, status, unsent, published, stopping, stream, client, used, limit>>

Use(what) == used[what] < limit[what] /\ used' = [used EXCEPT ![what] = @ + 1]
Nothing == [kind |-> "none"]
Scoped(h) == Restrict(h, DOMAIN h \cap limit.scope)

----------------------------------------------------------------------------
(* The runtime's writer: the watch channel is set, then the event is sent. *)

Put(h, changed, version) ==
    [s \in DOMAIN h \cup changed |-> IF s \in changed THEN version ELSE h[s]]
ChangeSessions(changed, removed) ==
    /\ unsent = Nothing /\ ~stopping /\ Use("changes")
    /\ changed \cup removed # {} /\ changed \cap removed = {} /\ removed \subseteq DOMAIN heads
    /\ \E h \in {Restrict(Put(heads, changed, used.changes + 1),
                          (DOMAIN heads \cup changed) \ removed)} :
          /\ heads' = h
          /\ unsent' = [kind |-> "sessions", snapshot |-> h, changed |-> changed,
                        removed |-> removed]
    /\ UNCHANGED <<status, published, stopping, stream, client, limit>>

(* A status is a milestone and the progress made since.                    *)
ChangeStatus(milestone) ==
    /\ unsent = Nothing /\ ~stopping /\ Use("statuses")
    /\ status' = [milestone |-> milestone, progress |-> used.statuses + 1]
    /\ unsent' = [kind |-> "status", status |-> status']
    /\ UNCHANGED <<heads, published, stopping, stream, client, limit>>

Send == /\ unsent # Nothing
        /\ published' = Append(published, unsent) /\ unsent' = Nothing
        /\ UNCHANGED <<heads, status, stopping, stream, client, used, limit>>

StopRuntime == ~stopping /\ stopping' = TRUE
               /\ UNCHANGED <<heads, status, unsent, published, stream, client, used, limit>>

----------------------------------------------------------------------------
(* Buffer                                                                  *)

NoStream == [pc |-> "none", next |-> 0, known |-> {}, frames |-> <<>>, replaceable |-> FALSE,
             milestone |-> 0, critical |-> 0, closed |-> FALSE, overflow |-> FALSE,
             permit |-> FALSE, body |-> "look", notified |-> FALSE, fed |-> <<>>]

Closed(b) == [b EXCEPT !.frames = <<>>, !.replaceable = FALSE, !.critical = 0,
                       !.closed = TRUE, !.permit = FALSE]
Failed(b) == [Closed(b) EXCEPT !.overflow = TRUE]

Fed(b, frame) == [b EXCEPT !.fed = Append(@, frame)]
Added(b, frame, critical) ==
    IF b.closed THEN b
    ELSE IF critical /\ b.critical >= MaxCritical THEN Failed(b)
    ELSE [b EXCEPT !.frames = Append(@, [at |-> Len(b.fed), event |-> frame,
                                         critical |-> critical]),
                   !.critical = @ + (IF critical THEN 1 ELSE 0)]
(* What came after a status can no longer take its place: it has to count. *)
Frozen(b) ==
    IF ~b.replaceable THEN b
    ELSE IF b.critical >= MaxCritical THEN Failed(b)
    ELSE [b EXCEPT !.frames[Len(b.frames)].critical = TRUE, !.critical = @ + 1,
                   !.replaceable = FALSE]
PutEvent(b, frame) == Added(Frozen(b), frame, TRUE)
Replaced(b, frame) ==
    [b EXCEPT !.frames[Len(b.frames)] = [@ EXCEPT !.event = frame, !.at = Len(b.fed)]]
PutStatus(b, frame) ==
    IF b.closed THEN b
    ELSE IF b.milestone # frame.status.milestone
    THEN LET frozen == Frozen(b)
         IN  IF frozen.closed THEN frozen
             ELSE Added([frozen EXCEPT !.milestone = frame.status.milestone], frame, TRUE)
    ELSE IF b.replaceable THEN Replaced(b, frame)
    ELSE [Added(b, frame, FALSE) EXCEPT !.replaceable = TRUE]
Popped(b) ==
    [b EXCEPT !.frames = Tail(@), !.critical = @ - (IF Head(b.frames).critical THEN 1 ELSE 0),
              !.replaceable = @ /\ Len(b.frames) > 1]

----------------------------------------------------------------------------
(* events: the request.                                                    *)

Permits == MaxStreams - Cardinality({c \in Clients : stream[c].permit})
Connect(c) ==
    /\ stream[c].pc = "none" /\ c \in limit.clients /\ ~stopping
    /\ Permits > 0 /\ Use("connects")
    /\ stream' = [stream EXCEPT ![c] = [NoStream EXCEPT !.pc = "subscribed", !.permit = TRUE,
                                           !.next = Len(published) + 1]]
    /\ UNCHANGED <<heads, status, unsent, published, stopping, client, limit>>

Known == DOMAIN Scoped(heads)
TakeKnown(c) ==
    /\ stream[c].pc = "subscribed"
    /\ stream' = [stream EXCEPT ![c].pc = "known", ![c].known = Known]
    /\ UNCHANGED <<heads, status, unsent, published, stopping, client, used, limit>>

Greet(c) ==
    /\ stream[c].pc = "known"
    /\ LET connected == [kind |-> "connected"]
           frame == [kind |-> "status", status |-> status]
           greeted == PutEvent(Fed([stream[c] EXCEPT !.pc = "open"], connected), connected)
       IN  stream' = [stream EXCEPT ![c] = PutStatus(Fed(greeted, frame), frame)]
    /\ client' = [client EXCEPT ![c].listed = FALSE]
    /\ UNCHANGED <<heads, status, unsent, published, stopping, used, limit>>

----------------------------------------------------------------------------
(* The producer.                                                           *)

Lagged(b) == Len(published) - b.next + 1 > Capacity
FellBehind(b) == Failed(b)

Gone(b, event) == event.removed \cap b.known
Produced(b, event) ==
    LET after == [b EXCEPT !.next = @ + 1]
    IN  IF event.kind = "status" THEN PutStatus(Fed(after, event), event)
        ELSE LET shown == DOMAIN Scoped(event.snapshot)
                 changed == event.changed \cap shown
                 gone == Gone(b, event)
                 frame == [kind |-> "sessions", removed |-> gone,
                           heads |-> Restrict(event.snapshot, changed)]
                 sent == [after EXCEPT !.known = shown]
             IN  IF changed = {} /\ gone = {} THEN sent ELSE PutEvent(Fed(sent, frame), frame)
(* Mutant of Notified: a producer that ends wakes nobody.                  *)
NotifiedOpen(b) == [b EXCEPT !.notified = @ \/ ~b.closed]
Notified(b) == [b EXCEPT !.notified = TRUE]

Produce(c) ==
    /\ stream[c].pc = "open" /\ ~stream[c].closed /\ ~stopping
    /\ stream[c].next <= Len(published)
    /\ \E b \in {IF Lagged(stream[c]) THEN FellBehind(stream[c])
                 ELSE Produced(stream[c], published[stream[c].next])} :
          stream' = [stream EXCEPT ![c] = Notified(b)]
    /\ UNCHANGED <<heads, status, unsent, published, stopping, client, used, limit>>
ProducerEnds(c) ==
    /\ stream[c].pc = "open" /\ ~stream[c].closed /\ stopping
    /\ stream' = [stream EXCEPT ![c] = Notified(Closed(@))]
    /\ UNCHANGED <<heads, status, unsent, published, stopping, client, used, limit>>

----------------------------------------------------------------------------
(* The body and the client that reads it.                                  *)

Applied(shown, event) ==
    IF event.kind = "connected" THEN shown
    ELSE IF event.kind = "status" THEN [shown EXCEPT !.status = event.status]
    ELSE IF ~shown.listed THEN shown
    ELSE [shown EXCEPT !.view = Restrict([s \in DOMAIN @ \cup DOMAIN event.heads |->
                                             IF s \in DOMAIN event.heads THEN event.heads[s]
                                             ELSE shown.view[s]],
                                         (DOMAIN @ \cup DOMAIN event.heads) \ event.removed)]
NotShown == [listed |-> FALSE, view |-> <<>>, status |-> [milestone |-> 0, progress |-> 0]]

Body(c) ==
    /\ stream[c].pc = "open" /\ stream[c].body = "look"
    /\ IF stream[c].frames # <<>>
       THEN /\ stream' = [stream EXCEPT ![c] = Popped(@)]
            /\ client' = [client EXCEPT ![c] = Applied(@, Head(stream[c].frames).event)]
       ELSE IF stream[c].closed
       THEN /\ stream' = [stream EXCEPT ![c] = NoStream]
            /\ client' = [client EXCEPT ![c] = NotShown]
       ELSE stream' = [stream EXCEPT ![c].body = "wait"] /\ UNCHANGED client
    /\ UNCHANGED <<heads, status, unsent, published, stopping, used, limit>>
Wake(c) ==
    /\ stream[c].body = "wait" /\ stream[c].notified
    /\ stream' = [stream EXCEPT ![c].body = "look", ![c].notified = FALSE]
    /\ UNCHANGED <<heads, status, unsent, published, stopping, client, used, limit>>

List(c) ==
    /\ stream[c].pc = "open" /\ ~client[c].listed
    /\ client' = [client EXCEPT ![c].listed = TRUE, ![c].view = Scoped(heads)]
    /\ UNCHANGED <<heads, status, unsent, published, stopping, stream, used, limit>>

(* Drop of the Connection: the buffer is closed and the producer aborted.  *)
Disconnect(c) ==
    /\ stream[c].pc = "open"
    /\ stream' = [stream EXCEPT ![c] = [NoStream EXCEPT !.permit = Closed(stream[c]).permit]]
    /\ client' = [client EXCEPT ![c] = NotShown]
    /\ UNCHANGED <<heads, status, unsent, published, stopping, used, limit>>

----------------------------------------------------------------------------

StreamInit ==
    /\ heads = <<>> /\ status = [milestone |-> 1, progress |-> 0]
    /\ unsent = Nothing /\ published = <<>> /\ stopping = FALSE
    /\ stream = [c \in Clients |-> NoStream] /\ client = [c \in Clients |-> NotShown]
    /\ used = [changes |-> 0, statuses |-> 0, connects |-> 0]
    /\ limit \in StreamBounds

Tasks(c) == TakeKnown(c) \/ Greet(c) \/ Produce(c) \/ ProducerEnds(c) \/ Body(c) \/ Wake(c)
StreamNext ==
    \/ \E changed, removed \in SUBSET Sessions : ChangeSessions(changed, removed)
    \/ \E milestone \in {1, 2} : ChangeStatus(milestone)
    \/ Send \/ StopRuntime
    \/ \E c \in Clients : Tasks(c) \/ Connect(c) \/ List(c) \/ Disconnect(c)
(* Every task is scheduled; the client reads.                              *)
StreamFairness == \A c \in Clients : WF_streamVars(Tasks(c))
StreamSpec == StreamInit /\ [][StreamNext]_streamVars /\ StreamFairness

----------------------------------------------------------------------------

(* The buffer's counters describe its frames: what counts as critical is   *)
(* what is marked so, and only a last frame that is not may be replaced    *)
(* (event_buffer.rs:52 takes it for granted).                              *)
BufferSound ==
    \A c \in Clients : LET b == stream[c] IN
        /\ b.critical = Cardinality({i \in DOMAIN b.frames : b.frames[i].critical})
        /\ b.replaceable => b.frames # <<>> /\ ~Last(b.frames).critical

(* A slow client costs the server a bounded buffer (event_buffer.rs:64).   *)
BufferBounded == \A c \in Clients : Len(stream[c].frames) <= MaxCritical + 1

(* A stream has its permit as long as it is open and no longer, so every   *)
(* stream ended, by whichever side, makes room for another (events.rs:12). *)
PermitsKept ==
    /\ Permits >= 0
    /\ \A c \in Clients : stream[c].permit <=> stream[c].pc # "none" /\ ~stream[c].closed

(* Whatever the broadcast dropped and whatever was coalesced: a client     *)
(* that has read all it was sent, and was not cut off, shows exactly what  *)
(* the runtime has (events.rs:66).                                         *)
CaughtUpIsCurrent ==
    \A c \in Clients :
        /\ stream[c].pc = "open" /\ ~stream[c].closed /\ stream[c].frames = <<>>
        /\ unsent = Nothing /\ stream[c].next > Len(published)
        => /\ client[c].listed => client[c].view = Scoped(heads)
           /\ client[c].status = status

(* Coalescing keeps the order and every milestone: a frame missing from    *)
(* what is still queued is a status followed by one of the same milestone  *)
(* (event_buffer.rs:42).                                                   *)
MilestonesKept ==
    \A c \in Clients : LET b == stream[c] IN
        /\ \A i, j \in DOMAIN b.frames : i < j => b.frames[i].at < b.frames[j].at
        /\ b.frames # <<>> /\ ~b.closed =>
              \A n \in Head(b.frames).at .. Len(b.fed) :
                  \/ \E i \in DOMAIN b.frames : b.frames[i].at = n
                  \/ /\ n < Len(b.fed) /\ b.fed[n].kind = "status" /\ b.fed[n + 1].kind = "status"
                     /\ b.fed[n].status.milestone = b.fed[n + 1].status.milestone

(* A stream the server gives up, because its client fell behind or because *)
(* the runtime stops, ends for the client too (events.rs:99).              *)
StreamsEnd ==
    \A c \in Clients : (stream[c].closed \/ (stopping /\ stream[c].pc = "open"))
                           ~> stream[c].pc = "none"
=============================================================================
