---------------------------- MODULE SessionList ----------------------------
(***************************************************************************)
(* GET /api/sessions: which sessions a query lists, as families of a       *)
(* session and those it started, and how a client gets a long list page by *)
(* page while sessions come and go.                                        *)
(*                                                                         *)
(* A head is [ref, parent, agent, tag, updated]; a catalog is a sequence   *)
(* of heads, in which a reference may occur twice and parents may form a   *)
(* cycle.  A query is [agent, tag, from], each None if not asked for.      *)
(***************************************************************************)
EXTENDS Naturals, Sequences, FiniteSets, SequencesExt

CONSTANTS
    None,
    Clients,
    MaxSnapshots,   \* 32 in the code
    Lifetime,       \* of a snapshot, in ticks: 60 s in the code
    ListBounds      \* each [catalogs, queries, limits, ticks, publishes, lists]

VARIABLES
    catalog,        \* the runtime's snapshot
    now,
    snapshots,      \* session_pages: the lists retained, oldest first
    made,           \* lists retained so far: the identifier of the next
    getting,        \* client -> what it has of the list it is getting, or None
    left, listScope \* what may still happen

listVars == <<catalog, now, snapshots, made, getting, left, listScope>>

----------------------------------------------------------------------------
(* SessionTree.                                                            *)

(* The first head of each reference.                                       *)
Unique(every) == SelectSeq([i \in DOMAIN every |-> <<i, every[i]>>],
    LAMBDA e : \A j \in 1..(e[1] - 1) : every[j].ref # e[2].ref)
Sessions(every) == LET u == Unique(every) IN [i \in DOMAIN u |-> u[i][2]]

(* index -> index of the parent, 0 if there is none here                   *)
Parents(s) == [i \in DOMAIN s |->
    IF \E j \in DOMAIN s : s[j].ref = s[i].parent
    THEN CHOOSE j \in DOMAIN s : s[j].ref = s[i].parent ELSE 0]

(* Does going from parent to parent end?  Computed from one start after    *)
(* another, and remembered for all that lie on the way.                    *)
Walked(parents, known, start) ==
    LET n == Len(parents)
        up[k \in 0..n] == IF k = 0 THEN start ELSE LET i == up[k - 1]
                                                    IN IF i = 0 THEN 0 ELSE parents[i]
        Stops(k) == \/ up[k] = 0
                    \/ known[up[k]] # "unknown"
                    \/ \E j \in 0..(k - 1) : up[j] = up[k]
        end == CHOOSE k \in 0..n : Stops(k) /\ \A j \in 0..(k - 1) : ~Stops(j)
        valid == IF up[end] = 0 THEN "ends"
                 ELSE IF known[up[end]] # "unknown" THEN known[up[end]] ELSE "cycles"
        path == {up[j] : j \in 0..(end - 1)}
    IN [i \in DOMAIN parents |-> IF i \in path THEN valid ELSE known[i]]
Terminates(parents) ==
    LET known[k \in 0..Len(parents)] ==
            IF k = 0 THEN [i \in DOMAIN parents |-> "unknown"]
            ELSE LET before == known[k - 1]
                 IN IF before[k] # "unknown" THEN before ELSE Walked(parents, before, k)
    IN known[Len(parents)]

(* What each session hangs from; the entries hang from nothing.            *)
Hangs(parents) == LET t == Terminates(parents)
                  IN [i \in DOMAIN parents |-> IF t[i] = "ends" THEN parents[i] ELSE 0]
Entries(hangs) == {i \in DOMAIN hangs : hangs[i] = 0}
Descendants(hangs, entry) ==
    LET below[k \in 0..Len(hangs)] ==
            IF k = 0 THEN {entry}
            ELSE LET found == below[k - 1]
                 IN found \cup {i \in DOMAIN hangs : hangs[i] \in found}
    IN below[Len(hangs)]

----------------------------------------------------------------------------
(* filter_activity_window and filter_sessions: agent before the families   *)
(* are put together, tag after.                                            *)

InWindow(time, from) == from = None \/ time >= from
InTime(every, from) ==
    IF from = None THEN every ELSE
    LET s == Sessions(every)
        hangs == Hangs(Parents(s))
        visible == UNION {Descendants(hangs, e) : e \in {i \in Entries(hangs) :
                                                        InWindow(s[i].updated, from)}}
    IN SelectSeq(every, LAMBDA h : \E i \in visible : s[i].ref = h.ref)
Listed(every, q) ==
    SelectSeq(InTime(SelectSeq(every, LAMBDA h : q.agent \in {None, h.agent}), q.from),
              LAMBDA h : q.tag \in {None, h.tag})

----------------------------------------------------------------------------
(* SnapshotPaginator.                                                      *)

Pruned == SelectSeq(snapshots, LAMBDA s : s.expires > now)
Least(a, b) == IF a <= b THEN a ELSE b
Spends(what) == left[what] > 0 /\ left' = [left EXCEPT ![what] = @ - 1]

(* The cursor of the page after the first `end' items, if there is one.    *)
CursorOf(id, items, end) == IF end < Len(items) THEN [snapshot |-> id, offset |-> end] ELSE None

(* A list is kept for the pages to come, if there are any.                 *)
Retained(kept, snapshot, more) ==
    IF more THEN Append(IF Len(kept) >= MaxSnapshots THEN Tail(kept) ELSE kept, snapshot)
    ELSE kept

(* A first page, of the list as it is now; what the client had is dropped. *)
First(c, q, size) ==
    LET items == Listed(catalog, q)
        end == Least(size, Len(items))
        cursor == CursorOf(made, items, end)
        snapshot == [id |-> made, query |-> q, expires |-> now + Lifetime, items |-> items]
    IN /\ Spends("lists")
       /\ snapshots' = Retained(Pruned, snapshot, cursor # None)
       /\ made' = IF cursor = None THEN made ELSE made + 1
       /\ getting' = [getting EXCEPT ![c] = [query |-> q, got |-> SubSeq(items, 1, end),
                                           cursor |-> cursor, whole |-> items, begun |-> now]]
       /\ UNCHANGED <<catalog, now, listScope>>

(* The page at a cursor.                                                   *)
Held(id) == {i \in DOMAIN Pruned : Pruned[i].id = id}
(* Mutant of PageOf: the list as it is now, from the offset on.            *)
PageOfNow(s, offset, size) ==
    LET items == Listed(catalog, s.query)
    IN SubSeq(items, offset + 1, Least(offset + size, Len(items)))
PageOf(s, offset, size) == SubSeq(s.items, offset + 1, Least(offset + size, Len(s.items)))
Follow(c, size) ==
    /\ getting[c] # None /\ getting[c].cursor # None
    /\ \E i \in Held(getting[c].cursor.snapshot) :
        LET s == Pruned[i]
            offset == getting[c].cursor.offset
        IN getting' = [getting EXCEPT
            ![c].got = @ \o PageOf(s, offset, size),
            ![c].cursor = CursorOf(s.id, s.items, Least(offset + size, Len(s.items)))]
    /\ snapshots' = Pruned /\ UNCHANGED <<catalog, now, made, left, listScope>>

(* 409: the client has to begin again.                                     *)
Stale(c) ==
    /\ getting[c] # None /\ getting[c].cursor # None /\ Held(getting[c].cursor.snapshot) = {}
    /\ getting' = [getting EXCEPT ![c] = None]
    /\ snapshots' = Pruned /\ UNCHANGED <<catalog, now, made, left, listScope>>
(* 400: a cursor with another query than it was given for.                 *)
Invalid(c, q) ==
    /\ getting[c] # None /\ getting[c].cursor # None
    /\ \E i \in Held(getting[c].cursor.snapshot) : Pruned[i].query # q
    /\ getting' = [getting EXCEPT ![c] = None]
    /\ snapshots' = Pruned /\ UNCHANGED <<catalog, now, made, left, listScope>>

Publish ==
    /\ Spends("publishes") /\ catalog' \in listScope.catalogs
    /\ UNCHANGED <<now, snapshots, made, getting, listScope>>
Tick ==
    /\ Spends("ticks") /\ now' = now + 1
    /\ UNCHANGED <<catalog, snapshots, made, getting, listScope>>

ListInit ==
    /\ listScope \in ListBounds /\ left = [w \in {"ticks", "publishes", "lists"} |-> listScope[w]]
    /\ catalog \in listScope.catalogs
    /\ now = 0 /\ snapshots = <<>> /\ made = 0 /\ getting = [c \in Clients |-> None]
ListNext ==
    \/ Publish \/ Tick
    \/ \E c \in Clients :
        \/ Stale(c)
        \/ \E size \in listScope.limits : Follow(c, size)
        \/ \E q \in listScope.queries : Invalid(c, q) \/ \E size \in listScope.limits : First(c, q, size)
ListSpec == ListInit /\ [][ListNext]_listVars

----------------------------------------------------------------------------
(* Reference definitions: a session's family is led by the last session    *)
(* its parents lead to; where they go in circles, each leads its own.      *)
AncestorsOf(parents, i) ==
    LET above[k \in 0..Len(parents)] ==
            IF k = 0 THEN {parents[i]}
            ELSE LET found == above[k - 1] IN found \cup {parents[j] : j \in found \ {0}}
    IN above[Len(parents)]
Leader(parents, i) ==
    IF 0 \notin AncestorsOf(parents, i) THEN i
    ELSE CHOOSE l \in {i} \cup AncestorsOf(parents, i) : l # 0 /\ parents[l] = 0

(* Whatever the parents say, in circles too: every session is in the       *)
(* family of exactly one entry, so the dashboard and the window filter,    *)
(* which go through the entries, neither lose a session nor count it twice.*)
FamiliesPartition ==
    LET s == Sessions(catalog)
        hangs == Hangs(Parents(s))
    IN \A i \in DOMAIN s : Cardinality({e \in Entries(hangs) : i \in Descendants(hangs, e)}) = 1

(* A list with a time window has a session exactly if the session that     *)
(* leads its family was active in it, every session with that reference,   *)
(* in the catalog's order.                                                 *)
FamiliesStayTogether ==
    LET s == Sessions(catalog)
        parents == Parents(s)
        Active(h, from) == \E i \in DOMAIN s : s[i].ref = h.ref
                             /\ s[Leader(parents, i)].updated >= from
    IN \A q \in listScope.queries : q.agent = None /\ q.tag = None /\ q.from # None =>
        Listed(catalog, q) = SelectSeq(catalog, LAMBDA h : Active(h, q.from))

(* However the sessions change meanwhile, the pages a client gets one by   *)
(* one are the list as it was at its first page: without a gap, twice the  *)
(* same session, or a mixture of two lists.                                *)
PagesAreOneList ==
    \A c \in Clients : getting[c] # None =>
        /\ IsPrefix(getting[c].got, getting[c].whole)
        /\ getting[c].cursor = None => getting[c].got = getting[c].whole

(* A client is told to begin again only after its list's time is over, or  *)
(* after as many longer lists as are retained were begun since; never for  *)
(* lists that fit on a page.  And no more than that are retained.          *)
ListsLast ==
    /\ Len(snapshots) <= MaxSnapshots
    /\ \A c \in Clients : getting[c] # None /\ getting[c].cursor # None =>
        \/ Held(getting[c].cursor.snapshot) # {}
        \/ now >= getting[c].begun + Lifetime
        \/ made - getting[c].cursor.snapshot > MaxSnapshots
=============================================================================
