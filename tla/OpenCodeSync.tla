---------------------------- MODULE OpenCodeSync ---------------------------
(***************************************************************************)
(* agents/opencode.rs, opencode/incremental.rs and opencode/paging.rs: the *)
(* sessions of an OpenCode database, read again after every change of it.  *)
(* A refresh compares fingerprints with those of the snapshot it kept,     *)
(* decodes the sessions that changed and reuses the rest; the scanner has  *)
(* the snapshot release the bodies in between.  The database may be of the *)
(* first layout, of the second, or on its way from one to the other.       *)
(*                                                                         *)
(* The ids are ordered numbers.  What a session says is the number of its  *)
(* body, 0 being none, which is also what it cost; the messages of a shown *)
(* session have visible parts.                                             *)
(***************************************************************************)
EXTENDS Naturals, Sequences, SequencesExt, FiniteSetsExt, Functions, TLC

CONSTANTS Ids,
    DatabaseBounds  \* bounds to choose from: each [writes, copies, pages, start, v2, bodies]

VARIABLES
    v1, v2,         \* the tables session and session_v2, with their messages
    phase, cursor,  \* the state of OpenCode's own migration, in the table kv
    snapshot,       \* DatabaseSnapshot, bodies released
    stored,         \* history: what the refreshes have published
    lost,           \* history: the sessions published without their bodies, unchanged
                    \* themselves, when the snapshot could not tell that they had to
                    \* be decoded
    exact,          \* history: the ids the last refresh read, until the next write
    used, limit     \* what was used of the bounds

databaseVars == <<v1, v2, phase, cursor, snapshot, stored, lost, exact, used, limit>>

NoParent == 0
Use(what) == used[what] < limit[what] /\ used' = [used EXCEPT ![what] = @ + 1]
Without(f, ids) == Restrict(f, DOMAIN f \ ids)
Joined(f, g) == [i \in DOMAIN f \cup DOMAIN g |-> IF i \in DOMAIN f THEN f[i] ELSE g[i]]
Sum(f) == FoldFunction(LAMBDA a, b : a + b, 0, f)

----------------------------------------------------------------------------
(* The layout.                                                             *)

(* Mutant of Legacy: what was copied and then deleted comes back.          *)
LegacyAll == DOMAIN v1 \ DOMAIN v2
(* OpenCode copies the sessions in descending order of their ids.          *)
Legacy == IF phase = "done" THEN {} ELSE {i \in DOMAIN v1 : i < cursor} \ DOMAIN v2
Layout == IF phase = "v1" THEN "v1" ELSE IF Legacy = {} THEN "v2" ELSE "migrating"
IsV2 == Layout # "v1"
(* metadata: the rows that count, in whichever table they are.             *)
OldRows == IF Layout = "v1" THEN v1 ELSE Restrict(v1, Legacy)
Rows == IF Layout = "v1" THEN v1 ELSE Joined(v2, OldRows)

----------------------------------------------------------------------------
(* selected_ids: the top-level sessions and what descends from them.       *)

ChildrenOf(rows, ids) == {i \in DOMAIN rows : rows[i].parent \in ids /\ rows[i].parent # NoParent}
Descent(rows, ids) ==
    LET step[n \in 0 .. Cardinality(Ids)] ==
            IF n = 0 THEN ids ELSE step[n - 1] \cup ChildrenOf(rows, step[n - 1])
    IN  step[Cardinality(Ids)]
IsChild(rows, i, secondLayout) ==
    IF secondLayout THEN rows[i].parent \in DOMAIN rows \ {i} ELSE rows[i].parent # NoParent
Top(rows, secondLayout) == {i \in DOMAIN rows : ~IsChild(rows, i, secondLayout)}
Selected(rows, secondLayout) == Descent(rows, Top(rows, secondLayout)) \cap DOMAIN rows

(* Scoped rows: no scope is all of them.                                   *)
Within(rows, scope) == Restrict(rows, DOMAIN rows \cap scope)

(* fingerprints: the table, the row and its messages.                      *)
Fingerprint(table, row) == [table |-> table, row |-> row]
TableFingerprints(table, rows) ==
    [i \in Selected(rows, IsV2) |-> Fingerprint(table, rows[i])]
Fingerprints(scope) ==
    IF Layout = "v1" THEN TableFingerprints("v1", Within(v1, scope))
    ELSE Joined(TableFingerprints("v1", Within(OldRows, scope)),
                TableFingerprints("v2", Within(v2, scope)))

----------------------------------------------------------------------------
(* Refreshing with a scope, from a previous snapshot.                      *)

Nothing == [known |-> FALSE, fingerprints |-> <<>>, base |-> <<>>, usage |-> <<>>,
            sessions |-> <<>>]

(* expanded_scope: what descends from the selected ids, or used to.        *)
Expanded(ids, previous) ==
    LET step[n \in 0 .. Cardinality(Ids)] ==
            IF n = 0 THEN ids
            ELSE step[n - 1] \cup ChildrenOf(Rows, step[n - 1])
                             \cup ChildrenOf(previous.base, step[n - 1])
    IN  step[Cardinality(Ids)]

(* With the bodies released, a first-layout session whose descendants      *)
(* changed has to be decoded too: its totals will differ.                  *)
Above(ids, previous) ==
    LET parents(i) == ({IF i \in DOMAIN Rows THEN Rows[i].parent ELSE NoParent}
                       \cup {IF i \in DOMAIN previous.base THEN previous.base[i].parent
                             ELSE NoParent}) \ {NoParent}
        step[n \in 0 .. Cardinality(Ids)] ==
            IF n = 0 THEN UNION {parents(i) : i \in ids}
            ELSE step[n - 1] \cup UNION {parents(i) : i \in step[n - 1]}
    IN  step[Cardinality(Ids)]
Differing(prints, previous) ==
    {i \in DOMAIN prints : i \notin DOMAIN previous.fingerprints
                           \/ previous.fingerprints[i] # prints[i]}
Changed(prints, previous) ==
    LET differing == Differing(prints, previous)
    IN  IF IsV2 \/ ~previous.known THEN differing
        ELSE differing \cup Above(differing \cup (DOMAIN previous.fingerprints \ DOMAIN prints),
                                  previous)

Decoded(row) == [parent |-> row.parent, own |-> row.body, body |-> row.body]
Details(rows, changed, previous, visible) ==
    LET selected == Selected(rows, IsV2)
        fresh == selected \cap changed \cap visible
        kept == (selected \ changed) \cap DOMAIN previous.base
    IN  [i \in fresh \cup kept |-> IF i \in fresh THEN Decoded(rows[i]) ELSE previous.base[i]]
HasMessages(rows) == {i \in DOMAIN rows : rows[i].body # 0}
HasVisible(rows) == {i \in HasMessages(rows) : rows[i].shown}
ReadDetails(scope, changed, previous) ==
    IF Layout = "v1" THEN Details(Within(v1, scope), changed, previous, HasVisible(v1))
    ELSE Joined(Details(Within(v2, scope), changed, previous, HasMessages(v2)),
                Details(Within(OldRows, scope), changed \cap Legacy, previous, HasVisible(OldRows)))

(* raw_usage and descendant_usage: what the descendants cost, seen or not. *)
RawUsage(prints, changed, previous) ==
    Joined([i \in {k \in changed \cap DOMAIN v1 : v1[k].body # 0} |-> v1[i].body],
           Restrict(previous.usage, (DOMAIN prints \cap DOMAIN previous.usage) \ changed))
UsageBelow(i, usage) ==
    Sum(Restrict(usage, DOMAIN usage \cap (Descent(v1, ChildrenOf(v1, {i})) \ {i})))

Session(detail, below) ==
    [parent |-> detail.parent, own |-> detail.own, total |-> detail.own + below,
     body |-> detail.body, versioned |-> IsV2]
Compacted(f) == [i \in DOMAIN f |-> [f[i] EXCEPT !.body = 0]]

Refreshed(scope, previous) ==
    LET outside(f) == Restrict(f, DOMAIN f \ scope)
        prints == Joined(Fingerprints(scope), outside(previous.fingerprints))
        changed == Changed(prints, previous)
        details == Joined(ReadDetails(scope, changed, previous), outside(previous.base))
        usage == IF IsV2 THEN <<>> ELSE RawUsage(prints, changed, previous)
        sessions == [i \in DOMAIN details |->
                        Session(details[i], IF IsV2 THEN 0 ELSE UsageBelow(i, usage))]
    IN  [fingerprints |-> prints, base |-> details, usage |-> usage, sessions |-> sessions]

(* What the snapshot does not remember: the layout it is of, beyond what   *)
(* each session kept of it, and the parents of a session that was not      *)
(* shown.                                                                  *)
LayoutMoved == \E i \in DOMAIN snapshot.sessions : snapshot.sessions[i].versioned # IsV2
HiddenGone ==
    DOMAIN snapshot.fingerprints \ (DOMAIN snapshot.base \cup DOMAIN Rows) # {}

Publish(result) ==
    LET upserts == {i \in DOMAIN result.sessions :
                        \/ i \notin DOMAIN snapshot.sessions
                        \/ snapshot.sessions[i] # result.sessions[i]}
        removed == DOMAIN snapshot.sessions \ DOMAIN result.sessions
        unread == {i \in upserts \cap DOMAIN snapshot.fingerprints :
                      /\ result.sessions[i].body = 0
                      /\ result.fingerprints[i] = snapshot.fingerprints[i]}
    IN  /\ stored' = Joined(Restrict(result.sessions, upserts), Without(stored, removed))
        /\ lost' = (lost \ (upserts \cup removed))
                   \cup (IF LayoutMoved \/ HiddenGone THEN unread ELSE lost \cap unread)
        /\ snapshot' = [known |-> TRUE, fingerprints |-> result.fingerprints,
                        base |-> Compacted(result.base), usage |-> result.usage,
                        sessions |-> Compacted(result.sessions)]

Refresh ==
    /\ \E result \in {Refreshed(Ids, snapshot)} : Publish(result)
    /\ exact' = Ids
    /\ UNCHANGED <<v1, v2, phase, cursor, used, limit>>
(* A page, or what the hints ask for.                                      *)
RefreshPage(roots) ==
    /\ Use("pages")
    /\ \E scope \in {Expanded(roots, snapshot)} :
       \E result \in {Refreshed(scope, snapshot)} : Publish(result) /\ exact' = scope
    /\ UNCHANGED <<v1, v2, phase, cursor, limit>>

----------------------------------------------------------------------------
(* The keys a scan pages by, and their fingerprints.                       *)

Roots == {i \in DOMAIN Rows : IF IsV2 THEN ~IsChild(Rows, i, TRUE)
                              ELSE Rows[i].parent = NoParent}
RootOf(i, prints) ==
    LET step[n \in 0 .. Cardinality(Ids)] ==
            IF n = 0 THEN i
            ELSE IF Rows[step[n - 1]].parent \in DOMAIN prints THEN Rows[step[n - 1]].parent
            ELSE step[n - 1]
    IN  step[Cardinality(Ids)]

----------------------------------------------------------------------------
(* OpenCode.                                                               *)

Written == exact' = {} /\ UNCHANGED <<snapshot, stored, lost, limit>>
SaveV1(i, parent, body, shown) ==
    /\ phase = "v1" /\ Use("writes") /\ body \in limit.bodies
    /\ parent # NoParent => parent \in DOMAIN v1 /\ parent < i
    /\ i \in DOMAIN v1 \/ i \notin DOMAIN snapshot.fingerprints  \* ids are not used again
    /\ IF i \in DOMAIN v1 THEN parent = v1[i].parent /\ body # v1[i].body ELSE body # 0
    /\ v1' = Joined((i :> [parent |-> parent, body |-> body, shown |-> shown]), v1)
    /\ Written /\ UNCHANGED <<v2, phase, cursor>>
SaveV2(i, parent, body) ==
    /\ phase # "v1" /\ Use("writes") /\ body \in limit.bodies
    /\ parent # NoParent => parent \in DOMAIN v2 /\ parent < i
    /\ i \notin Legacy
    /\ IF i \in DOMAIN v2 THEN parent = v2[i].parent /\ body # v2[i].body ELSE body # 0
    /\ v2' = Joined((i :> [parent |-> parent, body |-> body, shown |-> TRUE]), v2)
    /\ Written /\ UNCHANGED <<v1, phase, cursor>>
(* The session alone, or with everything below it.                         *)
Delete(ids) ==
    /\ Use("writes") /\ ids # {}
    /\ IF phase = "v1"
       THEN /\ v1' = Without(v1, ids) /\ ids \subseteq DOMAIN v1 /\ UNCHANGED v2
       ELSE v2' = Without(v2, ids) /\ ids \subseteq DOMAIN v2 /\ UNCHANGED v1
    /\ Written /\ UNCHANGED <<phase, cursor>>

BeginMigration ==
    /\ phase = "v1" /\ Use("copies")
    /\ phase' = "copying" /\ cursor' = Max(Ids) + 1
    /\ Written /\ UNCHANGED <<v1, v2>>
CopyNext ==
    /\ phase = "copying" /\ Use("copies") /\ {i \in DOMAIN v1 : i < cursor} # {}
    /\ LET next == Max({i \in DOMAIN v1 : i < cursor})
       IN  /\ cursor' = next
           /\ v2' = Joined((next :> [v1[next] EXCEPT !.shown = TRUE]), v2)
    /\ Written /\ UNCHANGED <<v1, phase>>
FinishMigration ==
    /\ phase = "copying" /\ Use("copies") /\ {i \in DOMAIN v1 : i < cursor} = {}
    /\ phase' = "done"
    /\ Written /\ UNCHANGED <<v1, v2, cursor>>

DatabaseInit ==
    /\ limit \in DatabaseBounds
    /\ v1 = IF limit.v2 THEN <<>> ELSE limit.start
    /\ v2 = IF limit.v2 THEN limit.start ELSE <<>>
    /\ phase = (IF limit.v2 THEN "done" ELSE "v1") /\ cursor = Max(Ids) + 1
    /\ snapshot = Nothing /\ stored = <<>> /\ lost = {} /\ exact = {}
    /\ used = [writes |-> 0, copies |-> 0, pages |-> 0]

DatabaseNext ==
    \/ \E i \in Ids, parent \in Ids \cup {NoParent}, body \in limit.bodies :
          SaveV2(i, parent, body) \/ \E shown \in BOOLEAN : SaveV1(i, parent, body, shown)
    \/ \E ids \in SUBSET Ids : Delete(ids)
    \/ BeginMigration \/ CopyNext \/ FinishMigration
    \/ Refresh
    \/ \E roots \in SUBSET Roots : RefreshPage(roots)
DatabaseSpec == DatabaseInit /\ [][DatabaseNext]_databaseVars

----------------------------------------------------------------------------

Scan == Refreshed(Ids, Nothing).sessions
(* However the database changed and whichever sessions were reused, what   *)
(* was published of the sessions a refresh has just read is what a scan    *)
(* from nothing would publish: which sessions, their parents, their own    *)
(* and their total cost, and nothing that is gone (incremental.rs:96).     *)
RefreshIsExact ==
    Compacted(Within(stored, exact)) = Compacted(Within(Scan, exact))

(* So are the bodies, but of sessions that were published without being    *)
(* decoded, since they had not changed themselves, when the layout had     *)
(* moved or a session was gone that was not shown: a body is lost for no   *)
(* other reason and comes back with the next change (incremental.rs:92,    *)
(* 104, 182).                                                              *)
BodiesAreRead ==
    \A i \in DOMAIN stored \cap exact : i \in lost \/ stored[i].body = Scan[i].body

(* Paging by top-level sessions reaches every session that is shown, and   *)
(* the fingerprint of a session is folded into the key it is paged by      *)
(* (incremental.rs:323).                                                   *)
PagesReachAll ==
    LET prints == Fingerprints(Ids)
    IN  /\ DOMAIN Scan \subseteq UNION {Expanded({r}, Nothing) : r \in Roots}
        /\ \A i \in DOMAIN prints : /\ RootOf(i, prints) \in Roots
                                    /\ i \in Expanded({RootOf(i, prints)}, Nothing)

(* A session OpenCode has deleted is not resurrected from the table it was *)
(* copied from (opencode.rs:131).                                          *)
DeletedStaysDeleted ==
    \A i \in DOMAIN Scan : phase # "v1" /\ i >= cursor => i \in DOMAIN v2
=============================================================================
