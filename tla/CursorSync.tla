----------------------------- MODULE CursorSync -----------------------------
(***************************************************************************)
(* agents/cursor.rs, cursor/sync.rs and sync/selected.rs: the sessions of  *)
(* Cursor's database, which is one table of keys and values.  A session is *)
(* put together from the row of its composer, the rows of its bubbles, the *)
(* one row of every subagent it names, which several composers may share,  *)
(* and the directory another database gives it.  CursorSync keeps a        *)
(* fingerprint of every row and finds out from those that changed which    *)
(* sessions to read again: all of them, or in pages while the history is   *)
(* read, when what may not be read yet is put off.                         *)
(*                                                                         *)
(* A row is the number of its contents, 0 being none, and contents do not  *)
(* come back; a composer's row, which is named after it, also lists its    *)
(* subagents, and 0 is a row that cannot be parsed.  The database is there *)
(* (AgentScanner has sources that are not), and a page is of one session.  *)
(***************************************************************************)
EXTENDS Naturals, FiniteSets, Sequences, SequencesExt, FiniteSetsExt, Functions, TLC

CONSTANTS Composers, Subagents, NoRow,
    CursorBounds    \* bounds to choose from: each [writes, rejects, kids, start]

VARIABLES
    table,          \* cursorDiskKV, and the directories of the workspaces
    sync,           \* CursorSync
    plan, fresh,    \* the scanner's plan of a backfill, or NoRow; whether it has scanned
    rejected,       \* whether the batch it returned last was refused
    published,      \* history: the sessions that were published, as last published
    used, limit     \* what was used of the bounds

cursorVars == <<table, sync, plan, fresh, rejected, published, used, limit>>

Use(what) == used[what] < limit[what] /\ used' = [used EXCEPT ![what] = @ + 1]
Without(f, ids) == Restrict(f, DOMAIN f \ ids)
Joined(f, g) == [i \in DOMAIN f \cup DOMAIN g |-> IF i \in DOMAIN f THEN f[i] ELSE g[i]]

----------------------------------------------------------------------------
(* Sessions.                                                               *)

Row(own, kids) == [own |-> own, kids |-> kids]
Readable == {i \in DOMAIN table.composer : table.composer[i].own # 0}
(* parse_composer: nothing was said, and nobody was asked: no session.     *)
IsSession(i) == i \in Readable /\ (table.bubbles[i] # 0 \/ table.composer[i].kids # {})
Parsed(i) ==
    [row |-> table.composer[i], said |-> table.bubbles[i], directory |-> table.directory[i],
     asked |-> [k \in table.composer[i].kids |-> table.subagent[k]]]
Sessions(ids) == [i \in {j \in ids : IsSession(j)} |-> Parsed(i)]

(* child_owners: the composers that name each subagent.                    *)
Owners(composers, k) == {i \in DOMAIN composers : k \in composers[i]}

NothingSynced ==
    [rows |-> <<>>, bubbles |-> [i \in Composers |-> 0], subagent |-> [k \in Subagents |-> 0],
     composers |-> <<>>, directory |-> [i \in Composers |-> 0], active |-> {}, dirty |-> {}]

----------------------------------------------------------------------------
(* refresh, and refresh_selected: what differs from the fingerprints.      *)

Differs(old, new) == {i \in DOMAIN old \cup DOMAIN new :
                         ~(i \in DOMAIN old /\ i \in DOMAIN new /\ old[i] = new[i])}
(* The composers' metadata, of the rows that changed read again.           *)
Metadata(s) ==
    [i \in Readable |-> IF i \in Differs(s.rows, table.composer) THEN table.composer[i].kids
                        ELSE s.composers[i]]
Affected(s) ==
    s.dirty \cup Differs(s.rows, table.composer)
            \cup Differs(s.bubbles, table.bubbles)
            \cup UNION {Owners(s.composers, k) \cup Owners(Metadata(s), k) :
                           k \in Differs(s.subagent, table.subagent)}
            \cup Differs(s.directory, table.directory)
Refreshed(s, eligible) ==
    LET affected == Affected(s) \cap eligible
        upserts == Sessions(affected)
        active == (s.active \ affected) \cup DOMAIN upserts
    IN  [upserts |-> upserts, removed |-> s.active \ active,
         sync |-> [rows |-> table.composer, bubbles |-> table.bubbles,
                   subagent |-> table.subagent, composers |-> Metadata(s),
                   directory |-> table.directory, active |-> active,
                   dirty |-> Affected(s) \ eligible]]

(* Mutant of OtherParents: a shared subagent is left to the page it is of. *)
OtherParentsLeft(s, ids) == {}
(* scan_selected: the page's sessions, and those that were read before and *)
(* share a subagent whose row has changed since.                           *)
OtherParents(s, ids) ==
    UNION {Owners(s.composers, k) : k \in
              {l \in Differs(s.subagent, table.subagent) :
                  \E i \in ids \cap Readable : l \in table.composer[i].kids}}
ScannedPage(s, ids) ==
    LET found == ids \cap Readable
        asked == {k \in Subagents : /\ \E i \in found : k \in table.composer[i].kids
                                    /\ table.subagent[k] # 0}
        upserts == Sessions(ids)
    IN  [upserts |-> upserts,
         sync |-> [rows |-> Joined(Restrict(table.composer, found),
                                   Without(s.rows, ids \cap DOMAIN s.composers)),
                   bubbles |-> [i \in Composers |->
                                   IF i \in found THEN table.bubbles[i]
                                   ELSE IF i \in ids THEN 0 ELSE s.bubbles[i]],
                   subagent |-> [k \in Subagents |->
                                   IF k \in asked THEN table.subagent[k] ELSE s.subagent[k]],
                   composers |-> Joined([i \in found |-> table.composer[i].kids],
                                        Without(s.composers, ids)),
                   directory |-> [i \in Composers |->
                                   IF i \in ids THEN table.directory[i] ELSE s.directory[i]],
                   active |-> (s.active \ ids) \cup DOMAIN upserts,
                   dirty |-> (s.dirty \cup OtherParents(s, ids)) \ ids]]

----------------------------------------------------------------------------
(* The scanner: the batch is published, or refused and everything it had   *)
(* not published is forgotten before the next one.                         *)

Synced == IF rejected THEN NothingSynced ELSE sync
Return(result, removed, next) ==
    \/ /\ published' = Joined(result.upserts, Without(published, removed))
       /\ sync' = result.sync /\ plan' = next /\ fresh' = FALSE /\ rejected' = FALSE
       /\ UNCHANGED <<table, used, limit>>
    \/ /\ Use("rejects") /\ rejected' = TRUE
       /\ UNCHANGED <<table, sync, plan, fresh, published, limit>>

(* enumerate_session_keys.                                                 *)
NewPlan == [items |-> SetToSortSeq(Readable, LAMBDA a, b : a < b), offset |-> 0,
            hinted |-> FALSE, refreshed |-> FALSE]
InPlan(p) == ToSet(p.items)
Plans == IF plan = NoRow \/ rejected THEN {NewPlan} ELSE {plan}
DirtyFirst(p) == p.hinted /\ p.offset > 0 /\ (~p.refreshed \/ p.offset = Len(p.items))

(* A page; the last one also removes what the plan does not list.          *)
ReadPage == \E p \in Plans :
    /\ ~DirtyFirst(p)
    /\ LET end == IF p.offset < Len(p.items) THEN p.offset + 1 ELSE p.offset
           ids == {p.items[n] : n \in (p.offset + 1) .. end}
           result == IF ids = {} THEN [upserts |-> <<>>, sync |-> Synced]
                     ELSE ScannedPage(Synced, ids)
           gone == ids \ DOMAIN result.upserts
           unlisted == IF end = Len(p.items) THEN DOMAIN published \ InPlan(p) ELSE {}
       IN  Return(result, gone \cup unlisted,
                  IF end = Len(p.items) /\ ~p.hinted THEN NoRow
                  ELSE [p EXCEPT !.offset = end, !.refreshed = FALSE])
(* read_dirty: what was read already, and what the plan did not know.      *)
ReadDirty == \E p \in Plans :
    /\ DirtyFirst(p)
    /\ LET added == Readable \ InPlan(p)
           read == {p.items[n] : n \in 1 .. p.offset}
           result == Refreshed(Synced, read \cup added)
       IN  Return(result, result.removed,
                  IF p.offset = Len(p.items) /\ added = {} THEN NoRow
                  ELSE [p EXCEPT !.items = @ \o SetToSortSeq(added, LAMBDA a, b : a < b),
                                 !.hinted = FALSE, !.refreshed = TRUE])
ReadLive ==
    /\ plan = NoRow /\ ~fresh /\ ~rejected
    /\ LET result == Refreshed(sync, Composers) IN Return(result, result.removed, NoRow)

(* The watcher has seen the database change.                               *)
Hint ==
    /\ plan # NoRow /\ ~rejected /\ ~plan.hinted
    /\ plan' = [plan EXCEPT !.hinted = TRUE]
    /\ UNCHANGED <<table, sync, fresh, rejected, published, used, limit>>

----------------------------------------------------------------------------
(* Cursor.                                                                 *)

Written == UNCHANGED <<sync, plan, fresh, rejected, published, limit>>
Body == used.writes + 1
Save(changed) == Use("writes") /\ table' = changed /\ Written
SaveComposer(i, row) == Save([table EXCEPT !.composer = Joined(i :> row, @)])
SaveBubbles(i, body) == table.bubbles[i] # body /\ Save([table EXCEPT !.bubbles[i] = body])
SaveSubagent(k, body) == table.subagent[k] # body /\ Save([table EXCEPT !.subagent[k] = body])
MoveComposer(i, place) ==
    table.directory[i] # place /\ Save([table EXCEPT !.directory[i] = place])
DeleteComposer(i) ==
    /\ i \in DOMAIN table.composer
    /\ Save([table EXCEPT !.composer = Without(@, {i}), !.bubbles[i] = 0])

CursorInit ==
    /\ limit \in CursorBounds
    /\ table = limit.start
    /\ sync = NothingSynced /\ plan = NoRow /\ fresh = TRUE /\ rejected = FALSE
    /\ published = <<>> /\ used = [writes |-> 0, rejects |-> 0]
CursorNext ==
    \/ \E i \in Composers :
          \/ \E kids \in limit.kids : SaveComposer(i, Row(Body, kids))
          \/ SaveComposer(i, Row(0, {})) \/ DeleteComposer(i)
          \/ \E body \in {0, Body} : SaveBubbles(i, body) \/ MoveComposer(i, body)
    \/ \E k \in Subagents, body \in {0, Body} : SaveSubagent(k, body)
    \/ ReadPage \/ ReadDirty \/ ReadLive \/ Hint
CursorSpec == CursorInit /\ [][CursorNext]_cursorVars

----------------------------------------------------------------------------

(* Whatever Cursor wrote between the pages, hints and refreshes, no change *)
(* is lost: a refresh now would make what is published of every session    *)
(* what a scan from nothing finds, the subagents it shares with others and *)
(* what was put off included; but for what an earlier history left and the *)
(* plan has yet to read (cursor/sync.rs, sync/selected.rs).                *)
NothingMissed ==
    LET result == Refreshed(Synced, Composers)
        after == Joined(result.upserts, Without(published, result.removed))
        scan == Sessions(Composers)
        known == {i \in Composers : \/ i \in Synced.active \/ i \notin DOMAIN published
                                    \/ plan = NoRow /\ ~fresh /\ ~rejected}
    IN  Restrict(after, DOMAIN after \cap known) = Restrict(scan, DOMAIN scan \cap known)
=============================================================================
