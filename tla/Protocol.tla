------------------------------ MODULE Protocol ------------------------------
(***************************************************************************)
(* What a Worker and the Hub say to each other: codesesh-core/src/sync,    *)
(* protocol.rs and hub_types.rs.                                           *)
(*                                                                         *)
(* A capture is what a scan parsed of one session: its messages and its    *)
(* metadata (`title' stands for all that Operation::Metadata carries).     *)
(* Digests and digest chains are injective, so a digest is modelled by     *)
(* what it digests.  A fresh UUID is a value nothing had before: streams   *)
(* are numbered in the order of their creation, and a transfer is named by *)
(* the stream and the sequence its first chunk was queued at.              *)
(***************************************************************************)
EXTENDS Integers, FiniteSets, Sequences

CONSTANTS
    Agents,      \* the coding agents whose sessions are collected
    Sessions,    \* session identities
    AgentOf,     \* the agent a session belongs to
    Messages,    \* message bodies
    Titles,      \* metadata values
    Captures,    \* session contents a scan can return
    None         \* SQL NULL, a missing row, Rust's Option::None

(* What a session can hold.  The Hub's copy need not be a capture: after a *)
(* restore the messages of one can have the title of another.              *)
Contents == [messages : Seq(Messages), title : Titles]

ASSUME CaptureAssumption == Captures \subseteq Contents /\ None \notin Contents
ASSUME AgentAssumption == AgentOf \in [Sessions -> Agents]
ASSUME NoneAssumption ==
    /\ None \notin Nat
    /\ None \notin [epoch : Nat, previousStream : Nat, newStream : Nat]
    /\ None \notin Seq(Messages)

----------------------------------------------------------------------------
(* Operations, in the order a Worker queues them.                          *)

Transfers == Nat \X Nat
Bases == [keep : Nat, previous : Seq(Messages)]

Chunk(t, i) == [kind |-> "chunk", transfer |-> t, index |-> i]
Commit(t, n, s, base, c) ==
    [kind |-> "commit", transfer |-> t, chunks |-> n, session |-> s,
     base |-> base, capture |-> c]
Metadata(s, title) == [kind |-> "metadata", session |-> s, title |-> title]

Operations ==
    [kind : {"chunk"}, transfer : Transfers, index : Nat]
        \cup [kind : {"commit"}, transfer : Transfers, chunks : Nat \ {0},
              session : Sessions, base : Bases \cup {None}, capture : Captures]
        \cup [kind : {"metadata"}, session : Sessions, title : Titles]

(* The chunks of a commit carry all its messages, or those after the base. *)
CarriedMessages(op) ==
    IF op.base = None THEN op.capture.messages
    ELSE SubSeq(op.capture.messages, op.base.keep + 1, Len(op.capture.messages))

(* A delta keeps a prefix of its base that the commit carries in full.     *)
Extends(op) ==
    /\ op.base.keep <= Len(op.base.previous) /\ op.base.keep <= Len(op.capture.messages)
    /\ \A i \in 1 .. op.base.keep : op.base.previous[i] = op.capture.messages[i]
SoundOperations ==
    {op \in Operations : op.kind = "commit" => op.base = None \/ Extends(op)}

----------------------------------------------------------------------------
(* Requests a Worker sends.                                                *)

Upload(epoch, stream, sequence, op) ==
    [epoch |-> epoch, stream |-> stream, sequence |-> sequence, op |-> op]
Recovery(epoch, previous, new) ==
    [epoch |-> epoch, previousStream |-> previous, newStream |-> new]
Hello(epoch, stream, progress) ==
    [epoch |-> epoch, stream |-> stream, rescan |-> progress]
Progress(id, pending, target, failed) ==
    [id |-> id, pending |-> pending, target |-> target, failed |-> failed]
============================================================================
