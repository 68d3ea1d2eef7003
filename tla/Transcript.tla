----------------------------- MODULE Transcript -----------------------------
(***************************************************************************)
(* What the parsers of append-only transcripts share: messages made of     *)
(* parts, tool calls that wait for their result, a file that another       *)
(* program is still writing, and the checkpoint a parser resumes from.     *)
(*                                                                         *)
(* A line is a record [uuid, ...]: its last 64 bytes tell it from every    *)
(* other line.  A file is [lines, partial]: partial is None, a whole line  *)
(* without its newline, or Torn, the beginning of one.                     *)
(***************************************************************************)
EXTENDS Naturals, Sequences, SequencesExt, FiniteSetsExt, TLC

CONSTANTS None, Torn

Extend(f, key, value) == (key :> value) @@ f

Text(text) == [kind |-> "text", text |-> text]
Reasoning(text) == [kind |-> "reasoning", text |-> text]
Tool(call) == [kind |-> "tool", call |-> call, status |-> "running", result |-> None]
HasPart(message, kind) == \E i \in DOMAIN message.parts : message.parts[i].kind = kind

----------------------------------------------------------------------------
(* Tool calls: "calls" maps an id to the place of the newest call with it. *)

StatusAt(messages, at) == messages[at[1]].parts[at[2]].status
WithStatus(messages, at, status) ==
    [messages EXCEPT ![at[1]].parts[at[2]].status = status]

(* An older call still waiting under this id can no longer be settled.     *)
Register(p, call, at) ==
    LET earlier == IF call \in DOMAIN p.tools THEN p.tools[call] ELSE at
    IN  [p EXCEPT !.tools = Extend(@, call, at),
                  !.messages = IF earlier # at /\ StatusAt(@, earlier) = "running"
                               THEN WithStatus(@, earlier, "unknown") ELSE @]

Pending(p, call) == call \in DOMAIN p.tools /\ StatusAt(p.messages, p.tools[call]) = "running"

Settle(p, call, status, result) ==
    LET at == p.tools[call]
    IN  [p EXCEPT !.messages[at[1]].parts[at[2]] =
                      [@ EXCEPT !.status = status, !.result = result]]

(* Calls before the last turn of the user will never report a result.      *)
SettleInterrupted(messages) ==
    LET turns == {i \in DOMAIN messages : messages[i].role = "user"
                                          /\ \E k \in {"text", "reasoning"} : HasPart(messages[i], k)}
        Settled(part) == IF part.kind = "tool" /\ part.status = "running"
                         THEN [part EXCEPT !.status = "unknown"] ELSE part
    IN  [i \in DOMAIN messages |->
            IF \E j \in turns : i < j /\ \A k \in turns : k <= j
            THEN [messages[i] EXCEPT !.parts = [n \in DOMAIN @ |-> Settled(@[n])]]
            ELSE messages[i]]

----------------------------------------------------------------------------
(* Checkpoints of parsers: [path, offset, tail, context, parser].  The     *)
(* context is whatever else a parse depends on: the pricing's generation,  *)
(* the links of subagents, the physical file.                              *)

NoFile == [lines |-> <<>>, partial |-> None]

Resumable(checkpoint, file, context) ==
    /\ checkpoint.context = context
    /\ checkpoint.offset <= Len(file.lines)
    /\ checkpoint.offset > 0 => file.lines[checkpoint.offset].uuid = checkpoint.tail

ResumeOf(checkpoints, path, file, context, new) ==
    LET own == {c \in ToSet(checkpoints) : c.path = path /\ Resumable(c, file, context)}
    IN  IF own = {} THEN [offset |-> 0, parser |-> new]
        ELSE LET c == CHOOSE c \in own : TRUE IN [offset |-> c.offset, parser |-> c.parser]

Without(checkpoints, path) == SelectSeq(checkpoints, LAMBDA c : c.path # path)

(* The newest is kept; beyond the limit the oldest goes.                   *)
Remember(checkpoints, limit, path, file, context, parser) ==
    LET n == Len(file.lines)
        kept == Append(Without(checkpoints, path),
                       [path |-> path, offset |-> n, context |-> context, parser |-> parser,
                        tail |-> IF n = 0 THEN None ELSE file.lines[n].uuid])
    IN  IF Len(kept) > limit THEN Tail(kept) ELSE kept
=============================================================================
