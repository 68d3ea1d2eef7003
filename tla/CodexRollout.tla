---------------------------- MODULE CodexRollout ----------------------------
(***************************************************************************)
(* agents/codex: the rollout P of a session and the rollout C of a         *)
(* subagent of it.  Codex appends to a rollout, compresses it when it      *)
(* rests and unpacks it to go on; a forked rollout opens with its parent's *)
(* history.  Tokens are one number; "cost" of a line is what it really     *)
(* spent, which the parser does not see.                                   *)
(*                                                                         *)
(* Texts, service tiers, nicknames and prices are left out, and so are     *)
(* rollouts below 8 MiB, which are always read in full.                    *)
(***************************************************************************)
EXTENDS Transcript

CONSTANTS Limit, MaxLines,
    Bounds      \* bounds to choose from: each [P, C, edits, prices, forked, scans]:
                \* the lines either rollout may get, and whether there is more
                \* to it than P growing by whole lines

VARIABLES file, recent, dirty, checkpoints,
    summaries,  \* Checkpoints::children
    generation, known, bound, edits

codexVars == <<file, recent, dirty, checkpoints, summaries, generation, known, bound, edits>>
Paths == {"P", "C"}

----------------------------------------------------------------------------
(* Usage: the counters of a rollout.                                       *)

(* A forked rollout replays its parent's history until a turn of its own.  *)
NewUsage(forked) ==
    [seen |-> 0, total |-> 0, replaying |-> forked, record |-> None, assigned |-> 0]
Turn(u, line) == [u EXCEPT !.replaying = @ /\ ~line.own]

(* append_usage.                                                           *)
Spend(message, n) == [message EXCEPT !.tokens = @ + n]

(* Usage::add: tokens go to the last assistant message without any, and    *)
(* otherwise to the last one of the same model; without one, to none.      *)
(* "assigned" spares the search.                                           *)
Assistants(messages) == {i \in DOMAIN messages : messages[i].role = "assistant"}
Filled(messages) == {i \in Assistants(messages) : messages[i].tokens # 0}
Targets(messages, model) == {i \in Filled(messages) : messages[i].model = model}
Free(u, messages, targets) ==
    {i \in Assistants(messages) \ Filled(messages) :
        i > u.assigned \/ \A j \in targets : j < i}
Modelled(message, model) ==
    [message EXCEPT !.model = IF @ = None THEN model ELSE @]
PlacedIn(u, messages, n, model, targets, free) ==
    IF free # {}
    THEN <<u, [messages EXCEPT ![Max(free)] = Modelled([@ EXCEPT !.tokens = n], model)]>>
    ELSE <<[u EXCEPT !.assigned = Len(messages)],
           IF targets = {} THEN messages ELSE [messages EXCEPT ![Max(targets)] = Spend(@, n)]>>
Placed(u, messages, n, model) ==
    IF n = 0 THEN <<u, messages>>
    ELSE PlacedIn([u EXCEPT !.total = @ + n], messages, n, model, Targets(messages, model),
                  Free(u, messages, Targets(messages, model)))

(* Usage::consume: the same cumulative count is reported more than once.   *)
IsRepeated(u, line) == line.total > 0 /\ line.total = u.seen
Consume(u, messages, line, model) ==
    LET delta == IF line.last # None THEN line.last ELSE line.total - u.seen
        moved == [u EXCEPT !.seen = line.total]
    IN  IF IsRepeated(u, line) THEN <<u, messages>>
        ELSE IF u.replaying THEN <<moved, messages>>
        ELSE Placed([moved EXCEPT !.record = IF delta > 0 THEN None ELSE @], messages, delta, model)

Record(u, line) ==
    IF u.replaying THEN u ELSE [u EXCEPT !.record = [id |-> line.id, n |-> line.n]]
Owed(u, line) == IF u.record # None /\ u.record.id = line.id THEN u.record.n ELSE 0
Compacted(u, messages, line, model) ==
    Placed([u EXCEPT !.record = None], messages, Owed(u, line), model)

----------------------------------------------------------------------------
(* The parser.                                                             *)

NewParser(line) ==
    [messages |-> <<>>, current |-> 0, latest |-> 0, tools |-> <<>>, reads |-> <<>>,
     completed |-> {}, plan |-> 0, model |-> None, usage |-> NewUsage(line.type = "meta" /\ line.forked),
     count |-> 0]

Message(role, part, time, model) ==
    [role |-> role, parts |-> <<part>>, tokens |-> 0, tool |-> FALSE, time |-> time,
     model |-> model, sub |-> None]
Plan(status) == [kind |-> "plan", status |-> status]
WithPart(message, part, model) ==
    Modelled([message EXCEPT !.parts = Append(@, part)], model)

(* assistant_part *)
AssistantPart(p, part, line) ==
    LET fits == /\ p.current # 0 /\ ~p.messages[p.current].tool
                /\ part.kind = "text" \/ p.latest # p.current
    IN  IF fits THEN [p EXCEPT !.messages[p.current] = WithPart(@, part, p.model)]
        ELSE [p EXCEPT !.messages = Append(@, Message("assistant", part, line.uuid, p.model)),
                       !.current = Len(p.messages) + 1]

(* tool_part, register: a tool stays with the latest text.                 *)
Called(p, call, at) ==
    Register([p EXCEPT !.messages[at].tool = TRUE, !.current = at],
             call, <<at, Len(p.messages[at].parts)>>)
ToolIn(p, call, line, target) ==
    IF target # 0
    THEN Called([p EXCEPT !.messages[target] = WithPart(@, Tool(call), p.model)], call, target)
    ELSE Called([p EXCEPT !.messages = Append(@, Message("assistant", Tool(call), line.uuid, p.model))],
                call, Len(p.messages) + 1)
ToolPart(p, call, line) == ToolIn(p, call, line, IF p.latest # 0 THEN p.latest ELSE p.current)

(* An exec script runs several calls: the last gets the script's id, for   *)
(* its output is the script's; the others end with it.                     *)
Inner(call, i) == <<call, i>>
Noted(p, line) ==
    IF line.reads THEN [p EXCEPT !.reads = Append(@, p.tools[Inner(line.call, 0)])] ELSE p
FunctionCall(p, line) ==
    LET ids == [i \in 1 .. line.inner |-> Inner(line.call, IF i = line.inner THEN 0 ELSE i)]
    IN  Noted(FoldLeft(LAMBDA q, id : ToolPart(q, id, line), [p EXCEPT !.plan = 0], ids), line)

(* settle_exec_calls *)
SettleInner(p, call, status) ==
    LET inner == {id \in DOMAIN p.tools : id[1] = call /\ id[2] # 0 /\ Pending(p, id)}
    IN  FoldSet(LAMBDA id, q : Settle(q, id, IF status = "completed" THEN status ELSE "unknown",
                                      None), p, inner)
Output(p, line) ==
    LET id == Inner(line.call, 0)
    IN  IF ~Pending(p, id) THEN p
        ELSE LET settled == Settle(p, id, line.status, line.uuid)
             IN  IF line.status = "running" THEN settled
                 ELSE SettleInner(settled, line.call, line.status)

(* ToolEvents::complete: an item completed once settles the first waiting  *)
(* call that matches, and is a part of its own when there is none.         *)
Complete(p, line) ==
    IF line.item \in p.completed THEN p
    ELSE LET done == [p EXCEPT !.completed = @ \cup {line.item}]
             part == [Tool(<<line.item, 0>>) EXCEPT !.status = "completed", !.result = line.uuid]
         IN  IF p.reads = <<>> THEN AssistantPart(done, part, line)
             ELSE [done EXCEPT !.reads = Tail(@),
                               !.messages[p.reads[1][1]].parts[p.reads[1][2]] =
                                   [@ EXCEPT !.status = "completed", !.result = line.uuid]]

(* attach_plan: a plan waits, with its own time, for what the user says.   *)
AttachPlan(p, status) ==
    IF p.current # 0 THEN [p EXCEPT !.messages[p.current].parts = Append(@, Plan(status))]
    ELSE [p EXCEPT !.messages = Append(@, Message("assistant", Plan(status), p.plan, p.model))]

UserText(p, line) ==
    LET planned == IF p.plan = 0 THEN p
                   ELSE AttachPlan(p, IF line.implements THEN "success" ELSE "pending")
    IN  [planned EXCEPT !.messages = Append(@, Message("user", Text(line.text), line.uuid, None)),
                        !.plan = 0, !.current = 0, !.latest = 0]
AssistantText(p, line) ==
    LET put == AssistantPart([p EXCEPT !.plan = IF line.plan THEN line.uuid ELSE @],
                             Text(line.text), line)
    IN  [put EXCEPT !.latest = put.current]
(* A subagent's notification is shown as what it said.                     *)
Notification(p, line) ==
    LET said == [Message("assistant", Text("C"), line.uuid, None) EXCEPT !.sub = "C"]
    IN  [p EXCEPT !.messages = Append(@, said), !.current = 0, !.latest = 0]
ReasoningText(p, line) ==
    [AssistantPart([p EXCEPT !.plan = 0], Reasoning(line.text), line) EXCEPT !.latest = 0]

NamesModel(p, line) == [p EXCEPT !.model = IF line.model # None THEN line.model ELSE @]
WithUsage(p, pair) == [p EXCEPT !.usage = pair[1], !.messages = pair[2]]

(* Parser::feed.  A line that is no record is skipped.                     *)
Feed(p, line) ==
    IF line = Torn THEN p
    ELSE CASE line.type = "meta" -> NamesModel(p, line)
           [] line.type = "turn" -> [NamesModel(p, line) EXCEPT !.usage = Turn(@, line)]
           [] line.type = "count" -> WithUsage(p, Consume(p.usage, p.messages, line, p.model))
           [] line.type = "record" -> [p EXCEPT !.usage = Record(@, line)]
           [] line.type = "compacted" -> WithUsage(p, Compacted(p.usage, p.messages, line, p.model))
           [] line.type = "user" -> UserText([p EXCEPT !.count = @ + 1], line)
           [] line.type = "assistant" -> AssistantText([p EXCEPT !.count = @ + 1], line)
           [] line.type = "notice" -> Notification([p EXCEPT !.count = @ + 1], line)
           [] line.type = "reasoning" -> ReasoningText(p, line)
           [] line.type = "call" -> FunctionCall([p EXCEPT !.count = @ + 1], line)
           [] line.type = "output" -> Output([p EXCEPT !.count = @ + 1], line)
           [] line.type = "item" -> Complete(p, line)
FeedAll(p, lines) == FoldLeft(Feed, p, lines)
FeedPartial(p, partial) == IF partial = None THEN p ELSE Feed(p, partial)

(* Parser::finish *)
Finish(p, path) ==
    LET planned == IF p.plan # 0 THEN AttachPlan(p, "pending") ELSE p
    IN  [messages |-> planned.messages, total |-> p.usage.total, count |-> p.count,
         parent |-> IF path = "C" THEN "P" ELSE None]

(* parse: None when the first line is no record.                           *)
Parsed(lines, path) ==
    IF lines = <<>> THEN None
    ELSE IF lines[1] = Torn THEN None
    ELSE Finish(FeedAll(NewParser(lines[1]), lines), path)
LinesOf(f) == IF f.partial = None THEN f.lines ELSE Append(f.lines, f.partial)
ParseFile(path) == Parsed(LinesOf(file[path]), path)

----------------------------------------------------------------------------
(* Scanning.                                                               *)

(* Checkpoints::parse; a compressed rollout is read in full.               *)
Started(resumed, f) == IF resumed.parser # None THEN resumed.parser ELSE NewParser(f.lines[1])
ReadOn(resumed, f) ==
    FeedAll(Started(resumed, f), SubSeq(f.lines, resumed.offset + 1, Len(f.lines)))
Ended(kept, path, f, context, parser) ==
    [session |-> Finish(FeedPartial(parser, f.partial), path),
     kept |-> Remember(kept, Limit, path, f, context, parser)]
ContextOf(f) == [physical |-> f.physical, generation |-> generation]
Checkpointed(kept, path, f) ==
    IF f.physical = "zst" \/ path \notin recent \/ f.lines = <<>>
    THEN [session |-> ParseFile(path), kept |-> Without(kept, path)]
    ELSE Ended(Without(kept, path), path, f, ContextOf(f),
               ReadOn(ResumeOf(kept, path, f, ContextOf(f), None), f))

(* child_summary: the child's usage and its final answer, or without one   *)
(* the last thing it said.                                                 *)
LastSaid(lines) ==
    LET said == {i \in DOMAIN lines : lines[i] # Torn /\ lines[i].type = "assistant"}
        final == {i \in said : lines[i].final}
    IN  IF said = {} THEN None ELSE lines[Max(IF final # {} THEN final ELSE said)].uuid
Summary(lines) ==
    [total |-> FeedAll(NewParser(lines[1]), lines).usage.total, message |-> LastSaid(lines)]
SummaryOf(path) == Summary(LinesOf(file[path]))

(* cached_child_summary: by file, size and time of the last write.         *)
StampOf(path) ==
    [physical |-> file[path].physical, modified |-> file[path].modified, generation |-> generation]
(* Mutant of CachedSummary: what was cached once is used.                  *)
CachedOnce(cache, path) ==
    IF path \in DOMAIN cache THEN cache[path].summary ELSE SummaryOf(path)
CachedSummary(cache, path) ==
    IF path \in DOMAIN cache /\ cache[path].stamp = StampOf(path) THEN cache[path].summary
    ELSE SummaryOf(path)

(* merge_children: a parent counts its subagents and shows their answers,  *)
(* unless it was notified of them.                                         *)
Answer(summary) ==
    [Message("assistant", Text("C"), summary.message, None) EXCEPT !.sub = "C"]
Shows(session, total, messages) ==
    [session EXCEPT !.total = @ + total, !.messages = messages, !.count = Len(messages)]
Exists(session) == \E i \in DOMAIN session.messages : session.messages[i].sub = "C"
Merged(session, summary) ==
    Shows(session, summary.total,
          SortSeq(IF summary.message = None \/ Exists(session) THEN session.messages
                  ELSE Append(session.messages, Answer(summary)),
                  LAMBDA a, b : a.time < b.time))
Completed(session) ==
    IF session = None THEN None ELSE [session EXCEPT !.messages = SettleInterrupted(@)]

(* scan: everything from the start.                                        *)
HasChild == file["C"] # None /\ ParseFile("C") # None
Family(own, path, child, summary) ==
    Completed(IF own # None /\ path = "P" /\ child THEN Merged(own, summary) ELSE own)
ScanAll == [s \in Paths |-> IF file[s] = None THEN None 
                   ELSE Family(ParseFile(s), s, HasChild, SummaryOf("C"))]

(* scan_changed: the changed rollouts and the parents of those known or    *)
(* found.  A known rollout that yields no session fails the scan.          *)
Affected(changed) ==
    changed \cup (IF "C" \in changed /\ (known["C"] # None \/ file["C"] # None) THEN {"P"} ELSE {})
Taken(a, path, r) == [kept |-> r.kept, found |-> Extend(a.found, path, r.session)]
ReadAffected ==
    FoldLeft(LAMBDA a, path : Taken(a, path, Checkpointed(a.kept, path, file[path])),
             [kept |-> checkpoints, found |-> <<>>],
             SelectSeq(<<"C", "P">>, LAMBDA s : s \in Affected(dirty) /\ file[s] # None))
Found(read, path) == IF path \in DOMAIN read.found THEN read.found[path] ELSE None
Incomplete(read) == \E s \in DOMAIN read.found : read.found[s] = None /\ known[s] # None
ChildKnown(read) == IF "C" \in Affected(dirty) THEN Found(read, "C") # None ELSE known["C"] # None
Replace(read, child, summary) ==
    /\ known' = [s \in Paths |-> IF s \notin Affected(dirty) THEN known[s]
                                ELSE Family(Found(read, s), s, child, summary)]
    /\ summaries' = IF child /\ "P" \in Affected(dirty)
                    THEN ("C" :> [stamp |-> StampOf("C"), summary |-> summary])
                    ELSE IF child \/ known["C"] # None THEN summaries ELSE <<>>
    /\ dirty' = {}
ScanChanged ==
    /\ dirty # {}
    /\ \E read \in {ReadAffected} :
          /\ checkpoints' = read.kept
          /\ IF Incomplete(read) THEN UNCHANGED <<known, dirty, summaries>>
             ELSE Replace(read, ChildKnown(read), CachedSummary(summaries, "C"))
    /\ UNCHANGED <<file, recent, generation, edits>>

ReleaseIdle ==
    /\ checkpoints' = SelectSeq(checkpoints, LAMBDA c :
                          /\ c.path \in recent /\ file[c.path] # None
                          /\ file[c.path].physical = c.context.physical)
    /\ UNCHANGED <<file, recent, dirty, summaries, generation, known, edits>>

----------------------------------------------------------------------------
(* Codex writes.                                                           *)

Write(path, f) ==
    /\ edits < bound.edits /\ edits' = edits + 1
    /\ file' = [file EXCEPT ![path] = IF f = None THEN None
                                      ELSE [f EXCEPT !.modified = edits + 1]]
    /\ dirty' = dirty \cup {path}
    /\ recent' = recent \cup {path}
    /\ UNCHANGED <<checkpoints, summaries, generation, known>>

(* The counters Codex keeps: its cumulative count, whether it still copies *)
(* the parent's history, and a response not yet in the count.              *)
Counts(lines) == SelectSeq(lines, LAMBDA l : l.type = "count")
LastTotal(lines) == IF Counts(lines) = <<>> THEN 0 ELSE Last(Counts(lines)).total
Copies(lines) == lines[1].forked /\ \A i \in DOMAIN lines : lines[i].type = "turn" => ~lines[i].own
Unreported(lines) ==
    LET at == {i \in DOMAIN lines : lines[i].type = "record" /\ ~Copies(SubSeq(lines, 1, i))}
    IN  IF at = {} THEN None
        ELSE IF \E i \in DOMAIN lines :
                    /\ i > Max(at)
                    /\ lines[i].type = "compacted" \/ (lines[i].type = "count" /\ lines[i].n > 0)
             THEN None ELSE lines[Max(at)]
Line(lines, shape) ==
    LET total == LastTotal(lines) + shape.n
        base == shape @@ [uuid |-> edits + 1]
    IN  CASE shape.type = "count" ->
               [last |-> IF shape.n # 0 THEN shape.last
                         ELSE IF Counts(lines) = <<>> THEN 0 ELSE Last(Counts(lines)).last]
               @@ base @@ [total |-> total, cost |-> IF Copies(lines) THEN 0 ELSE shape.n]
          [] shape.type = "compacted" ->
               base @@ [cost |-> IF ~Copies(lines) /\ Unreported(lines) # None
                                    /\ Unreported(lines).id = shape.id
                                 THEN Unreported(lines).n ELSE 0]
          [] OTHER -> base @@ [cost |-> 0]

IsPlain(path) == file[path] # None /\ file[path].physical = "plain"
Create(path) ==
    /\ file[path] = None /\ bound[path] # {}
    /\ \E partial \in {FALSE, bound.scans} :
          LET meta == [type |-> "meta", forked |-> bound.forked, model |-> None,
                       uuid |-> edits + 1, cost |-> 0]
          IN  Write(path, [physical |-> "plain", modified |-> 0,
                             lines |-> IF partial THEN <<>> ELSE <<meta>>,
                             partial |-> IF partial THEN Torn ELSE None])
WriteLine(path, shape) ==
    /\ IsPlain(path) /\ file[path].partial = None /\ Len(file[path].lines) < MaxLines
    /\ shape.type = "call" => \A i \in DOMAIN file[path].lines :
           file[path].lines[i].type = "call" => file[path].lines[i].call # shape.call
    /\ Write(path, [file[path] EXCEPT !.lines = Append(@, Line(@, shape))])
WritePartial(path, shape) ==
    /\ IsPlain(path) /\ file[path].partial = None /\ Len(file[path].lines) < MaxLines
    /\ \E partial \in {Torn, Line(file[path].lines, shape)} :
          Write(path, [file[path] EXCEPT !.partial = partial])
FinishLine(path, shape) ==
    /\ IsPlain(path) /\ file[path].partial # None
    /\ Write(path, [file[path] EXCEPT
           !.partial = None,
           !.lines = Append(@, IF file[path].partial # Torn THEN file[path].partial
                               ELSE IF @ = <<>>
                               THEN [type |-> "meta", forked |-> bound.forked, model |-> None,
                                     uuid |-> edits + 1, cost |-> 0]
                               ELSE Line(@, shape))])
Rewind(path) ==
    /\ IsPlain(path) /\ Len(file[path].lines) > 1
    /\ Write(path, [file[path] EXCEPT !.lines = Front(@), !.partial = None])

(* A rollout that rests is compressed, and unpacked to go on.              *)
Repack(path) ==
    /\ file[path] # None /\ file[path].partial = None
    /\ Write(path, [file[path] EXCEPT !.physical = IF @ = "plain" THEN "zst" ELSE "plain"])
DeleteChild == file["C"] # None /\ Write("C", None)

Age(path) ==
    /\ path \in recent /\ recent' = recent \ {path}
    /\ UNCHANGED <<file, dirty, checkpoints, summaries, generation, known, edits>>
Reprice ==
    /\ generation < bound.prices /\ generation' = generation + 1
    /\ UNCHANGED <<file, recent, dirty, checkpoints, summaries, known, edits>>

CodexInit ==
    /\ file = [s \in Paths |-> None] /\ recent = {} /\ dirty = {}
    /\ checkpoints = <<>> /\ summaries = <<>> /\ generation = 0
    /\ known = [s \in Paths |-> None] /\ bound \in Bounds /\ edits = 0

CodexNext ==
    /\ UNCHANGED bound
    /\ \/ \E path \in Paths : \/ Create(path)
                               \/ \E shape \in bound[path] : WriteLine(path, shape)
       \/ /\ bound.scans
          /\ \/ \E path \in Paths : \/ Rewind(path) \/ Repack(path) \/ Age(path)
                                     \/ \E shape \in bound[path] :
                                           WritePartial(path, shape) \/ FinishLine(path, shape)
             \/ DeleteChild \/ Reprice \/ ScanChanged \/ ReleaseIdle
CodexSpec == CodexInit /\ [][CodexNext]_codexVars

----------------------------------------------------------------------------

(* Whatever was resumed or taken from a cache: once every reported change  *)
(* was scanned, the sessions are those a scan from the start would give    *)
(* (checkpoints.rs:33, codex.rs:269).                                      *)
RolloutScanIsExact == dirty = {} => known = ScanAll

(* Every token spent is counted once: not again when the same count is     *)
(* reported twice, when a fork replays its parent, or when a compaction    *)
(* was already part of the count (usage.rs:62).                            *)
Spent(f) == MapThenSumSet(LAMBDA i : f.lines[i].cost, DOMAIN f.lines)
CountedOnce ==
    \A s \in Paths : file[s] # None =>
        (file[s].partial = None => ParseFile(s).total = Spent(file[s]))

(* The messages show every token counted since the first answer, as long   *)
(* as the model stays the same; of what is counted after it changed, they  *)
(* show no more than that, and none of what was counted before the answer  *)
(* (usage.rs:179).                                                         *)
Shown(session) ==
    MapThenSumSet(LAMBDA i : session.messages[i].tokens, DOMAIN session.messages)
Answers(lines) ==
    {i \in DOMAIN lines :
        lines[i].type \in {"assistant", "notice", "reasoning", "call", "item"}}
ModelBefore(lines, i) ==
    LET turns == {j \in DOMAIN lines : j < i /\ lines[j].type = "turn"}
    IN  IF turns = {} THEN None ELSE lines[Max(turns)].model
Switches(lines) ==
    {i \in DOMAIN lines : lines[i].type = "turn" /\ lines[i].model # ModelBefore(lines, i)
                          /\ \E j \in Answers(lines) : j < i}
Cost(lines, some) == MapThenSumSet(LAMBDA i : lines[i].cost, some)
TokensShown ==
    \A s \in Paths : file[s] # None => (file[s].partial = None =>
        LET lines == file[s].lines
            session == ParseFile(s)
            before == {i \in DOMAIN lines : \A j \in Answers(lines) : i < j}
            after == {i \in DOMAIN lines : \E j \in Switches(lines) : j < i}
        IN  Answers(lines) # {} =>
                session.total - Shown(session)
                    \in Cost(lines, before) .. Cost(lines, before) + Cost(lines, after))
=============================================================================
