-------------------------- MODULE ClaudeTranscript --------------------------
(***************************************************************************)
(* agents/claudecode: a session's transcript P and the transcript C of one *)
(* subagent of it, both being written while CodeSesh scans what changed.   *)
(* Feed is the parser line by line; Checkpointed resumes it; ScanChanged   *)
(* picks the files a change touches.                                       *)
(*                                                                         *)
(* A record's text is cleaned and compared as a value; tokens of the       *)
(* usage are one number; timestamps, models and directories are left out,  *)
(* and so are workflow agents and transcripts below 1 MiB, which are       *)
(* always read in full.                                                    *)
(***************************************************************************)
EXTENDS Transcript

CONSTANTS
    Links,      \* calls the subagent's metadata may name
    Limit,      \* CHECKPOINT_LIMIT
    MaxLines,
    Bounds      \* bounds to choose from: each [P, C, edits, prices], P and C the
                \* shapes of the lines written to either transcript

VARIABLES
    file,        \* P and C: None or [lines, partial]
    meta,        \* C's metadata: None or the call that started it
    recent,      \* files written within the last ten minutes
    dirty,       \* paths reported changed and not scanned yet
    checkpoints, \* Checkpoints
    generation,  \* of the pricing tables
    known,       \* the sessions scanned last
    bound, edits

claudeVars == <<file, meta, recent, dirty, checkpoints, generation, known,
                bound, edits>>
Paths == {"P", "C"}

----------------------------------------------------------------------------
(* The parser.                                                             *)

NewParser ==
    [count |-> 0, invalid |-> FALSE, messages |-> <<>>, current |-> 0, latest |-> 0,
     tools |-> <<>>, uuidTools |-> <<>>, requests |-> <<>>, usage |-> <<>>,
     visible |-> 0, custom |-> None, prompt |-> None]

NewMessage(role, parts) ==
    [role |-> role, parts |-> parts, tokens |-> None, price |-> None, subagent |-> None]
Begin(p) == [p EXCEPT !.current = 0, !.latest = 0]
Push(p, message) == [p EXCEPT !.messages = Append(@, message)]

(* Transcript::assistant: the message a part belongs to.  A tool goes to   *)
(* the latest text; anything else opens a message once a tool is there.    *)
TargetOf(p, part) ==
    IF part.kind = "tool" THEN IF p.latest # 0 THEN p.latest ELSE p.current
    ELSE IF /\ p.current # 0
            /\ ~HasPart(p.messages[p.current], "tool")
            /\ part.kind = "text" \/ ~HasPart(p.messages[p.current], "text")
         THEN p.current ELSE 0

(* A text or a thought said twice in a row is kept once.                   *)
Put(p, part, at) ==
    IF /\ part.kind # "tool" /\ p.messages[at].parts # <<>>
       /\ Last(p.messages[at].parts) = part
    THEN p ELSE [p EXCEPT !.messages[at].parts = Append(@, part)]
Linked(p, part, at, children) ==
    IF part.kind = "tool" /\ part.call \in DOMAIN children
    THEN [p EXCEPT !.messages[at].subagent = children[part.call]] ELSE p
Called(p, part, at) ==
    IF part.kind = "tool" /\ part.call # ""
    THEN Register(p, part.call, <<at, Len(p.messages[at].parts)>>) ELSE p
PlaceIn(p, part, at, children) ==
    [Called(Linked(Put(p, part, at), part, at, children), part, at) EXCEPT
        !.current = at, !.latest = IF part.kind = "text" THEN at ELSE @]
PlaceAt(p, part, target, children) ==
    IF target # 0 THEN PlaceIn(p, part, target, children)
    ELSE PlaceIn(Push(p, NewMessage("assistant", <<>>)), part, Len(p.messages) + 1, children)
Place(p, part, children) == PlaceAt(p, part, TargetOf(p, part), children)

(* Usage belongs to the message of the request's first part; a request     *)
(* split over several lines repeats it.                                    *)
RequestOf(line) == IF line.request # "" THEN line.request ELSE line.uuid
StartsRequest(p, line) == line.usage # 0 /\ RequestOf(line) \notin DOMAIN p.requests

CallsOf(line) ==
    SelectSeq([i \in DOMAIN line.parts |-> IF line.parts[i].kind = "tool"
                                           THEN line.parts[i].call ELSE ""],
              LAMBDA call : call # "")

Named(p, line) ==
    IF CallsOf(line) = <<>> THEN p
    ELSE [p EXCEPT !.uuidTools = Extend(@, line.uuid, CallsOf(line))]
(* The message that has the request's usage; an empty line opens one.      *)
FirstOf(p, line, children) ==
    IF RequestOf(line) \in DOMAIN p.requests THEN p.requests[RequestOf(line)]
    ELSE IF line.parts = <<>> THEN Len(p.messages) + 1
    ELSE Place(p, line.parts[1], children).current
Owned(p, line) ==
    IF RequestOf(line) \in DOMAIN p.requests \/ line.parts # <<>> THEN p
    ELSE [Push(p, NewMessage("assistant", <<>>)) EXCEPT !.current = Len(p.messages) + 1]
Used(p, line, first, prices) ==
    IF line.usage = 0 THEN p
    ELSE [Owned(p, line) EXCEPT !.requests = Extend(@, RequestOf(line), first),
                                !.messages[first].tokens = line.usage,
                                !.messages[first].price = prices]
Answered(p, line, children, prices) ==
    Used(Named(FoldLeft(LAMBDA q, part : Place(q, part, children), p, line.parts), line),
         line, FirstOf(p, line, children), prices)
Assistant(p, line, children, prices) ==
    Answered(IF StartsRequest(p, line) THEN Begin(p) ELSE p, line, children, prices)

(* A result names its call, or the line that made the only call.           *)
Resolved(p, result, source) ==
    IF result.call # "" THEN result.call
    ELSE IF source \in DOMAIN p.uuidTools /\ Len(p.uuidTools[source]) = 1
         THEN p.uuidTools[source][1] ELSE ""

Settled(p, call, error, line) ==
    IF call \notin DOMAIN p.tools THEN Push(p, NewMessage("tool", <<Text(line.uuid)>>))
    ELSE IF Pending(p, call)
         THEN Settle(p, call, IF error THEN "error" ELSE "completed", line.uuid)
         ELSE p
Backfill(p, result, line) == Settled(p, Resolved(p, result, line.source), result.error, line)

Said(p, line) == IF line.text = "" THEN p ELSE Push(p, NewMessage("user", <<Text(line.text)>>))
User(p, line) ==
    Begin(Said(FoldLeft(LAMBDA q, result : Backfill(q, result, line), p, line.results), line))

(* Transcript::convert *)
Convert(p, line, children, prices) ==
    CASE line.type = "assistant" -> Assistant(p, line, children, prices)
      [] line.type = "user" -> User(p, line)
      [] line.type = "tool_result" -> Begin(Push(p, NewMessage("tool", <<Text(line.uuid)>>)))

(* What the list of sessions shows is counted beside the messages.         *)
Counted(p, line) ==
    [p EXCEPT !.visible = @ + IF line.type = "assistant" \/ (line.type = "user" /\ line.text # "")
                              THEN 1 ELSE 0,
              !.prompt = IF @ = None /\ p.count <= 20 /\ line.type = "user" /\ line.text # ""
                         THEN line.text ELSE @,
              !.usage = IF line.type = "assistant" /\ line.usage # 0
                        THEN Extend(@, RequestOf(line), line.usage) ELSE @]

(* Parser::feed.  A malformed line is skipped, unless it is the first.     *)
Feed(p, line, children, prices) ==
    LET next == [p EXCEPT !.count = @ + 1]
    IN  IF line = Torn \/ line.type = "malformed"
        THEN [next EXCEPT !.invalid = @ \/ p.count = 0]
        ELSE IF line.type = "internal" THEN next
        ELSE IF line.type = "title" THEN [next EXCEPT !.custom = line.text]
        ELSE Convert(Counted(next, line), line, children, prices)

FeedAll(p, lines, children, prices) ==
    FoldLeft(LAMBDA q, line : Feed(q, line, children, prices), p, lines)
FeedPartial(p, partial, children, prices) ==
    IF partial = None THEN p ELSE Feed(p, partial, children, prices)

(* Parser::finish with complete_projections: None for nothing visible.     *)
Total(p) == MapThenSumSet(LAMBDA key : p.usage[key], DOMAIN p.usage)
Finish(p) ==
    IF p.visible = 0 THEN None
    ELSE [messages |-> SettleInterrupted(SelectSeq(p.messages,
                           LAMBDA m : m.parts # <<>> \/ m.tokens # None)),
          total |-> Total(p),
          title |-> IF p.custom # None THEN p.custom ELSE p.prompt]

(* parse: the whole file from its first line.                              *)
ParserOf(f, children, prices) ==
    FeedPartial(FeedAll(NewParser, f.lines, children, prices), f.partial, children, prices)
Rejected(p) == p.count = 0 \/ p.invalid
Parsed(p) == IF Rejected(p) THEN None ELSE Finish(p)
ParseFile(f, children, prices) == Parsed(ParserOf(f, children, prices))

----------------------------------------------------------------------------
(* Scanning.                                                               *)

(* child: links come from the metadata beside an existing transcript.      *)
Children == IF file["C"] = None \/ meta = None THEN <<>> ELSE (meta :> "C")

(* Checkpoints::parse.  It reads on from the checkpoint and keeps the      *)
(* parser as of the last whole line.                                       *)
Outcome(p, remembered, forgotten) ==
    [failed |-> Rejected(p), session |-> Finish(p),
     kept |-> IF p.invalid THEN forgotten ELSE remembered]
Context == [generation |-> generation, children |-> Children]
ReadOn(resumed, f) ==
    FeedAll(resumed.parser, SubSeq(f.lines, resumed.offset + 1, Len(f.lines)), Children, generation)
Ended(kept, path, f, parser) ==
    Outcome(FeedPartial(parser, f.partial, Children, generation),
            Remember(kept, Limit, path, f, Context, parser), kept)
Checkpointed(kept, path, f) ==
    IF path \notin recent
    THEN Outcome(ParserOf(f, Children, generation), Without(kept, path), Without(kept, path))
    ELSE Ended(Without(kept, path), path, f,
               ReadOn(ResumeOf(kept, path, f, Context, NewParser), f))

(* scan_changed_as: metadata stands for its transcript, and a subagent     *)
(* takes its parent along.                                                 *)
Sources(changed) ==
    (IF changed = {} THEN {} ELSE {"P"}) \cup (IF changed \ {"P"} # {} THEN {"C"} ELSE {})

(* The sources in the order of their paths.                                *)
Taken(a, path, r) ==
    [failed |-> r.failed, kept |-> r.kept, found |-> Extend(a.found, path, r.session)]
ScannedAll ==
    FoldLeft(LAMBDA a, path : IF a.failed THEN a
                              ELSE Taken(a, path, Checkpointed(a.kept, path, file[path])),
             [failed |-> FALSE, kept |-> checkpoints, found |-> <<>>],
             SelectSeq(<<"C", "P">>, LAMBDA s : s \in Sources(dirty) /\ file[s] # None))
ScanChanged ==
    /\ dirty # {}
    /\ \E scanned \in {ScannedAll} :
          /\ checkpoints' = scanned.kept
          /\ IF scanned.failed THEN UNCHANGED <<known, dirty>>
             ELSE /\ known' = [s \in Paths |->
                        IF s \notin Sources(dirty) THEN known[s]
                        ELSE IF s \in DOMAIN scanned.found THEN scanned.found[s] ELSE None]
                  /\ dirty' = {}
    /\ UNCHANGED <<file, meta, recent, generation, edits>>

(* scan_as: what a scan of everything would find.                          *)
ScanAs ==
    [s \in Paths |-> IF file[s] = None THEN None ELSE ParseFile(file[s], Children, generation)]

ReleaseIdle ==
    /\ checkpoints' = SelectSeq(checkpoints, LAMBDA c : c.path \in recent /\ file[c.path] # None)
    /\ UNCHANGED <<file, meta, recent, dirty, generation, known, edits>>

----------------------------------------------------------------------------
(* Claude writes.                                                          *)

Written(path, f) ==
    /\ edits < bound.edits /\ edits' = edits + 1
    /\ file' = [file EXCEPT ![path] = f]
    /\ dirty' = dirty \cup {path}
    /\ recent' = recent \cup {path}
    /\ UNCHANGED <<meta, checkpoints, generation, known>>

Current(path) == IF file[path] = None THEN NoFile ELSE file[path]
Line(path, shape) ==
    LET lines == Current(path).lines
    IN  shape @@ [uuid |-> ToString(edits + 1), source |-> IF lines = <<>> THEN None ELSE Last(lines).uuid]

WriteLine(path, shape) ==
    /\ Current(path).partial = None /\ Len(Current(path).lines) < MaxLines
    /\ Written(path, [Current(path) EXCEPT !.lines = Append(@, Line(path, shape))])
WritePartial(path, shape) ==
    /\ Current(path).partial = None /\ Len(Current(path).lines) < MaxLines
    /\ \E partial \in {Torn, Line(path, shape)} :
          Written(path, [Current(path) EXCEPT !.partial = partial])
FinishLine(path, shape) ==
    /\ file[path] # None /\ file[path].partial # None
    /\ Written(path, [lines |-> Append(file[path].lines,
                                       IF file[path].partial = Torn THEN Line(path, shape)
                                       ELSE file[path].partial),
                      partial |-> None])
(* The session goes back to an earlier point and continues from there.     *)
Rewind(path) ==
    /\ file[path] # None /\ Len(file[path].lines) > 1
    /\ Written(path, [lines |-> Front(file[path].lines), partial |-> None])
RemoveSubagent == file["C"] # None /\ Written("C", None)

WriteMeta ==
    /\ edits < bound.edits /\ edits' = edits + 1
    /\ bound.C # {}
    /\ \E link \in Links \cup {None} : link # meta /\ meta' = link
    /\ dirty' = dirty \cup {"M"}
    /\ UNCHANGED <<file, recent, checkpoints, generation, known>>

(* Ten minutes without a write.                                            *)
Age(path) ==
    /\ path \in recent /\ recent' = recent \ {path}
    /\ UNCHANGED <<file, meta, dirty, checkpoints, generation, known, edits>>

(* New prices: what is stored is repriced elsewhere.                       *)
Repriced(session, prices) ==
    IF session = None THEN None
    ELSE [session EXCEPT !.messages = [i \in DOMAIN @ |->
              IF @[i].price = None THEN @[i] ELSE [@[i] EXCEPT !.price = prices]]]
Reprice ==
    /\ generation < bound.prices /\ generation' = generation + 1
    /\ known' = [s \in Paths |-> Repriced(known[s], generation + 1)]
    /\ UNCHANGED <<file, meta, recent, dirty, checkpoints, edits>>

ClaudeInit ==
    /\ file = [s \in Paths |-> None] /\ meta = None
    /\ recent = {} /\ dirty = {} /\ checkpoints = <<>>
    /\ generation = 0 /\ known = [s \in Paths |-> None]
    /\ bound \in Bounds /\ edits = 0

ClaudeNext ==
    /\ UNCHANGED bound
    /\ \/ \E path \in Paths : \E shape \in bound[path] :
          WriteLine(path, shape) \/ WritePartial(path, shape) \/ FinishLine(path, shape)
       \/ \E path \in Paths : Rewind(path) \/ Age(path)
       \/ RemoveSubagent \/ WriteMeta \/ Reprice \/ ScanChanged \/ ReleaseIdle
ClaudeSpec == ClaudeInit /\ [][ClaudeNext]_claudeVars

----------------------------------------------------------------------------

(* Resumed or not, and whatever was rewound, relinked or repriced since:   *)
(* once every reported change was scanned, the sessions are those a scan   *)
(* of everything would give (incremental.rs:28, claudecode.rs:81).         *)
ScanIsExact == dirty = {} => known = ScanAs

(* Every request's tokens are counted once, in the list as in the          *)
(* messages, although a request's lines repeat them (claudecode.rs:377).   *)
TokensOf(session) ==
    MapThenSumSet(LAMBDA i : IF session.messages[i].tokens = None THEN 0
                             ELSE session.messages[i].tokens, DOMAIN session.messages)
TotalsAgree == \A s \in Paths : known[s] # None => TokensOf(known[s]) = known[s].total

(* A result that settled a call stays: later lines, reused call ids and    *)
(* repeated results never change it (tool_calls.rs:23).                    *)
ResultsStay ==
    \A s \in Paths : file[s] # None =>
        \A n \in 0 .. Len(file[s].lines) :
            LET early == FeedAll(NewParser, SubSeq(file[s].lines, 1, n), <<>>, 0).messages
                late == FeedAll(NewParser, file[s].lines, <<>>, 0).messages
            IN  \A m \in DOMAIN early : \A i \in DOMAIN early[m].parts :
                    early[m].parts[i].kind = "tool" /\ early[m].parts[i].status # "running"
                    => late[m].parts[i] = early[m].parts[i]
=============================================================================
