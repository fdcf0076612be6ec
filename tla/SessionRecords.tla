--------------------------- MODULE SessionRecords ---------------------------
(***************************************************************************)
(* From the captured fragments of one record to the items to index: the    *)
(* record's summary, and the three providers' normalisation, which also    *)
(* registers tool calls so that the results of this program's own tools    *)
(* can be left out (session_stream.rs).                                    *)
(*                                                                         *)
(* A metadata value is one unit; a longer one is past the bound and is not *)
(* kept.  Of a timestamp only whether it can be parsed is modelled.  An    *)
(* operator named after the one that follows it is a faulty variant of it. *)
(***************************************************************************)
EXTENDS JsonCapture, Spools

CONSTANTS
    OwnTools,      \* SessionConfig.own_tool_names
    MaxMetadata,   \* metadata values a summary keeps (4096)
    Timestamps     \* the timestamps that can be parsed

ASSUME RecordsAssumption == MaxMetadata \in Nat

Blank == " "

OrElse(a, b) == IF a # None THEN a ELSE b
OrDefault(a) == IF a # None THEN a ELSE ""

(* The fragments of a record that are in a set, in their order. *)
Among(f, chosen) ==
    LET after[i \in 0..Len(f)] ==
            CASE i = 0 -> <<>>
              [] i > 0 /\ f[i] \in chosen -> Append(after[i - 1], f[i])
              [] OTHER -> after[i - 1]
    IN  after[Len(f)]

(***************************************************************************)
(* RecordSummary.  The first value within the bound of each path is kept,  *)
(* until MaxMetadata of them are; whatever else is left out is reported.   *)
(* The first pass over a file summarises the fragments with no visible key *)
(* in their path, the second pass all of them.                             *)
(***************************************************************************)
Metadata(f) == Among(f, {x \in Range(f) : MetadataPath(x.path)})

IsMetadata(x) == Last(x.path) \notin VisibleKeys
IsBounded(x) == IsMetadata(x) /\ Len(x.text) = 1
PathsBefore(f, i) == {f[j].path : j \in {k \in DOMAIN f : k < i /\ IsBounded(f[k])}}

FieldAt(f, path) ==
    LET hits == {i \in DOMAIN f : f[i].path = path /\ IsBounded(f[i])}
        first == CHOOSE i \in hits : \A j \in hits : i <= j
    IN  IF hits = {} \/ Cardinality(PathsBefore(f, first)) >= MaxMetadata THEN None
        ELSE f[first].text[1]

TruncatedMetadata(f) ==
    \/ \E i \in DOMAIN f : IsMetadata(f[i]) /\ ~IsBounded(f[i])
    \/ Cardinality(PathsBefore(f, Len(f) + 1)) > MaxMetadata

BlockTypes(f) ==
    FoldLeft(LAMBDA t, x : IF Last(x.path) = "type"
                           THEN InsertType(t, Front(x.path), x.text[1]) ELSE t, NewTypes, f)

EventId(provider, kind, f) ==
    OrElse(FieldAt(f, <<"uuid">>), OrElse(FieldAt(f, <<"id">>),
        CASE provider = "codex" /\ kind = "response_item" -> FieldAt(f, <<"payload", "id">>)
          [] provider = "copilot" -> FieldAt(f, <<"data", "eventId">>)
          [] OTHER -> None))

SessionId(provider, kind, f) ==
    OrElse(FieldAt(f, <<"session_id">>), OrElse(FieldAt(f, <<"sessionId">>),
        CASE provider = "codex" /\ kind = "session_meta" ->
                OrElse(FieldAt(f, <<"payload", "session_id">>), FieldAt(f, <<"payload", "id">>))
          [] provider = "copilot" /\ kind \in {"session.start", "session.resume"} ->
                FieldAt(f, <<"data", "sessionId">>)
          [] OTHER -> None))

OwnershipCwd(provider, kind, f) ==
    CASE provider = "codex" /\ kind \in {"session_meta", "turn_context"} ->
            FieldAt(f, <<"payload", "cwd">>)
      [] provider = "claude" -> FieldAt(f, <<"cwd">>)
      [] provider = "copilot" /\ kind \in {"session.start", "session.resume"} ->
            FieldAt(f, <<"data", "context", "cwd">>)
      [] OTHER -> None

Container(provider) ==
    CASE provider = "codex" -> "payload" [] provider = "claude" -> "message"
      [] provider = "copilot" -> "data"

CallId(provider, f) ==
    CASE provider = "codex" -> FieldAt(f, <<"payload", "call_id">>)
      [] provider = "claude" -> None
      [] provider = "copilot" ->
            OrElse(FieldAt(f, <<"data", "toolCallId">>), FieldAt(f, <<"data", "callId">>))

ToolName(provider, f) ==
    CASE provider = "codex" -> FieldAt(f, <<"payload", "name">>)
      [] provider = "claude" -> None
      [] provider = "copilot" ->
            OrElse(FieldAt(f, <<"data", "name">>), OrElse(FieldAt(f, <<"data", "toolName">>),
                   FieldAt(f, <<"data", "mcpToolName">>)))

Stamp(f) ==
    OrElse(FieldAt(f, <<"timestamp">>), OrElse(FieldAt(f, <<"created_at">>),
        OrElse(FieldAt(f, <<"createdAt">>), FieldAt(f, <<"time">>))))

Summary(provider, f) ==
    LET kind == FieldAt(f, <<"type">>) IN
    [kind |-> kind, types |-> BlockTypes(f),
     role |-> FieldAt(f, <<Container(provider), "role">>),
     channel |-> FieldAt(f, IF provider = "codex" THEN <<"payload", "channel">>
                                                  ELSE <<"channel">>),
     name |-> ToolName(provider, f), call |-> CallId(provider, f),
     toolUse |-> FieldAt(f, <<"tool_use_id">>),
     event |-> OrElse(EventId(provider, kind, f), CallId(provider, f)), stamp |-> Stamp(f),
     session |-> SessionId(provider, kind, f),
     cwd |-> OwnershipCwd(provider, kind, f)]

(***************************************************************************)
(* Items.  A path is the logical identity of the field an item belongs to; *)
(* the name of a tool has none.  Only messages and results are            *)
(* deduplicated, each in its own context.                                  *)
(***************************************************************************)
FieldKind(override, role, tool) ==
    CASE override # None -> override
      [] override = None /\ tool # None -> "tool_call"
      [] override = None /\ tool = None /\ role = "tool" -> "tool_result"
      [] OTHER -> "message"

Item(text, path, override, role, tool, context) ==
    [text |-> text, path |-> path, kind |-> FieldKind(override, role, tool),
     role |-> role, tool |-> tool, session |-> context.session, event |-> context.event]

IsBlank(text) == \A i \in DOMAIN text : text[i] = Blank

Deduplicated(item) == item.kind \in {"message", "tool_result"}
DedupKey(item) == <<item.kind, item.session, item.event, item.role, item.tool>>

(* emit_fragment of each of a sequence of fragments, and emit_text of a     *)
(* name.                                                                    *)
Emit(f, override, role, tool, context) ==
    LET chosen == Among(f, {x \in Range(f) : ~IsBlank(x.text)}) IN
    [i \in DOMAIN chosen |->
        Item(chosen[i].text, chosen[i].path, override, role, tool, context)]
EmitName(name, context) ==
    IF name = None THEN <<>> ELSE <<Item(<<name>>, <<>>, None, "tool", name, context)>>

Starts(x, keys) == IsPrefix(keys, KeysOf(x.path))

(***************************************************************************)
(* Tool calls.                                                             *)
(***************************************************************************)
RegisterCallUnmarked(ids, call, name) ==
    IF call = None THEN ids ELSE InsertId(ids, "tool_call", call, OrDefault(name))
RegisterCall(ids, call, name) ==
    IF call = None THEN ids
    ELSE LET called == InsertId(ids, "tool_call", call, OrDefault(name))
         IN  IF name \in OwnTools THEN InsertId(called, "own_call", call, name) ELSE called

OwnResult(ids, call) == call # None /\ HasId(ids, "own_call", call)
ResultTool(ids, call) == IF call = None THEN None ELSE IdValue(ids, "tool_call", call)

Outcome3(items, ids, diagnostics) ==
    [items |-> items, ids |-> ids, diagnostics |-> diagnostics]

(***************************************************************************)
(* normalize_codex.                                                        *)
(***************************************************************************)
CodexText(s, x) ==
    LET keys == KeysOf(x.path) IN
    \/ keys = <<"payload", "content">>
    \/ /\ Len(keys) >= 3 /\ Starts(x, <<"payload", "content">>) /\ Last(keys) = "text"
       /\ GetType(s.types, Front(x.path)) \in {"text", "input_text", "output_text"}

NormalizeCodex(s, f, ids, context) ==
    LET payload == FieldAt(f, <<"payload", "type">>)
        argument == {x \in Range(f) : \/ Starts(x, <<"payload", "arguments">>)
                                      \/ Starts(x, <<"payload", "input">>)}
        output == {x \in Range(f) : Starts(x, <<"payload", "output">>)}
        text == {x \in Range(f) : CodexText(s, x)}
    IN
    CASE s.kind \in {"session_meta", "turn_context", None} -> Outcome3(<<>>, ids, 0)
      [] s.kind = "response_item" /\ payload = "message" ->
            Outcome3(IF s.role \in {"user", "assistant"} /\ s.channel # "analysis"
                     THEN Emit(Among(f, text), None, s.role, None, context) ELSE <<>>,
                     ids, 0)
      [] s.kind = "response_item" /\ payload \in {"function_call", "custom_tool_call"} ->
            Outcome3(EmitName(s.name, context)
                     \o Emit(Among(f, argument), None, "tool", OrDefault(s.name), context),
                     RegisterCall(ids, s.call, s.name), 0)
      [] /\ s.kind = "response_item"
         /\ payload \in {"function_call_output", "custom_tool_call_output"} ->
            Outcome3(IF OwnResult(ids, s.call) THEN <<>>
                     ELSE Emit(Among(f, output), "tool_result", "tool",
                               ResultTool(ids, s.call), context),
                     ids, 0)
      [] OTHER -> Outcome3(<<>>, ids, 1)

(***************************************************************************)
(* normalize_claude.  A fragment is routed by the type of the innermost    *)
(* typed object around it, and a record has one call and one result: the   *)
(* first of each.                                                          *)
(***************************************************************************)
InnermostType(s, path) ==
    LET typed == {e \in 0..(Len(path) - 1) : GetType(s.types, SubSeq(path, 1, e)) # None}
    IN  IF typed = {} THEN None ELSE GetType(s.types, SubSeq(path, 1, Max(typed)))

BlockScalar(s, f, block, key) ==
    LET hits == SelectSeq(f, LAMBDA x : /\ Last(x.path) = key
                                        /\ GetType(s.types, Front(x.path)) = block)
    IN  IF hits = <<>> THEN None ELSE Head(hits).text[1]

ClaudeItems(s, f, ids, context, x) ==
    LET keys == KeysOf(x.path)
        block == IF Len(keys) >= 3 /\ Starts(x, <<"message", "content">>)
                 THEN InnermostType(s, x.path) ELSE None
        name == OrDefault(BlockScalar(s, f, "tool_use", "name"))
        result == OrElse(BlockScalar(s, f, "tool_result", "tool_use_id"), s.toolUse)
    IN
    CASE (keys = <<"message", "content">> /\ s.role # "tool") \/ block = "text" ->
            Emit(<<x>>, None, s.role, None, context)
      [] block = "tool_use" /\ \E i \in DOMAIN keys : keys[i] = "input" ->
            Emit(<<x>>, None, "tool", name, context)
      [] /\ block = "tool_result" /\ \E i \in DOMAIN keys : keys[i] = "content"
         /\ ~OwnResult(ids, result) ->
            Emit(<<x>>, "tool_result", "tool", ResultTool(ids, result), context)
      [] OTHER -> <<>>

NormalizeClaude(s, f, ids, context) ==
    LET called == HasType(s.types, "tool_use")
        name == BlockScalar(s, f, "tool_use", "name")
        id == BlockScalar(s, f, "tool_use", "id")
    IN
    CASE s.kind \in {"user", "assistant"} ->
            Outcome3(FlattenSeq([i \in DOMAIN f |-> ClaudeItems(s, f, ids, context, f[i])])
                     \o (IF called THEN EmitName(name, context) ELSE <<>>),
                     IF called THEN RegisterCall(ids, id, name) ELSE ids, 0)
      [] s.kind \in {"system", "summary", "progress", "file-history-snapshot", None} ->
            Outcome3(<<>>, ids, 0)
      [] OTHER -> Outcome3(<<>>, ids, 1)

(***************************************************************************)
(* normalize_copilot.                                                      *)
(***************************************************************************)
NormalizeCopilot(s, f, ids, context) ==
    LET content == {x \in Range(f) : Starts(x, <<"data", "content">>) \/ Starts(x, <<"content">>)}
        argument == {x \in Range(f) : \/ Starts(x, <<"data", "arguments">>)
                                      \/ Starts(x, <<"data", "input">>)}
        output == {x \in Range(f) : \/ Starts(x, <<"data", "result", "content">>)
                                    \/ Starts(x, <<"data", "result", "detailedContent">>)
                                    \/ Starts(x, <<"result", "content">>)}
    IN
    CASE s.kind \in {"session.start", "session.resume", "session.info"} ->
            Outcome3(<<>>, ids, 0)
      [] s.kind \in {"user.message", "assistant.message"} ->
            Outcome3(Emit(Among(f, content), None, IF s.kind = "user.message" THEN "user"
                                            ELSE "assistant", None, context), ids, 0)
      [] s.kind \in {"tool.execution_start", "tool.start", "tool_use", "tool.call"} ->
            Outcome3(EmitName(s.name, context)
                     \o Emit(Among(f, argument), None, "tool", OrDefault(s.name), context),
                     RegisterCall(ids, s.call, s.name), 0)
      [] s.kind \in {"tool.execution_complete", "tool.complete", "tool_result",
                     "tool.result"} ->
            Outcome3(IF OwnResult(ids, s.call) THEN <<>>
                     ELSE Emit(Among(f, output), "tool_result", "tool",
                               ResultTool(ids, s.call), context),
                     ids, 0)
      [] OTHER -> Outcome3(<<>>, ids, 1)

Normalize(provider, s, f, ids, session) ==
    LET context == [session |-> OrElse(s.session, OrElse(session, "unknown")),
                    event |-> s.event]
    IN
    CASE provider = "codex" -> NormalizeCodex(s, f, ids, context)
      [] provider = "claude" -> NormalizeClaude(s, f, ids, context)
      [] provider = "copilot" -> NormalizeCopilot(s, f, ids, context)

(* What normalize reports of a record: also a timestamp it cannot parse.    *)
Reports(s, out) ==
    out.diagnostics + IF s.stamp = None \/ s.stamp \in Timestamps THEN 0 ELSE 1
=============================================================================
