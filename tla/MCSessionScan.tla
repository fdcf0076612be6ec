---------------------------- MODULE MCSessionScan ----------------------------
(* Instances of SessionScan: the records and the files of each run. *)
EXTENDS SessionScan

(***************************************************************************)
(* Ownership: `here` is this plain folder, `nested` a folder below it that *)
(* may be registered as a project of its own, `away` a live Git repository,*)
(* `gone` a directory that no longer exists.                               *)
(***************************************************************************)
CwdGit == [here |-> None, nested |-> None, away |-> "another owner", gone |-> None]
CwdRegistered == [here |-> Owner, nested |-> "nested owner", away |-> "another owner",
                  gone |-> "nested owner"]
CwdFallback == [here |-> Owner, nested |-> Owner, away |-> None, gone |-> None]

S(key, unit) == Field(key, Scalar(<<unit>>))
Meta(id, cwd) == Object(<<S("type", "session_meta"),
                          Field("payload", Object(<<S("id", id), S("cwd", cwd)>>))>>)
CodexAt(time, fields) ==
    Object(<<S("type", "response_item"), S("timestamp", time),
             Field("payload", Object(fields))>>)
Said == Field("content", Scalar(<<"a">>))

(* A call with an argument longer than a metadata value, a record with a     *)
(* timestamp that cannot be parsed, and one with a metadata value too many.  *)
ScanTree ==
    [mine |-> Meta("s1", "here"), nested |-> Meta("s1", "nested"), away |-> Meta("s1", "away"),
     gone |-> Meta("s1", "gone"), bad |-> Malformed,
     call |-> CodexAt("noon", <<S("type", "function_call"), S("name", "edit"),
                S("call_id", "c1"),
                Field("arguments", Object(<<Field("id", Scalar(<<"a", "b">>))>>))>>),
     undated |-> CodexAt("never", <<S("type", "message"), S("role", "user"), Said>>),
     crowded |-> CodexAt("noon", <<S("type", "message"), S("id", "e1"), S("channel", "final"),
                                   S("role", "user"), Said>>)]
ScanDiagnosed == {"bad", "undated", "crowded"}

AllCodex == [p \in Path |-> "codex"]
Content(records) == [records |-> records, tail |-> FALSE]
ScanVersions == Seq(DOMAIN ScanTree) \X BOOLEAN
ScanWritten == [p1 |-> {"call", "bad", "crowded"}, p2 |-> {"gone"}]
ScanRewritten == [p1 |-> {Content(<<"away">>), Content(<<"mine", "undated">>)}, p2 |-> {}]
ScanInitial == {[p1 |-> Content(<<"mine", "nested">>), p2 |-> Content(<<"mine">>)]}

(***************************************************************************)
(* The records of the pipeline: each provider's messages, calls and        *)
(* answers, of an own tool and of another, with texts longer and shorter   *)
(* than a fragment, a chunk and what is kept in memory, repeated fields,   *)
(* fields of equal length, structured values and several block types.      *)
(***************************************************************************)
L(key, text) == Field(key, Scalar(text))
O(key, fields) == Field(key, Object(fields))
A(key, items) == Field(key, Array(items))
Block(type, text) == Object(<<S("type", type), L("text", text)>>)
Long == <<"a", "b", "c", "d", "e">>

CodexRecord(id, fields) ==
    Object(<<S("type", "response_item"), S("id", id), O("payload", fields)>>)
ClaudeRecord(id, kind, body) ==
    Object(<<S("type", kind), S("uuid", id), S("cwd", "here"), S("sessionId", "s2"),
             O("message", <<S("role", kind), body>>)>>)
ToolUse(id, name, input) ==
    Object(<<S("type", "tool_use"), S("id", id), S("name", name), O("input", input)>>)
ToolResult(id, body) ==
    Object(<<S("type", "tool_result"), S("tool_use_id", id), body>>)
CopilotRecord(kind, id, fields) == Object(<<S("type", kind), S("id", id), O("data", fields)>>)

PipelineTree ==
    [codex_start |-> Meta("s1", "here"),
     codex_message |-> CodexRecord("e1", <<S("type", "message"), S("role", "assistant"),
        A("content", <<Block("output_text", Long), Block("input_text", <<"y">>),
                       Block("image", <<"x">>), Block("output_text", Long)>>)>>),
     codex_thought |-> CodexRecord("e2", <<S("type", "message"), S("role", "assistant"),
                                           S("channel", "analysis"), L("content", <<"h">>)>>),
     codex_own_call |-> CodexRecord("e3", <<S("type", "function_call"), S("name", "own"),
                           S("call_id", "c1"), L("arguments", <<"q", "r", "s">>)>>),
     codex_own_answer |-> CodexRecord("e4", <<S("type", "function_call_output"),
                             S("call_id", "c1"), L("output", <<"o", "p">>)>>),
     codex_call |-> CodexRecord("e5", <<S("type", "custom_tool_call"), S("name", "grep"),
                       S("call_id", "c2"), O("input", <<L("pattern", <<"f">>)>>)>>),
     codex_answer |-> CodexRecord("e6", <<S("type", "custom_tool_call_output"),
                         S("call_id", "c2"),
                         A("output", <<Scalar(<<"g">>), Scalar(<<"k">>), Scalar(<<"g">>)>>)>>),
     claude_user |-> ClaudeRecord("u1", "user", L("content", <<"h", "i">>)),
     claude_twice |-> ClaudeRecord("u2", "assistant",
        A("content", <<Block("text", <<"t">>), Block("text", <<"t">>), Block("text", <<"w">>)>>)),
     claude_own_call |-> ClaudeRecord("u3", "assistant",
        A("content", <<Block("text", <<"v">>), ToolUse("k1", "own", <<L("query", <<"q">>)>>)>>)),
     claude_own_answer |-> ClaudeRecord("u4", "user",
        A("content", <<ToolResult("k1", L("content", <<"b", "o">>))>>)),
     claude_own_list |-> ClaudeRecord("u5", "user",
        A("content", <<ToolResult("k1", A("content", <<Block("text", <<"b">>)>>))>>)),
     claude_call |-> ClaudeRecord("u6", "assistant",
        A("content", <<ToolUse("k2", "ls", <<L("query", <<"q">>)>>)>>)),
     claude_answer |-> ClaudeRecord("u7", "user",
        A("content", <<ToolResult("k2", L("content", <<"m", "n", "m", "n">>))>>)),
     claude_edit |-> ClaudeRecord("u9", "assistant",
        A("content", <<ToolUse("k3", "edit", <<L("old_string", <<>>),
                                               L("new_string", <<"x">>)>>)>>)),
     claude_strange |-> ClaudeRecord("u8", "strange", L("content", <<"z">>)),
     copilot_start |-> CopilotRecord("session.start", "m0",
        <<S("sessionId", "s3"), O("context", <<S("cwd", "here")>>)>>),
     copilot_user |-> CopilotRecord("user.message", "m1", <<L("content", <<"h", "e">>)>>),
     copilot_own_call |-> CopilotRecord("tool.execution_start", "m2",
        <<S("toolCallId", "t1"), S("toolName", "own"), O("arguments", <<L("a", <<"x">>)>>)>>),
     copilot_own_answer |-> CopilotRecord("tool.execution_complete", "m3",
        <<S("toolCallId", "t1"), O("result", <<L("content", <<"b">>)>>)>>),
     copilot_call |-> CopilotRecord("tool.execution_start", "m4",
        <<S("toolCallId", "t2"), S("toolName", "cat"), L("input", <<"i">>)>>),
     copilot_answer |-> CopilotRecord("tool.execution_complete", "m5",
        <<S("toolCallId", "t2"),
          O("result", <<L("content", <<"b">>), L("detailedContent", <<"b", "d">>)>>)>>),
     bad |-> Malformed]

Message1(text) == [kind |-> "message", text |-> text]
Call1(text) == [kind |-> "tool_call", text |-> text]
Answer1(text) == [kind |-> "tool_result", text |-> text]
Fields ==
    [codex_message |-> <<Message1(Long), Message1(<<"y">>)>>,
     codex_own_call |-> <<Call1(<<"own">>), Call1(<<"q", "r", "s">>)>>,
     codex_own_answer |-> <<Answer1(<<"o", "p">>)>>,
     claude_own_answer |-> <<Answer1(<<"tool_result">>), Answer1(<<"k1">>),
                             Answer1(<<"b", "o">>)>>,
     codex_call |-> <<Call1(<<"grep">>), Call1(<<"pattern">>), Call1(<<"f">>)>>,
     codex_answer |-> <<Answer1(<<"g">>), Answer1(<<"k">>)>>,
     claude_user |-> <<Message1(<<"h", "i">>)>>,
     claude_twice |-> <<Message1(<<"text">>), Message1(<<"t">>), Message1(<<"w">>)>>,
     claude_own_call |-> <<Message1(<<"text">>), Message1(<<"v">>), Call1(<<"query">>), Call1(<<"q">>),
                           Call1(<<"own">>)>>,
     claude_call |-> <<Call1(<<"query">>), Call1(<<"q">>), Call1(<<"ls">>)>>,
     claude_answer |-> <<Answer1(<<"tool_result">>), Answer1(<<"k2">>),
                         Answer1(<<"m", "n", "m", "n">>)>>,
     claude_edit |-> <<Call1(<<"old_string">>), Call1(<<"new_string">>), Call1(<<"x">>),
                       Call1(<<"edit">>)>>,
     copilot_user |-> <<Message1(<<"h", "e">>)>>,
     copilot_own_call |-> <<Call1(<<"own">>), Call1(<<"a">>), Call1(<<"x">>)>>,
     copilot_own_answer |-> <<Answer1(<<"b">>)>>,
     copilot_call |-> <<Call1(<<"cat">>), Call1(<<"i">>)>>,
     copilot_answer |-> <<Answer1(<<"b">>), Answer1(<<"b", "d">>)>>]
PipelineShown == [r \in DOMAIN PipelineTree |-> IF r \in DOMAIN Fields THEN Fields[r] ELSE <<>>]
PipelineOwnCalls == [r \in DOMAIN PipelineTree |->
    CASE r = "codex_own_call" -> "c1" [] r = "claude_own_call" -> "k1"
      [] r = "copilot_own_call" -> "t1" [] OTHER -> None]
PipelineAnswers == [r \in DOMAIN PipelineTree |->
    CASE r = "codex_own_answer" -> "c1" [] r \in {"claude_own_answer", "claude_own_list"} -> "k1"
      [] r = "copilot_own_answer" -> "t1" [] r = "codex_answer" -> "c2"
      [] r = "claude_answer" -> "k2" [] r = "copilot_answer" -> "t2" [] OTHER -> None]

Providers == {"codex", "claude", "copilot"}
OneEach == [p \in Providers |-> p]
PipelineWritten ==
    [codex |-> {"codex_message", "codex_thought", "codex_own_call", "codex_own_answer",
                "codex_call", "codex_answer", "bad"},
     claude |-> {"claude_user", "claude_twice", "claude_own_call", "claude_own_answer",
                 "claude_call", "claude_answer", "claude_strange"},
     copilot |-> {"copilot_user", "copilot_own_call", "copilot_own_answer", "copilot_call",
                  "copilot_answer"}]
PipelineInitial ==
    {[codex |-> Content(<<"codex_message", "codex_start", "codex_own_call">>)],
     [claude |-> Content(<<"claude_twice", "claude_own_call">>)],
     [copilot |-> Content(<<"copilot_user", "copilot_start", "copilot_own_call">>)]}
NeverRewritten == [p \in Providers |-> {}]
ListWritten == [p \in Providers |-> IF p = "claude" THEN {"claude_own_call", "claude_own_list"}
                                                    ELSE {}]
EditWritten == [p \in Providers |-> IF p = "claude" THEN {"claude_edit"} ELSE {}]
ListInitial == {[claude |-> Content(<<"claude_user">>)]}

ScanShown ==
    [r \in DOMAIN ScanTree |->
        CASE r = "undated" -> <<Message1(<<"a">>)>>
          [] r = "call" -> <<Call1(<<"edit">>), Call1(<<"id">>), Call1(<<"a", "b">>)>>
          [] OTHER -> <<>>]
NoCalls == [r \in DOMAIN ScanTree |-> None]
(***************************************************************************)
(* The pipeline's runs are about records: agents write, and the watcher    *)
(* delivers, between scans.  What happens during one is session_scan's.    *)
(***************************************************************************)
BetweenScans ==
    /\ content' # content => pc = "idle"
    /\ pc = "idle" /\ pc' # pc => events = {}

(* Which records are diagnosed is also written down by hand. *)
ASSUME ScanDiagnosedRead ==
    \A p \in Path, r \in DOMAIN Tree \cap DOMAIN ScanTree :
        Diagnosed(p, r) <=> r \in ScanDiagnosed

PipelineVersions == Seq(DOMAIN PipelineTree) \X BOOLEAN
=============================================================================
