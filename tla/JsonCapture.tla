---------------------------- MODULE JsonCapture -----------------------------
(***************************************************************************)
(* What the streaming walker of session_json.rs captures of one record: a  *)
(* sequence of fragments, each a path and a bounded piece of a string, in  *)
(* the order of the text.                                                  *)
(*                                                                         *)
(* A record is a tree of objects (fields in order), arrays and scalars; a  *)
(* record the grammar rejects is Malformed.  A scalar's text is a sequence *)
(* of units, and numbers and literals are captured like strings.  A path   *)
(* is a sequence of keys and of indices, an index being a member of Nth.   *)
(***************************************************************************)
EXTENDS Naturals, Sequences, SequencesExt

CONSTANT FragmentUnits    \* units of one fragment (16 KiB)

ASSUME FragmentAssumption == FragmentUnits \in Nat \ {0}

Scalar(text) == [is |-> "scalar", text |-> text]
Object(fields) == [is |-> "object", fields |-> fields]
Field(key, value) == [key |-> key, value |-> value]
Array(items) == [is |-> "array", items |-> items]
Malformed == [is |-> "malformed"]

Nth == <<"[0]", "[1]", "[2]", "[3]">>
KeysOf(path) == SelectSeq(path, LAMBDA part : \A i \in DOMAIN Nth : part # Nth[i])

VisibleKeys == {"content", "text", "output", "arguments", "input", "result",
                "detailedContent", "message"}
MetadataKeys == {"type", "role", "channel", "name", "id", "uuid", "call_id", "callId",
                 "tool_use_id", "toolUseId", "toolCallId", "session_id", "sessionId",
                 "conversation_id", "conversationId", "cwd", "timestamp", "created_at",
                 "createdAt", "time", "toolName", "mcpToolName"}
StructuredKeys == {"arguments", "input", "output", "result", "detailedContent"}

(* A key past the bound is dropped with the value under it. *)
OverlongKey == "overlong"

StructuredPath(path) == \E i \in DOMAIN path : path[i] \in StructuredKeys
MetadataPath(path) == \A i \in DOMAIN path : path[i] \notin VisibleKeys
ShouldCapture(path) ==
    StructuredPath(path) \/ (path # <<>> /\ Last(path) \in VisibleKeys \cup MetadataKeys)

(* Once ownership is lost only metadata is retained (`visible` is FALSE). *)
CapturePath(path, visible) == ShouldCapture(path) /\ (visible \/ MetadataPath(path))

(* parse_string_capture: pieces of at most FragmentUnits, none of them empty. *)
Pieces(text) ==
    [i \in 1..((Len(text) + FragmentUnits - 1) \div FragmentUnits) |->
        SubSeq(text, (i - 1) * FragmentUnits + 1,
               IF i * FragmentUnits < Len(text) THEN i * FragmentUnits ELSE Len(text))]

Fragment(path, text) == [path |-> path, text |-> text]
Captured(path, text) == [i \in DOMAIN Pieces(text) |-> Fragment(path, Pieces(text)[i])]

(* A value is found in its record by the positions that lead to it.          *)
Step(value, i) == IF value.is = "array" THEN value.items[i] ELSE value.fields[i].value
Label(value, i) == IF value.is = "array" THEN Nth[i] ELSE value.fields[i].key
ValueOf(tree, where) == FoldLeft(Step, tree, where)
PathTo(tree, where) ==
    [n \in DOMAIN where |-> Label(ValueOf(tree, SubSeq(where, 1, n - 1)), where[n])]

(* parse_value: the keys of a structured value are captured with its strings. *)
Capture(tree, visible) ==
    LET capture[where \in Seq(Nat)] ==
            LET value == ValueOf(tree, where)
                path == PathTo(tree, where)
                keyed(i) == IF visible /\ StructuredPath(path)
                            THEN Captured(path, <<Label(value, i)>>) ELSE <<>>
            IN  CASE value.is = "scalar" ->
                        IF CapturePath(path, visible) THEN Captured(path, value.text) ELSE <<>>
                  [] value.is = "array" ->
                        FlattenSeq([i \in DOMAIN value.items |-> capture[Append(where, i)]])
                  [] value.is = "object" ->
                        FlattenSeq([i \in DOMAIN value.fields |->
                            IF Label(value, i) = OverlongKey THEN <<>>
                            ELSE keyed(i) \o capture[Append(where, i)]])
                  [] OTHER -> <<>>
    IN  capture[<<>>]
=============================================================================
