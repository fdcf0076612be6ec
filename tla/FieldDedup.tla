----------------------------- MODULE FieldDedup -----------------------------
(***************************************************************************)
(* From the items of one record to its chunks: exact repeats of a field    *)
(* are dropped (VisibleFieldDeduper), and a field's text is cut into       *)
(* chunks of a bounded size (SessionChunkAppender), in session_stream.rs.  *)
(*                                                                         *)
(* An item is a piece of a field.  The deduplicator holds one field at a   *)
(* time: in memory while it is small and alone, in a value file from the   *)
(* first field that is neither; only what is in the file is indexed.  The  *)
(* digest of a text is the text.  An operator named after the one that     *)
(* follows it is a faulty variant of that one.                             *)
(***************************************************************************)
EXTENDS SessionRecords

CONSTANTS
    InlineField,    \* units of a field kept in memory (MAX_INLINE_DEDUP_BYTES)
    ChunkUnits      \* units of a chunk (MAX_CHUNK_BYTES)

ASSUME DedupAssumption == InlineField \in Nat /\ ChunkUnits \in Nat \ {0}

(***************************************************************************)
(* VisibleFieldDeduper.  `output` collects what it hands to the appender.  *)
(***************************************************************************)
NoField == [none |-> TRUE]
NewDeduper == [active |-> NoField, stored |-> FALSE, values |-> <<>>, index |-> {},
               output |-> <<>>]

SameField(a, item) ==
    a # NoField /\ a.item.path = item.path /\ DedupKey(a.item) = DedupKey(item)

(* promote_active: the field moves from memory to the end of the file. *)
Promote(d) ==
    [d EXCEPT !.stored = TRUE, !.values = @ \o d.active.inline,
              !.active = [@ EXCEPT !.start = Len(d.values), !.inline = <<>>]]

AppendActive(d, text) ==
    LET spills == ~d.stored /\ Len(d.active.inline) + Len(text) > InlineField
        e == IF spills THEN Promote(d) ELSE d
        longer == [e.active EXCEPT !.length = @ + Len(text)]
    IN  IF e.stored THEN [e EXCEPT !.values = @ \o text, !.active = longer]
        ELSE [e EXCEPT !.active = [longer EXCEPT !.inline = @ \o text]]

StartField(d, item) ==
    AppendActive([d EXCEPT !.active =
        [item |-> item, start |-> Len(d.values), length |-> 0, inline |-> <<>>]], item.text)

(* The active field's bytes in the value file. *)
ValueRange(d, start, length) == SubSeq(d.values, start + 1, start + length)

(* byte_ranges_equal, of the ranges the index offers for this key. *)
Repeats(d) ==
    \E x \in d.index :
        /\ x.key = DedupKey(d.active.item) /\ x.length = d.active.length
        /\ ValueRange(d, x.start, x.length) = ValueRange(d, d.active.start, d.active.length)

(* replay_field: the value comes back in pieces of a fragment's size. *)
Replay(d) ==
    LET pieces == Pieces(ValueRange(d, d.active.start, d.active.length)) IN
    [i \in DOMAIN pieces |-> [d.active.item EXCEPT !.text = pieces[i]]]

FinishActiveByLength(d) ==
    LET a == d.active
        done == [d EXCEPT !.active = NoField] IN
    CASE a = NoField -> d
      [] a # NoField /\ ~d.stored ->
            [done EXCEPT !.output = Append(@, [a.item EXCEPT !.text = a.inline])]
      [] a # NoField /\ d.stored /\ (\E x \in d.index : x.key = DedupKey(a.item)
                                                         /\ x.length = a.length) -> done
      [] OTHER ->
            [done EXCEPT !.output = @ \o Replay(d),
                         !.index = @ \cup {[key |-> DedupKey(a.item), start |-> a.start,
                                            length |-> a.length]}]
FinishActive(d) ==
    LET a == d.active
        done == [d EXCEPT !.active = NoField] IN
    CASE a = NoField -> d
      [] a # NoField /\ ~d.stored ->
            [done EXCEPT !.output = Append(@, [a.item EXCEPT !.text = a.inline])]
      [] a # NoField /\ d.stored /\ Repeats(d) -> done
      [] OTHER ->
            [done EXCEPT !.output = @ \o Replay(d),
                         !.index = @ \cup {[key |-> DedupKey(a.item), start |-> a.start,
                                            length |-> a.length]}]

PushItem(d, item) ==
    CASE ~Deduplicated(item) ->
            LET e == FinishActive(d) IN [e EXCEPT !.output = Append(@, item)]
      [] Deduplicated(item) /\ SameField(d.active, item) -> AppendActive(d, item.text)
      [] OTHER ->
            LET e == IF d.active # NoField /\ ~d.stored THEN Promote(d) ELSE d IN
            StartField(FinishActive(e), item)

Deduplicate(items) ==
    LET after[i \in 0..Len(items)] ==
            IF i = 0 THEN NewDeduper ELSE PushItem(after[i - 1], items[i])
    IN  FinishActive(after[Len(items)]).output

(***************************************************************************)
(* SessionChunkAppender.  A full chunk is kept back until more follows, so *)
(* that the last term of a field has a text to be attached to.             *)
(***************************************************************************)
NewAppender == [active |-> NoField, text |-> <<>>, chunks |-> <<>>]

MakeChunk(item, text, line) ==
    [line |-> line, text |-> text, kind |-> item.kind, role |-> item.role,
     tool |-> item.tool, session |-> item.session, event |-> item.event]

FlushCurrent(a, line) ==
    IF a.text = <<>> THEN a
    ELSE [a EXCEPT !.text = <<>>, !.chunks = Append(@, MakeChunk(a.active.item, a.text, line))]

FinishField(a, line) == [FlushCurrent(a, line) EXCEPT !.active = NoField]

PushUnit(a, unit, line) ==
    LET b == IF Len(a.text) + 1 > ChunkUnits THEN FlushCurrent(a, line) ELSE a IN
    [b EXCEPT !.text = Append(@, unit)]

PushUnits(a, text, line) ==
    LET after[i \in 0..Len(text)] ==
            IF i = 0 THEN a ELSE PushUnit(after[i - 1], text[i], line)
    IN  after[Len(text)]

(* An item without a path (the name of a tool) is a field of its own. *)
PushText(a, item, line) ==
    LET standalone == item.path = <<>>
        b == IF standalone \/ a.active = NoField \/ a.active.item.path # item.path
             THEN [FinishField(a, line) EXCEPT !.active = [item |-> item]] ELSE a
        c == PushUnits(b, item.text, line)
    IN  IF standalone THEN FinishField(c, line) ELSE c

Chunked(kept, line) ==
    LET after[i \in 0..Len(kept)] ==
            IF i = 0 THEN NewAppender ELSE PushText(after[i - 1], kept[i], line)
    IN  FinishField(after[Len(kept)], line).chunks

ChunksOf(items, line) == Chunked(Deduplicate(items), line)
=============================================================================
