------------------------------- MODULE Spools -------------------------------
(***************************************************************************)
(* What the parser of a session file keeps off the heap: bytes and records *)
(* that move from memory to a private file, the types of a record's blocks *)
(* that move to a scratch database, and the identifiers it has met, which  *)
(* a scratch database and the committed store hold between them.           *)
(*                                                                         *)
(* Sources: record_spool.rs; BlockTypeIndex and DurableIdSet of            *)
(* session_stream.rs.  A spool holds a sequence of units, a table is a set *)
(* of pairs, and a limit is a number of units or of pairs.  An operator    *)
(* named after the one that follows it is a faulty variant of that one.    *)
(***************************************************************************)
EXTENDS Naturals, Sequences, FiniteSets

CONSTANTS
    InlineUnits,      \* what a byte spool keeps in memory (64 KiB)
    BlockTypeLimit    \* block types kept in memory (256)

None == "none"        \* Option::None, of a name, a role, an identifier, ...

(***************************************************************************)
(* ByteSpool: memory up to the limit, then a file behind a buffered        *)
(* writer.  A reader opens the file, so it sees what has been flushed.     *)
(***************************************************************************)
NewSpool == [memory |-> <<>>, buffered |-> <<>>, flushed |-> <<>>, onFile |-> FALSE]

SpoolLen(s) == Len(s.memory) + Len(s.buffered) + Len(s.flushed)

Write(s, units) ==
    IF s.onFile THEN [s EXCEPT !.buffered = @ \o units]
    ELSE IF Len(s.memory) + Len(units) > InlineUnits
         THEN [s EXCEPT !.memory = <<>>, !.buffered = s.memory \o units, !.onFile = TRUE]
         ELSE [s EXCEPT !.memory = @ \o units]

(* range and finish: a reader is handed out only after a flush. *)
Flush(s) == [s EXCEPT !.flushed = @ \o s.buffered, !.buffered = <<>>]

(* ByteRange::reader, of the units after `start` up to `end`. *)
ReadRange(s, start, end) ==
    LET readable == IF s.onFile THEN s.flushed ELSE s.memory
    IN  SubSeq(readable, start + 1, IF end <= Len(readable) THEN end ELSE Len(readable))

(***************************************************************************)
(* BlockTypeIndex: the first type found at a path stays its type, before   *)
(* and after the index has moved to the database.                          *)
(***************************************************************************)
NewTypes == [memory |-> {}, disk |-> {}, spilled |-> FALSE]

HasKey(pairs, key) == \E x \in pairs : x.key = key
ValueAt(pairs, key) == (CHOOSE x \in pairs : x.key = key).value
InsertOrIgnore(pairs, key, value) ==
    IF HasKey(pairs, key) THEN pairs ELSE pairs \cup {[key |-> key, value |-> value]}

SpillToDisk(t) == [memory |-> {}, disk |-> t.memory, spilled |-> TRUE]

InsertType(t, path, type) ==
    IF t.spilled THEN [t EXCEPT !.disk = InsertOrIgnore(@, path, type)]
    ELSE IF HasKey(t.memory, path) THEN t
    ELSE IF Cardinality(t.memory) < BlockTypeLimit
         THEN [t EXCEPT !.memory = InsertOrIgnore(@, path, type)]
         ELSE [SpillToDisk(t) EXCEPT !.disk = InsertOrIgnore(@, path, type)]

GetType(t, path) ==
    IF HasKey(t.memory, path) THEN ValueAt(t.memory, path)
    ELSE IF HasKey(t.disk, path) THEN ValueAt(t.disk, path) ELSE None

HasType(t, type) == \E x \in t.memory \cup t.disk : x.value = type

(***************************************************************************)
(* DurableIdSet: what this read has met is in the scratch database and in  *)
(* the updates to commit; what earlier reads met is in the store, and is   *)
(* consulted only when the read appends.                                   *)
(***************************************************************************)
NewIdsForgetful(append, stored) == [local |-> {}, committed |-> {}, updates |-> <<>>]
NewIds(append, stored) ==
    [local |-> {}, committed |-> IF append THEN stored ELSE {}, updates |-> <<>>]

IdKey(kind, id) == <<kind, id>>
IdValue(ids, kind, id) ==
    IF HasKey(ids.local, IdKey(kind, id)) THEN ValueAt(ids.local, IdKey(kind, id))
    ELSE IF HasKey(ids.committed, IdKey(kind, id)) THEN ValueAt(ids.committed, IdKey(kind, id))
    ELSE None
HasId(ids, kind, id) == HasKey(ids.local \cup ids.committed, IdKey(kind, id))

(* insert_value: nothing changes if either side knows the identifier. *)
InsertId(ids, kind, id, value) ==
    IF HasId(ids, kind, id) THEN ids
    ELSE [ids EXCEPT !.local = InsertOrIgnore(@, IdKey(kind, id), value),
                     !.updates = Append(@, [key |-> IdKey(kind, id), value |-> value])]
=============================================================================
