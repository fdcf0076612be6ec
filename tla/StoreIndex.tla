----------------------------- MODULE StoreIndex -----------------------------
(***************************************************************************)
(* The tables of the SQLite store and its write transactions: sources,     *)
(* chunks with their postings, the term dictionary, the statistics BM25    *)
(* divides by (kept incrementally, per source and per collection), the     *)
(* checkpoints of session files and the generation.                        *)
(*                                                                         *)
(* Sources: store.rs (write_source, remove_source, invalidate_source,      *)
(* invalidate_collection, mark_source_verified, compact, initialize).      *)
(*                                                                         *)
(* Every writer holds the connection's mutex and an IMMEDIATE transaction, *)
(* so a step is a committed transaction; one that fails leaves nothing.    *)
(* A chunk's text is the set of its terms; a collection stands for the     *)
(* pair of collection and kind, which the key of a source contains.        *)
(***************************************************************************)
EXTENDS Integers, FiniteSets, Sequences

CONSTANTS
    Key,            \* sources
    Collection,     \* pairs of collection and kind
    Home,           \* the collection in the key of a source
    Term,           \* words
    Text,           \* contents of a chunk, as sets of words
    Version,        \* versions of a source
    MaxWrites,      \* chunks in one write
    MaxOffset,      \* bytes of a session file
    MaxGeneration   \* generations

ASSUME StoreAssumption ==
    /\ Home \in [Key -> Collection]
    /\ Text \subseteq SUBSET Term /\ IsFiniteSet(Term)
    /\ MaxOffset \in Nat /\ MaxGeneration \in Nat /\ MaxWrites \in Nat

VARIABLES
    sources,        \* sources, absent ones as NoSource
    chunks,         \* chunks and their postings
    terms,          \* terms
    sourceTotals,   \* source_stats and source_term_stats
    totals,         \* stats and term_stats
    checkpoints,    \* session_checkpoints, absent ones as NoCheckpoint
    generation,     \* meta.generation
    issued          \* ghost: every chunk that ever had a match id

vars == <<sources, chunks, terms, sourceTotals, totals, checkpoints, generation, issued>>

NoSource == [version |-> "none", eligible |-> FALSE]
NoCheckpoint == MaxOffset + 1

Present(k) == sources[k] # NoSource
ChunksOf(k) == {c \in chunks : c.key = k}
Searchable(c) == {x \in chunks : sources[x.key].eligible /\ Home[x.key] = c}

(***************************************************************************)
(* Statistics: documents, tokens and, for a word, the documents with it.   *)
(* A row that SQLite deletes, or never had, counts nothing.                *)
(***************************************************************************)
Nothing == [docs |-> 0, tokens |-> 0, df |-> [t \in Term |-> 0]]

Tally(X) ==
    [docs |-> Cardinality(X),
     tokens |-> Cardinality({y \in X \X Term : y[2] \in y[1].text}),
     df |-> [t \in Term |-> Cardinality({x \in X : t \in x.text})]]

Plus(a, b) ==
    [docs |-> a.docs + b.docs, tokens |-> a.tokens + b.tokens,
     df |-> [t \in Term |-> a.df[t] + b.df[t]]]

(* adjust_statistics with sign -1: rows that fall to zero or below go. *)
Positive(n, m) == IF n > m THEN n - m ELSE 0
Minus(a, b) ==
    [docs |-> Positive(a.docs, b.docs),
     tokens |-> IF a.docs > b.docs THEN a.tokens - b.tokens ELSE 0,
     df |-> [t \in Term |-> Positive(a.df[t], b.df[t])]]

(* The contribution of an eligible source, as its own row counts it. *)
WithoutChecking(k) == [totals EXCEPT ![Home[k]] = Minus(@, sourceTotals[k])]
Without(k) ==
    IF sources[k].eligible
    THEN [totals EXCEPT ![Home[k]] = Minus(@, sourceTotals[k])]
    ELSE totals
With(t, k, contribution) == [t EXCEPT ![Home[k]] = Plus(@, contribution)]

(***************************************************************************)
(* write_source: replacing a source, or appending to a session's.          *)
(***************************************************************************)
ChunkRowUnversioned(k, v, ordinal, text) ==
    [key |-> k, version |-> v, ordinal |-> ordinal, generation |-> 0, text |-> text]
ChunkRow(k, v, ordinal, text) ==
    [key |-> k, version |-> v, ordinal |-> ordinal, generation |-> generation + 1,
     text |-> text]

(* The text apart, what match_id hashes. *)
MatchId(c) == <<c.key, c.version, c.ordinal, c.generation>>

NewChunks(k, v, first, texts) ==
    {ChunkRow(k, v, first + i - 1, texts[i]) : i \in DOMAIN texts}

Words(X) == UNION {x.text : x \in X}

(* Committing the rows of a write: `kept` are the chunks that stay, `base`  *)
(* the collection's totals they are counted in.                            *)
Commit(k, v, kept, new, own, all, checkpoint) ==
    /\ generation < MaxGeneration
    /\ sources' = [sources EXCEPT ![k] = [version |-> v, eligible |-> TRUE]]
    /\ chunks' = (chunks \ ChunksOf(k)) \cup kept \cup new
    /\ terms' = terms \cup Words(new)
    /\ sourceTotals' = [sourceTotals EXCEPT ![k] = own]
    /\ totals' = all
    /\ checkpoints' = [checkpoints EXCEPT ![k] = checkpoint]
    /\ generation' = generation + 1
    /\ issued' = issued \cup new

ReplaceSource(k, v, texts, checkpoint) ==
    LET new == NewChunks(k, v, 0, texts)
    IN  Commit(k, v, {}, new, Tally(new), With(Without(k), k, Tally(new)), checkpoint)

(* An append names the version it extends and may not take the checkpoint  *)
(* back; an ineligible source becomes searchable again as a whole.         *)
MayAppendAnywhere(k, expected, checkpoint) ==
    /\ Present(k) /\ sources[k].version = expected
    /\ checkpoints[k] # NoCheckpoint
MayAppend(k, expected, checkpoint) ==
    /\ Present(k) /\ sources[k].version = expected
    /\ checkpoints[k] # NoCheckpoint /\ checkpoint >= checkpoints[k]

AppendCountingAll(k, expected, v, texts, checkpoint) ==
    LET new == NewChunks(k, v, sourceTotals[k].docs, texts)
        own == Plus(sourceTotals[k], Tally(new))
    IN  /\ MayAppend(k, expected, checkpoint)
        /\ Commit(k, v, ChunksOf(k), new, own, With(totals, k, own), checkpoint)
AppendFromZero(k, expected, v, texts, checkpoint) ==
    LET new == NewChunks(k, v, 0, texts)
        own == Plus(sourceTotals[k], Tally(new))
    IN  /\ MayAppend(k, expected, checkpoint)
        /\ Commit(k, v, ChunksOf(k), new, own,
                  With(totals, k, IF sources[k].eligible THEN Tally(new) ELSE own),
                  checkpoint)
AppendSource(k, expected, v, texts, checkpoint) ==
    LET new == NewChunks(k, v, sourceTotals[k].docs, texts)
        own == Plus(sourceTotals[k], Tally(new))
    IN  /\ MayAppend(k, expected, checkpoint)
        /\ Commit(k, v, ChunksOf(k), new, own,
                  With(totals, k, IF sources[k].eligible THEN Tally(new) ELSE own),
                  checkpoint)

(***************************************************************************)
(* The other transactions.  Each moves the generation only if it changed a *)
(* row.                                                                    *)
(***************************************************************************)
RemoveSourceUncounted(k) ==
    /\ Present(k) /\ generation < MaxGeneration
    /\ sources' = [sources EXCEPT ![k] = NoSource]
    /\ chunks' = chunks \ ChunksOf(k)
    /\ sourceTotals' = [sourceTotals EXCEPT ![k] = Nothing]
    /\ checkpoints' = [checkpoints EXCEPT ![k] = NoCheckpoint]
    /\ generation' = generation + 1
    /\ UNCHANGED <<totals, terms, issued>>
RemoveSource(k) ==
    /\ Present(k) /\ generation < MaxGeneration
    /\ totals' = Without(k)
    /\ sources' = [sources EXCEPT ![k] = NoSource]
    /\ chunks' = chunks \ ChunksOf(k)
    /\ sourceTotals' = [sourceTotals EXCEPT ![k] = Nothing]
    /\ checkpoints' = [checkpoints EXCEPT ![k] = NoCheckpoint]
    /\ generation' = generation + 1
    /\ UNCHANGED <<terms, issued>>

InvalidateSource(k) ==
    /\ sources[k].eligible /\ generation < MaxGeneration
    /\ totals' = Without(k)
    /\ sources' = [sources EXCEPT ![k].eligible = FALSE]
    /\ generation' = generation + 1
    /\ UNCHANGED <<chunks, terms, sourceTotals, checkpoints, issued>>

(* The collection's statistics go whether or not a source was searchable. *)
InvalidateCollection(c) ==
    LET hit == {k \in Key : sources[k].eligible /\ Home[k] = c}
    IN  /\ generation < MaxGeneration
        /\ totals' = [totals EXCEPT ![c] = Nothing]
        /\ sources' = [k \in Key |-> IF k \in hit THEN [sources[k] EXCEPT !.eligible = FALSE]
                                                  ELSE sources[k]]
        /\ generation' = IF hit = {} THEN generation ELSE generation + 1
        /\ UNCHANGED <<chunks, terms, sourceTotals, checkpoints, issued>>

MarkVerifiedSilently(k) ==
    /\ Present(k) /\ ~sources[k].eligible /\ generation < MaxGeneration
    /\ totals' = With(totals, k, sourceTotals[k])
    /\ sources' = [sources EXCEPT ![k].eligible = TRUE]
    /\ UNCHANGED <<chunks, terms, sourceTotals, checkpoints, generation, issued>>
MarkVerified(k) ==
    /\ Present(k) /\ ~sources[k].eligible /\ generation < MaxGeneration
    /\ totals' = With(totals, k, sourceTotals[k])
    /\ sources' = [sources EXCEPT ![k].eligible = TRUE]
    /\ generation' = generation + 1
    /\ UNCHANGED <<chunks, terms, sourceTotals, checkpoints, issued>>

(* compact deletes the words without postings; a word that a statistics row *)
(* still names is a foreign key, and SQLite would refuse the deletion.      *)
Unused == {t \in terms : \A x \in chunks : t \notin x.text}
Referenced(t) == \/ \E c \in Collection : totals[c].df[t] > 0
                 \/ \E k \in Key : sourceTotals[k].df[t] > 0
Compact ==
    /\ Unused # {}
    /\ \A t \in Unused : ~Referenced(t)
    /\ terms' = terms \ Unused
    /\ UNCHANGED <<sources, chunks, sourceTotals, totals, checkpoints, generation, issued>>

(* Opening the store after the tokenizer has changed empties it. *)
Retokenize ==
    /\ generation < MaxGeneration
    /\ sources' = [k \in Key |-> NoSource] /\ chunks' = {} /\ terms' = {}
    /\ sourceTotals' = [k \in Key |-> Nothing] /\ totals' = [c \in Collection |-> Nothing]
    /\ checkpoints' = [k \in Key |-> NoCheckpoint]
    /\ generation' = generation + 1
    /\ UNCHANGED issued

Init ==
    /\ sources = [k \in Key |-> NoSource] /\ chunks = {} /\ terms = {}
    /\ sourceTotals = [k \in Key |-> Nothing]
    /\ totals = [c \in Collection |-> Nothing]
    /\ checkpoints = [k \in Key |-> NoCheckpoint]
    /\ generation = 0 /\ issued = {}

Texts == UNION {[1..n -> Text] : n \in 0..MaxWrites}

Next ==
    \/ \E k \in Key, v \in Version, texts \in Texts, offset \in 0..NoCheckpoint :
           ReplaceSource(k, v, texts, offset)
    \/ \E k \in Key, e \in Version, v \in Version, texts \in Texts, offset \in 0..MaxOffset :
           AppendSource(k, e, v, texts, offset)
    \/ \E k \in Key : RemoveSource(k) \/ InvalidateSource(k) \/ MarkVerified(k)
    \/ \E c \in Collection : InvalidateCollection(c)
    \/ Compact \/ Retokenize

Spec == Init /\ [][Next]_vars

(***************************************************************************)
(* Properties.                                                             *)
(***************************************************************************)
Source == [version : Version, eligible : BOOLEAN] \cup {NoSource}
ChunkType == [key : Key, version : Version, ordinal : Nat, generation : Nat, text : Text]
TotalType == [docs : Nat, tokens : Nat, df : [Term -> Nat]]

(* Every table has its columns' types; postings name interned words. *)
TypeOK ==
    /\ sources \in [Key -> Source]
    /\ chunks \in SUBSET ChunkType /\ issued \in SUBSET ChunkType
    /\ terms \in SUBSET Term /\ Words(chunks) \subseteq terms
    /\ sourceTotals \in [Key -> TotalType] /\ totals \in [Collection -> TotalType]
    /\ checkpoints \in [Key -> 0..NoCheckpoint] /\ generation \in Nat

(* The document count, token count and document frequencies BM25 divides by *)
(* are those of the searchable chunks, after any sequence of replacements,  *)
(* appends to searchable or suppressed sources, invalidations, removals and *)
(* verifications, although they are only ever added to and subtracted from. *)
StatisticsMatch == \A c \in Collection : totals[c] = Tally(Searchable(c))

(* A source's own row counts its chunks, searchable or not, and its chunks   *)
(* are numbered without gap or repetition, which the next append relies on.  *)
Ordinals(X) == {x.ordinal : x \in X}
SourceStatisticsMatch ==
    \A k \in Key :
        /\ sourceTotals[k] = Tally(ChunksOf(k))
        /\ Ordinals(ChunksOf(k)) = 0..(sourceTotals[k].docs - 1)

(* A match id once handed out never resolves to another text (the promise in *)
(* the comment of Store::context), even if its source is removed, written    *)
(* again under the same version and numbered from zero.                      *)
MatchIdNeverRebinds ==
    \A x, y \in issued : MatchId(x) = MatchId(y) => x.text = y.text

(* compact never deletes a word a statistics row refers to, so the foreign   *)
(* keys never make it fail.                                                  *)
CompactNotRefused == \A t \in Unused : ~Referenced(t)

(* The parser's checkpoint of a session moves back only together with the    *)
(* replacement of everything indexed before it: no chunk would be indexed    *)
(* twice by the next append.                                                 *)
CheckpointsAdvance ==
    [][\A k \in Key : checkpoints'[k] < checkpoints[k] /\ checkpoints[k] # NoCheckpoint =>
           {x \in chunks' : x.key = k} \cap ChunksOf(k) = {}]_vars

(* What a search sees, and that the generation tells any two of them apart:  *)
(* this store implements the abstract versioned index.                       *)
SearchView == [c \in Collection |-> [hits |-> Searchable(c), totals |-> totals[c]]]
Views == [Collection -> [hits : SUBSET ChunkType, totals : TotalType]]
Index == INSTANCE VersionedIndex WITH View <- Views, view <- SearchView
ImplementsVersionedIndex == Index!Versioned
=============================================================================
