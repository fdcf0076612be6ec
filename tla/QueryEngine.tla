---------------------------- MODULE QueryEngine -----------------------------
(***************************************************************************)
(* Searches over the versioned index: the gate that bounds how many run at *)
(* once, the cache of posting lists they share, and the monitor that sheds *)
(* both when the process uses too much memory.                             *)
(*                                                                         *)
(* Sources: hot.rs (Cache, search), store.rs (QueryGate, QueryPermit,      *)
(* set_memory_pressure, search, search_ranked_with_at, retrieve_terms) and *)
(* the monitor thread of runtime.rs.                                       *)
(*                                                                         *)
(* A step is one critical section of the gate's or of the cache's mutex,   *)
(* or one query of the reader's own SQLite transaction, which sees the     *)
(* index as of its beginning.  A posting counts one byte.                  *)
(***************************************************************************)
EXTENDS VersionedIndex, Integers, FiniteSets, Sequences

CONSTANTS
    Reader,         \* requests that can run at the same time
    Term,           \* words
    Posting,        \* chunks a word occurs in
    Permits,        \* searches admitted at once: 4
    Candidates,     \* postings or hits beyond which SQLite does the work
    TermBytes,      \* largest posting list that is cached
    CacheBytes,     \* size of the cache
    MaxGeneration,  \* bound on committed changes of the index
    MaxQueries,     \* bound on searches
    MaxFlips,       \* bound on changes of the memory pressure
    MaxRetrievals   \* bound on term lists retrieved by one search

ASSUME QueryAssumption ==
    /\ Term # {} /\ View \subseteq [Term -> SUBSET Posting]
    /\ IsFiniteSet(Reader) /\ IsFiniteSet(Term) /\ IsFiniteSet(Posting)
    /\ Permits \in Nat \ {0}
    /\ TermBytes \in Nat /\ CacheBytes \in Nat /\ TermBytes <= CacheBytes
    /\ Candidates \in Nat /\ MaxRetrievals \in Nat

VARIABLES
    cache,      \* hot::Cache
    gate,       \* QueryGate.state: searches inside, and the pressure
    monitor,    \* the monitor between its two critical sections
    rd,         \* the searches
    spent       \* how much of each bound is used up

vars == <<generation, view, cache, gate, monitor, rd, spent>>

(***************************************************************************)
(* hot::Cache.  A word that is not cached has no posting; a cached one has *)
(* at least one, since a word without postings is never looked up.         *)
(***************************************************************************)
Empty == [t \in Term |-> {}]
Size(entries) == Cardinality({x \in Term \X Posting : x[2] \in entries[x[1]]})

NewCache == [generation |-> 0, entries |-> Empty, order |-> <<>>, bytes |-> 0,
             pressure |-> FALSE]
Cleared(c) == [c EXCEPT !.entries = Empty, !.order = <<>>, !.bytes = 0]

SetPressureKeeping(c, on) == [c EXCEPT !.pressure = on]
SetPressure(c, on) == LET d == [c EXCEPT !.pressure = on] IN IF on THEN Cleared(d) ELSE d

(* get: a reader of another generation, older or newer, starts afresh. *)
AtGenerationKeeping(c, g) == IF c.generation < g THEN [c EXCEPT !.generation = g] ELSE c
AtGeneration(c, g) ==
    IF c.generation = g THEN c ELSE [Cleared(c) EXCEPT !.generation = g]

(* insert: the oldest entries make room. *)
Gone(order, n) == {order[i] : i \in 1..n}
Kept(entries, gone) == [t \in Term |-> IF t \in gone THEN {} ELSE entries[t]]
Freed(c, n) == c.bytes - Size([t \in Term |-> IF t \in Gone(c.order, n) THEN c.entries[t]
                                                                     ELSE {}])
Evictions(c, bytes) ==
    CHOOSE n \in 0..Len(c.order) :
        /\ Freed(c, n) + bytes <= CacheBytes \/ n = Len(c.order)
        /\ \A m \in 0..(n - 1) : Freed(c, m) + bytes > CacheBytes

Admits(c, g, t) == ~c.pressure /\ c.generation = g /\ c.entries[t] = {}

InsertedUnbounded(c, t, postings) ==
    [c EXCEPT !.entries[t] = postings, !.order = Append(@, t),
              !.bytes = @ + Cardinality(postings)]
Inserted(c, t, postings) ==
    LET bytes == Cardinality(postings)
        n == Evictions(c, bytes)
    IN  [c EXCEPT !.entries = [Kept(@, Gone(c.order, n)) EXCEPT ![t] = postings],
                  !.order = Append(SubSeq(@, n + 1, Len(@)), t),
                  !.bytes = Freed(c, n) + bytes]

(***************************************************************************)
(* The searches.  `snap` and `gen` are what the read transaction sees,     *)
(* `words` the term list being retrieved, `todo` what is left of it, `word`*)
(* the word in hand and `used` the posting lists scores were taken from.   *)
(***************************************************************************)
Inside == {"begin", "ready", "words", "load", "insert", "fallback"}
Outside == {"out", "enter", "asleep"}

NewSearch == [pc |-> "out", gen |-> 0, snap |-> Empty, words |-> {}, todo |-> {},
              word |-> CHOOSE t \in Term : TRUE, used |-> Empty, retrievals |-> 0]

Init ==
    /\ ViewInit
    /\ cache = NewCache
    /\ gate = [busy |-> 0, pressure |-> FALSE]
    /\ monitor = "idle"
    /\ rd = [r \in Reader |-> NewSearch]
    /\ spent = [queries |-> 0, flips |-> 0]

indexVars == <<generation, view>>
others == <<indexVars, monitor, spent>>

(* A transaction of the writer. *)
Write ==
    /\ generation < MaxGeneration
    /\ Publish
    /\ UNCHANGED <<cache, gate, monitor, rd, spent>>

Arrive(r) ==
    /\ rd[r].pc = "out" /\ spent.queries < MaxQueries
    /\ rd' = [rd EXCEPT ![r].pc = "enter"]
    /\ spent' = [spent EXCEPT !.queries = @ + 1]
    /\ UNCHANGED <<indexVars, cache, gate, monitor>>

(* QueryGate::enter, at the start and after every wake-up. *)
Limit == IF gate.pressure THEN 1 ELSE Permits
Enter(r) ==
    /\ rd[r].pc = "enter"
    /\ IF gate.busy >= Limit
       THEN /\ rd' = [rd EXCEPT ![r].pc = "asleep"]
            /\ UNCHANGED gate
       ELSE /\ rd' = [rd EXCEPT ![r].pc = "begin"]
            /\ gate' = [gate EXCEPT !.busy = @ + 1]
    /\ UNCHANGED <<others, cache>>

Woken(s) == [r \in Reader |-> IF s[r].pc = "asleep" THEN [s[r] EXCEPT !.pc = "enter"]
                                                   ELSE s[r]]

Begin(r) ==
    /\ rd[r].pc = "begin"
    /\ rd' = [rd EXCEPT ![r] = [@ EXCEPT !.pc = "ready", !.gen = generation, !.snap = view]]
    /\ UNCHANGED <<others, cache, gate>>

(* retrieve_terms: the literal query, its meaningful words, each probe. *)
Retrieve(r, words) ==
    LET s == rd[r]
    IN  /\ s.pc = "ready" /\ s.retrievals < MaxRetrievals
        /\ rd' = [rd EXCEPT ![r] =
                     [s EXCEPT !.pc = IF cache.pressure THEN "fallback" ELSE "words",
                               !.words = words, !.todo = words, !.used = Empty,
                               !.retrievals = s.retrievals + 1]]
        /\ UNCHANGED <<others, cache, gate>>

(* The lists used so far may hold more hits than the cache's path allows;   *)
(* filters can make them fewer.                                            *)
Overflow(used) == Cardinality(UNION {used[t] : t \in Term}) > Candidates
After(used, pc) == {pc} \cup IF Overflow(used) THEN {"fallback"} ELSE {}

(* The next word: unknown, too frequent, cached, or to be loaded. *)
Lookup(r, t) ==
    /\ rd[r].pc = "words" /\ t \in rd[r].todo
    /\ LET s == [rd[r] EXCEPT !.todo = @ \ {t}, !.word = t]
           c == AtGeneration(cache, s.gen)
       IN  \/ /\ s.snap[t] = {}
              /\ rd' = [rd EXCEPT ![r] = s]
              /\ UNCHANGED cache
           \/ /\ Cardinality(s.snap[t]) > Candidates
              /\ rd' = [rd EXCEPT ![r] = [s EXCEPT !.pc = "fallback"]]
              /\ UNCHANGED cache
           \/ /\ s.snap[t] # {} /\ Cardinality(s.snap[t]) <= Candidates
              /\ cache' = c
              /\ IF c.entries[t] = {}
                 THEN rd' = [rd EXCEPT ![r] = [s EXCEPT !.pc = "load"]]
                 ELSE LET used == [s.used EXCEPT ![t] = c.entries[t]]
                      IN  \E pc \in After(used, "words") :
                              rd' = [rd EXCEPT ![r] = [s EXCEPT !.used = used, !.pc = pc]]
    /\ UNCHANGED <<others, gate>>

(* The posting list is read from the transaction, unless it is too long. *)
Load(r) ==
    /\ rd[r].pc = "load"
    /\ rd' = [rd EXCEPT ![r].pc =
                 IF Cardinality(rd[r].snap[rd[r].word]) > TermBytes THEN "fallback" ELSE "insert"]
    /\ UNCHANGED <<others, cache, gate>>

Insert(r) ==
    LET s == rd[r]
        used == [s.used EXCEPT ![s.word] = s.snap[s.word]]
    IN  /\ s.pc = "insert"
        /\ cache' = IF Admits(cache, s.gen, s.word)
                    THEN Inserted(cache, s.word, s.snap[s.word]) ELSE cache
        /\ \E pc \in After(used, "words") :
               rd' = [rd EXCEPT ![r] = [s EXCEPT !.used = used, !.pc = pc]]
        /\ UNCHANGED <<others, gate>>

(* retrieve_ranked_terms: SQLite joins the words' postings itself. *)
Fallback(r) ==
    /\ rd[r].pc = "fallback"
    /\ rd' = [rd EXCEPT ![r] =
                 [@ EXCEPT !.pc = "ready", !.todo = {},
                           !.used = [t \in Term |-> IF t \in rd[r].words THEN rd[r].snap[t]
                                                                         ELSE {}]]]
    /\ UNCHANGED <<others, cache, gate>>

(* The hits are read from the transaction and the retrieval is over. *)
Retrieved(r) ==
    /\ rd[r].pc = "words" /\ rd[r].todo = {}
    /\ rd' = [rd EXCEPT ![r].pc = "ready"]
    /\ UNCHANGED <<others, cache, gate>>

(* The permit is dropped, at the end or on an error anywhere. *)
LeaveQuietly(r) ==
    /\ rd[r].pc \in Inside
    /\ rd' = [rd EXCEPT ![r] = NewSearch]
    /\ gate' = [gate EXCEPT !.busy = @ - 1]
    /\ UNCHANGED <<others, cache>>
LeaveUnadmitted(r) ==
    /\ rd[r].pc \in Inside \cup {"asleep"}
    /\ rd' = Woken([rd EXCEPT ![r] = NewSearch])
    /\ gate' = [gate EXCEPT !.busy = @ - 1]
    /\ UNCHANGED <<others, cache>>
Leave(r) ==
    /\ rd[r].pc \in Inside
    /\ rd' = Woken([rd EXCEPT ![r] = NewSearch])
    /\ gate' = [gate EXCEPT !.busy = @ - 1]
    /\ UNCHANGED <<others, cache>>

(* set_memory_pressure: first the cache, then the gate. *)
Measure(on) ==
    /\ monitor = "idle" /\ spent.flips < MaxFlips
    /\ spent' = [spent EXCEPT !.flips = @ + 1]
    /\ cache' = SetPressure(cache, on)
    /\ monitor' = IF on THEN "raise" ELSE "lower"
    /\ UNCHANGED <<indexVars, gate, rd>>

AdjustGate ==
    /\ monitor # "idle"
    /\ gate' = [gate EXCEPT !.pressure = (monitor = "raise")]
    /\ rd' = Woken(rd)
    /\ monitor' = "idle"
    /\ UNCHANGED <<indexVars, cache, spent>>

SearchStep(r) ==
    \/ Enter(r) \/ Begin(r)
    \/ \E words \in SUBSET Term : Retrieve(r, words)
    \/ \E t \in Term : Lookup(r, t)
    \/ Load(r) \/ Insert(r) \/ Fallback(r) \/ Retrieved(r) \/ Leave(r)

Next ==
    \/ Write
    \/ \E r \in Reader : Arrive(r) \/ SearchStep(r)
    \/ \E on \in BOOLEAN : Measure(on)
    \/ AdjustGate

Spec == Init /\ [][Next]_vars

(* Threads that can run do; a request that entered returns.                *)
Fairness ==
    /\ \A r \in Reader : WF_vars(SearchStep(r))
    /\ WF_vars(AdjustGate)
FairSpec == Spec /\ Fairness

(***************************************************************************)
(* Properties.                                                             *)
(***************************************************************************)
Entries == [Term -> SUBSET Posting]
CacheType == [generation : Nat, entries : Entries, order : Seq(Term), bytes : Nat,
              pressure : BOOLEAN]
SearchType ==
    [pc : Inside \cup Outside, gen : Nat, snap : Entries, words : SUBSET Term,
     todo : SUBSET Term, word : Term, used : Entries, retrievals : Nat]

(* Every variable has its type; the count of permits never wraps below zero. *)
TypeOK ==
    /\ generation \in Nat /\ view \in Entries
    /\ cache \in CacheType
    /\ gate \in [busy : Nat, pressure : BOOLEAN]
    /\ monitor \in {"idle", "raise", "lower"}
    /\ rd \in [Reader -> SearchType]
    /\ spent \in [queries : Nat, flips : Nat]

(* Every posting list a search scores is the one its own read transaction   *)
(* sees, although the cache is shared with searches of older and newer      *)
(* generations, so the hits can all be loaded from that transaction.        *)
ListsOfOwnSnapshot ==
    \A r \in Reader, t \in Term : rd[r].used[t] # {} => rd[r].used[t] = rd[r].snap[t]

(* What makes it so, an invariant of every step: generations only grow, one *)
(* generation has one content, in the index, in the searches' transactions  *)
(* and in the cache.                                                        *)
Searching == {r \in Reader : rd[r].pc \in Inside \ {"begin"}}
Agrees(entries, snap) == \A t \in Term : entries[t] # {} => entries[t] = snap[t]
NothingAhead ==
    /\ cache.generation <= generation
    /\ \A r \in Searching : rd[r].gen <= generation
SameGenerationSameContent ==
    /\ \A r \in Searching : rd[r].gen = generation => rd[r].snap = view
    /\ \A r, s \in Searching : rd[r].gen = rd[s].gen => rd[r].snap = rd[s].snap
CacheOfItsGeneration ==
    /\ cache.generation = generation => Agrees(cache.entries, view)
    /\ \A r \in Searching :
           cache.generation = rd[r].gen => Agrees(cache.entries, rd[r].snap)
UsedOnlyInside == \A r \in Reader \ Searching : rd[r].used = Empty
OneContent ==
    /\ NothingAhead /\ SameGenerationSameContent /\ CacheOfItsGeneration
    /\ UsedOnlyInside /\ ListsOfOwnSnapshot

(* The cache's books: its size is that of its entries and within the bound,  *)
(* the eviction order names each entry once, and under pressure it is empty, *)
(* even if searches were under way when the pressure rose.                   *)
CacheAccounted ==
    /\ cache.bytes = Size(cache.entries) /\ cache.bytes <= CacheBytes
    /\ {t \in Term : cache.entries[t] # {}} = Gone(cache.order, Len(cache.order))
    /\ Len(cache.order) = Cardinality(Gone(cache.order, Len(cache.order)))
    /\ cache.pressure => cache.entries = Empty

(* A permit is held by exactly the searches inside, whichever way they end, *)
(* and no more than the four that the gate is for.                          *)
PermitsHeld ==
    /\ gate.busy = Cardinality({r \in Reader : rd[r].pc \in Inside})
    /\ gate.busy <= Permits

(* Nobody sleeps at an open gate: a wake-up is never lost between a search   *)
(* that leaves, the pressure that falls and a search that finds it full.     *)
NoLostWakeup ==
    (\E r \in Reader : rd[r].pc = "asleep") => gate.busy >= Limit

(* A search that has arrived is served: it returns, pressure or not. *)
EveryoneServed == \A r \in Reader : (rd[r].pc = "enter") ~> (rd[r].pc = "out")
=============================================================================
