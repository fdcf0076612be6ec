---------------------------- MODULE QueryProofs -----------------------------
(***************************************************************************)
(* Theorems about QueryEngine, for every number of searches, permits, words*)
(* and postings and every size of the cache.  Three invariants, each       *)
(* inductive given the ones before it:                                     *)
(*   OneContent  one generation has one content, in the index, in the read *)
(*               transactions and in the cache, so no search scores        *)
(*               postings of another generation;                           *)
(*   GateKept    the gate counts the searches inside, and whoever sleeps   *)
(*               sleeps at a full gate;                                    *)
(*   WellKept    the cache's size is that of its entries, its order lists  *)
(*               each of them once, and under pressure it is empty.        *)
(***************************************************************************)
EXTENDS QueryEngine, FiniteSetTheorems, WellFoundedInduction, TLAPS

(* The fields the argument needs: those of the searches and, of the cache,  *)
(* the generation and the entries.                                          *)
Fields == {"generation", "entries", "order", "bytes", "pressure"}
Shape ==
    /\ generation \in Nat /\ view \in Entries
    /\ DOMAIN cache = Fields /\ cache = [f \in Fields |-> cache[f]]
    /\ cache.generation \in Nat /\ cache.entries \in Entries
    /\ rd \in [Reader -> SearchType]

USE DEF Searching, Inside, Outside, Entries, Empty

(* A request that has not begun is well-formed and has used no list. *)
LEMMA NewSearchType == NewSearch \in SearchType /\ NewSearch.pc = "out" /\ NewSearch.used = Empty
  <1>1. (CHOOSE t \in Term : TRUE) \in Term
    BY QueryAssumption
  <1>2. Empty \in Entries
    OBVIOUS
  <1> QED BY <1>1, <1>2 DEF NewSearch, SearchType

(* Whatever is published maps words to postings. *)
LEMMA ViewType == ASSUME NEW v \in View PROVE v \in Entries
  BY QueryAssumption

(***************************************************************************)
(* The operations of the cache.                                            *)
(***************************************************************************)
(* Cache::get keeps the entries of the reader's generation and no others. *)
LEMMA AtGenerationOf ==
  ASSUME Shape, NEW g \in Nat
  PROVE  LET c == AtGeneration(cache, g)
         IN  /\ DOMAIN c = Fields /\ c = [f \in Fields |-> c[f]]
             /\ c.generation = g
             /\ c.entries = IF cache.generation = g THEN cache.entries ELSE Empty
  BY DEF Shape, AtGeneration, Cleared, Fields

(* Cache::insert adds the list it is given and drops some of the others. *)
LEMMA InsertedOf ==
  ASSUME Shape, NEW t \in Term, NEW postings \in SUBSET Posting
  PROVE  LET c == Inserted(cache, t, postings)
         IN  /\ DOMAIN c = Fields /\ c = [f \in Fields |-> c[f]]
             /\ c.generation = cache.generation
             /\ c.entries \in Entries /\ c.entries[t] = postings
             /\ \A u \in Term \ {t} : c.entries[u] \in {{}, cache.entries[u]}
  <1> DEFINE n == Evictions(cache, Cardinality(postings))
             e == [Kept(cache.entries, Gone(cache.order, n)) EXCEPT ![t] = postings]
             o == Append(SubSeq(cache.order, n + 1, Len(cache.order)), t)
             b == Freed(cache, n) + Cardinality(postings)
  <1>1. Inserted(cache, t, postings) = [cache EXCEPT !.entries = e, !.order = o, !.bytes = b]
    BY DEF Inserted
  <1>2. /\ e \in Entries /\ e[t] = postings
        /\ \A u \in Term \ {t} : e[u] \in {{}, cache.entries[u]}
    <2> HIDE DEF n
    <2> QED BY DEF Kept, Shape
  <1> HIDE DEF e, o, b
  <1> QED BY <1>1, <1>2 DEF Shape, Fields

(* set_pressure empties the cache or leaves its entries alone. *)
LEMMA SetPressureOf ==
  ASSUME Shape, NEW on \in BOOLEAN
  PROVE  LET c == SetPressure(cache, on)
         IN  /\ DOMAIN c = Fields /\ c = [f \in Fields |-> c[f]]
             /\ c.generation = cache.generation
             /\ c.entries = IF on THEN Empty ELSE cache.entries
  BY DEF Shape, SetPressure, Cleared, Fields

(***************************************************************************)
(* The steps.                                                              *)
(***************************************************************************)
(* What the cache of a step must satisfy. *)
SoundCache(c) ==
    /\ c.generation <= generation
    /\ c.generation = generation => Agrees(c.entries, view)
    /\ \A r \in Searching : c.generation = rd[r].gen => Agrees(c.entries, rd[r].snap)

(* The invariant says so of the present cache. *)
LEMMA OwnCacheSound == ASSUME OneContent PROVE SoundCache(cache)
  BY DEF OneContent, NothingAhead, CacheOfItsGeneration, SoundCache

(* A step that begins no transaction and changes no content. *)
LEMMA SearchKeeps ==
  ASSUME Shape, OneContent, UNCHANGED <<generation, view>>, SoundCache(cache'),
         rd' \in [Reader -> SearchType],
         \A r \in Reader :
             /\ r \in Searching' => /\ r \in Searching
                                    /\ rd'[r].gen = rd[r].gen /\ rd'[r].snap = rd[r].snap
                                    /\ Agrees(rd'[r].used, rd[r].snap)
             /\ r \notin Searching' => rd'[r].used = Empty
  PROVE  OneContent'
  <1>1. NothingAhead'
    BY DEF OneContent, NothingAhead, SoundCache
  <1>2. SameGenerationSameContent'
    BY DEF OneContent, SameGenerationSameContent
  <1>3. CacheOfItsGeneration'
    BY DEF OneContent, CacheOfItsGeneration, SoundCache, Agrees
  <1>4. UsedOnlyInside'
    BY DEF UsedOnlyInside
  <1>5. ListsOfOwnSnapshot'
    BY DEF ListsOfOwnSnapshot, Agrees
  <1> QED BY <1>1, <1>2, <1>3, <1>4, <1>5 DEF OneContent

(* The fields of one search that a step may set. *)
LEMMA OneSearch ==
  ASSUME Shape, OneContent, UNCHANGED <<generation, view>>, SoundCache(cache'),
         NEW r \in Searching, NEW s \in SearchType, rd' = [rd EXCEPT ![r] = s],
         s.pc \in Inside \ {"begin"}, s.gen = rd[r].gen, s.snap = rd[r].snap,
         Agrees(s.used, s.snap)
  PROVE  OneContent' /\ rd' \in [Reader -> SearchType]
  <1>1. rd' \in [Reader -> SearchType] /\ r \in Reader
    BY DEF Shape
  <1>2. \A q \in Reader :
             /\ q \in Searching' => /\ q \in Searching
                                    /\ rd'[q].gen = rd[q].gen /\ rd'[q].snap = rd[q].snap
                                    /\ Agrees(rd'[q].used, rd[q].snap)
             /\ q \notin Searching' => rd'[q].used = Empty
    <2> TAKE q \in Reader
    <2>1. CASE q = r
      BY <1>1, <2>1 DEF Shape
    <2>2. CASE q # r
      <3>1. rd'[q] = rd[q]
        BY <1>1, <2>2 DEF Shape
      <3>2. Agrees(rd[q].used, rd[q].snap)
        BY DEF OneContent, ListsOfOwnSnapshot, Agrees
      <3>3. q \notin Searching => rd[q].used = Empty
        BY DEF OneContent, UsedOnlyInside
      <3> QED BY <3>1, <3>2, <3>3
    <2> QED BY <2>1, <2>2
  <1> QED BY <1>1, <1>2, SearchKeeps

(* A step of searches outside, or of one that leaves. *)
LEMMA OutsideKeeps ==
  ASSUME Shape, OneContent, UNCHANGED <<generation, view, cache>>,
         rd' \in [Reader -> SearchType],
         \A q \in Reader : \/ /\ rd'[q].pc = rd[q].pc /\ rd'[q].gen = rd[q].gen
                              /\ rd'[q].snap = rd[q].snap /\ rd'[q].used = rd[q].used
                           \/ /\ rd'[q].pc \notin Inside \ {"begin"}
                              /\ rd'[q].used = Empty
  PROVE  OneContent'
  <1>1. SoundCache(cache')
    <2>1. SoundCache(cache)
      BY OwnCacheSound
    <2> QED BY <2>1
  <1>2. \A q \in Reader :
             /\ q \in Searching' => /\ q \in Searching
                                    /\ rd'[q].gen = rd[q].gen /\ rd'[q].snap = rd[q].snap
                                    /\ Agrees(rd'[q].used, rd[q].snap)
             /\ q \notin Searching' => rd'[q].used = Empty
    <2> TAKE q \in Reader
    <2>1. CASE /\ rd'[q].pc = rd[q].pc /\ rd'[q].gen = rd[q].gen
               /\ rd'[q].snap = rd[q].snap /\ rd'[q].used = rd[q].used
      <3>1. q \in Searching' <=> q \in Searching
        BY <2>1
      <3>2. Agrees(rd[q].used, rd[q].snap)
        BY DEF OneContent, ListsOfOwnSnapshot, Agrees
      <3>3. q \notin Searching => rd[q].used = Empty
        BY DEF OneContent, UsedOnlyInside
      <3> QED BY <2>1, <3>1, <3>2, <3>3
    <2>2. CASE rd'[q].pc \notin Inside \ {"begin"} /\ rd'[q].used = Empty
      BY <2>2
    <2> QED BY <2>1, <2>2
  <1> QED BY <1>1, <1>2, SearchKeeps

(***************************************************************************)
(* The searches' steps.                                                    *)
(***************************************************************************)
(* Moving a search to another point of the code keeps it well-formed. *)
LEMMA PcType ==
  ASSUME NEW s \in SearchType, NEW pc \in Inside \cup Outside
  PROVE  [s EXCEPT !.pc = pc] \in SearchType
  <1> HIDE DEF Entries
  <1> QED BY DEF SearchType

(* A request that arrives has used no list. *)
LEMMA ArriveKeeps ==
  ASSUME Shape, OneContent, NEW r \in Reader, Arrive(r)
  PROVE  Shape' /\ OneContent'
  <1>0. rd' = [rd EXCEPT ![r].pc = "enter"]
    BY DEF Arrive
  <1>1. rd' \in [Reader -> SearchType]
    BY <1>0, PcType DEF Shape
  <1>2. Shape'
    BY <1>1 DEF Arrive, Shape, indexVars
  <1>3. \A q \in Reader : \/ /\ rd'[q].pc = rd[q].pc /\ rd'[q].gen = rd[q].gen
                              /\ rd'[q].snap = rd[q].snap /\ rd'[q].used = rd[q].used
                           \/ /\ rd'[q].pc \notin Inside \ {"begin"}
                              /\ rd'[q].used = Empty
    <2>1. rd[r].used = Empty
      BY DEF OneContent, UsedOnlyInside, Arrive
    <2>2. rd' = [rd EXCEPT ![r].pc = "enter"]
      BY DEF Arrive
    <2> QED BY <2>1, <2>2 DEF Shape, SearchType
  <1> QED BY <1>1, <1>2, <1>3, OutsideKeeps DEF Arrive, indexVars

(* Neither has one that waits at the gate or is let in. *)
LEMMA EnterKeeps ==
  ASSUME Shape, OneContent, NEW r \in Reader, Enter(r)
  PROVE  Shape' /\ OneContent'
  <1>0. PICK pc \in {"asleep", "begin"} : rd' = [rd EXCEPT ![r].pc = pc]
    BY DEF Enter
  <1>1. rd' \in [Reader -> SearchType]
    BY <1>0, PcType DEF Shape
  <1>2. Shape'
    BY <1>1 DEF Enter, Shape, others, indexVars
  <1>3. \A q \in Reader : \/ /\ rd'[q].pc = rd[q].pc /\ rd'[q].gen = rd[q].gen
                              /\ rd'[q].snap = rd[q].snap /\ rd'[q].used = rd[q].used
                           \/ /\ rd'[q].pc \notin Inside \ {"begin"}
                              /\ rd'[q].used = Empty
    <2>1. rd[r].used = Empty
      BY DEF OneContent, UsedOnlyInside, Enter
    <2> QED BY <1>0, <2>1 DEF Shape, SearchType
  <1> QED BY <1>1, <1>2, <1>3, OutsideKeeps DEF Enter, others, indexVars

(* Whoever is woken is outside, before and after. *)
LEMMA WokenIs ==
  ASSUME NEW s \in [Reader -> SearchType]
  PROVE  /\ Woken(s) \in [Reader -> SearchType]
         /\ \A q \in Reader :
                \/ Woken(s)[q] = s[q]
                \/ /\ s[q].pc = "asleep" /\ Woken(s)[q].pc = "enter"
                   /\ Woken(s)[q].used = s[q].used
  BY DEF Woken, SearchType

(* A search that returns forgets its lists and wakes only searches outside. *)
LEMMA LeaveKeeps ==
  ASSUME Shape, OneContent, NEW r \in Reader, Leave(r)
  PROVE  Shape' /\ OneContent'
  <1> DEFINE s == [rd EXCEPT ![r] = NewSearch]
  <1>1. s \in [Reader -> SearchType]
    BY NewSearchType DEF Shape
  <1>2. s[r] = NewSearch /\ \A q \in Reader \ {r} : s[q] = rd[q]
    BY DEF Shape
  <1>3. rd' = Woken(s) /\ UNCHANGED <<generation, view, cache>>
    BY DEF Leave, others, indexVars
  <1> HIDE DEF s
  <1>4. Shape'
    BY <1>1, <1>3, WokenIs DEF Shape
  <1>5. \A q \in Reader : \/ /\ rd'[q].pc = rd[q].pc /\ rd'[q].gen = rd[q].gen
                              /\ rd'[q].snap = rd[q].snap /\ rd'[q].used = rd[q].used
                           \/ /\ rd'[q].pc \notin Inside \ {"begin"}
                              /\ rd'[q].used = Empty
    <2> TAKE q \in Reader
    <2>1. CASE q = r
      BY <2>1, <1>1, <1>2, <1>3, WokenIs, NewSearchType
    <2>2. CASE q # r
      <3>1. rd[q].pc = "asleep" => rd[q].used = Empty
        BY DEF OneContent, UsedOnlyInside
      <3> QED BY <2>2, <3>1, <1>1, <1>2, <1>3, WokenIs
    <2> QED BY <2>1, <2>2
  <1> QED BY <1>3, <1>4, <1>5, OutsideKeeps DEF Shape

(* A transaction begins with the content of the present generation. *)
LEMMA BeginKeeps ==
  ASSUME Shape, OneContent, NEW r \in Reader, Begin(r)
  PROVE  Shape' /\ OneContent'
  <1> DEFINE s == [rd[r] EXCEPT !.pc = "ready", !.gen = generation, !.snap = view]
  <1>1. /\ s \in SearchType /\ s.pc = "ready" /\ s.gen = generation /\ s.snap = view
        /\ s.used = Empty
    <2>1. rd[r].used = Empty /\ rd[r] \in SearchType /\ generation \in Nat /\ view \in Entries
      BY DEF OneContent, UsedOnlyInside, Begin, Shape
    <2> HIDE DEF Entries, Empty
    <2> QED BY <2>1 DEF SearchType
  <1>2. rd' = [rd EXCEPT ![r] = s] /\ UNCHANGED <<generation, view, cache>>
    BY DEF Begin, others, indexVars
  <1> HIDE DEF s
  <1>3. /\ rd' \in [Reader -> SearchType] /\ rd'[r] = s
        /\ \A q \in Reader \ {r} : rd'[q] = rd[q]
    BY <1>1, <1>2 DEF Shape
  <1>4. Shape'
    BY <1>2, <1>3 DEF Shape
  <1>5. Searching' = Searching \cup {r}
    BY <1>1, <1>3 DEF Begin
  <1>6. NothingAhead'
    BY <1>1, <1>2, <1>3, <1>5 DEF OneContent, NothingAhead, Shape
  <1>7. SameGenerationSameContent'
    BY <1>1, <1>2, <1>3, <1>5 DEF OneContent, SameGenerationSameContent
  <1>8. CacheOfItsGeneration'
    BY <1>1, <1>2, <1>3, <1>5 DEF OneContent, CacheOfItsGeneration, Agrees
  <1>9. UsedOnlyInside'
    BY <1>1, <1>3, <1>5 DEF OneContent, UsedOnlyInside
  <1>10. ListsOfOwnSnapshot'
    <2>1. \A t \in Term : s.used[t] = {}
      BY <1>1
    <2> QED BY <2>1, <1>3 DEF OneContent, ListsOfOwnSnapshot
  <1> QED BY <1>4, <1>6, <1>7, <1>8, <1>9, <1>10 DEF OneContent

(* A step of a search that leaves the cache alone. *)
LEMMA OneSearchOnly ==
  ASSUME Shape, OneContent, UNCHANGED <<generation, view, cache>>,
         NEW r \in Searching, NEW s \in SearchType, rd' = [rd EXCEPT ![r] = s],
         s.pc \in Inside \ {"begin"}, s.gen = rd[r].gen, s.snap = rd[r].snap,
         Agrees(s.used, s.snap)
  PROVE  Shape' /\ OneContent'
  <1>1. SoundCache(cache')
    <2>1. SoundCache(cache)
      BY OwnCacheSound
    <2> QED BY <2>1
  <1>2. OneContent' /\ rd' \in [Reader -> SearchType]
    <2> HIDE DEF Searching, Inside
    <2> QED BY <1>1, OneSearch
  <1> QED BY <1>2 DEF Shape

(* What is known of a search inside. *)
LEMMA Inner ==
  ASSUME Shape, OneContent, NEW r \in Searching
  PROVE  /\ r \in Reader /\ rd[r] \in SearchType
         /\ rd[r].gen \in Nat /\ rd[r].snap \in Entries /\ rd[r].used \in Entries
         /\ rd[r].todo \in SUBSET Term /\ rd[r].words \in SUBSET Term
         /\ rd[r].word \in Term /\ rd[r].retrievals \in Nat
         /\ Agrees(rd[r].used, rd[r].snap)
  <1>1. r \in Reader /\ rd[r] \in SearchType
    BY DEF Shape
  <1>2. Agrees(rd[r].used, rd[r].snap)
    BY DEF OneContent, ListsOfOwnSnapshot, Agrees
  <1> QED BY <1>1, <1>2 DEF SearchType

(* A new word list starts with no list used. *)
LEMMA RetrieveKeeps ==
  ASSUME Shape, OneContent, NEW r \in Reader, NEW words \in SUBSET Term, Retrieve(r, words)
  PROVE  Shape' /\ OneContent'
  <1>0. r \in Searching /\ UNCHANGED <<generation, view, cache>>
    BY DEF Retrieve, others, indexVars
  <1> DEFINE n == rd[r].retrievals + 1
             New(pc) == [rd[r] EXCEPT !.pc = pc, !.words = words, !.todo = words,
                                      !.used = Empty, !.retrievals = n]
  <1>1. PICK pc \in {"fallback", "words"} : rd' = [rd EXCEPT ![r] = New(pc)]
    <2> DEFINE pc == IF cache.pressure THEN "fallback" ELSE "words"
    <2>1. pc \in {"fallback", "words"}
      OBVIOUS
    <2>2. rd' = [rd EXCEPT ![r] = New(pc)]
      BY Zenon DEF Retrieve
    <2> HIDE DEF pc
    <2> QED BY <2>1, <2>2, Zenon
  <1> DEFINE s == New(pc)
  <1>2. rd' = [rd EXCEPT ![r] = s]
    BY <1>1
  <1>3. Empty \in Entries /\ Agrees(Empty, rd[r].snap) /\ n \in Nat
    BY <1>0, Inner DEF Agrees
  <1>4. /\ s \in SearchType /\ s.pc = pc /\ s.gen = rd[r].gen
        /\ s.snap = rd[r].snap /\ s.used = Empty
    <2>1. rd[r] \in SearchType
      BY <1>0, Inner
    <2> HIDE DEF Entries, Empty, Searching, n
    <2> QED BY <2>1, <1>3 DEF SearchType
  <1> HIDE DEF s
  <1>5. Agrees(s.used, s.snap) /\ s.pc \in Inside \ {"begin"}
    BY <1>1, <1>3, <1>4
  <1> HIDE DEF Searching, Inside
  <1> QED BY <1>0, <1>2, <1>4, <1>5, OneSearchOnly

(* After a list is used the search goes on or falls back on SQLite. *)
LEMMA AfterIs ==
  ASSUME NEW used, NEW pc \in After(used, "words")
  PROVE  pc \in {"words", "fallback"}
  BY DEF After

(* A search that has taken a list, from the cache or from its transaction. *)
LEMMA Took ==
  ASSUME Shape, OneContent, UNCHANGED <<generation, view>>, SoundCache(cache'),
         NEW r \in Searching, NEW s \in SearchType, NEW t \in Term, NEW postings,
         s.gen = rd[r].gen, s.snap = rd[r].snap, s.used = rd[r].used,
         postings = s.snap[t],
         NEW pc \in {"words", "fallback"},
         rd' = [rd EXCEPT ![r] = [s EXCEPT !.used = [s.used EXCEPT ![t] = postings], !.pc = pc]]
  PROVE  OneContent' /\ rd' \in [Reader -> SearchType]
  <1> DEFINE used == [s.used EXCEPT ![t] = postings]
             n == [s EXCEPT !.used = used, !.pc = pc]
  <1>1. s.snap \in Entries /\ s.used \in Entries /\ Agrees(s.used, s.snap)
    BY Inner
  <1>2. used \in Entries /\ Agrees(used, s.snap)
    BY <1>1 DEF Agrees
  <1>3. rd' = [rd EXCEPT ![r] = n]
    BY Zenon
  <1> HIDE DEF used
  <1>4. n \in SearchType /\ n.pc = pc /\ n.gen = s.gen /\ n.snap = s.snap /\ n.used = used
    <2> HIDE DEF Entries, Searching
    <2> QED BY <1>2 DEF SearchType
  <1> HIDE DEF n
  <1>5. Agrees(n.used, n.snap) /\ n.pc \in Inside \ {"begin"}
    BY <1>2, <1>4
  <1> HIDE DEF Searching, Inside
  <1>6. n.gen = rd[r].gen /\ n.snap = rd[r].snap /\ n \in SearchType
    BY <1>4
  <1> QED BY <1>3, <1>5, <1>6, OneSearch, Zenon

(* A cached list of the search's generation is its transaction's list. *)
LEMMA LookupKeeps ==
  ASSUME Shape, OneContent, NEW r \in Reader, NEW t \in Term, Lookup(r, t)
  PROVE  Shape' /\ OneContent'
  <1>0. r \in Searching /\ UNCHANGED <<generation, view>>
    BY DEF Lookup, others, indexVars
  <1> DEFINE rest == rd[r].todo \ {t}
             s == [rd[r] EXCEPT !.todo = rest, !.word = t]
             c == AtGeneration(cache, s.gen)
  <1>1. /\ s \in SearchType /\ s.pc = rd[r].pc /\ s.gen = rd[r].gen /\ s.snap = rd[r].snap
        /\ s.used = rd[r].used
    <2>1. rd[r] \in SearchType /\ rest \in SUBSET Term
      BY <1>0, Inner
    <2> HIDE DEF Entries, Searching, rest
    <2> QED BY <2>1 DEF SearchType
  <1>2. \/ rd' = [rd EXCEPT ![r] = s] /\ UNCHANGED cache
        \/ rd' = [rd EXCEPT ![r] = [s EXCEPT !.pc = "fallback"]] /\ UNCHANGED cache
        \/ rd' = [rd EXCEPT ![r] = [s EXCEPT !.pc = "load"]] /\ cache' = c
        \/ /\ c.entries[t] # {} /\ cache' = c
           /\ \E pc \in After([s.used EXCEPT ![t] = c.entries[t]], "words") :
                  rd' = [rd EXCEPT ![r] =
                            [s EXCEPT !.used = [s.used EXCEPT ![t] = c.entries[t]], !.pc = pc]]
    BY Zenon DEF Lookup
  <1>3. rd[r].pc = "words"
    BY DEF Lookup
  <1> HIDE DEF s
  <1>4. Agrees(s.used, s.snap) /\ s.gen \in Nat /\ s.gen <= generation
    BY <1>0, <1>1, Inner DEF OneContent, NothingAhead
  <1>5. /\ SoundCache(c) /\ \A u \in Term : c.entries[u] # {} => c.entries[u] = s.snap[u]
        /\ DOMAIN c = Fields /\ c = [f \in Fields |-> c[f]]
        /\ c.generation \in Nat /\ c.entries \in Entries
    <2>1. /\ DOMAIN c = Fields /\ c = [f \in Fields |-> c[f]] /\ c.generation = s.gen
          /\ c.entries = IF cache.generation = s.gen THEN cache.entries ELSE Empty
      BY <1>4, AtGenerationOf
    <2>2. CASE cache.generation = s.gen
      <3>1. SoundCache(cache) /\ c.entries = cache.entries /\ c.generation = cache.generation
        BY <2>1, <2>2, OwnCacheSound
      <3>2. Agrees(c.entries, s.snap)
        BY <3>1, <2>2, <1>0, <1>1 DEF SoundCache
      <3> QED BY <3>1, <3>2, <2>1, <1>4 DEF SoundCache, Agrees, Shape
    <2>3. CASE cache.generation # s.gen
      BY <2>1, <2>3, <1>4 DEF SoundCache, Agrees
    <2> QED BY <2>2, <2>3
  <1> HIDE DEF c
  <1>6. CASE rd' = [rd EXCEPT ![r] = s] /\ UNCHANGED cache
    <2>1. s.pc \in Inside \ {"begin"}
      BY <1>1, <1>3
    <2> HIDE DEF Searching, Inside
    <2> QED BY <1>0, <1>1, <1>4, <1>6, <2>1, OneSearchOnly
  <1>7. ASSUME NEW pc \in {"fallback", "load"}, cache' \in {cache, c},
               rd' = [rd EXCEPT ![r] = [s EXCEPT !.pc = pc]]
        PROVE  Shape' /\ OneContent'
    <2> DEFINE n == [s EXCEPT !.pc = pc]
    <2>1. /\ n \in SearchType /\ n.pc = pc /\ n.gen = s.gen /\ n.snap = s.snap
          /\ n.used = s.used
      <3> HIDE DEF Entries
      <3> QED BY <1>1 DEF SearchType
    <2>2. rd' = [rd EXCEPT ![r] = n]
      BY <1>7, Zenon
    <2> HIDE DEF n
    <2>3. n.pc \in Inside \ {"begin"} /\ Agrees(n.used, n.snap)
      BY <1>4, <2>1
    <2>4. SoundCache(cache')
      BY <1>5, <1>7, OwnCacheSound, Zenon
    <2>5. OneContent' /\ rd' \in [Reader -> SearchType]
      <3> HIDE DEF Searching, Inside
      <3> QED BY <1>0, <1>1, <2>1, <2>2, <2>3, <2>4, OneSearch
    <2> QED BY <1>0, <1>5, <1>7, <2>5 DEF Shape
  <1>8. ASSUME c.entries[t] # {}, cache' = c,
               NEW pc \in After([s.used EXCEPT ![t] = c.entries[t]], "words"),
               rd' = [rd EXCEPT ![r] =
                         [s EXCEPT !.used = [s.used EXCEPT ![t] = c.entries[t]], !.pc = pc]]
        PROVE  Shape' /\ OneContent'
    <2>1. pc \in {"words", "fallback"}
      BY AfterIs
    <2>2. c.entries[t] = s.snap[t] /\ SoundCache(cache')
      BY <1>5, <1>8
    <2>3. OneContent' /\ rd' \in [Reader -> SearchType]
      <3> HIDE DEF Searching, Inside
      <3> QED BY <1>0, <1>1, <1>8, <2>1, <2>2, Took
    <2> QED BY <1>0, <1>5, <1>8, <2>3 DEF Shape
  <1> QED BY <1>2, <1>6, <1>7, <1>8

(* Reading a list, or finishing, uses no new list. *)
LEMMA LoadKeeps ==
  ASSUME Shape, OneContent, NEW r \in Reader, Load(r) \/ Retrieved(r)
  PROVE  Shape' /\ OneContent'
  <1>0. r \in Searching /\ UNCHANGED <<generation, view, cache>>
    BY DEF Load, Retrieved, others, indexVars
  <1> DEFINE n(pc) == [rd[r] EXCEPT !.pc = pc]
  <1>1. PICK pc \in {"fallback", "insert", "ready"} : rd' = [rd EXCEPT ![r] = n(pc)]
    BY DEF Load, Retrieved
  <1>2. /\ n(pc) \in SearchType /\ n(pc).pc = pc /\ n(pc).gen = rd[r].gen
        /\ n(pc).snap = rd[r].snap /\ n(pc).used = rd[r].used
    <2>1. rd[r] \in SearchType
      BY <1>0, Inner
    <2> HIDE DEF Entries, Searching
    <2> QED BY <2>1 DEF SearchType
  <1> HIDE DEF n
  <1>3. Agrees(n(pc).used, n(pc).snap) /\ n(pc).pc \in Inside \ {"begin"}
    BY <1>0, <1>2, Inner
  <1> HIDE DEF Searching, Inside
  <1> QED BY <1>0, <1>1, <1>2, <1>3, OneSearchOnly

(* SQLite joins the lists of the transaction itself. *)
LEMMA FallbackKeeps ==
  ASSUME Shape, OneContent, NEW r \in Reader, Fallback(r)
  PROVE  Shape' /\ OneContent'
  <1>0. r \in Searching /\ UNCHANGED <<generation, view, cache>>
    BY DEF Fallback, others, indexVars
  <1> DEFINE used == [t \in Term |-> IF t \in rd[r].words THEN rd[r].snap[t] ELSE {}]
             n == [rd[r] EXCEPT !.pc = "ready", !.todo = {}, !.used = used]
  <1>1. rd' = [rd EXCEPT ![r] = n]
    BY Zenon DEF Fallback
  <1>2. used \in Entries /\ Agrees(used, rd[r].snap)
    BY <1>0, Inner DEF Agrees
  <1> HIDE DEF used
  <1>3. /\ n \in SearchType /\ n.pc = "ready" /\ n.gen = rd[r].gen /\ n.snap = rd[r].snap
        /\ n.used = used
    <2>1. rd[r] \in SearchType
      BY <1>0, Inner
    <2> HIDE DEF Entries, Searching
    <2> QED BY <2>1, <1>2 DEF SearchType
  <1> HIDE DEF n
  <1>4. Agrees(n.used, n.snap) /\ n.pc \in Inside \ {"begin"}
    BY <1>2, <1>3
  <1> HIDE DEF Searching, Inside
  <1> QED BY <1>0, <1>1, <1>3, <1>4, OneSearchOnly

(* The list a search caches is that of the cache's generation. *)
LEMMA InsertKeeps ==
  ASSUME Shape, OneContent, NEW r \in Reader, Insert(r)
  PROVE  Shape' /\ OneContent'
  <1>0. r \in Searching /\ UNCHANGED <<generation, view>>
    BY DEF Insert, others, indexVars
  <1> DEFINE s == rd[r]
             t == s.word
             postings == s.snap[t]
             c == Inserted(cache, t, postings)
  <1>1. /\ s \in SearchType /\ t \in Term /\ postings \in SUBSET Posting
        /\ s.gen \in Nat /\ s.snap \in Entries
    BY <1>0, Inner
  <1>2. /\ \/ cache' = cache
           \/ cache.generation = s.gen /\ cache' = c
        /\ \E pc \in After([s.used EXCEPT ![t] = postings], "words") :
               rd' = [rd EXCEPT ![r] = [s EXCEPT !.used = [s.used EXCEPT ![t] = postings],
                                                 !.pc = pc]]
    BY Zenon DEF Insert, Admits
  <1>3. /\ DOMAIN c = Fields /\ c = [f \in Fields |-> c[f]]
        /\ c.generation = cache.generation /\ c.entries \in Entries /\ c.entries[t] = postings
        /\ \A u \in Term \ {t} : c.entries[u] \in {{}, cache.entries[u]}
    <2> HIDE DEF t, postings
    <2> QED BY <1>1, InsertedOf
  <1> HIDE DEF c
  <1>4. SoundCache(cache')
    <2>1. CASE cache' = cache
      BY <2>1, OwnCacheSound
    <2>2. CASE cache.generation = s.gen /\ cache' = c
      <3>1. SoundCache(cache)
        BY OwnCacheSound
      <3>2. /\ s.gen = generation => s.snap = view
            /\ \A q \in Searching : rd[q].gen = s.gen => rd[q].snap = s.snap
        BY <1>0 DEF OneContent, SameGenerationSameContent
      <3>3. ASSUME NEW snap, Agrees(cache.entries, snap), snap = s.snap
            PROVE  Agrees(c.entries, snap)
        BY <1>3, <3>3 DEF Agrees
      <3>4. c.generation <= generation
        BY <1>3, <3>1 DEF SoundCache
      <3>5. c.generation = generation => Agrees(c.entries, view)
        BY <1>3, <2>2, <3>1, <3>2, <3>3 DEF SoundCache
      <3>6. ASSUME NEW q \in Searching, c.generation = rd[q].gen
            PROVE  Agrees(c.entries, rd[q].snap)
        <4>1. rd[q].gen = s.gen /\ rd[q].snap = s.snap /\ cache.generation = rd[q].gen
          BY <1>3, <2>2, <3>2, <3>6
        <4>2. Agrees(cache.entries, rd[q].snap)
          BY <3>1, <4>1 DEF SoundCache
        <4> QED BY <3>3, <4>1, <4>2
      <3> QED BY <2>2, <3>4, <3>5, <3>6 DEF SoundCache
    <2> QED BY <1>2, <2>1, <2>2
  <1>5. PICK pc \in {"words", "fallback"} :
            rd' = [rd EXCEPT ![r] = [s EXCEPT !.used = [s.used EXCEPT ![t] = postings],
                                              !.pc = pc]]
    BY <1>2, AfterIs, Zenon
  <1>6. OneContent' /\ rd' \in [Reader -> SearchType]
    <2> DEFINE p == postings
               u == t
    <2>1. p = s.snap[u] /\ u \in Term
      BY <1>1
    <2> HIDE DEF Searching, Inside
    <2> QED BY <1>0, <1>1, <1>4, <1>5, <2>1, Took
  <1> QED BY <1>0, <1>2, <1>3, <1>6 DEF Shape
(***************************************************************************)
(* The writer, the monitor, and the specification.                         *)
(***************************************************************************)
(* A commit takes a generation that no transaction has seen. *)
LEMMA WriteKeeps ==
  ASSUME Shape, OneContent, Write
  PROVE  Shape' /\ OneContent'
  <1>1. /\ generation' = generation + 1 /\ view' \in Entries
        /\ UNCHANGED <<cache, rd>>
    BY ViewType DEF Write, Publish
  <1>2. Shape'
    BY <1>1 DEF Shape
  <1>3. Searching' = Searching
    BY <1>1
  <1>4. /\ generation \in Nat /\ cache.generation \in Nat
        /\ \A r \in Searching : rd[r].gen \in Nat
    BY Inner DEF Shape
  <1>5. NothingAhead'
    BY <1>1, <1>3, <1>4 DEF OneContent, NothingAhead
  <1>6. SameGenerationSameContent'
    BY <1>1, <1>3, <1>4 DEF OneContent, NothingAhead, SameGenerationSameContent
  <1>7. CacheOfItsGeneration'
    BY <1>1, <1>3, <1>4 DEF OneContent, NothingAhead, CacheOfItsGeneration
  <1>8. UsedOnlyInside' /\ ListsOfOwnSnapshot'
    BY <1>1, <1>3 DEF OneContent, UsedOnlyInside, ListsOfOwnSnapshot
  <1> QED BY <1>2, <1>5, <1>6, <1>7, <1>8 DEF OneContent

(* The monitor empties the cache or leaves its entries as they are. *)
LEMMA MeasureKeeps ==
  ASSUME Shape, OneContent, NEW on \in BOOLEAN, Measure(on)
  PROVE  Shape' /\ OneContent'
  <1> DEFINE c == SetPressure(cache, on)
  <1>1. cache' = c /\ UNCHANGED <<generation, view, rd>>
    BY DEF Measure, indexVars
  <1>2. /\ DOMAIN c = Fields /\ c = [f \in Fields |-> c[f]]
        /\ c.generation = cache.generation
        /\ c.entries = IF on THEN Empty ELSE cache.entries
    BY SetPressureOf
  <1> HIDE DEF c
  <1>3. Shape'
    BY <1>1, <1>2 DEF Shape
  <1>4. SoundCache(cache')
    <2>1. SoundCache(cache)
      BY OwnCacheSound
    <2> QED BY <1>1, <1>2, <2>1 DEF SoundCache, Agrees
  <1>5. \A q \in Reader :
             /\ q \in Searching' => /\ q \in Searching
                                    /\ rd'[q].gen = rd[q].gen /\ rd'[q].snap = rd[q].snap
                                    /\ Agrees(rd'[q].used, rd[q].snap)
             /\ q \notin Searching' => rd'[q].used = Empty
    BY <1>1 DEF OneContent, ListsOfOwnSnapshot, UsedOnlyInside, Agrees
  <1> QED BY <1>1, <1>3, <1>4, <1>5, SearchKeeps DEF Shape

(* Adjusting the gate only wakes searches that are outside. *)
LEMMA AdjustGateKeeps ==
  ASSUME Shape, OneContent, AdjustGate
  PROVE  Shape' /\ OneContent'
  <1>1. rd' = Woken(rd) /\ UNCHANGED <<generation, view, cache>>
    BY DEF AdjustGate, indexVars
  <1>2. Shape'
    BY <1>1, WokenIs DEF Shape
  <1>3. \A q \in Reader : \/ /\ rd'[q].pc = rd[q].pc /\ rd'[q].gen = rd[q].gen
                              /\ rd'[q].snap = rd[q].snap /\ rd'[q].used = rd[q].used
                           \/ /\ rd'[q].pc \notin Inside \ {"begin"}
                              /\ rd'[q].used = Empty
    <2> TAKE q \in Reader
    <2>1. rd[q].pc = "asleep" => rd[q].used = Empty
      BY DEF OneContent, UsedOnlyInside
    <2> QED BY <1>1, <2>1, WokenIs DEF Shape
  <1> QED BY <1>1, <1>2, <1>3, OutsideKeeps DEF Shape

(* Before any search the cache is empty. *)
LEMMA InitOneContent == Init => Shape /\ OneContent
  <1> SUFFICES ASSUME Init PROVE Shape /\ OneContent
    OBVIOUS
  <1>1. /\ generation = 0 /\ view \in Entries
        /\ cache = NewCache /\ rd = [r \in Reader |-> NewSearch]
    BY ViewType DEF Init, ViewInit
  <1>2. Shape
    BY <1>1, NewSearchType DEF Shape, NewCache, Fields
  <1>3. Searching = {} /\ \A r \in Reader : rd[r].used = Empty
    BY <1>1, NewSearchType
  <1>4. cache.generation = 0 /\ cache.entries = Empty
    BY <1>1 DEF NewCache
  <1>5. NothingAhead /\ SameGenerationSameContent
    BY <1>1, <1>3, <1>4 DEF NothingAhead, SameGenerationSameContent
  <1>6. CacheOfItsGeneration
    BY <1>3, <1>4 DEF CacheOfItsGeneration, Agrees
  <1>7. UsedOnlyInside /\ ListsOfOwnSnapshot
    BY <1>3 DEF UsedOnlyInside, ListsOfOwnSnapshot
  <1> QED BY <1>2, <1>5, <1>6, <1>7 DEF OneContent

(* Every step, of any search, of the writer or of the monitor, keeps the    *)
(* invariant.                                                              *)
LEMMA NextKeeps ==
  ASSUME Shape, OneContent, [Next]_vars
  PROVE  Shape' /\ OneContent'
  <1>1. CASE Write
    BY <1>1, WriteKeeps
  <1>2. ASSUME NEW r \in Reader, Arrive(r)
        PROVE  Shape' /\ OneContent'
    BY <1>2, ArriveKeeps
  <1>3. ASSUME NEW r \in Reader, SearchStep(r)
        PROVE  Shape' /\ OneContent'
    <2>1. CASE Enter(r)
      BY <2>1, EnterKeeps
    <2>2. CASE Begin(r)
      BY <2>2, BeginKeeps
    <2>3. ASSUME NEW words \in SUBSET Term, Retrieve(r, words)
          PROVE  Shape' /\ OneContent'
      BY <2>3, RetrieveKeeps
    <2>4. ASSUME NEW t \in Term, Lookup(r, t)
          PROVE  Shape' /\ OneContent'
      BY <2>4, LookupKeeps
    <2>5. CASE Load(r) \/ Retrieved(r)
      BY <2>5, LoadKeeps
    <2>6. CASE Insert(r)
      BY <2>6, InsertKeeps
    <2>7. CASE Fallback(r)
      BY <2>7, FallbackKeeps
    <2>8. CASE Leave(r)
      BY <2>8, LeaveKeeps
    <2> HIDE DEF Searching, Inside, Outside, Entries, Empty
    <2> QED BY <1>3, <2>1, <2>2, <2>3, <2>4, <2>5, <2>6, <2>7, <2>8 DEF SearchStep
  <1>4. ASSUME NEW on \in BOOLEAN, Measure(on)
        PROVE  Shape' /\ OneContent'
    BY <1>4, MeasureKeeps
  <1>5. CASE AdjustGate
    BY <1>5, AdjustGateKeeps
  <1>6. CASE UNCHANGED vars
    <2>1. UNCHANGED <<generation, view, cache, rd>>
      BY <1>6 DEF vars
    <2>2. Shape'
      BY <2>1 DEF Shape
    <2>3. \A q \in Reader :
              /\ rd'[q].pc = rd[q].pc /\ rd'[q].gen = rd[q].gen
              /\ rd'[q].snap = rd[q].snap /\ rd'[q].used = rd[q].used
      BY <2>1
    <2> HIDE DEF Searching, Inside, Outside, Entries, Empty
    <2> QED BY <2>1, <2>2, <2>3, OutsideKeeps DEF Shape
  <1> HIDE DEF Searching, Inside, Outside, Entries, Empty
  <1> QED BY <1>1, <1>2, <1>3, <1>4, <1>5, <1>6 DEF Next

(* One generation has one content, in the index, in every read transaction  *)
(* and in the cache (hot.rs, Cache::get and insert, against the generation  *)
(* that every commit of store.rs takes).                                    *)
THEOREM OneContentAlways == Spec => []OneContent
  <1>1. Shape /\ OneContent /\ [Next]_vars => Shape' /\ OneContent'
    BY NextKeeps
  <1> QED BY <1>1, InitOneContent, PTL DEF Spec

(* No search scores a posting list that is not its own transaction's,       *)
(* however many share the cache and whatever is committed meanwhile.        *)
THEOREM ListsAlwaysOwn == Spec => []ListsOfOwnSnapshot
  <1>1. OneContent => ListsOfOwnSnapshot
    BY DEF OneContent
  <1> QED BY <1>1, OneContentAlways, PTL

(***************************************************************************)
(* The gate: its count is that of the searches inside, and whoever sleeps  *)
(* sleeps at a full gate.                                                  *)
(***************************************************************************)
Holding == {r \in Reader : rd[r].pc \in Inside}

(* A list is loaded only if it has postings, and inserted only if it is      *)
(* short.                                                                  *)
Loadable(s) ==
    /\ s.pc \in {"load", "insert"} => s.snap[s.word] # {}
    /\ s.pc = "insert" => Cardinality(s.snap[s.word]) <= TermBytes

GateKept ==
    /\ rd \in [Reader -> SearchType] /\ \A r \in Reader : Loadable(rd[r])
    /\ gate \in [busy : Nat, pressure : BOOLEAN]
    /\ PermitsHeld /\ NoLostWakeup

LEMMA LimitType ==
  ASSUME gate \in [busy : Nat, pressure : BOOLEAN]
  PROVE  Limit \in Nat /\ 0 < Limit /\ Limit <= Permits
  BY QueryAssumption DEF Limit

(* A step that changes neither the gate nor who is inside or asleep. *)
LEMMA StayKeeps ==
  ASSUME GateKept, UNCHANGED gate, rd' \in [Reader -> SearchType],
         \A q \in Reader : /\ rd'[q].pc \in Inside <=> rd[q].pc \in Inside
                           /\ rd'[q].pc = "asleep" => rd[q].pc = "asleep"
                           /\ Loadable(rd'[q])
  PROVE  GateKept'
  <1> HIDE DEF Inside
  <1>1. Holding' = Holding
    BY DEF Holding
  <1>2. PermitsHeld'
    BY <1>1 DEF GateKept, PermitsHeld, Holding
  <1>3. NoLostWakeup'
    BY DEF GateKept, NoLostWakeup, Limit
  <1>4. (\A q \in Reader : Loadable(rd[q]))'
    BY DEF Loadable
  <1> QED BY <1>2, <1>3, <1>4 DEF GateKept

LEMMA NotLoading == ASSUME NEW s, s.pc \notin {"load", "insert"} PROVE Loadable(s)
  BY DEF Loadable

(* A step that moves no search to its loading. *)
LEMMA LoadableStays ==
  ASSUME GateKept,
         \A q \in Reader : rd'[q] = rd[q] \/ rd'[q].pc \notin {"load", "insert"}
  PROVE  (\A q \in Reader : Loadable(rd[q]))'
  <1> SUFFICES ASSUME NEW q \in Reader PROVE Loadable(rd'[q])
    BY DEF Loadable
  <1>1. CASE rd'[q] = rd[q]
    BY <1>1 DEF GateKept
  <1>2. CASE rd'[q].pc \notin {"load", "insert"}
    BY <1>2, NotLoading
  <1> QED BY <1>1, <1>2

(* What a search does inside leaves it inside. *)
LEMMA InnerMoves ==
  ASSUME rd \in [Reader -> SearchType], NEW r \in Reader, Loadable(rd[r]),
         \/ Begin(r) \/ (\E words \in SUBSET Term : Retrieve(r, words))
         \/ (\E t \in Term : Lookup(r, t))
         \/ Load(r) \/ Insert(r) \/ Fallback(r) \/ Retrieved(r)
  PROVE  /\ UNCHANGED gate /\ rd[r].pc \in Inside
         /\ \E s : rd' = [rd EXCEPT ![r] = s] /\ s.pc \in Inside /\ Loadable(s)
  <1> HIDE DEF Entries, Empty, Searching
  <1>1. rd[r] \in SearchType
    OBVIOUS
  <1>2. CASE Begin(r)
    <2>1. rd' = [rd EXCEPT ![r] =
                    [rd[r] EXCEPT !.pc = "ready", !.gen = generation, !.snap = view]]
      BY <1>2 DEF Begin
    <2>2. [rd[r] EXCEPT !.pc = "ready", !.gen = generation, !.snap = view].pc = "ready"
      BY <1>1 DEF SearchType
    <2> QED BY <1>2, <2>1, <2>2, NotLoading DEF Begin
  <1>3. ASSUME NEW words \in SUBSET Term, Retrieve(r, words)
        PROVE  /\ UNCHANGED gate /\ rd[r].pc \in Inside
               /\ \E s : rd' = [rd EXCEPT ![r] = s] /\ s.pc \in Inside /\ Loadable(s)
    <2> DEFINE pc == IF cache.pressure THEN "fallback" ELSE "words"
               s == [rd[r] EXCEPT !.pc = pc, !.words = words, !.todo = words, !.used = Empty,
                                  !.retrievals = rd[r].retrievals + 1]
    <2>1. rd' = [rd EXCEPT ![r] = s] /\ rd[r].pc = "ready" /\ UNCHANGED gate
      BY <1>3, Zenon DEF Retrieve
    <2>2. s.pc = pc /\ pc \in Inside \ {"load", "insert"}
      BY <1>1 DEF SearchType
    <2> HIDE DEF s, pc
    <2> QED BY <2>1, <2>2, NotLoading
  <1>4. ASSUME NEW t \in Term, Lookup(r, t)
        PROVE  /\ UNCHANGED gate /\ rd[r].pc \in Inside
               /\ \E s : rd' = [rd EXCEPT ![r] = s] /\ s.pc \in Inside /\ Loadable(s)
    <2> DEFINE rest == rd[r].todo \ {t}
               s == [rd[r] EXCEPT !.todo = rest, !.word = t]
               c == AtGeneration(cache, s.gen)
    <2>1. s.pc = "words" /\ rd[r].pc = "words" /\ UNCHANGED gate
      BY <1>1, <1>4 DEF Lookup, SearchType
    <2>2. \A pc : [s EXCEPT !.pc = pc].pc = pc
      BY <1>1 DEF SearchType
    <2>3. \A used, pc : [s EXCEPT !.used = used, !.pc = pc].pc = pc
      BY <1>1 DEF SearchType
    <2>4. \/ rd' = [rd EXCEPT ![r] = s]
          \/ rd' = [rd EXCEPT ![r] = [s EXCEPT !.pc = "fallback"]]
          \/ rd' = [rd EXCEPT ![r] = [s EXCEPT !.pc = "load"]] /\ s.snap[t] # {}
          \/ \E pc \in After([s.used EXCEPT ![t] = c.entries[t]], "words") :
                 rd' = [rd EXCEPT ![r] =
                           [s EXCEPT !.used = [s.used EXCEPT ![t] = c.entries[t]], !.pc = pc]]
      BY <1>4, Zenon DEF Lookup
    <2>5. CASE \E pc \in After([s.used EXCEPT ![t] = c.entries[t]], "words") :
                   rd' = [rd EXCEPT ![r] =
                             [s EXCEPT !.used = [s.used EXCEPT ![t] = c.entries[t]], !.pc = pc]]
      <3> DEFINE used == [s.used EXCEPT ![t] = c.entries[t]]
      <3>1. PICK pc \in After(used, "words") :
                rd' = [rd EXCEPT ![r] = [s EXCEPT !.used = used, !.pc = pc]]
        BY <2>5, Zenon
      <3>2. pc \in {"words", "fallback"}
        BY AfterIs
      <3> DEFINE l == [s EXCEPT !.used = used, !.pc = pc]
      <3>3. l.pc = pc
        BY <2>3
      <3> HIDE DEF used, s, l
      <3>4. Loadable(l) /\ l.pc \in Inside
        BY <3>2, <3>3, NotLoading
      <3>5. rd' = [rd EXCEPT ![r] = l]
        BY <3>1 DEF l
      <3> QED BY <2>1, <3>4, <3>5
    <2>6. CASE rd' = [rd EXCEPT ![r] = [s EXCEPT !.pc = "load"]] /\ s.snap[t] # {}
      <3> DEFINE l == [s EXCEPT !.pc = "load"]
      <3>1. l.pc = "load" /\ l.snap = s.snap /\ l.word = t
        BY <1>1 DEF SearchType
      <3> HIDE DEF l, s
      <3>2. Loadable(l)
        BY <2>6, <3>1 DEF Loadable
      <3>3. rd' = [rd EXCEPT ![r] = l]
        BY <2>6 DEF l
      <3> QED BY <2>1, <3>1, <3>2, <3>3
    <2>7. CASE \/ rd' = [rd EXCEPT ![r] = s]
               \/ rd' = [rd EXCEPT ![r] = [s EXCEPT !.pc = "fallback"]]
      <3> DEFINE l == [s EXCEPT !.pc = "fallback"]
      <3>1. l.pc = "fallback"
        BY <2>2
      <3> HIDE DEF s, l
      <3>2. Loadable(l) /\ Loadable(s) /\ l.pc \in Inside /\ s.pc \in Inside
        BY <2>1, <3>1, NotLoading
      <3>3. rd' = [rd EXCEPT ![r] = s] \/ rd' = [rd EXCEPT ![r] = l]
        BY <2>7 DEF l
      <3> QED BY <2>1, <3>2, <3>3
    <2> HIDE DEF s, c
    <2> QED BY <2>4, <2>5, <2>6, <2>7
  <1>5. CASE Load(r) \/ Retrieved(r)
    <2> DEFINE long == Cardinality(rd[r].snap[rd[r].word]) > TermBytes
    <2>1. PICK pc \in {"fallback", "insert", "ready"} :
              /\ rd' = [rd EXCEPT ![r] = [rd[r] EXCEPT !.pc = pc]]
              /\ pc = "insert" => Load(r) /\ ~long
      BY <1>5 DEF Load, Retrieved
    <2> DEFINE l == [rd[r] EXCEPT !.pc = pc]
    <2>2. l.pc = pc /\ l.snap = rd[r].snap /\ l.word = rd[r].word
      BY <1>1 DEF SearchType
    <2>3. Cardinality(rd[r].snap[rd[r].word]) \in Nat
      <3>1. rd[r].snap[rd[r].word] \in SUBSET Posting
        BY <1>1 DEF SearchType, Entries
      <3> QED BY <3>1, QueryAssumption, FS_Subset, FS_CardinalityType
    <2>4. Loadable(l)
      <3> HIDE DEF l
      <3>1. CASE pc = "insert"
        <4>1. rd[r].pc = "load" /\ ~long
          BY <2>1, <3>1 DEF Load
        <4>2. Cardinality(rd[r].snap[rd[r].word]) <= TermBytes
          BY <2>3, <4>1, QueryAssumption
        <4> QED BY <2>2, <4>1, <4>2 DEF Loadable
      <3>2. CASE pc # "insert"
        BY <2>2, <3>2, NotLoading
      <3> QED BY <3>1, <3>2
    <2>5. rd' = [rd EXCEPT ![r] = l]
      BY <2>1
    <2> HIDE DEF l
    <2> QED BY <1>5, <2>2, <2>4, <2>5 DEF Load, Retrieved
  <1>6. CASE Insert(r)
    <2> DEFINE used == [rd[r].used EXCEPT ![rd[r].word] = rd[r].snap[rd[r].word]]
    <2>1. PICK pc \in After(used, "words") :
              rd' = [rd EXCEPT ![r] = [rd[r] EXCEPT !.used = used, !.pc = pc]]
      BY <1>6, Zenon DEF Insert
    <2> HIDE DEF used
    <2>2. [rd[r] EXCEPT !.used = used, !.pc = pc].pc = pc /\ pc \in {"words", "fallback"}
      BY <1>1, AfterIs DEF SearchType
    <2> QED BY <1>6, <2>1, <2>2, NotLoading DEF Insert
  <1>7. CASE Fallback(r)
    <2> DEFINE used == [t \in Term |-> IF t \in rd[r].words THEN rd[r].snap[t] ELSE {}]
    <2>1. rd' = [rd EXCEPT ![r] = [rd[r] EXCEPT !.pc = "ready", !.todo = {}, !.used = used]]
      BY <1>7, Zenon DEF Fallback
    <2> HIDE DEF used
    <2>2. [rd[r] EXCEPT !.pc = "ready", !.todo = {}, !.used = used].pc = "ready"
      BY <1>1 DEF SearchType
    <2> QED BY <1>7, <2>1, <2>2, NotLoading DEF Fallback
  <1> QED BY <1>2, <1>3, <1>4, <1>5, <1>6, <1>7

(* Entering takes a permit below the limit, or sleeps at it. *)
LEMMA EnterKeepsGate ==
  ASSUME GateKept, NEW r \in Reader, Enter(r), rd' \in [Reader -> SearchType]
  PROVE  GateKept'
  <1>0. /\ gate \in [busy : Nat, pressure : BOOLEAN] /\ rd \in [Reader -> SearchType]
        /\ gate.busy = Cardinality(Holding) /\ gate.busy <= Permits /\ rd[r].pc = "enter"
    BY DEF GateKept, PermitsHeld, Holding, Enter
  <1>1. \A pc : rd' = [rd EXCEPT ![r].pc = pc] =>
            /\ rd'[r].pc = pc
            /\ \A q \in Reader : q # r => rd'[q] = rd[q]
    <2> HIDE DEF Entries
    <2> QED BY <1>0 DEF SearchType
  <1>2. CASE gate.busy >= Limit
    <2>1. rd' = [rd EXCEPT ![r].pc = "asleep"] /\ UNCHANGED gate
      BY <1>2 DEF Enter
    <2>2. Holding' = Holding
      BY <1>0, <1>1, <2>1 DEF Holding
    <2>3. PermitsHeld'
      BY <1>0, <2>1, <2>2 DEF PermitsHeld, Holding
    <2>4. NoLostWakeup'
      BY <1>2, <2>1 DEF NoLostWakeup, Limit
    <2>5. (\A q \in Reader : Loadable(rd[q]))'
      BY <1>1, <2>1, LoadableStays
    <2> QED BY <1>0, <2>1, <2>3, <2>4, <2>5 DEF GateKept
  <1>3. CASE ~(gate.busy >= Limit)
    <2>1. /\ rd' = [rd EXCEPT ![r].pc = "begin"]
          /\ gate' = [gate EXCEPT !.busy = gate.busy + 1]
      BY <1>3 DEF Enter
    <2>2. Holding' = Holding \cup {r} /\ r \notin Holding
      BY <1>0, <1>1, <2>1 DEF Holding
    <2>3. IsFiniteSet(Holding)
      BY QueryAssumption, FS_Subset DEF Holding
    <2>4. Cardinality(Holding') = gate.busy + 1
      <3> HIDE DEF Holding
      <3> QED BY <1>0, <2>2, <2>3, FS_AddElement
    <2>5. /\ gate' \in [busy : Nat, pressure : BOOLEAN] /\ gate'.busy = gate.busy + 1
          /\ gate'.busy <= Permits
      <3>1. gate.busy \in Nat /\ Limit \in Nat /\ Limit <= Permits /\ Permits \in Nat
        BY <1>0, LimitType, QueryAssumption
      <3>2. gate.busy + 1 <= Permits /\ gate.busy + 1 \in Nat
        BY <1>3, <3>1
      <3> QED BY <1>0, <2>1, <3>2
    <2>6. \A q \in Reader : rd'[q].pc # "asleep"
      <3>1. \A q \in Reader : rd[q].pc # "asleep"
        BY <1>0, <1>3 DEF GateKept, NoLostWakeup
      <3> QED BY <1>1, <2>1, <3>1
    <2>7. PermitsHeld' /\ NoLostWakeup'
      BY <2>4, <2>5, <2>6 DEF PermitsHeld, NoLostWakeup, Holding
    <2>8. (\A q \in Reader : Loadable(rd[q]))'
      BY <1>1, <2>1, LoadableStays
    <2> QED BY <2>5, <2>7, <2>8 DEF GateKept
  <1> QED BY <1>2, <1>3

(* Leaving gives the permit back and wakes everyone. *)
LEMMA LeaveKeepsGate ==
  ASSUME GateKept, NEW r \in Reader, Leave(r), rd' \in [Reader -> SearchType]
  PROVE  GateKept'
  <1> DEFINE s == [rd EXCEPT ![r] = NewSearch]
  <1>0. /\ gate \in [busy : Nat, pressure : BOOLEAN] /\ rd \in [Reader -> SearchType]
        /\ gate.busy = Cardinality(Holding) /\ gate.busy <= Permits /\ r \in Holding
    BY DEF GateKept, PermitsHeld, Holding, Leave
  <1>1. /\ s \in [Reader -> SearchType] /\ s[r].pc = "out"
        /\ \A q \in Reader : q # r => s[q] = rd[q]
    BY <1>0, NewSearchType
  <1>2. rd' = Woken(s) /\ gate' = [gate EXCEPT !.busy = gate.busy - 1]
    BY DEF Leave
  <1> HIDE DEF s
  <1>3. \A q \in Reader : /\ rd'[q].pc # "asleep"
                          /\ rd'[q].pc \in Inside <=> s[q].pc \in Inside
    <2> HIDE DEF Entries
    <2> QED BY <1>1, <1>2 DEF Woken, SearchType
  <1>4. Holding' = Holding \ {r}
    BY <1>1, <1>3 DEF Holding
  <1>5. IsFiniteSet(Holding)
    BY QueryAssumption, FS_Subset DEF Holding
  <1>6. Cardinality(Holding') = gate.busy - 1 /\ Cardinality(Holding') \in Nat
    <2> HIDE DEF Holding
    <2>1. IsFiniteSet(Holding')
      BY <1>4, <1>5, FS_Subset
    <2> QED BY <1>0, <1>4, <1>5, <2>1, FS_RemoveElement, FS_CardinalityType
  <1>7. /\ gate' \in [busy : Nat, pressure : BOOLEAN] /\ gate'.busy = gate.busy - 1
        /\ gate'.busy <= Permits
    <2>1. gate.busy \in Nat /\ Permits \in Nat
      BY <1>0, QueryAssumption
    <2> QED BY <1>0, <1>2, <1>6, <2>1
  <1>8. PermitsHeld' /\ NoLostWakeup'
    BY <1>3, <1>6, <1>7 DEF PermitsHeld, NoLostWakeup, Holding
  <1>9. (\A q \in Reader : Loadable(rd[q]))'
    <2>1. \A q \in Reader : rd'[q] = s[q] \/ rd'[q].pc = "enter"
      BY <1>1, <1>2, WokenIs
    <2>2. \A q \in Reader : rd'[q] = rd[q] \/ rd'[q].pc \notin {"load", "insert"}
      BY <1>1, <2>1
    <2> QED BY <2>2, LoadableStays
  <1> QED BY <1>7, <1>8, <1>9 DEF GateKept

(* A change of the pressure wakes everyone, whatever the limit becomes. *)
LEMMA AdjustKeepsGate ==
  ASSUME GateKept, AdjustGate, rd' \in [Reader -> SearchType]
  PROVE  GateKept'
  <1>0. /\ gate \in [busy : Nat, pressure : BOOLEAN] /\ rd \in [Reader -> SearchType]
        /\ gate.busy = Cardinality(Holding) /\ gate.busy <= Permits
    BY DEF GateKept, PermitsHeld, Holding
  <1>1. rd' = Woken(rd) /\ gate' = [gate EXCEPT !.pressure = (monitor = "raise")]
    BY DEF AdjustGate
  <1>2. \A q \in Reader : /\ rd'[q].pc # "asleep"
                          /\ rd'[q].pc \in Inside <=> rd[q].pc \in Inside
    <2> HIDE DEF Entries
    <2> QED BY <1>0, <1>1 DEF Woken, SearchType
  <1>3. Holding' = Holding
    BY <1>2 DEF Holding
  <1>4. gate' \in [busy : Nat, pressure : BOOLEAN] /\ gate'.busy = gate.busy
    BY <1>0, <1>1
  <1>5. PermitsHeld' /\ NoLostWakeup'
    BY <1>0, <1>2, <1>3, <1>4 DEF PermitsHeld, NoLostWakeup, Holding
  <1>6. (\A q \in Reader : Loadable(rd[q]))'
    <2>1. \A q \in Reader : rd'[q] = rd[q] \/ rd'[q].pc \notin {"load", "insert"}
      BY <1>0, <1>1, WokenIs
    <2> QED BY <2>1, LoadableStays
  <1> QED BY <1>4, <1>5, <1>6 DEF GateKept

LEMMA NextKeepsGate ==
  ASSUME GateKept, [Next]_vars, rd' \in [Reader -> SearchType]
  PROVE  GateKept'
  <1>0. rd \in [Reader -> SearchType]
    BY DEF GateKept
  <1>1. CASE Write \/ (\E on \in BOOLEAN : Measure(on)) \/ UNCHANGED vars
    <2>1. UNCHANGED <<gate, rd>>
      BY <1>1 DEF Write, Measure, vars
    <2>2. \A q \in Reader : Loadable(rd'[q])
      BY <2>1 DEF GateKept
    <2> QED BY <2>1, <2>2, StayKeeps
  <1>2. ASSUME NEW r \in Reader, Arrive(r)
        PROVE  GateKept'
    <2>1. rd' = [rd EXCEPT ![r].pc = "enter"] /\ rd[r].pc = "out" /\ UNCHANGED gate
      BY <1>2 DEF Arrive
    <2>2. rd'[r].pc = "enter" /\ \A q \in Reader : q # r => rd'[q] = rd[q]
      <3> HIDE DEF Entries
      <3> QED BY <1>0, <2>1 DEF SearchType
    <2>3. \A q \in Reader : /\ rd'[q].pc \in Inside <=> rd[q].pc \in Inside
                            /\ rd'[q].pc = "asleep" => rd[q].pc = "asleep"
                            /\ Loadable(rd'[q])
      BY <2>1, <2>2, NotLoading DEF GateKept
    <2> QED BY <2>1, <2>3, StayKeeps
  <1>3. ASSUME NEW r \in Reader, SearchStep(r)
        PROVE  GateKept'
    <2>1. CASE Enter(r)
      BY <2>1, EnterKeepsGate
    <2>2. CASE Leave(r)
      BY <2>2, LeaveKeepsGate
    <2>3. CASE \/ Begin(r) \/ (\E words \in SUBSET Term : Retrieve(r, words))
               \/ (\E t \in Term : Lookup(r, t))
               \/ Load(r) \/ Insert(r) \/ Fallback(r) \/ Retrieved(r)
      <3>1. /\ UNCHANGED gate /\ rd[r].pc \in Inside
            /\ \E s : rd' = [rd EXCEPT ![r] = s] /\ s.pc \in Inside /\ Loadable(s)
        BY <1>0, <2>3, InnerMoves DEF GateKept
      <3>2. PICK s : rd' = [rd EXCEPT ![r] = s] /\ s.pc \in Inside /\ Loadable(s)
        BY <3>1
      <3>3. \A q \in Reader : /\ rd'[q].pc \in Inside <=> rd[q].pc \in Inside
                              /\ rd'[q].pc = "asleep" => rd[q].pc = "asleep"
                              /\ Loadable(rd'[q])
        BY <1>0, <3>1, <3>2 DEF GateKept
      <3> QED BY <3>1, <3>3, StayKeeps
    <2> HIDE DEF Searching, Inside, Outside, Entries, Empty
    <2> QED BY <1>3, <2>1, <2>2, <2>3 DEF SearchStep
  <1>4. CASE AdjustGate
    BY <1>4, AdjustKeepsGate
  <1> HIDE DEF Searching, Inside, Outside, Entries, Empty
  <1> QED BY <1>1, <1>2, <1>3, <1>4 DEF Next

LEMMA InitGate == Init => GateKept
  <1> SUFFICES ASSUME Init PROVE GateKept
    OBVIOUS
  <1>1. gate = [busy |-> 0, pressure |-> FALSE] /\ rd = [r \in Reader |-> NewSearch]
    BY DEF Init
  <1>2. \A r \in Reader : rd[r].pc = "out"
    BY <1>1, NewSearchType
  <1>3. Holding = {}
    BY <1>2 DEF Holding
  <1>4. PermitsHeld /\ NoLostWakeup
    <2>1. gate.busy = 0 /\ Cardinality(Holding) = 0
      BY <1>1, <1>3, FS_EmptySet
    <2> QED BY <1>2, <2>1, QueryAssumption DEF PermitsHeld, NoLostWakeup, Holding
  <1>5. \A r \in Reader : Loadable(rd[r])
    BY <1>2, NotLoading
  <1> QED BY <1>1, <1>4, <1>5, NewSearchType DEF GateKept

(* No more than the permitted number of searches run at once and every       *)
(* permit comes back (store.rs, QueryGate and QueryPermit).                 *)
THEOREM PermitsAlwaysHeld == Spec => []PermitsHeld
  <1>1. Shape => rd \in [Reader -> SearchType]
    BY DEF Shape
  <1>2. Shape /\ OneContent /\ [Next]_vars => Shape' /\ OneContent'
    BY NextKeeps
  <1>3. GateKept /\ [Next]_vars /\ (rd \in [Reader -> SearchType])' => GateKept'
    BY NextKeepsGate
  <1>4. GateKept => PermitsHeld
    BY DEF GateKept
  <1> QED BY <1>1, <1>2, <1>3, <1>4, InitOneContent, InitGate, PTL DEF Spec

(* No search sleeps at a gate that would let it in (store.rs,                *)
(* set_memory_pressure and QueryPermit's drop, against QueryGate::enter).   *)
THEOREM WakeupsNeverLost == Spec => []NoLostWakeup
  <1>1. Shape => rd \in [Reader -> SearchType]
    BY DEF Shape
  <1>2. Shape /\ OneContent /\ [Next]_vars => Shape' /\ OneContent'
    BY NextKeeps
  <1>3. GateKept /\ [Next]_vars /\ (rd \in [Reader -> SearchType])' => GateKept'
    BY NextKeepsGate
  <1>4. GateKept => NoLostWakeup
    BY DEF GateKept
  <1> QED BY <1>1, <1>2, <1>3, <1>4, InitOneContent, InitGate, PTL DEF Spec

(***************************************************************************)
(* The cache's books.  A size is a count of pairs; what stays and what     *)
(* goes at an eviction are a partition of them.                            *)
(***************************************************************************)
Pairs(e) == {x \in Term \X Posting : x[2] \in e[x[1]]}

LEMMA SizeIs ==
  ASSUME NEW e
  PROVE  Size(e) = Cardinality(Pairs(e)) /\ IsFiniteSet(Pairs(e)) /\ Size(e) \in Nat
  <1>1. IsFiniteSet(Term \X Posting)
    BY QueryAssumption, FS_Product
  <1>2. IsFiniteSet(Pairs(e))
    BY <1>1, FS_Subset DEF Pairs
  <1> QED BY <1>2, FS_CardinalityType DEF Size, Pairs

LEMMA SizeEmpty == ASSUME NEW e, \A t \in Term : e[t] = {} PROVE Size(e) = 0
  <1>1. Pairs(e) = {}
    BY DEF Pairs
  <1> QED BY <1>1, SizeIs, FS_EmptySet

LEMMA SizeUnion ==
  ASSUME NEW e, NEW a, NEW b, Pairs(e) = Pairs(a) \cup Pairs(b), Pairs(a) \cap Pairs(b) = {}
  PROVE  Size(e) = Size(a) + Size(b)
  <1>1. Cardinality(Pairs(e)) = Cardinality(Pairs(a)) + Cardinality(Pairs(b))
                                    - Cardinality(Pairs(a) \cap Pairs(b))
    BY SizeIs, FS_Union
  <1>2. Cardinality(Pairs(a) \cap Pairs(b)) = 0
    BY FS_EmptySet
  <1>3. /\ Size(e) = Cardinality(Pairs(e)) /\ Size(a) = Cardinality(Pairs(a))
        /\ Size(b) = Cardinality(Pairs(b)) /\ Size(a) \in Nat /\ Size(b) \in Nat
    BY SizeIs
  <1> QED BY <1>1, <1>2, <1>3

(* What is evicted and what is kept. *)
LEMMA SizeSplit ==
  ASSUME NEW e \in Entries, NEW gone
  PROVE  Size(e) = Size([t \in Term |-> IF t \in gone THEN e[t] ELSE {}]) + Size(Kept(e, gone))
  <1> DEFINE a == [t \in Term |-> IF t \in gone THEN e[t] ELSE {}]
             b == Kept(e, gone)
  <1>1. \A t \in Term : /\ a[t] = IF t \in gone THEN e[t] ELSE {}
                        /\ b[t] = IF t \in gone THEN {} ELSE e[t]
    BY DEF Kept
  <1> HIDE DEF a, b
  <1>2. Pairs(e) = Pairs(a) \cup Pairs(b) /\ Pairs(a) \cap Pairs(b) = {}
    BY <1>1 DEF Pairs
  <1>3. Size(e) = Size(a) + Size(b)
    BY <1>2, SizeUnion
  <1> QED BY <1>3 DEF a, b

(* A list that is added counts its postings. *)
LEMMA SizeAdd ==
  ASSUME NEW e \in Entries, NEW t \in Term, NEW P \in SUBSET Posting, e[t] = {}
  PROVE  Size([e EXCEPT ![t] = P]) = Size(e) + Cardinality(P)
  <1> DEFINE n == [e EXCEPT ![t] = P]
             own == {t} \X P
  <1>1. \A u \in Term : n[u] = IF u = t THEN P ELSE e[u]
    OBVIOUS
  <1>2. IsFiniteSet(P) /\ IsFiniteSet({t}) /\ Cardinality({t}) = 1
    BY QueryAssumption, FS_Subset, FS_Singleton
  <1>3. Cardinality(own) = Cardinality(P) /\ IsFiniteSet(own) /\ Cardinality(P) \in Nat
    <2>1. Cardinality(own) = Cardinality({t}) * Cardinality(P) /\ IsFiniteSet(own)
      BY <1>2, FS_Product
    <2> QED BY <1>2, <2>1, FS_CardinalityType
  <1> HIDE DEF n
  <1>4. Pairs(n) = Pairs(e) \cup own /\ Pairs(e) \cap own = {}
    BY <1>1 DEF Pairs
  <1> HIDE DEF own
  <1>5. Cardinality(Pairs(n)) = Cardinality(Pairs(e)) + Cardinality(own)
                                    - Cardinality(Pairs(e) \cap own)
    BY <1>3, <1>4, SizeIs, FS_Union
  <1>6. Cardinality(Pairs(e) \cap own) = 0
    BY <1>4, FS_EmptySet
  <1>7. Size(n) = Size(e) + Cardinality(P)
    BY <1>3, <1>5, <1>6, SizeIs
  <1> QED BY <1>7 DEF n

(* A set of numbers has a least one. *)
LEMMA Smallest ==
  ASSUME NEW S \in SUBSET Nat, S # {}
  PROVE  \E n \in S : \A m \in S : n <= m
  <1> DEFINE R == OpToRel(<, Nat)
  <1>1. IsWellFoundedOn(R, Nat)
    BY NatLessThanWellFounded
  <1>2. \A n, m \in Nat : m < n => <<m, n>> \in R
    BY DEF OpToRel
  <1> HIDE DEF R
  <1>3. PICK n \in S : \A m \in S : ~ (<<m, n>> \in R)
    BY <1>1, WFMin
  <1>4. ASSUME NEW m \in S PROVE n <= m
    <2>1. n \in Nat /\ m \in Nat
      OBVIOUS
    <2>2. ~(m < n)
      BY <1>2, <1>3, <2>1
    <2> QED BY <2>1, <2>2
  <1> QED BY <1>4

(* The invariant of the cache. *)
WellKept(c) ==
    /\ c \in CacheType
    /\ c.bytes = Size(c.entries) /\ c.bytes <= CacheBytes
    /\ \A i, j \in 1..Len(c.order) : c.order[i] = c.order[j] => i = j
    /\ \A t \in Term : c.entries[t] # {} <=> \E i \in 1..Len(c.order) : c.order[i] = t
    /\ c.pressure => c.entries = Empty

LEMMA EmptyKept ==
  ASSUME NEW g \in Nat, NEW p \in BOOLEAN
  PROVE  WellKept([generation |-> g, entries |-> Empty, order |-> <<>>, bytes |-> 0,
                   pressure |-> p])
  <1> DEFINE c == [generation |-> g, entries |-> Empty, order |-> <<>>, bytes |-> 0,
                   pressure |-> p]
  <1>1. c \in CacheType
    <2>1. Empty \in Entries /\ <<>> \in Seq(Term)
      OBVIOUS
    <2> HIDE DEF Empty, Entries
    <2> QED BY <2>1 DEF CacheType
  <1>2. Size(Empty) = 0
    BY SizeEmpty
  <1>3. c.bytes = 0 /\ c.entries = Empty /\ Len(c.order) = 0
    OBVIOUS
  <1>4. 1..Len(c.order) = {} /\ c.bytes <= CacheBytes
    BY <1>3, QueryAssumption
  <1> HIDE DEF c
  <1>5. \A t \in Term : c.entries[t] = {}
    BY <1>3
  <1>6. WellKept(c)
    BY <1>1, <1>2, <1>3, <1>4, <1>5 DEF WellKept
  <1> QED BY <1>6 DEF c

(* Emptying and marking the cache. *)
LEMMA PressureKept ==
  ASSUME NEW c, WellKept(c), NEW on \in BOOLEAN
  PROVE  WellKept(SetPressure(c, on))
  <1>1. c \in CacheType
    BY DEF WellKept
  <1>2. CASE on
    <2>1. SetPressure(c, on) = [generation |-> c.generation, entries |-> Empty, order |-> <<>>,
                                bytes |-> 0, pressure |-> on]
      <3> HIDE DEF Empty, Entries
      <3> QED BY <1>1, <1>2 DEF SetPressure, Cleared, CacheType
    <2>2. c.generation \in Nat
      BY <1>1 DEF CacheType
    <2> QED BY <2>1, <2>2, EmptyKept
  <1>3. CASE ~on
    <2> DEFINE d == [c EXCEPT !.pressure = on]
    <2>1. SetPressure(c, on) = d
      BY <1>3 DEF SetPressure
    <2>2. /\ d \in CacheType /\ d.bytes = c.bytes /\ d.entries = c.entries
          /\ d.order = c.order /\ d.pressure = on
      <3> HIDE DEF Entries
      <3> QED BY <1>1 DEF CacheType
    <2> HIDE DEF d
    <2> QED BY <1>3, <2>1, <2>2 DEF WellKept
  <1> QED BY <1>2, <1>3

LEMMA GenerationKept ==
  ASSUME NEW c, WellKept(c), NEW g \in Nat
  PROVE  WellKept(AtGeneration(c, g))
  <1>1. c \in CacheType
    BY DEF WellKept
  <1>2. CASE c.generation = g
    BY <1>2 DEF AtGeneration
  <1>3. CASE c.generation # g
    <2>1. AtGeneration(c, g) = [generation |-> g, entries |-> Empty, order |-> <<>>,
                                bytes |-> 0, pressure |-> c.pressure]
      <3> HIDE DEF Empty, Entries
      <3> QED BY <1>1, <1>3 DEF AtGeneration, Cleared, CacheType
    <2>2. c.pressure \in BOOLEAN
      BY <1>1 DEF CacheType
    <2> QED BY <2>1, <2>2, EmptyKept
  <1> QED BY <1>2, <1>3

(* What stays after n evictions. *)
LEMMA FreedIs ==
  ASSUME NEW c, WellKept(c), NEW n \in 0..Len(c.order)
  PROVE  /\ Freed(c, n) = Size(Kept(c.entries, Gone(c.order, n))) /\ Freed(c, n) \in Nat
         /\ n = Len(c.order) => Freed(c, n) = 0
  <1> DEFINE gone == Gone(c.order, n)
             a == [t \in Term |-> IF t \in gone THEN c.entries[t] ELSE {}]
             k == Kept(c.entries, gone)
  <1>1. c.entries \in Entries /\ c.bytes = Size(c.entries)
    BY DEF WellKept, CacheType
  <1>2. Size(c.entries) = Size(a) + Size(k)
    <2> HIDE DEF Entries
    <2> QED BY <1>1, SizeSplit
  <1>3. Freed(c, n) = Size(c.entries) - Size(a)
    BY <1>1 DEF Freed
  <1>4. Size(a) \in Nat /\ Size(k) \in Nat
    BY SizeIs
  <1>5. n = Len(c.order) => \A t \in Term : k[t] = {}
    BY DEF Kept, Gone, WellKept
  <1> HIDE DEF a, k
  <1>6. Freed(c, n) = Size(k) /\ Freed(c, n) \in Nat
    BY <1>2, <1>3, <1>4
  <1>7. n = Len(c.order) => Freed(c, n) = 0
    BY <1>5, <1>6, SizeEmpty
  <1> QED BY <1>6, <1>7 DEF k

(* The loop of insert ends, with room for the list. *)
LEMMA EvictionsMakeRoom ==
  ASSUME NEW c, WellKept(c), NEW b \in Nat, b <= CacheBytes
  PROVE  /\ Evictions(c, b) \in 0..Len(c.order)
         /\ Freed(c, Evictions(c, b)) + b <= CacheBytes
  <1> DEFINE N == Len(c.order)
             S == {n \in 0..N : Freed(c, n) + b <= CacheBytes \/ n = N}
  <1>1. N \in Nat
    BY DEF WellKept, CacheType
  <1>2. N \in S /\ S \in SUBSET Nat
    BY <1>1
  <1>3. PICK n \in S : \A m \in S : n <= m
    BY <1>2, Smallest
  <1>4. CacheBytes \in Nat
    BY QueryAssumption
  <1>5. \A m \in 0..(n - 1) : Freed(c, m) + b > CacheBytes
    <2> TAKE m \in 0..(n - 1)
    <2>1. m \in 0..N /\ m \notin S /\ m # N
      BY <1>1, <1>3
    <2>2. Freed(c, m) \in Nat
      BY <2>1, FreedIs
    <2> QED BY <1>4, <2>1, <2>2
  <1>6. \E x \in 0..N : /\ Freed(c, x) + b <= CacheBytes \/ x = N
                        /\ \A m \in 0..(x - 1) : Freed(c, m) + b > CacheBytes
    BY <1>3, <1>5
  <1> DEFINE e == Evictions(c, b)
  <1>7. e \in 0..N /\ (Freed(c, e) + b <= CacheBytes \/ e = N)
    BY <1>6, Zenon DEF Evictions
  <1> HIDE DEF e
  <1>8. Freed(c, e) + b <= CacheBytes
    <2>1. CASE e = N
      <3>1. Freed(c, e) = 0
        BY <1>7, <2>1, FreedIs
      <3> QED BY <1>4, <3>1
    <2> QED BY <1>7, <2>1
  <1> QED BY <1>7, <1>8 DEF e

(* The order after an insertion: the oldest are gone, the new one is last. *)
LEMMA NewOrder ==
  ASSUME NEW order \in Seq(Term), NEW n \in 0..Len(order), NEW t \in Term
  PROVE  LET new == Append(SubSeq(order, n + 1, Len(order)), t)
         IN  /\ new \in Seq(Term) /\ Len(new) = Len(order) - n + 1
             /\ \A i \in 1..(Len(order) - n) : new[i] = order[n + i]
             /\ new[Len(order) - n + 1] = t
  <1> DEFINE rest == SubSeq(order, n + 1, Len(order))
  <1>1. Len(order) \in Nat /\ n \in Nat
    OBVIOUS
  <1>2. rest \in Seq(Term) /\ Len(rest) = Len(order) - n
    BY <1>1
  <1>3. \A i \in 1..(Len(order) - n) : rest[i] = order[n + i]
    <2> TAKE i \in 1..(Len(order) - n)
    <2>1. n + 1 + i - 1 = n + i
      BY <1>1
    <2> QED BY <1>1, <2>1
  <1> HIDE DEF rest
  <1> DEFINE new == Append(rest, t)
  <1>4. /\ new \in Seq(Term) /\ Len(new) = Len(order) - n + 1
        /\ \A i \in 1..Len(rest) : new[i] = rest[i]
        /\ new[Len(rest) + 1] = t
    BY <1>1, <1>2
  <1> QED BY <1>1, <1>2, <1>3, <1>4 DEF rest

(* Cache::insert keeps the books. *)
LEMMA InsertionKept ==
  ASSUME NEW c, WellKept(c), NEW t \in Term, NEW P \in SUBSET Posting, P # {},
         Cardinality(P) <= TermBytes, ~c.pressure, c.entries[t] = {}
  PROVE  WellKept(Inserted(c, t, P))
  <1> DEFINE b == Cardinality(P)
             n == Evictions(c, b)
             N == Len(c.order)
             kept == Kept(c.entries, Gone(c.order, n))
             entries == [kept EXCEPT ![t] = P]
             order == Append(SubSeq(c.order, n + 1, N), t)
             d == Inserted(c, t, P)
  <1>1. /\ c \in CacheType /\ c.entries \in Entries /\ c.order \in Seq(Term) /\ N \in Nat
        /\ c.generation \in Nat
    BY DEF WellKept, CacheType
  <1>2. b \in Nat /\ b <= CacheBytes
    <2>1. IsFiniteSet(P)
      BY QueryAssumption, FS_Subset
    <2> QED BY <2>1, QueryAssumption, FS_CardinalityType
  <1>3. n \in 0..N /\ Freed(c, n) + b <= CacheBytes
    <2> HIDE DEF b
    <2> QED BY <1>2, EvictionsMakeRoom
  <1>4. d = [c EXCEPT !.entries = entries, !.order = order, !.bytes = Freed(c, n) + b]
    BY DEF Inserted
  <1> HIDE DEF n
  <1>5. Freed(c, n) = Size(kept) /\ Freed(c, n) \in Nat
    <2> HIDE DEF Entries
    <2> QED BY <1>3, FreedIs
  <1>6. /\ kept \in Entries /\ kept[t] = {}
        /\ \A u \in Term : kept[u] = IF u \in Gone(c.order, n) THEN {} ELSE c.entries[u]
    BY <1>1 DEF Kept
  <1>7. /\ entries \in Entries /\ entries[t] = P
        /\ \A u \in Term \ {t} : entries[u] = kept[u]
    <2> HIDE DEF kept
    <2> QED BY <1>6
  <1>8. Size(entries) = Size(kept) + b
    <2> HIDE DEF kept, Entries
    <2> QED BY <1>6, SizeAdd
  <1>9. /\ order \in Seq(Term) /\ Len(order) = N - n + 1
        /\ \A i \in 1..(N - n) : order[i] = c.order[n + i]
        /\ order[N - n + 1] = t
    BY <1>1, <1>3, NewOrder
  <1> HIDE DEF b, kept, entries, order
  <1>10. /\ d \in CacheType /\ d.entries = entries /\ d.order = order
         /\ d.bytes = Freed(c, n) + b /\ ~d.pressure
    <2> HIDE DEF Entries, d
    <2>1. Freed(c, n) + b \in Nat
      BY <1>2, <1>5
    <2> QED BY <1>1, <1>4, <1>7, <1>9, <2>1 DEF CacheType
  <1> HIDE DEF d
  <1>11. \A i \in 1..N : c.order[i] # t
    BY DEF WellKept
  <1>12. \A i, j \in 1..N : c.order[i] = c.order[j] => i = j
    BY DEF WellKept
  <1>13. ASSUME NEW i \in 1..Len(order), NEW j \in 1..Len(order), order[i] = order[j]
         PROVE  i = j
    <2>1. N \in Nat /\ n \in 0..N /\ Len(order) = N - n + 1
      BY <1>1, <1>3, <1>9
    <2> HIDE DEF N
    <2>2. \A k \in 1..(N - n) : n + k \in 1..N
      BY <2>1
    <2>3. CASE i \in 1..(N - n) /\ j \in 1..(N - n)
      <3>1. c.order[n + i] = c.order[n + j]
        BY <1>9, <1>13, <2>3
      <3>2. n + i = n + j
        BY <1>12, <2>2, <2>3, <3>1
      <3> QED BY <2>1, <3>2
    <2>4. CASE i \in 1..(N - n) /\ j = N - n + 1
      BY <1>9, <1>11, <1>13, <2>2, <2>4
    <2>5. CASE i = N - n + 1 /\ j \in 1..(N - n)
      BY <1>9, <1>11, <1>13, <2>2, <2>5
    <2>6. CASE i = N - n + 1 /\ j = N - n + 1
      BY <2>6
    <2>7. \A k \in 1..Len(order) : k \in 1..(N - n) \/ k = N - n + 1
      BY <2>1
    <2> QED BY <2>3, <2>4, <2>5, <2>6, <2>7
  <1>14. ASSUME NEW u \in Term
         PROVE  entries[u] # {} <=> \E i \in 1..Len(order) : order[i] = u
    <2>1. N \in Nat /\ n \in 0..N /\ Len(order) = N - n + 1
      BY <1>1, <1>3, <1>9
    <2>2. c.entries[u] # {} <=> \E i \in 1..N : c.order[i] = u
      BY DEF WellKept
    <2>3. u \in Gone(c.order, n) <=> \E i \in 1..n : c.order[i] = u
      BY DEF Gone
    <2> HIDE DEF N
    <2>4. \A k \in 1..(N - n) : n + k \in 1..N /\ k \in 1..Len(order) /\ n + k \notin 1..n
      BY <2>1
    <2>5. CASE u = t
      <3>1. N - n + 1 \in 1..Len(order)
        BY <2>1
      <3> QED BY <1>7, <1>9, <2>5, <3>1
    <2>6. CASE u # t
      <3>1. ASSUME entries[u] # {}
            PROVE  \E i \in 1..Len(order) : order[i] = u
        <4>1. c.entries[u] # {} /\ u \notin Gone(c.order, n)
          BY <1>6, <1>7, <2>6, <3>1
        <4>2. PICK i \in 1..N : c.order[i] = u
          BY <2>2, <4>1
        <4>3. i \notin 1..n
          BY <2>3, <4>1, <4>2
        <4>4. i - n \in 1..(N - n) /\ n + (i - n) = i
          BY <2>1, <4>3
        <4>5. order[i - n] = u
          BY <1>9, <4>2, <4>4
        <4> QED BY <2>4, <4>4, <4>5
      <3>2. ASSUME NEW i \in 1..Len(order), order[i] = u
            PROVE  entries[u] # {}
        <4>1. i \in 1..(N - n)
          BY <1>9, <2>1, <2>6, <3>2
        <4>2. c.order[n + i] = u /\ n + i \in 1..N /\ n + i \notin 1..n
          BY <1>9, <2>4, <3>2, <4>1
        <4>3. c.entries[u] # {}
          BY <2>2, <4>2
        <4>4. \A j \in 1..n : j \in 1..N
          BY <2>1
        <4>5. u \notin Gone(c.order, n)
          BY <1>12, <2>3, <4>2, <4>4
        <4> QED BY <1>6, <1>7, <2>6, <4>3, <4>5
      <3> QED BY <3>1, <3>2
    <2> QED BY <2>5, <2>6
  <1>15. d.bytes = Size(d.entries) /\ d.bytes <= CacheBytes
    BY <1>3, <1>5, <1>8, <1>10
  <1>16. WellKept(d)
    BY <1>10, <1>13, <1>14, <1>15 DEF WellKept
  <1> QED BY <1>16 DEF d

(* From the books follows what the specification says of them. *)
LEMMA KeptAccounted == WellKept(cache) => CacheAccounted
  <1> SUFFICES ASSUME WellKept(cache) PROVE CacheAccounted
    OBVIOUS
  <1> DEFINE order == cache.order
             N == Len(order)
             listed == Gone(order, N)
  <1>1. order \in Seq(Term) /\ N \in Nat /\ \A i \in 1..N : order[i] \in Term
    BY DEF WellKept, CacheType
  <1>2. \A i, j \in 1..N : order[i] = order[j] => i = j
    BY DEF WellKept
  <1>3. \A t : t \in listed <=> \E i \in 1..N : order[i] = t
    BY DEF Gone
  <1>4. {t \in Term : cache.entries[t] # {}} = listed
    <2>1. \A t \in Term : cache.entries[t] # {} <=> \E i \in 1..N : order[i] = t
      BY DEF WellKept
    <2> HIDE DEF order, N, listed
    <2> QED BY <1>1, <1>3, <2>1
  <1>5. N = Cardinality(listed)
    <2> DEFINE f == [i \in 1..N |-> order[i]]
    <2>1. f \in Surjection(1..N, listed) /\ f \in Injection(1..N, listed)
      BY <1>2, <1>3 DEF Surjection, Injection, IsInjective
    <2>2. IsFiniteSet(1..N) /\ Cardinality(1..N) = N
      BY <1>1, FS_Interval
    <2> HIDE DEF f, N, listed
    <2> QED BY <2>1, <2>2, FS_Surjection
  <1> QED BY <1>4, <1>5 DEF CacheAccounted, WellKept

(* Every critical section of the cache leaves its books in order. *)
LEMMA NextKeepsBooks ==
  ASSUME WellKept(cache), GateKept, [Next]_vars
  PROVE  WellKept(cache')
  <1>0. \A r \in Reader : /\ rd[r].gen \in Nat /\ rd[r].snap \in Entries
                          /\ rd[r].word \in Term /\ Loadable(rd[r])
    BY DEF GateKept, SearchType
  <1> HIDE DEF Searching, Inside, Outside, Entries, Empty
  <1>1. ASSUME NEW on \in BOOLEAN, Measure(on)
        PROVE  WellKept(cache')
    <2>1. cache' = SetPressure(cache, on)
      BY <1>1 DEF Measure
    <2>2. WellKept(SetPressure(cache, on))
      BY PressureKept
    <2> QED BY <2>1, <2>2
  <1>2. ASSUME NEW r \in Reader, NEW t \in Term, Lookup(r, t)
        PROVE  WellKept(cache')
    <2>1. PICK s : s = [rd[r] EXCEPT !.todo = @ \ {t}, !.word = t]
      OBVIOUS
    <2>2. cache' = cache \/ cache' = AtGeneration(cache, s.gen)
      BY <1>2, <2>1 DEF Lookup
    <2>3. s.gen = rd[r].gen
      BY <2>1, <1>0 DEF GateKept, SearchType
    <2>4. WellKept(AtGeneration(cache, rd[r].gen))
      BY <1>0, GenerationKept
    <2> QED BY <2>2, <2>3, <2>4
  <1>3. ASSUME NEW r \in Reader, Insert(r)
        PROVE  WellKept(cache')
    <2> DEFINE s == rd[r]
               t == s.word
               P == s.snap[t]
    <2>1. s.pc = "insert" /\ cache' = IF Admits(cache, s.gen, t) THEN Inserted(cache, t, P)
                                                                ELSE cache
      BY <1>3 DEF Insert
    <2>2. t \in Term /\ P \in SUBSET Posting /\ P # {} /\ Cardinality(P) <= TermBytes
      BY <1>0, <2>1 DEF Loadable, Entries
    <2>3. CASE Admits(cache, s.gen, t)
      <3>1. ~cache.pressure /\ cache.entries[t] = {}
        BY <2>3 DEF Admits
      <3>2. cache' = Inserted(cache, t, P)
        BY <2>1, <2>3
      <3> HIDE DEF t, P
      <3>3. WellKept(Inserted(cache, t, P))
        BY <2>2, <3>1, InsertionKept
      <3> QED BY <3>2, <3>3
    <2>4. CASE ~Admits(cache, s.gen, t)
      BY <2>1, <2>4
    <2> QED BY <2>3, <2>4
  <1>4. ASSUME \/ Write \/ AdjustGate \/ UNCHANGED vars
               \/ \E r \in Reader : \/ Arrive(r) \/ Enter(r) \/ Begin(r)
                                    \/ (\E words \in SUBSET Term : Retrieve(r, words))
                                    \/ Load(r) \/ Fallback(r) \/ Retrieved(r) \/ Leave(r)
        PROVE  cache' = cache
    BY <1>4 DEF Write, AdjustGate, vars, Arrive, Enter, Begin, Retrieve, Load, Fallback,
                Retrieved, Leave
  <1> QED BY <1>1, <1>2, <1>3, <1>4 DEF Next, SearchStep

LEMMA InitBooks == Init => WellKept(cache)
  <1>1. WellKept(NewCache)
    BY EmptyKept DEF NewCache
  <1> QED BY <1>1 DEF Init

(* What the gate, the cache and the searches keep together. *)
LEMMA BooksAlways == Spec => [](Shape /\ GateKept /\ WellKept(cache))
  <1>1. Shape => rd \in [Reader -> SearchType]
    BY DEF Shape
  <1>2. Shape /\ OneContent /\ [Next]_vars => Shape' /\ OneContent'
    BY NextKeeps
  <1>3. GateKept /\ [Next]_vars /\ (rd \in [Reader -> SearchType])' => GateKept'
    BY NextKeepsGate
  <1>4. WellKept(cache) /\ GateKept /\ [Next]_vars => WellKept(cache)'
    BY NextKeepsBooks DEF WellKept
  <1> QED BY <1>1, <1>2, <1>3, <1>4, InitOneContent, InitGate, InitBooks, PTL DEF Spec

(* The cache's size is that of its entries and within its bound, its order   *)
(* lists each entry once, and under pressure it stays empty (hot.rs,         *)
(* Cache::get, insert and set_pressure).                                    *)
THEOREM CacheAlwaysAccounted == Spec => []CacheAccounted
  <1>1. Shape /\ GateKept /\ WellKept(cache) => CacheAccounted
    BY KeptAccounted
  <1> QED BY <1>1, BooksAlways, PTL

(* The bounds count up and the monitor is between its two steps or idle. *)
Counting ==
    monitor \in {"idle", "raise", "lower"} /\ spent \in [queries : Nat, flips : Nat]

LEMMA NextKeepsCounting == ASSUME Counting, [Next]_vars PROVE Counting'
  <1>1. spent.queries \in Nat /\ spent.flips \in Nat
    BY DEF Counting
  <1>2. ASSUME NEW r \in Reader, Arrive(r)
        PROVE  Counting'
    <2>1. spent' = [spent EXCEPT !.queries = @ + 1] /\ UNCHANGED monitor
      BY <1>2 DEF Arrive
    <2> QED BY <1>1, <2>1 DEF Counting
  <1>3. ASSUME NEW on \in BOOLEAN, Measure(on)
        PROVE  Counting'
    <2>1. spent' = [spent EXCEPT !.flips = @ + 1] /\ monitor' \in {"raise", "lower"}
      BY <1>3 DEF Measure
    <2> QED BY <1>1, <2>1 DEF Counting
  <1>4. CASE AdjustGate
    BY <1>4 DEF AdjustGate, Counting
  <1>5. ASSUME \/ Write \/ UNCHANGED vars
               \/ \E r \in Reader : SearchStep(r)
        PROVE  UNCHANGED <<monitor, spent>>
    BY <1>5, Zenon DEF Write, vars, SearchStep, Enter, Begin, Retrieve, Lookup, Load, Insert,
                Fallback, Retrieved, Leave, others
  <1>6. ASSUME UNCHANGED <<monitor, spent>> PROVE Counting'
    BY <1>6 DEF Counting
  <1> QED BY <1>2, <1>3, <1>4, <1>5, <1>6 DEF Next

(* Every variable of the query engine has its type; in particular the count  *)
(* of permits, unsigned in the code, is never taken below zero.              *)
THEOREM QueryTyped == Spec => []TypeOK
  <1>1. Init => Counting
    BY DEF Init, Counting
  <1>2. Counting /\ [Next]_vars => Counting'
    BY NextKeepsCounting
  <1>3. Counting /\ Shape /\ GateKept /\ WellKept(cache) => TypeOK
    BY DEF Counting, Shape, GateKept, WellKept, TypeOK
  <1> QED BY <1>1, <1>2, <1>3, BooksAlways, PTL DEF Spec
=============================================================================
