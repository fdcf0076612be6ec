-------------------------- MODULE OwnerFilesProofs --------------------------
(***************************************************************************)
(* The files that an owner keeps, or finds again after a restart.          *)
(*                                                                         *)
(* The store's tables, for every number of sources, words and contents and *)
(* writes of any length.                                                   *)
(*                                                                         *)
(* Match ids and checkpoints rest on the generation a chunk is given: no   *)
(* chunk present or past carries a later one than the store's, and every   *)
(* write takes the next (Issued).  So the chunks of a write are new, which *)
(* is what lets the statistics, that are only added to and subtracted      *)
(* from, stay the counts of what is there (Tables); from them follow the   *)
(* compaction and that the store implements the abstract versioned index.  *)
(*                                                                         *)
(* A root once recorded is never lost.  The argument: between the reload   *)
(* under the lock and the rename the file cannot change, because only the  *)
(* holder of the lock replaces it; what replaces it is therefore the file  *)
(* itself with one more entry, one that was verified.                      *)
(*                                                                         *)
(* What the owner commits for a version are all of its chunks.  The        *)
(* argument: every entry, of the manifest or of the worker's copy of it,   *)
(* carries the checksum of whole chunks, since it was made from the file   *)
(* just renamed into place, with no use of the cache in between; so a      *)
(* file that agrees with its entry holds them all, whatever was done to    *)
(* it, and a file that does not is never committed from.                   *)
(***************************************************************************)
EXTENDS StoreIndex, IdentityRegistry, ContentCache, FiniteSetTheorems, TLAPS

(***************************************************************************)
(* The store.                                                              *)
(***************************************************************************)
(* The inductive invariant.  A source's chunk count must be a number for    *)
(* the ordinals of an append to differ.                                    *)
Issued ==
    /\ generation \in Nat
    /\ \A x \in issued : x.generation \in Nat /\ x.generation <= generation
    /\ chunks \subseteq issued
    /\ DOMAIN sourceTotals = Key /\ \A k \in Key : sourceTotals[k].docs \in Nat
    /\ checkpoints \in [Key -> 0..NoCheckpoint]
    /\ MatchIdNeverRebinds

(* The chunks of one write are as many as its texts. *)
LEMMA NewChunksFinite ==
  ASSUME NEW k, NEW v, NEW first \in Nat, NEW n \in Nat, NEW texts \in [1..n -> Text]
  PROVE  LET new == NewChunks(k, v, first, texts)
         IN  IsFiniteSet(new) /\ Cardinality(new) \in Nat /\ Cardinality(new) = n
  <1> DEFINE f == [i \in 1..n |-> ChunkRow(k, v, first + i - 1, texts[i])]
             new == NewChunks(k, v, first, texts)
  <1>0. \A i \in 1..n : f[i].ordinal = first + i - 1
    BY DEF ChunkRow
  <1>1. f \in Surjection(1..n, new)
    BY DEF Surjection, NewChunks
  <1>2. IsFiniteSet(1..n) /\ Cardinality(1..n) = n
    BY FS_Interval
  <1>3. f \in Injection(1..n, new)
    <2>1. f \in [1..n -> new]
      BY <1>1 DEF Surjection
    <2>2. ASSUME NEW i \in 1..n, NEW j \in 1..n, f[i] = f[j]
          PROVE  i = j
      <3> HIDE DEF f
      <3> QED BY <1>0, <2>2
    <2> HIDE DEF f, new
    <2> QED BY <2>1, <2>2 DEF Injection, IsInjective
  <1> HIDE DEF f, new
  <1>4. IsFiniteSet(new) /\ Cardinality(new) = n
    BY <1>1, <1>2, <1>3, FS_Surjection
  <1> QED BY <1>4 DEF new

(* They are numbered in order. *)
LEMMA NewChunksOrdered ==
  ASSUME NEW k, NEW v, NEW first, NEW texts, NEW last, NEW n \in Nat,
         first \in Nat, DOMAIN texts = 1..n, last = first + n - 1
  PROVE  Ordinals(NewChunks(k, v, first, texts)) = first .. last
  <1> DEFINE f == [i \in 1..n |-> ChunkRow(k, v, first + i - 1, texts[i])]
             new == NewChunks(k, v, first, texts)
  <1>1. \A i \in 1..n : f[i] = ChunkRow(k, v, first + i - 1, texts[i])
                        /\ f[i].ordinal = first + i - 1
    BY DEF ChunkRow
  <1>2. \A x : x \in new <=> \E i \in 1..n : x = f[i]
    BY <1>1 DEF NewChunks
  <1> HIDE DEF f, new
  <1>3. ASSUME NEW x \in new
        PROVE  x.ordinal \in first .. first + n - 1
    <2>1. PICK i \in 1..n : x = f[i]
      BY <1>2
    <2>2. first + i - 1 \in first .. first + n - 1
      OBVIOUS
    <2> QED BY <1>1, <2>1, <2>2
  <1>4. ASSUME NEW o \in first .. first + n - 1
        PROVE  o \in Ordinals(new)
    <2>1. o \in Int
      OBVIOUS
    <2>2. o - first + 1 \in 1..n /\ o = first + (o - first + 1) - 1
      OBVIOUS
    <2>3. f[o - first + 1] \in new /\ f[o - first + 1].ordinal = o
      BY <1>1, <1>2, <2>2
    <2> QED BY <2>3 DEF Ordinals
  <1>5. Ordinals(new) = first .. first + n - 1
    BY <1>3, <1>4 DEF Ordinals
  <1>6. Ordinals(new) = first .. last
    BY <1>5
  <1> QED BY <1>6 DEF new

(* They carry the next generation, and no two of them the same number. *)
LEMMA NewChunksNumbered ==
  ASSUME NEW k, NEW v, NEW first \in Nat, NEW n \in Nat, NEW texts \in [1..n -> Text],
         generation \in Nat
  PROVE  /\ \A x \in NewChunks(k, v, first, texts) :
                x.key = k /\ x.generation = generation + 1
         /\ \A x, y \in NewChunks(k, v, first, texts) : x.ordinal = y.ordinal => x.text = y.text
  <1>1. ASSUME NEW i \in 1..n, NEW j \in 1..n, first + i - 1 = first + j - 1
        PROVE  texts[i] = texts[j]
    BY <1>1
  <1> QED BY <1>1 DEF NewChunks, ChunkRow

(* A tally counts the chunks it is of. *)
LEMMA TallyDocs == ASSUME NEW X PROVE Tally(X).docs = Cardinality(X)
  BY DEF Tally

(* A write, whatever it keeps and counts, keeps the invariant, and the       *)
(* chunks it adds were never there before.                                  *)
LEMMA CommitKeeps ==
  ASSUME Issued, NEW k \in Key, NEW v, NEW first \in Nat, NEW n \in Nat,
         NEW texts \in [1..n -> Text], NEW kept, kept \subseteq ChunksOf(k),
         NEW own, own.docs \in Nat, NEW all, NEW checkpoint \in 0..NoCheckpoint,
         Commit(k, v, kept, NewChunks(k, v, first, texts), own, all, checkpoint)
  PROVE  Issued' /\ NewChunks(k, v, first, texts) \cap issued = {}
  <1> DEFINE new == NewChunks(k, v, first, texts)
  <1>1. /\ \A x \in new : x.key = k /\ x.generation = generation + 1
        /\ \A x, y \in new : x.ordinal = y.ordinal => x.text = y.text
    <2>1. generation \in Nat
      BY DEF Issued
    <2>2. /\ \A x \in NewChunks(k, v, first, texts) :
                 x.key = k /\ x.generation = generation + 1
          /\ \A x, y \in NewChunks(k, v, first, texts) :
                 x.ordinal = y.ordinal => x.text = y.text
      BY <2>1, NewChunksNumbered
    <2> QED BY <2>2
  <1> HIDE DEF new
  <1>2. /\ chunks' = (chunks \ ChunksOf(k)) \cup kept \cup new
        /\ sourceTotals' = [sourceTotals EXCEPT ![k] = own]
        /\ checkpoints' = [checkpoints EXCEPT ![k] = checkpoint]
        /\ generation' = generation + 1
        /\ issued' = issued \cup new
    BY DEF Commit, new
  <1>3. /\ generation' \in Nat
        /\ \A x \in issued' : x.generation \in Nat /\ x.generation <= generation'
        /\ chunks' \subseteq issued'
    BY <1>1, <1>2 DEF Issued, ChunksOf
  <1>4. /\ DOMAIN sourceTotals' = Key /\ \A j \in Key : sourceTotals'[j].docs \in Nat
        /\ checkpoints' \in [Key -> 0..NoCheckpoint]
    <2>1. \A j \in Key : sourceTotals'[j] = IF j = k THEN own ELSE sourceTotals[j]
      BY <1>2 DEF Issued
    <2> QED BY <1>2, <2>1 DEF Issued
  <1>5. new \cap issued = {}
    BY <1>1 DEF Issued
  <1>6. MatchIdNeverRebinds'
    <2> SUFFICES ASSUME NEW x \in issued', NEW y \in issued', MatchId(x) = MatchId(y)
                 PROVE  x.text = y.text
      BY DEF MatchIdNeverRebinds, MatchId
    <2>1. x.generation = y.generation /\ x.ordinal = y.ordinal
      BY DEF MatchId
    <2>2. CASE x \in issued /\ y \in issued
      BY <2>2 DEF Issued, MatchIdNeverRebinds
    <2>3. CASE x \in new /\ y \in new
      BY <1>1, <2>1, <2>3
    <2>4. CASE \/ x \in issued /\ y \in new
               \/ x \in new /\ y \in issued
      BY <1>1, <2>1, <2>4 DEF Issued
    <2> QED BY <1>2, <2>2, <2>3, <2>4
  <1> QED BY <1>3, <1>4, <1>5, <1>6 DEF Issued, new

(* A transaction that adds no chunk. *)
LEMMA NoWriteKeeps ==
  ASSUME Issued, generation' \in {generation, generation + 1}, UNCHANGED issued,
         chunks' \subseteq chunks,
         DOMAIN sourceTotals' = Key, \A k \in Key : sourceTotals'[k].docs \in Nat,
         checkpoints' \in [Key -> 0..NoCheckpoint]
  PROVE  Issued'
  <1>1. /\ generation' \in Nat
        /\ \A x \in issued' : x.generation \in Nat /\ x.generation <= generation'
    BY DEF Issued
  <1>2. MatchIdNeverRebinds'
    BY DEF Issued, MatchIdNeverRebinds, MatchId
  <1> QED BY <1>1, <1>2 DEF Issued

(* The promise about checkpoints, for one step. *)
Advances ==
    \A k \in Key : checkpoints'[k] < checkpoints[k] /\ checkpoints[k] # NoCheckpoint =>
        {x \in chunks' : x.key = k} \cap ChunksOf(k) = {}

(* No checkpoint lies beyond every checkpoint. *)
LEMMA NoCheckpointLast == NoCheckpoint \in Nat /\ \A o \in 0..MaxOffset : o \in 0..NoCheckpoint
  BY StoreAssumption DEF NoCheckpoint

(* A replacement adds only new chunks and removes the source's old ones. *)
LEMMA ReplaceKeeps ==
  ASSUME Issued, NEW k \in Key, NEW v \in Version, NEW n \in Nat, NEW texts \in [1..n -> Text],
         NEW checkpoint \in 0..NoCheckpoint, ReplaceSource(k, v, texts, checkpoint)
  PROVE  Issued' /\ Advances
  <1> DEFINE new == NewChunks(k, v, 0, texts)
             own == Tally(new)
             all == With(Without(k), k, Tally(new))
  <1>1. Commit(k, v, {}, new, own, all, checkpoint)
    BY DEF ReplaceSource
  <1>2. own.docs \in Nat
    BY NewChunksFinite, TallyDocs
  <1> HIDE DEF own, all
  <1>3. Issued' /\ new \cap issued = {}
    BY <1>1, <1>2, CommitKeeps
  <1> HIDE DEF new
  <1>4. Advances
    <2> SUFFICES ASSUME NEW j \in Key, checkpoints'[j] < checkpoints[j]
                 PROVE  {x \in chunks' : x.key = j} \cap ChunksOf(j) = {}
      BY DEF Advances
    <2>1. checkpoints' = [checkpoints EXCEPT ![k] = checkpoint] /\ checkpoints[j] \in Nat
      BY <1>1, NoCheckpointLast DEF Commit, Issued
    <2>2. j = k
      BY <2>1 DEF Issued
    <2>3. chunks' = (chunks \ ChunksOf(k)) \cup new
      BY <1>1 DEF Commit
    <2> QED BY <1>3, <2>2, <2>3 DEF ChunksOf, Issued
  <1> QED BY <1>3, <1>4

(* An append's checkpoint is not before the one it finds. *)
LEMMA AppendKeeps ==
  ASSUME Issued, NEW k \in Key, NEW e \in Version, NEW v \in Version, NEW n \in Nat,
         NEW texts \in [1..n -> Text], NEW checkpoint \in 0..MaxOffset,
         AppendSource(k, e, v, texts, checkpoint)
  PROVE  Issued' /\ Advances
  <1> DEFINE first == sourceTotals[k].docs
             new == NewChunks(k, v, first, texts)
             own == Plus(sourceTotals[k], Tally(new))
             all == With(totals, k, IF sources[k].eligible THEN Tally(new) ELSE own)
  <1>1. MayAppend(k, e, checkpoint) /\ Commit(k, v, ChunksOf(k), new, own, all, checkpoint)
    BY DEF AppendSource
  <1>2. first \in Nat /\ checkpoint \in 0..NoCheckpoint
    BY NoCheckpointLast DEF Issued
  <1>3. own.docs \in Nat
    <2>1. Tally(new).docs \in Nat
      <3> HIDE DEF first
      <3> QED BY <1>2, NewChunksFinite, TallyDocs
    <2> HIDE DEF new
    <2> QED BY <1>2, <2>1 DEF Plus
  <1> HIDE DEF own, all, first
  <1>4. Issued'
    BY <1>1, <1>2, <1>3, CommitKeeps
  <1>5. Advances
    <2> HIDE DEF new
    <2> SUFFICES ASSUME NEW j \in Key, checkpoints'[j] < checkpoints[j]
                 PROVE  FALSE
      BY DEF Advances
    <2>1. /\ checkpoints' = [checkpoints EXCEPT ![k] = checkpoint]
          /\ checkpoint >= checkpoints[k] /\ checkpoint \in Nat
          /\ checkpoints[j] \in Nat /\ checkpoints[k] \in Nat
      BY <1>1, NoCheckpointLast DEF Commit, MayAppend, Issued
    <2> QED BY <2>1 DEF Issued
  <1> QED BY <1>4, <1>5

(* A transaction that only raises checkpoints, or clears them. *)
LEMMA RaisesAdvances ==
  ASSUME Issued, \A k \in Key : checkpoints'[k] \in {checkpoints[k], NoCheckpoint}
  PROVE  Advances
  <1>1. \A k \in Key : checkpoints[k] \in Nat /\ checkpoints[k] <= NoCheckpoint
    BY NoCheckpointLast DEF Issued
  <1> QED BY <1>1, NoCheckpointLast DEF Advances

(* A source without chunks counts none. *)
LEMMA NothingDocs == Nothing.docs \in Nat
  BY DEF Nothing

(* Removing a source drops its chunks, its count and its checkpoint. *)
LEMMA RemoveKeeps ==
  ASSUME Issued, NEW k \in Key, RemoveSource(k)
  PROVE  Issued' /\ Advances
  <1>1. /\ chunks' \subseteq chunks /\ generation' = generation + 1 /\ UNCHANGED issued
        /\ sourceTotals' = [sourceTotals EXCEPT ![k] = Nothing]
        /\ checkpoints' = [checkpoints EXCEPT ![k] = NoCheckpoint]
    BY DEF RemoveSource
  <1>2. DOMAIN sourceTotals' = Key /\ \A j \in Key : sourceTotals'[j].docs \in Nat
    BY <1>1, NothingDocs DEF Issued
  <1>3. /\ checkpoints' \in [Key -> 0..NoCheckpoint]
        /\ \A j \in Key : checkpoints'[j] \in {checkpoints[j], NoCheckpoint}
    <2>1. NoCheckpoint \in 0..NoCheckpoint
      BY NoCheckpointLast
    <2> QED BY <1>1, <2>1 DEF Issued
  <1> QED BY <1>1, <1>2, <1>3, NoWriteKeeps, RaisesAdvances

(* A change of tokenizer clears every table but the generation. *)
LEMMA RetokenizeKeeps ==
  ASSUME Issued, Retokenize
  PROVE  Issued' /\ Advances
  <1>1. /\ chunks' \subseteq chunks /\ generation' = generation + 1 /\ UNCHANGED issued
        /\ sourceTotals' = [k \in Key |-> Nothing]
        /\ checkpoints' = [k \in Key |-> NoCheckpoint]
    BY DEF Retokenize
  <1>2. DOMAIN sourceTotals' = Key /\ \A j \in Key : sourceTotals'[j].docs \in Nat
    BY <1>1, NothingDocs
  <1>3. /\ checkpoints' \in [Key -> 0..NoCheckpoint]
        /\ \A j \in Key : checkpoints'[j] \in {checkpoints[j], NoCheckpoint}
    BY <1>1, NoCheckpointLast
  <1> QED BY <1>1, <1>2, <1>3, NoWriteKeeps, RaisesAdvances

(* Suppressing and verifying sources, and compaction, touch neither chunks   *)
(* nor checkpoints.                                                         *)
LEMMA OthersKeep ==
  ASSUME Issued, UNCHANGED <<chunks, sourceTotals, checkpoints, issued>>,
         generation' \in {generation, generation + 1}
  PROVE  Issued' /\ Advances
  <1>1. Issued'
    BY NoWriteKeeps DEF Issued
  <1> QED BY <1>1, RaisesAdvances

(* Every transaction keeps the invariant and advances checkpoints. *)
LEMMA NextKeeps ==
  ASSUME Issued, [Next]_vars
  PROVE  Issued' /\ Advances
  <1>1. ASSUME NEW k \in Key, NEW v \in Version, NEW texts \in Texts,
               NEW offset \in 0..NoCheckpoint, ReplaceSource(k, v, texts, offset)
        PROVE  Issued' /\ Advances
    <2>1. PICK n \in 0..MaxWrites : texts \in [1..n -> Text]
      BY DEF Texts
    <2>2. n \in Nat
      BY StoreAssumption
    <2> QED BY <1>1, <2>1, <2>2, ReplaceKeeps
  <1>2. ASSUME NEW k \in Key, NEW e \in Version, NEW v \in Version, NEW texts \in Texts,
               NEW offset \in 0..MaxOffset, AppendSource(k, e, v, texts, offset)
        PROVE  Issued' /\ Advances
    <2>1. PICK n \in 0..MaxWrites : texts \in [1..n -> Text]
      BY DEF Texts
    <2>2. n \in Nat
      BY StoreAssumption
    <2> QED BY <1>2, <2>1, <2>2, AppendKeeps
  <1>3. ASSUME NEW k \in Key, RemoveSource(k)
        PROVE  Issued' /\ Advances
    BY <1>3, RemoveKeeps
  <1>4. CASE Retokenize
    BY <1>4, RetokenizeKeeps
  <1>5. CASE \/ \E k \in Key : InvalidateSource(k) \/ MarkVerified(k)
             \/ \E c \in Collection : InvalidateCollection(c)
             \/ Compact
             \/ UNCHANGED vars
    BY <1>5, OthersKeep
       DEF InvalidateSource, MarkVerified, InvalidateCollection, Compact, vars
  <1> QED BY <1>1, <1>2, <1>3, <1>4, <1>5 DEF Next

(* An empty store has issued nothing. *)
LEMMA InitIssued == Init => Issued
  <1> SUFFICES ASSUME Init PROVE Issued
    OBVIOUS
  <1>1. /\ generation = 0 /\ issued = {} /\ chunks = {}
        /\ sourceTotals = [k \in Key |-> Nothing]
        /\ checkpoints = [k \in Key |-> NoCheckpoint]
    BY DEF Init
  <1>2. DOMAIN sourceTotals = Key /\ \A k \in Key : sourceTotals[k].docs \in Nat
    BY <1>1, NothingDocs
  <1>3. checkpoints \in [Key -> 0..NoCheckpoint]
    BY <1>1, NoCheckpointLast
  <1> QED BY <1>1, <1>2, <1>3 DEF Issued, MatchIdNeverRebinds

(* A match id that was ever handed out names one text for good (store.rs,    *)
(* match_id and Store::context), however sources are replaced, removed and   *)
(* written again.                                                           *)
THEOREM MatchIdsNeverRebind == Spec => []MatchIdNeverRebinds
  <1>1. Issued /\ [Next]_vars => Issued'
    BY NextKeeps
  <1>2. Issued => MatchIdNeverRebinds
    BY DEF Issued
  <1> QED BY <1>1, <1>2, InitIssued, PTL DEF Spec

(* A session's checkpoint moves back only in a transaction that drops every  *)
(* chunk the source had (store.rs, the two branches of write_source).        *)
THEOREM CheckpointsAlwaysAdvance == Spec => CheckpointsAdvance
  <1>1. Issued /\ [Next]_vars => Issued'
    BY NextKeeps
  <1>2. Issued /\ [Next]_vars => [Advances]_vars
    BY NextKeeps
  <1>3. [Advances]_vars <=>
        [\A k \in Key : checkpoints'[k] < checkpoints[k] /\ checkpoints[k] # NoCheckpoint =>
             {x \in chunks' : x.key = k} \cap ChunksOf(k) = {}]_vars
    BY DEF Advances
  <1> QED BY <1>1, <1>2, <1>3, InitIssued, PTL DEF Spec, CheckpointsAdvance

(***************************************************************************)
(* The statistics.  A tally is a count of a finite set of chunks: that of  *)
(* a disjoint union is the sum, and what a source contributed can be       *)
(* subtracted again exactly because its chunks are among those counted.    *)
(***************************************************************************)
ChunkSets == {X \in SUBSET ChunkType : IsFiniteSet(X)}
Tokens(X) == {y \in X \X Term : y[2] \in y[1].text}
With1(X, t) == {x \in X : t \in x.text}

LEMMA FiniteParts ==
  ASSUME NEW X \in ChunkSets
  PROVE  /\ IsFiniteSet(X) /\ IsFiniteSet(Tokens(X))
         /\ \A t \in Term : IsFiniteSet(With1(X, t))
         /\ \A Y \in SUBSET X : Y \in ChunkSets
  <1>1. IsFiniteSet(X \X Term)
    BY StoreAssumption, FS_Product DEF ChunkSets
  <1>2. IsFiniteSet(Tokens(X))
    BY <1>1, FS_Subset DEF Tokens
  <1>3. \A t \in Term : IsFiniteSet(With1(X, t))
    BY FS_Subset DEF With1, ChunkSets
  <1>4. \A Y \in SUBSET X : Y \in ChunkSets
    BY FS_Subset DEF ChunkSets
  <1> QED BY <1>2, <1>3, <1>4 DEF ChunkSets

LEMMA TallyFields ==
  ASSUME NEW X
  PROVE  /\ Tally(X) = [docs |-> Cardinality(X), tokens |-> Cardinality(Tokens(X)),
                        df |-> [t \in Term |-> Cardinality(With1(X, t))]]
         /\ Tally(X).docs = Cardinality(X) /\ Tally(X).tokens = Cardinality(Tokens(X))
         /\ \A t \in Term : Tally(X).df[t] = Cardinality(With1(X, t))
  BY DEF Tally, Tokens, With1

LEMMA TallyTyped == ASSUME NEW X \in ChunkSets PROVE Tally(X) \in TotalType
  <1>1. /\ Cardinality(X) \in Nat /\ Cardinality(Tokens(X)) \in Nat
        /\ \A t \in Term : Cardinality(With1(X, t)) \in Nat
    BY FiniteParts, FS_CardinalityType
  <1> QED BY <1>1, TallyFields DEF TotalType

LEMMA TallyNone == Tally({}) = Nothing
  <1>1. Tokens({}) = {} /\ \A t \in Term : With1({}, t) = {}
    BY DEF Tokens, With1
  <1> QED BY <1>1, TallyFields, FS_EmptySet DEF Nothing

LEMMA CountUnion ==
  ASSUME NEW S, NEW T, IsFiniteSet(S), IsFiniteSet(T), S \cap T = {}
  PROVE  Cardinality(S \cup T) = Cardinality(S) + Cardinality(T)
  <1>1. Cardinality(S \cup T) = Cardinality(S) + Cardinality(T) - Cardinality(S \cap T)
    BY FS_Union
  <1>2. Cardinality(S \cap T) = 0
    BY FS_EmptySet
  <1>3. Cardinality(S) \in Nat /\ Cardinality(T) \in Nat
    BY FS_CardinalityType
  <1> QED BY <1>1, <1>2, <1>3

LEMMA TallyUnion ==
  ASSUME NEW X \in ChunkSets, NEW Y \in ChunkSets, X \cap Y = {}
  PROVE  Tally(X \cup Y) = Plus(Tally(X), Tally(Y))
  <1>1. Cardinality(X \cup Y) = Cardinality(X) + Cardinality(Y)
    BY CountUnion, FiniteParts
  <1>2. Cardinality(Tokens(X \cup Y)) = Cardinality(Tokens(X)) + Cardinality(Tokens(Y))
    <2>1. Tokens(X \cup Y) = Tokens(X) \cup Tokens(Y) /\ Tokens(X) \cap Tokens(Y) = {}
      BY DEF Tokens
    <2> QED BY <2>1, CountUnion, FiniteParts
  <1>3. \A t \in Term : Cardinality(With1(X \cup Y, t)) =
                            Cardinality(With1(X, t)) + Cardinality(With1(Y, t))
    <2> TAKE t \in Term
    <2>1. With1(X \cup Y, t) = With1(X, t) \cup With1(Y, t) /\ With1(X, t) \cap With1(Y, t) = {}
      BY DEF With1
    <2> QED BY <2>1, CountUnion, FiniteParts
  <1>4. Plus(Tally(X), Tally(Y)) =
            [docs |-> Cardinality(X) + Cardinality(Y),
             tokens |-> Cardinality(Tokens(X)) + Cardinality(Tokens(Y)),
             df |-> [t \in Term |-> Cardinality(With1(X, t)) + Cardinality(With1(Y, t))]]
    <2>1. \A t \in Term : Tally(X).df[t] = Cardinality(With1(X, t))
                          /\ Tally(Y).df[t] = Cardinality(With1(Y, t))
      BY TallyFields
    <2>2. [t \in Term |-> Tally(X).df[t] + Tally(Y).df[t]] =
              [t \in Term |-> Cardinality(With1(X, t)) + Cardinality(With1(Y, t))]
      BY <2>1
    <2>3. /\ Tally(X).docs = Cardinality(X) /\ Tally(Y).docs = Cardinality(Y)
          /\ Tally(X).tokens = Cardinality(Tokens(X)) /\ Tally(Y).tokens = Cardinality(Tokens(Y))
      BY TallyFields
    <2> QED BY <2>2, <2>3 DEF Plus
  <1>5. [t \in Term |-> Cardinality(With1(X \cup Y, t))] =
            [t \in Term |-> Cardinality(With1(X, t)) + Cardinality(With1(Y, t))]
    BY <1>3
  <1> QED BY <1>1, <1>2, <1>4, <1>5, TallyFields

(* adjust_statistics with sign -1 gives back what was there before. *)
LEMMA TallyMinus ==
  ASSUME NEW X \in ChunkSets, NEW Y \in SUBSET X
  PROVE  Minus(Tally(X), Tally(Y)) = Tally(X \ Y)
  <1> DEFINE a == Tally(X \ Y)
             b == Tally(Y)
  <1>1. X \ Y \in ChunkSets /\ Y \in ChunkSets
    BY FiniteParts
  <1>2. a \in TotalType /\ b \in TotalType
    BY <1>1, TallyTyped
  <1>3. Tally(X) = Plus(a, b)
    <2>1. X = (X \ Y) \cup Y /\ (X \ Y) \cap Y = {}
      OBVIOUS
    <2> QED BY <1>1, <2>1, TallyUnion
  <1>4. a.docs = 0 => a.tokens = 0
    <2>1. a.docs = 0 => X \ Y = {}
      BY <1>1, TallyFields, FS_EmptySet DEF ChunkSets
    <2> QED BY <2>1, TallyNone DEF Nothing
  <1> HIDE DEF a, b
  <1>5. ASSUME NEW n \in Nat, NEW m \in Nat
        PROVE  Positive(n + m, m) = n /\ (n + m > m <=> n # 0) /\ n + m - m = n
    BY DEF Positive
  <1>6. /\ Plus(a, b).docs = a.docs + b.docs /\ Plus(a, b).tokens = a.tokens + b.tokens
        /\ \A t \in Term : Plus(a, b).df[t] = a.df[t] + b.df[t]
    BY DEF Plus
  <1>7. /\ a.docs \in Nat /\ b.docs \in Nat /\ a.tokens \in Nat /\ b.tokens \in Nat
        /\ \A t \in Term : a.df[t] \in Nat /\ b.df[t] \in Nat
    BY <1>2 DEF TotalType
  <1>8. /\ Positive(Plus(a, b).docs, b.docs) = a.docs
        /\ (IF Plus(a, b).docs > b.docs THEN Plus(a, b).tokens - b.tokens ELSE 0) = a.tokens
        /\ \A t \in Term : Positive(Plus(a, b).df[t], b.df[t]) = a.df[t]
    BY <1>4, <1>5, <1>6, <1>7
  <1>9. Minus(Plus(a, b), b) = [docs |-> a.docs, tokens |-> a.tokens,
                                df |-> [t \in Term |-> a.df[t]]]
    BY <1>8 DEF Minus
  <1> QED BY <1>2, <1>3, <1>9 DEF TotalType, a, b

(***************************************************************************)
(* The invariant of the tables.  That a commit's chunks are new, hence     *)
(* counted once, is what the generations of Issued are for.                *)
(***************************************************************************)
Tables ==
    /\ TypeOK /\ IsFiniteSet(chunks)
    /\ SourceStatisticsMatch /\ StatisticsMatch
    /\ Issued

LEMMA TableParts ==
  ASSUME TypeOK, IsFiniteSet(chunks)
  PROVE  /\ chunks \in ChunkSets
         /\ \A k \in Key : ChunksOf(k) \in ChunkSets
         /\ \A c \in Collection : Searchable(c) \in ChunkSets
  <1>1. chunks \in ChunkSets
    BY DEF ChunkSets, TypeOK
  <1>2. /\ \A k \in Key : ChunksOf(k) \in SUBSET chunks
        /\ \A c \in Collection : Searchable(c) \in SUBSET chunks
    BY DEF ChunksOf, Searchable
  <1> QED BY <1>1, <1>2, FiniteParts

(* A source's chunks are among its collection's searchable ones if it is     *)
(* eligible, and among nobody's otherwise.                                  *)
LEMMA WhereCounted ==
  ASSUME TypeOK, NEW k \in Key, NEW c \in Collection
  PROVE  IF sources[k].eligible /\ Home[k] = c
         THEN ChunksOf(k) \subseteq Searchable(c)
         ELSE Searchable(c) \cap ChunksOf(k) = {}
  BY DEF Searchable, ChunksOf

(* Subtracting a source leaves the count of the other searchable chunks. *)
LEMMA WithoutIs ==
  ASSUME Tables, NEW k \in Key
  PROVE  /\ Without(k) \in [Collection -> TotalType]
         /\ \A c \in Collection : Without(k)[c] = Tally(Searchable(c) \ ChunksOf(k))
  <1>1. TypeOK /\ totals \in [Collection -> TotalType] /\ Home[k] \in Collection
    BY StoreAssumption DEF Tables, TypeOK
  <1>2. \A c \in Collection : Searchable(c) \in ChunkSets
    BY TableParts DEF Tables
  <1>3. \A c \in Collection : totals[c] = Tally(Searchable(c))
    BY DEF Tables, StatisticsMatch
  <1>4. sourceTotals[k] = Tally(ChunksOf(k))
    BY DEF Tables, SourceStatisticsMatch
  <1>5. ASSUME NEW c \in Collection
        PROVE  Without(k)[c] = Tally(Searchable(c) \ ChunksOf(k))
    <2>1. CASE sources[k].eligible /\ Home[k] = c
      <3>1. ChunksOf(k) \subseteq Searchable(c)
        BY <1>1, <2>1, WhereCounted
      <3>2. Without(k)[c] = Minus(totals[c], sourceTotals[k])
        BY <1>1, <2>1 DEF Without
      <3> QED BY <1>2, <1>3, <1>4, <3>1, <3>2, TallyMinus
    <2>2. CASE ~(sources[k].eligible /\ Home[k] = c)
      <3>1. Searchable(c) \cap ChunksOf(k) = {}
        BY <1>1, <2>2, WhereCounted
      <3>2. Without(k)[c] = totals[c]
        BY <1>1, <2>2 DEF Without
      <3>3. Searchable(c) \ ChunksOf(k) = Searchable(c)
        BY <3>1
      <3> QED BY <1>3, <3>2, <3>3
    <2> QED BY <2>1, <2>2
  <1>6. \A c \in Collection : Tally(Searchable(c) \ ChunksOf(k)) \in TotalType
    <2> TAKE c \in Collection
    <2>1. Searchable(c) \ ChunksOf(k) \in ChunkSets
      BY <1>2, FiniteParts
    <2> QED BY <2>1, TallyTyped
  <1>7. DOMAIN Without(k) = Collection /\ Without(k) = [c \in Collection |-> Without(k)[c]]
    BY <1>1 DEF Without
  <1> QED BY <1>5, <1>6, <1>7

(* Adding the chunks Y to a collection whose row counts X. *)
LEMMA WithIs ==
  ASSUME NEW k \in Key, NEW t, NEW X, NEW Y,
         t \in [Collection -> TotalType], t[Home[k]] = Tally(X),
         X \in ChunkSets, Y \in ChunkSets, X \cap Y = {}
  PROVE  /\ With(t, k, Tally(Y)) \in [Collection -> TotalType]
         /\ \A c \in Collection :
                With(t, k, Tally(Y))[c] = IF c = Home[k] THEN Tally(X \cup Y) ELSE t[c]
  <1>1. Home[k] \in Collection
    BY StoreAssumption
  <1>2. Plus(Tally(X), Tally(Y)) = Tally(X \cup Y)
    BY TallyUnion
  <1>3. X \cup Y \in ChunkSets
    BY FS_Union DEF ChunkSets
  <1>4. Tally(X \cup Y) \in TotalType
    BY <1>3, TallyTyped
  <1>5. With(t, k, Tally(Y)) = [t EXCEPT ![Home[k]] = Tally(X \cup Y)]
    BY <1>1, <1>2 DEF With
  <1> QED BY <1>1, <1>4, <1>5

(* The chunks of one write, as rows of the tables. *)
LEMMA NewChunksTyped ==
  ASSUME Issued, NEW k \in Key, NEW v \in Version, NEW first \in Nat, NEW n \in Nat,
         NEW texts \in [1..n -> Text]
  PROVE  /\ NewChunks(k, v, first, texts) \in ChunkSets
         /\ Words(NewChunks(k, v, first, texts)) \subseteq Term
         /\ \A x \in NewChunks(k, v, first, texts) : x.key = k
         /\ NewChunks(k, v, first, texts) \cap chunks = {}
         /\ Cardinality(NewChunks(k, v, first, texts)) = n
         /\ Ordinals(NewChunks(k, v, first, texts)) = first .. first + n - 1
  <1> DEFINE new == NewChunks(k, v, first, texts)
  <1>1. generation \in Nat /\ \A x \in issued : x.generation \in Nat /\ x.generation <= generation
    BY DEF Issued
  <1>2. \A i \in DOMAIN texts : ChunkRow(k, v, first + i - 1, texts[i]) \in ChunkType
    <2> TAKE i \in DOMAIN texts
    <2>1. first + i - 1 \in Nat /\ generation + 1 \in Nat /\ texts[i] \in Text
      BY <1>1
    <2> QED BY <2>1 DEF ChunkRow, ChunkType
  <1>3. new \in SUBSET ChunkType
    BY <1>2 DEF NewChunks
  <1>4. IsFiniteSet(new) /\ Cardinality(new) = n /\ Ordinals(new) = first .. first + n - 1
    <2>1. IsFiniteSet(new)
      BY NewChunksFinite
    <2>2. Cardinality(new) = n
      BY NewChunksFinite
    <2>3. \E last : last = first + n - 1 /\ Ordinals(new) = first .. last
      <3>1. PICK last : last = first + n - 1
        OBVIOUS
      <3>2. DOMAIN texts = 1..n
        OBVIOUS
      <3> QED BY <3>1, <3>2, NewChunksOrdered
    <2>4. Ordinals(new) = first .. first + n - 1
      BY <2>3
    <2> QED BY <2>1, <2>2, <2>4
  <1>5. \A x \in new : x.key = k /\ x.generation = generation + 1
    BY <1>1, NewChunksNumbered
  <1> HIDE DEF new
  <1>6. new \cap chunks = {}
    BY <1>1, <1>5 DEF Issued
  <1>7. Words(new) \subseteq Term
    BY <1>3, StoreAssumption DEF Words, ChunkType
  <1> QED BY <1>3, <1>4, <1>5, <1>6, <1>7 DEF ChunkSets, new

(* What a write adds, and that its counts are those of what is then there. *)
Fresh(k, new) ==
    /\ new \in ChunkSets /\ Words(new) \subseteq Term
    /\ \A x \in new : x.key = k
    /\ new \cap chunks = {}

Balanced(k, kept, new, own, all) ==
    /\ own = Tally(kept \cup new) /\ Ordinals(kept \cup new) = 0..(own.docs - 1)
    /\ all \in [Collection -> TotalType]
    /\ \A c \in Collection :
           all[c] = IF c = Home[k]
                    THEN Tally(((Searchable(c) \ ChunksOf(k)) \cup kept) \cup new)
                    ELSE Tally(Searchable(c))

(* A write that keeps either all of the source's chunks or none. *)
LEMMA CommitCounts ==
  ASSUME NEW k \in Key, NEW v \in Version, NEW kept, NEW new, NEW own, NEW all,
         NEW checkpoint \in 0..NoCheckpoint,
         Tables, kept \in {{}, ChunksOf(k)}, Fresh(k, new), Balanced(k, kept, new, own, all),
         Commit(k, v, kept, new, own, all, checkpoint), Issued'
  PROVE  Tables'
  <1>1. /\ new \in ChunkSets /\ Words(new) \subseteq Term
        /\ (\A x \in new : x.key = k) /\ new \cap chunks = {}
    BY DEF Fresh
  <1>2. /\ own = Tally(kept \cup new) /\ Ordinals(kept \cup new) = 0..(own.docs - 1)
        /\ all \in [Collection -> TotalType]
        /\ \A c \in Collection :
               all[c] = IF c = Home[k]
                        THEN Tally(((Searchable(c) \ ChunksOf(k)) \cup kept) \cup new)
                        ELSE Tally(Searchable(c))
    BY DEF Balanced
  <1>3. kept \subseteq ChunksOf(k) /\ kept \in ChunkSets
    <2>1. kept \subseteq ChunksOf(k) /\ ChunksOf(k) \in ChunkSets
      BY TableParts DEF Tables
    <2> QED BY <2>1, FiniteParts
  <1>4. kept \cup new \in ChunkSets
    BY <1>1, <1>3, FS_Union DEF ChunkSets
  <1>5. own \in TotalType
    BY <1>2, <1>4, TallyTyped
  <1>7. /\ sources' = [sources EXCEPT ![k] = [version |-> v, eligible |-> TRUE]]
        /\ chunks' = ((chunks \ ChunksOf(k)) \cup kept) \cup new
        /\ terms' = terms \cup Words(new)
        /\ sourceTotals' = [sourceTotals EXCEPT ![k] = own]
        /\ totals' = all
        /\ checkpoints' = [checkpoints EXCEPT ![k] = checkpoint]
        /\ generation' = generation + 1 /\ generation \in Nat
        /\ issued' = issued \cup new
    BY DEF Commit, Tables, TypeOK
  <1>8. TypeOK /\ IsFiniteSet(chunks) /\ chunks \in ChunkSets
    BY TableParts DEF Tables
  <1>9. chunks' \in ChunkSets
    <2>1. chunks \ ChunksOf(k) \in ChunkSets
      BY <1>8, FiniteParts
    <2>2. (chunks \ ChunksOf(k)) \cup kept \in ChunkSets
      BY <1>3, <2>1, FS_Union DEF ChunkSets
    <2> QED BY <1>1, <1>7, <2>2, FS_Union DEF ChunkSets
  <1>10. Words(chunks') \subseteq terms' /\ terms' \subseteq Term
    <2>1. chunks' \subseteq chunks \cup new
      BY <1>3, <1>7 DEF ChunksOf
    <2>2. Words(chunks) \subseteq terms /\ terms \subseteq Term
      BY <1>8 DEF TypeOK
    <2>3. Words(chunks') \subseteq Words(chunks) \cup Words(new)
      BY <2>1 DEF Words
    <2> QED BY <1>1, <1>7, <2>2, <2>3
  <1>11. TypeOK'
    <2>1. sources' \in [Key -> Source]
      BY <1>7, <1>8 DEF TypeOK, Source
    <2>2. issued' \in SUBSET ChunkType
      BY <1>1, <1>7, <1>8 DEF TypeOK, ChunkSets
    <2>3. sourceTotals' \in [Key -> TotalType] /\ totals' \in [Collection -> TotalType]
      BY <1>2, <1>5, <1>7, <1>8 DEF TypeOK
    <2>4. checkpoints' \in [Key -> 0..NoCheckpoint] /\ generation' \in Nat
      BY <1>7, <1>8 DEF TypeOK
    <2>5. chunks' \in SUBSET ChunkType
      BY <1>9 DEF ChunkSets
    <2>6. Words(chunks)' \subseteq terms'
      BY <1>10 DEF Words
    <2> QED BY <1>10, <2>1, <2>2, <2>3, <2>4, <2>5, <2>6 DEF TypeOK
  <1>12. \A j \in Key : ChunksOf(j)' = IF j = k THEN kept \cup new ELSE ChunksOf(j)
    BY <1>1, <1>3, <1>7 DEF ChunksOf
  <1>13. SourceStatisticsMatch'
    <2> SUFFICES ASSUME NEW j \in Key
                 PROVE  /\ sourceTotals'[j] = Tally(ChunksOf(j)')
                        /\ Ordinals(ChunksOf(j)') = 0..(sourceTotals'[j].docs - 1)
      BY DEF SourceStatisticsMatch, Tally, Ordinals
    <2>1. CASE j = k
      <3>1. sourceTotals'[j] = own /\ ChunksOf(j)' = kept \cup new
        BY <1>7, <1>8, <1>12, <2>1 DEF TypeOK
      <3> QED BY <1>2, <3>1
    <2>2. CASE j # k
      <3>1. sourceTotals'[j] = sourceTotals[j] /\ ChunksOf(j)' = ChunksOf(j)
        BY <1>7, <1>8, <1>12, <2>2 DEF TypeOK
      <3>2. /\ sourceTotals[j] = Tally(ChunksOf(j))
            /\ Ordinals(ChunksOf(j)) = 0..(sourceTotals[j].docs - 1)
        BY DEF Tables, SourceStatisticsMatch
      <3> QED BY <3>1, <3>2
    <2> QED BY <2>1, <2>2
  <1>14. StatisticsMatch'
    <2>1. ASSUME NEW c \in Collection
          PROVE  Searchable(c)' = IF c = Home[k]
                                  THEN ((Searchable(c) \ ChunksOf(k)) \cup kept) \cup new
                                  ELSE Searchable(c)
      <3>1. \A j \in Key : sources'[j].eligible = IF j = k THEN TRUE ELSE sources[j].eligible
        BY <1>7, <1>8 DEF TypeOK
      <3>2. \A x \in chunks' : x.key \in Key
        BY <1>9 DEF ChunkSets, ChunkType
      <3>3. \A x : x \in Searchable(c)' <=> x \in chunks' /\ sources'[x.key].eligible /\ Home[x.key] = c
        BY DEF Searchable
      <3>4. \A x : x \in Searchable(c) <=> x \in chunks /\ sources[x.key].eligible /\ Home[x.key] = c
        BY DEF Searchable
      <3>5. \A x : x \in ChunksOf(k) <=> x \in chunks /\ x.key = k
        BY DEF ChunksOf
      <3>6. \A x \in kept : x \in chunks /\ x.key = k
        BY <1>3, <3>5
      <3>7. \A x : x \in chunks' <=> (x \in chunks /\ x.key # k) \/ x \in kept \/ x \in new
        BY <1>7, <3>5
      <3>8. ASSUME c = Home[k], NEW x
            PROVE  x \in Searchable(c)'
                       <=> (x \in Searchable(c) /\ x.key # k) \/ x \in kept \/ x \in new
        <4>1. CASE x \in kept \/ x \in new
          <5>1. x \in chunks' /\ x.key = k
            BY <1>1, <3>6, <3>7, <4>1
          <5> QED BY <3>1, <3>3, <3>8, <4>1, <5>1
        <4>2. CASE ~(x \in kept \/ x \in new)
          BY <3>1, <3>2, <3>3, <3>4, <3>7, <4>2
        <4> QED BY <4>1, <4>2
      <3>9. ASSUME c # Home[k], NEW x
            PROVE  x \in Searchable(c)' <=> x \in Searchable(c)
        <4>1. CASE x.key = k
          BY <3>3, <3>4, <3>9, <4>1
        <4>2. CASE x.key # k
          BY <1>1, <3>1, <3>2, <3>3, <3>4, <3>6, <3>7, <4>2
        <4> QED BY <4>1, <4>2
      <3>10. \A x : x \in Searchable(c) \ ChunksOf(k) <=> x \in Searchable(c) /\ x.key # k
        BY <3>4, <3>5
      <3>11. CASE c = Home[k]
        <4>1. \A x : x \in Searchable(c)'
                         <=> x \in ((Searchable(c) \ ChunksOf(k)) \cup kept) \cup new
          BY <3>8, <3>10, <3>11
        <4> QED BY <3>11, <4>1
      <3>12. CASE c # Home[k]
        <4>1. \A x : x \in Searchable(c)' <=> x \in Searchable(c)
          BY <3>9, <3>12
        <4> QED BY <3>12, <4>1
      <3> QED BY <3>11, <3>12
    <2>2. \A c \in Collection : totals'[c] = Tally(Searchable(c)')
      BY <1>2, <1>7, <2>1
    <2> QED BY <2>2 DEF StatisticsMatch, Tally
  <1> QED BY <1>9, <1>11, <1>13, <1>14 DEF Tables, ChunkSets

(* The chunks of a write are fresh. *)
LEMMA NewChunksFresh ==
  ASSUME Tables, NEW k \in Key, NEW v \in Version, NEW first \in Nat, NEW n \in Nat,
         NEW texts \in [1..n -> Text]
  PROVE  /\ Fresh(k, NewChunks(k, v, first, texts))
         /\ Cardinality(NewChunks(k, v, first, texts)) = n
         /\ Ordinals(NewChunks(k, v, first, texts)) = first .. first + n - 1
  <1> DEFINE new == NewChunks(k, v, first, texts)
  <1>1. Issued
    BY DEF Tables
  <1>2. /\ new \in ChunkSets /\ Words(new) \subseteq Term
        /\ (\A x \in new : x.key = k) /\ new \cap chunks = {}
        /\ Cardinality(new) = n
        /\ Ordinals(new) = first .. first + n - 1
    BY <1>1, NewChunksTyped
  <1> QED BY <1>2 DEF Fresh

(* Replacing a source subtracts it and counts the new chunks. *)
LEMMA ReplaceCounts ==
  ASSUME Tables, NEW k \in Key, NEW v \in Version, NEW n \in Nat, NEW texts \in [1..n -> Text],
         NEW checkpoint \in 0..NoCheckpoint, ReplaceSource(k, v, texts, checkpoint)
  PROVE  Tables'
  <1> DEFINE new == NewChunks(k, v, 0, texts)
             own == Tally(new)
             all == With(Without(k), k, Tally(new))
             rest(c) == Searchable(c) \ ChunksOf(k)
  <1>1. Commit(k, v, {}, new, own, all, checkpoint)
    BY DEF ReplaceSource
  <1>2. new \in ChunkSets /\ new \cap chunks = {}
    <2>1. Issued
      BY DEF Tables
    <2> QED BY <2>1, NewChunksTyped
  <1>3. Home[k] \in Collection /\ TypeOK
    BY StoreAssumption DEF Tables
  <1>4. \A c \in Collection : rest(c) \in ChunkSets /\ rest(c) \cap new = {}
    <2> TAKE c \in Collection
    <2>1. Searchable(c) \in ChunkSets /\ rest(c) \in SUBSET Searchable(c)
      BY TableParts DEF Tables
    <2>2. Searchable(c) \subseteq chunks
      BY DEF Searchable
    <2> HIDE DEF new, rest
    <2> QED BY <1>2, <2>1, <2>2, FiniteParts
  <1>5. /\ Without(k) \in [Collection -> TotalType]
        /\ \A c \in Collection : Without(k)[c] = Tally(rest(c))
    BY WithoutIs
  <1>6. /\ all \in [Collection -> TotalType]
        /\ \A c \in Collection :
               all[c] = IF c = Home[k] THEN Tally(rest(Home[k]) \cup new) ELSE Without(k)[c]
    <2> DEFINE R == rest(Home[k])
               T == Without(k)
    <2>1. /\ T \in [Collection -> TotalType] /\ T[Home[k]] = Tally(R)
          /\ R \in ChunkSets /\ R \cap new = {}
      BY <1>3, <1>4, <1>5
    <2> HIDE DEF new, R, T
    <2>2. /\ With(T, k, Tally(new)) \in [Collection -> TotalType]
          /\ \A c \in Collection :
                 With(T, k, Tally(new))[c] = IF c = Home[k] THEN Tally(R \cup new) ELSE T[c]
      BY <1>2, <2>1, WithIs
    <2> QED BY <2>2 DEF R, T
  <1>7. \A c \in Collection : c # Home[k] => rest(c) = Searchable(c)
    <2> TAKE c \in Collection
    <2>1. c # Home[k] => Searchable(c) \cap ChunksOf(k) = {}
      BY <1>3, WhereCounted
    <2> QED BY <2>1
  <1>8. \A c \in Collection :
            all[c] = IF c = Home[k] THEN Tally((rest(c) \cup {}) \cup new)
                                    ELSE Tally(Searchable(c))
    <2> TAKE c \in Collection
    <2>1. rest(c) \cup {} = rest(c)
      OBVIOUS
    <2> HIDE DEF all, rest, new
    <2> QED BY <1>5, <1>6, <1>7, <2>1
  <1>9. own = Tally({} \cup new) /\ Ordinals({} \cup new) = 0..(own.docs - 1)
    <2>1. {} \cup new = new
      OBVIOUS
    <2>2. Cardinality(new) = n /\ Ordinals(new) = 0 .. 0 + n - 1
      BY NewChunksFresh
    <2>3. own.docs = Cardinality(new)
      BY TallyDocs
    <2>4. 0 + n - 1 = own.docs - 1
      BY <2>2, <2>3
    <2> QED BY <2>1, <2>2, <2>4
  <1>10. Balanced(k, {}, new, own, all)
    <2> HIDE DEF all, own, new
    <2> QED BY <1>6, <1>8, <1>9 DEF Balanced
  <1>11. Fresh(k, new)
    BY NewChunksFresh
  <1>12. Issued'
    <2>1. Issued
      BY DEF Tables
    <2> QED BY <2>1, ReplaceKeeps
  <1> HIDE DEF new, own, all
  <1> QED BY <1>1, <1>10, <1>11, <1>12, CommitCounts

(* An append counts the new chunks, and a suppressed source's old ones too. *)
LEMMA AppendCounts ==
  ASSUME Tables, NEW k \in Key, NEW e \in Version, NEW v \in Version, NEW n \in Nat,
         NEW texts \in [1..n -> Text], NEW checkpoint \in 0..MaxOffset,
         AppendSource(k, e, v, texts, checkpoint)
  PROVE  Tables'
  <1> DEFINE first == sourceTotals[k].docs
             new == NewChunks(k, v, first, texts)
             old == ChunksOf(k)
             own == Plus(sourceTotals[k], Tally(new))
             all == With(totals, k, IF sources[k].eligible THEN Tally(new) ELSE own)
  <1>1. Commit(k, v, old, new, own, all, checkpoint)
    BY DEF AppendSource
  <1>2. sourceTotals[k] = Tally(old) /\ Ordinals(old) = 0..(first - 1)
    BY DEF Tables, SourceStatisticsMatch
  <1>3. old \in ChunkSets /\ old \subseteq chunks
    BY TableParts DEF Tables, ChunksOf
  <1>4. first \in Nat /\ first = Cardinality(old)
    <2>1. first = Cardinality(old)
      BY <1>2, TallyDocs
    <2> HIDE DEF first, old
    <2> QED BY <1>3, <2>1, FS_CardinalityType DEF ChunkSets
  <1>5. new \in ChunkSets /\ new \cap chunks = {}
    <2>1. Issued
      BY DEF Tables
    <2> HIDE DEF first
    <2> QED BY <1>4, <2>1, NewChunksTyped
  <1>6. checkpoint \in 0..NoCheckpoint /\ Home[k] \in Collection /\ TypeOK
    BY NoCheckpointLast, StoreAssumption DEF Tables
  <1> HIDE DEF first
  <1>7. own = Tally(old \cup new) /\ old \cup new \in ChunkSets
    <2> HIDE DEF new, old
    <2>1. old \cap new = {}
      BY <1>3, <1>5
    <2>2. Plus(Tally(old), Tally(new)) = Tally(old \cup new)
      BY <1>3, <1>5, <2>1, TallyUnion
    <2> QED BY <1>2, <1>3, <1>5, <2>2, FS_Union DEF ChunkSets
  <1>12. Fresh(k, new) /\ Issued'
    <2>1. Issued
      BY DEF Tables
    <2>2. Issued'
      BY <2>1, AppendKeeps
    <2>3. Fresh(k, new)
      BY <1>4, NewChunksFresh
    <2> QED BY <2>2, <2>3
  <1>13. Ordinals(old \cup new) = 0..(own.docs - 1)
    <2>1. Cardinality(new) = n /\ Ordinals(new) = first .. first + n - 1
      BY <1>4, NewChunksFresh
    <2> HIDE DEF new, old
    <2>2. own.docs = first + n
      <3>1. Cardinality(old \cup new) = Cardinality(old) + Cardinality(new)
        BY <1>3, <1>5, CountUnion DEF ChunkSets
      <3> HIDE DEF own
      <3> QED BY <1>4, <1>7, <2>1, <3>1, TallyDocs
    <2>3. Ordinals(old \cup new) = Ordinals(old) \cup Ordinals(new)
      BY DEF Ordinals
    <2> HIDE DEF own
    <2>4. (0..(first - 1)) \cup (first .. first + n - 1) = 0 .. (own.docs - 1)
      BY <1>4, <2>2
    <2> QED BY <1>2, <2>1, <2>3, <2>4
  <1> DEFINE S == Searchable(Home[k])
  <1>8. S \in ChunkSets /\ S \subseteq chunks /\ totals[Home[k]] = Tally(S)
    BY <1>6, TableParts DEF Tables, StatisticsMatch, Searchable
  <1>9. totals \in [Collection -> TotalType]
        /\ \A c \in Collection : totals[c] = Tally(Searchable(c))
    BY DEF Tables, TypeOK, StatisticsMatch
  <1>10. CASE sources[k].eligible
    <2>1. old \subseteq S
      BY <1>6, <1>10, WhereCounted
    <2>2. all = With(totals, k, Tally(new))
      BY <1>10
    <2>3. S \cap new = {} /\ S \cup new = ((S \ old) \cup old) \cup new
      <3> HIDE DEF S, new, old
      <3> QED BY <1>5, <1>8, <2>1
    <2> HIDE DEF all, S, new, old
    <2>4. /\ all \in [Collection -> TotalType]
          /\ \A c \in Collection :
                 all[c] = IF c = Home[k] THEN Tally(S \cup new) ELSE totals[c]
      <3>1. S \cap new = {}
        BY <2>3
      <3> QED BY <1>5, <1>8, <1>9, <2>2, <3>1, WithIs
    <2>5. \A c \in Collection :
              all[c] = IF c = Home[k] THEN Tally(((Searchable(c) \ old) \cup old) \cup new)
                                      ELSE Tally(Searchable(c))
      BY <1>9, <2>3, <2>4 DEF S
    <2> HIDE DEF own
    <2>6. Balanced(k, old, new, own, all)
      BY <1>7, <1>13, <2>4, <2>5 DEF Balanced, old
    <2> QED BY <1>1, <1>6, <1>12, <2>6, CommitCounts DEF old
  <1>11. CASE ~sources[k].eligible
    <2>1. S \cap old = {}
      BY <1>6, <1>11, WhereCounted
    <2>2. all = With(totals, k, Tally(old \cup new))
      BY <1>7, <1>11
    <2>3. /\ S \cap (old \cup new) = {}
          /\ S \cup (old \cup new) = ((S \ old) \cup old) \cup new
      <3> HIDE DEF S, new, old
      <3> QED BY <1>5, <1>8, <2>1
    <2> HIDE DEF all, S, new, old
    <2>4. /\ all \in [Collection -> TotalType]
          /\ \A c \in Collection :
                 all[c] = IF c = Home[k] THEN Tally(S \cup (old \cup new)) ELSE totals[c]
      <3> DEFINE Y == old \cup new
      <3>1. Y \in ChunkSets /\ S \cap Y = {} /\ all = With(totals, k, Tally(Y))
        BY <1>7, <2>2, <2>3
      <3> HIDE DEF Y
      <3>2. /\ all \in [Collection -> TotalType]
            /\ \A c \in Collection :
                   all[c] = IF c = Home[k] THEN Tally(S \cup Y) ELSE totals[c]
        BY <1>8, <1>9, <3>1, WithIs
      <3> QED BY <3>2 DEF Y
    <2>5. \A c \in Collection :
              all[c] = IF c = Home[k] THEN Tally(((Searchable(c) \ old) \cup old) \cup new)
                                      ELSE Tally(Searchable(c))
      BY <1>9, <2>3, <2>4 DEF S
    <2> HIDE DEF own
    <2>6. Balanced(k, old, new, own, all)
      BY <1>7, <1>13, <2>4, <2>5 DEF Balanced, old
    <2> QED BY <1>1, <1>6, <1>12, <2>6, CommitCounts DEF old
  <1> QED BY <1>10, <1>11

(* A transaction that adds no chunk, and leaves a source's own row alone or  *)
(* clears it together with the chunks it counts.                            *)
LEMMA NoWriteCounts ==
  ASSUME Tables, TypeOK', Issued', chunks' \subseteq chunks,
         \A j \in Key : \/ sourceTotals'[j] = sourceTotals[j] /\ ChunksOf(j)' = ChunksOf(j)
                        \/ sourceTotals'[j] = Nothing /\ ChunksOf(j)' = {},
         \A c \in Collection : totals'[c] = Tally(Searchable(c)')
  PROVE  Tables'
  <1>1. IsFiniteSet(chunks')
    BY FS_Subset DEF Tables
  <1>2. SourceStatisticsMatch'
    <2> SUFFICES ASSUME NEW j \in Key
                 PROVE  /\ sourceTotals'[j] = Tally(ChunksOf(j)')
                        /\ Ordinals(ChunksOf(j)') = 0..(sourceTotals'[j].docs - 1)
      BY DEF SourceStatisticsMatch, Tally, Ordinals
    <2>1. CASE sourceTotals'[j] = sourceTotals[j] /\ ChunksOf(j)' = ChunksOf(j)
      <3>1. /\ sourceTotals[j] = Tally(ChunksOf(j))
            /\ Ordinals(ChunksOf(j)) = 0..(sourceTotals[j].docs - 1)
        BY DEF Tables, SourceStatisticsMatch
      <3> QED BY <2>1, <3>1
    <2>2. CASE sourceTotals'[j] = Nothing /\ ChunksOf(j)' = {}
      <3>1. Ordinals({}) = {} /\ Nothing.docs = 0
        BY DEF Ordinals, Nothing
      <3>2. 0..(Nothing.docs - 1) = {}
        BY <3>1
      <3> QED BY <2>2, <3>1, <3>2, TallyNone
    <2> QED BY <2>1, <2>2
  <1>3. StatisticsMatch'
    BY DEF StatisticsMatch, Tally
  <1> QED BY <1>1, <1>2, <1>3 DEF Tables

(* Removing a source subtracts it. *)
LEMMA RemoveCounts ==
  ASSUME Tables, NEW k \in Key, RemoveSource(k)
  PROVE  Tables'
  <1>1. /\ totals' = Without(k) /\ sources' = [sources EXCEPT ![k] = NoSource]
        /\ chunks' = chunks \ ChunksOf(k)
        /\ sourceTotals' = [sourceTotals EXCEPT ![k] = Nothing]
        /\ generation' = generation + 1 /\ UNCHANGED <<terms, issued>>
    BY DEF RemoveSource
  <1>2. TypeOK
    BY DEF Tables
  <1>3. Issued'
    BY RemoveKeeps DEF Tables
  <1>4. Without(k) \in [Collection -> TotalType]
        /\ \A c \in Collection : Without(k)[c] = Tally(Searchable(c) \ ChunksOf(k))
    BY WithoutIs
  <1>5. TypeOK'
    <2>1. sources' \in [Key -> Source]
      BY <1>1, <1>2 DEF TypeOK, Source
    <2>2. Nothing \in TotalType
      BY DEF Nothing, TotalType
    <2>3. sourceTotals' \in [Key -> TotalType] /\ totals' \in [Collection -> TotalType]
      BY <1>1, <1>2, <1>4, <2>2 DEF TypeOK
    <2>4. Words(chunks)' \subseteq terms'
      BY <1>1, <1>2 DEF TypeOK, Words
    <2>5. generation' \in Nat /\ checkpoints' \in [Key -> 0..NoCheckpoint]
      BY <1>3 DEF Issued
    <2> QED BY <1>1, <1>2, <2>1, <2>3, <2>4, <2>5 DEF TypeOK
  <1>6. \A j \in Key : ChunksOf(j)' = IF j = k THEN {} ELSE ChunksOf(j)
    BY <1>1 DEF ChunksOf
  <1>7. \A j \in Key : sourceTotals'[j] = IF j = k THEN Nothing ELSE sourceTotals[j]
    BY <1>1, <1>2 DEF TypeOK
  <1>8. ASSUME NEW c \in Collection
        PROVE  Searchable(c)' = Searchable(c) \ ChunksOf(k)
    <2>1. \A x \in chunks : x.key \in Key
      BY <1>2 DEF TypeOK, ChunkType
    <2>2. \A j \in Key : j # k => sources'[j] = sources[j]
      BY <1>1, <1>2 DEF TypeOK
    <2> QED BY <1>1, <2>1, <2>2 DEF Searchable, ChunksOf
  <1>9. \A c \in Collection : totals'[c] = Tally(Searchable(c)')
    BY <1>1, <1>4, <1>8
  <1>10. chunks' \subseteq chunks
    BY <1>1
  <1> QED BY <1>3, <1>5, <1>6, <1>7, <1>9, <1>10, NoWriteCounts

(* Suppressing a source subtracts it and keeps its chunks. *)
LEMMA InvalidateSourceCounts ==
  ASSUME Tables, NEW k \in Key, InvalidateSource(k)
  PROVE  Tables'
  <1>1. /\ totals' = Without(k) /\ sources' = [sources EXCEPT ![k].eligible = FALSE]
        /\ generation' = generation + 1 /\ sources[k].eligible
        /\ UNCHANGED <<chunks, terms, sourceTotals, checkpoints, issued>>
    BY DEF InvalidateSource
  <1>2. TypeOK
    BY DEF Tables
  <1>3. Issued'
    BY <1>1, OthersKeep DEF Tables
  <1>4. Without(k) \in [Collection -> TotalType]
        /\ \A c \in Collection : Without(k)[c] = Tally(Searchable(c) \ ChunksOf(k))
    BY WithoutIs
  <1>5. TypeOK'
    <2>1. sources' \in [Key -> Source]
      <3>1. sources[k] \in [version : Version, eligible : BOOLEAN]
        BY <1>1, <1>2 DEF TypeOK, Source, NoSource
      <3>2. [sources[k] EXCEPT !.eligible = FALSE] \in Source
        BY <3>1 DEF Source
      <3> QED BY <1>1, <1>2, <3>2 DEF TypeOK
    <2>2. Words(chunks)' \subseteq terms'
      BY <1>1, <1>2 DEF TypeOK, Words
    <2>3. generation' \in Nat
      BY <1>3 DEF Issued
    <2> QED BY <1>1, <1>2, <1>4, <2>1, <2>2, <2>3 DEF TypeOK
  <1>6. \A j \in Key : ChunksOf(j)' = ChunksOf(j)
    BY <1>1 DEF ChunksOf
  <1>7. ASSUME NEW c \in Collection
        PROVE  Searchable(c)' = Searchable(c) \ ChunksOf(k)
    <2>1. \A x \in chunks : x.key \in Key
      BY <1>2 DEF TypeOK, ChunkType
    <2>2. \A j \in Key : sources'[j].eligible = IF j = k THEN FALSE ELSE sources[j].eligible
      BY <1>1, <1>2 DEF TypeOK, Source
    <2> QED BY <1>1, <2>1, <2>2 DEF Searchable, ChunksOf
  <1>8. \A c \in Collection : totals'[c] = Tally(Searchable(c)')
    BY <1>1, <1>4, <1>7
  <1> QED BY <1>1, <1>3, <1>5, <1>6, <1>8, NoWriteCounts

(* Verifying a suppressed source counts its chunks again. *)
LEMMA MarkVerifiedCounts ==
  ASSUME Tables, NEW k \in Key, MarkVerified(k)
  PROVE  Tables'
  <1>1. /\ totals' = With(totals, k, sourceTotals[k])
        /\ sources' = [sources EXCEPT ![k].eligible = TRUE]
        /\ sources[k] # NoSource /\ ~sources[k].eligible /\ generation' = generation + 1
        /\ UNCHANGED <<chunks, terms, sourceTotals, checkpoints, issued>>
    BY DEF MarkVerified, Present
  <1>2. TypeOK /\ Home[k] \in Collection
    BY StoreAssumption DEF Tables
  <1>3. Issued'
    BY <1>1, OthersKeep DEF Tables
  <1> DEFINE X == Searchable(Home[k])
             Y == ChunksOf(k)
  <1>4. X \in ChunkSets /\ Y \in ChunkSets /\ X \cap Y = {}
    BY <1>1, <1>2, TableParts, WhereCounted DEF Tables
  <1>5. /\ totals \in [Collection -> TotalType] /\ totals[Home[k]] = Tally(X)
        /\ sourceTotals[k] = Tally(Y)
        /\ \A c \in Collection : totals[c] = Tally(Searchable(c))
    BY <1>2 DEF Tables, TypeOK, StatisticsMatch, SourceStatisticsMatch
  <1>6. /\ totals' \in [Collection -> TotalType]
        /\ \A c \in Collection : totals'[c] = IF c = Home[k] THEN Tally(X \cup Y) ELSE totals[c]
    <2> HIDE DEF X, Y
    <2> QED BY <1>1, <1>4, <1>5, WithIs
  <1>7. TypeOK'
    <2>1. sources' \in [Key -> Source]
      <3>1. sources[k] \in [version : Version, eligible : BOOLEAN]
        BY <1>1, <1>2 DEF TypeOK, Source
      <3>2. [sources[k] EXCEPT !.eligible = TRUE] \in Source
        BY <3>1 DEF Source
      <3> QED BY <1>1, <1>2, <3>2 DEF TypeOK
    <2>2. Words(chunks)' \subseteq terms'
      BY <1>1, <1>2 DEF TypeOK, Words
    <2>3. generation' \in Nat
      BY <1>3 DEF Issued
    <2> QED BY <1>1, <1>2, <1>6, <2>1, <2>2, <2>3 DEF TypeOK
  <1>8. \A j \in Key : ChunksOf(j)' = ChunksOf(j)
    BY <1>1 DEF ChunksOf
  <1>9. ASSUME NEW c \in Collection
        PROVE  Searchable(c)' = IF c = Home[k] THEN X \cup Y ELSE Searchable(c)
    <2>1. \A x \in chunks : x.key \in Key
      BY <1>2 DEF TypeOK, ChunkType
    <2>2. \A j \in Key : sources'[j].eligible = IF j = k THEN TRUE ELSE sources[j].eligible
      BY <1>1, <1>2 DEF TypeOK, Source
    <2>3. CASE c = Home[k]
      BY <1>1, <2>1, <2>2, <2>3 DEF Searchable, ChunksOf
    <2>4. CASE c # Home[k]
      BY <1>1, <2>1, <2>2, <2>4 DEF Searchable, ChunksOf
    <2> QED BY <2>3, <2>4
  <1>10. \A c \in Collection : totals'[c] = Tally(Searchable(c)')
    BY <1>5, <1>6, <1>9
  <1> QED BY <1>1, <1>3, <1>7, <1>8, <1>10, NoWriteCounts

(* Suppressing a collection leaves nothing of it to count. *)
LEMMA InvalidateCollectionCounts ==
  ASSUME Tables, NEW c \in Collection, InvalidateCollection(c)
  PROVE  Tables'
  <1> DEFINE hit == {k \in Key : sources[k].eligible /\ Home[k] = c}
  <1>1. /\ totals' = [totals EXCEPT ![c] = Nothing]
        /\ sources' = [k \in Key |-> IF k \in hit THEN [sources[k] EXCEPT !.eligible = FALSE]
                                                  ELSE sources[k]]
        /\ generation' \in {generation, generation + 1}
        /\ UNCHANGED <<chunks, terms, sourceTotals, checkpoints, issued>>
    BY DEF InvalidateCollection
  <1>2. TypeOK
    BY DEF Tables
  <1>3. Issued'
    BY <1>1, OthersKeep DEF Tables
  <1>4. TypeOK'
    <2>1. sources' \in [Key -> Source]
      <3> SUFFICES ASSUME NEW k \in Key PROVE sources'[k] \in Source
        BY <1>1
      <3>1. CASE k \in hit
        <4>1. sources[k] \in [version : Version, eligible : BOOLEAN]
          BY <1>2, <3>1 DEF TypeOK, Source, NoSource
        <4>2. [sources[k] EXCEPT !.eligible = FALSE] \in Source
          BY <4>1 DEF Source
        <4> QED BY <1>1, <3>1, <4>2
      <3>2. CASE k \notin hit
        BY <1>1, <1>2, <3>2 DEF TypeOK
      <3> QED BY <3>1, <3>2
    <2>2. Words(chunks)' \subseteq terms'
      BY <1>1, <1>2 DEF TypeOK, Words
    <2>3. generation' \in Nat
      BY <1>3 DEF Issued
    <2>4. Nothing \in TotalType
      BY DEF Nothing, TotalType
    <2>5. totals' \in [Collection -> TotalType]
      BY <1>1, <1>2, <2>4 DEF TypeOK
    <2> QED BY <1>1, <1>2, <2>1, <2>2, <2>3, <2>5 DEF TypeOK
  <1>5. \A j \in Key : ChunksOf(j)' = ChunksOf(j)
    BY <1>1 DEF ChunksOf
  <1>6. ASSUME NEW d \in Collection
        PROVE  Searchable(d)' = IF d = c THEN {} ELSE Searchable(d)
    <2>1. \A x \in chunks : x.key \in Key
      BY <1>2 DEF TypeOK, ChunkType
    <2>2. \A j \in Key : sources'[j].eligible <=> sources[j].eligible /\ Home[j] # c
      <3> TAKE j \in Key
      <3>1. CASE j \in hit
        <4>1. sources[j] \in [version : Version, eligible : BOOLEAN]
          BY <1>2, <3>1 DEF TypeOK, Source, NoSource
        <4>2. [sources[j] EXCEPT !.eligible = FALSE].eligible = FALSE
          BY <4>1
        <4> QED BY <1>1, <3>1, <4>2
      <3>2. CASE j \notin hit
        BY <1>1, <3>2
      <3> QED BY <3>1, <3>2
    <2>3. CASE d = c
      BY <1>1, <2>1, <2>2, <2>3 DEF Searchable
    <2>4. CASE d # c
      BY <1>1, <2>1, <2>2, <2>4 DEF Searchable
    <2> QED BY <2>3, <2>4
  <1>7. \A d \in Collection : totals'[d] = Tally(Searchable(d)')
    <2> TAKE d \in Collection
    <2>1. totals'[d] = IF d = c THEN Nothing ELSE totals[d]
      BY <1>1, <1>2 DEF TypeOK
    <2>2. totals[d] = Tally(Searchable(d))
      BY DEF Tables, StatisticsMatch
    <2> QED BY <1>6, <2>1, <2>2, TallyNone
  <1> QED BY <1>1, <1>3, <1>4, <1>5, <1>7, NoWriteCounts

(* A word no chunk contains is counted nowhere: compact deletes no word a    *)
(* statistics row names.                                                    *)
LEMMA UnusedUncounted ==
  ASSUME Tables
  PROVE  CompactNotRefused
  <1> SUFFICES ASSUME NEW t \in Unused PROVE ~Referenced(t)
    BY DEF CompactNotRefused
  <1>1. t \in Term /\ \A x \in chunks : t \notin x.text
    BY DEF Unused, Tables, TypeOK
  <1>2. \A c \in Collection : totals[c].df[t] = 0
    <2> TAKE c \in Collection
    <2>1. With1(Searchable(c), t) = {}
      BY <1>1 DEF With1, Searchable
    <2>2. totals[c].df[t] = Cardinality(With1(Searchable(c), t))
      BY <1>1, TallyFields DEF Tables, StatisticsMatch
    <2> QED BY <2>1, <2>2, FS_EmptySet
  <1>3. \A k \in Key : sourceTotals[k].df[t] = 0
    <2> TAKE k \in Key
    <2>1. With1(ChunksOf(k), t) = {}
      BY <1>1 DEF With1, ChunksOf
    <2>2. sourceTotals[k].df[t] = Cardinality(With1(ChunksOf(k), t))
      BY <1>1, TallyFields DEF Tables, SourceStatisticsMatch
    <2> QED BY <2>1, <2>2, FS_EmptySet
  <1> QED BY <1>2, <1>3 DEF Referenced

(* Compaction touches only the dictionary. *)
LEMMA CompactCounts ==
  ASSUME Tables, Compact
  PROVE  Tables'
  <1>1. /\ terms' = terms \ Unused
        /\ UNCHANGED <<sources, chunks, sourceTotals, totals, checkpoints, generation, issued>>
    BY DEF Compact
  <1>2. TypeOK
    BY DEF Tables
  <1>3. Issued'
    BY <1>1, OthersKeep DEF Tables
  <1>4. Words(chunks)' \subseteq terms'
    BY <1>1, <1>2 DEF TypeOK, Words, Unused
  <1>5. TypeOK'
    BY <1>1, <1>2, <1>4 DEF TypeOK
  <1>6. /\ \A j \in Key : ChunksOf(j)' = ChunksOf(j)
        /\ \A c \in Collection : Searchable(c)' = Searchable(c)
    BY <1>1 DEF ChunksOf, Searchable
  <1>7. \A c \in Collection : totals'[c] = Tally(Searchable(c)')
    BY <1>1, <1>6 DEF Tables, StatisticsMatch
  <1> QED BY <1>1, <1>3, <1>5, <1>6, <1>7, NoWriteCounts

(* A store without rows counts nothing. *)
NoRows ==
    /\ chunks = {}
    /\ sourceTotals = [k \in Key |-> Nothing] /\ totals = [c \in Collection |-> Nothing]

NoCounts ==
    /\ Words(chunks) = {} /\ IsFiniteSet(chunks)
    /\ sourceTotals \in [Key -> TotalType] /\ totals \in [Collection -> TotalType]
    /\ SourceStatisticsMatch /\ StatisticsMatch

LEMMA EmptyCounts == NoRows => NoCounts
  <1> SUFFICES ASSUME NoRows PROVE NoCounts
    OBVIOUS
  <1>1. Nothing \in TotalType /\ Nothing.docs = 0 /\ 0..(Nothing.docs - 1) = {}
    BY DEF Nothing, TotalType
  <1>2. /\ \A k : ChunksOf(k) = {} /\ Ordinals(ChunksOf(k)) = {}
        /\ \A c : Searchable(c) = {}
    BY DEF ChunksOf, Searchable, Ordinals, NoRows
  <1>3. Words(chunks) = {} /\ IsFiniteSet(chunks)
    BY FS_EmptySet DEF Words, NoRows
  <1>4. SourceStatisticsMatch /\ StatisticsMatch
    BY <1>1, <1>2, TallyNone DEF SourceStatisticsMatch, StatisticsMatch, NoRows
  <1> QED BY <1>1, <1>3, <1>4 DEF NoCounts, NoRows

LEMMA InitTables == Init => Tables
  <1> SUFFICES ASSUME Init PROVE Tables
    OBVIOUS
  <1>1. /\ sources = [k \in Key |-> NoSource] /\ chunks = {} /\ terms = {}
        /\ sourceTotals = [k \in Key |-> Nothing]
        /\ totals = [c \in Collection |-> Nothing]
        /\ issued = {} /\ generation = 0
    BY DEF Init
  <1>2. Issued
    BY InitIssued
  <1>3. /\ Words(chunks) = {} /\ IsFiniteSet(chunks)
        /\ sourceTotals \in [Key -> TotalType] /\ totals \in [Collection -> TotalType]
        /\ SourceStatisticsMatch /\ StatisticsMatch
    BY <1>1, EmptyCounts DEF NoRows, NoCounts
  <1>4. TypeOK
    <2>1. checkpoints \in [Key -> 0..NoCheckpoint]
      BY <1>2 DEF Issued
    <2> QED BY <1>1, <1>3, <2>1 DEF TypeOK, Source
  <1> QED BY <1>2, <1>3, <1>4 DEF Tables

LEMMA RetokenizeCounts ==
  ASSUME Tables, Retokenize
  PROVE  Tables'
  <1>1. /\ sources' = [k \in Key |-> NoSource] /\ chunks' = {} /\ terms' = {}
        /\ sourceTotals' = [k \in Key |-> Nothing]
        /\ totals' = [c \in Collection |-> Nothing] /\ UNCHANGED issued
    BY DEF Retokenize
  <1>2. Issued'
    BY RetokenizeKeeps DEF Tables
  <1>3. /\ Words(chunks)' = {} /\ IsFiniteSet(chunks)'
        /\ sourceTotals' \in [Key -> TotalType] /\ totals' \in [Collection -> TotalType]
        /\ SourceStatisticsMatch' /\ StatisticsMatch'
    <2>1. NoRows'
      BY <1>1 DEF NoRows
    <2>2. NoCounts'
      BY <2>1, EmptyCounts, PTL
    <2> QED BY <2>2 DEF NoCounts
  <1>4. TypeOK'
    <2>1. checkpoints' \in [Key -> 0..NoCheckpoint] /\ generation' \in Nat
      BY <1>2 DEF Issued
    <2>2. issued' \in SUBSET ChunkType
      BY <1>1 DEF Tables, TypeOK
    <2> QED BY <1>1, <1>3, <2>1, <2>2 DEF TypeOK, Source
  <1> QED BY <1>2, <1>3, <1>4 DEF Tables

(* Every transaction keeps the tables' counts. *)
LEMMA NextCounts ==
  ASSUME Tables, [Next]_vars
  PROVE  Tables'
  <1>1. ASSUME NEW k \in Key, NEW v \in Version, NEW texts \in Texts,
               NEW offset \in 0..NoCheckpoint, ReplaceSource(k, v, texts, offset)
        PROVE  Tables'
    <2>1. PICK n \in 0..MaxWrites : texts \in [1..n -> Text]
      BY DEF Texts
    <2>2. n \in Nat
      BY StoreAssumption
    <2> QED BY <1>1, <2>1, <2>2, ReplaceCounts
  <1>2. ASSUME NEW k \in Key, NEW e \in Version, NEW v \in Version, NEW texts \in Texts,
               NEW offset \in 0..MaxOffset, AppendSource(k, e, v, texts, offset)
        PROVE  Tables'
    <2>1. PICK n \in 0..MaxWrites : texts \in [1..n -> Text]
      BY DEF Texts
    <2>2. n \in Nat
      BY StoreAssumption
    <2> QED BY <1>2, <2>1, <2>2, AppendCounts
  <1>3. ASSUME NEW k \in Key, RemoveSource(k) \/ InvalidateSource(k) \/ MarkVerified(k)
        PROVE  Tables'
    BY <1>3, RemoveCounts, InvalidateSourceCounts, MarkVerifiedCounts
  <1>4. ASSUME NEW c \in Collection, InvalidateCollection(c)
        PROVE  Tables'
    BY <1>4, InvalidateCollectionCounts
  <1>5. CASE Compact
    BY <1>5, CompactCounts
  <1>6. CASE Retokenize
    BY <1>6, RetokenizeCounts
  <1>7. CASE UNCHANGED vars
    <2>1. UNCHANGED <<sources, chunks, terms, sourceTotals, totals, checkpoints, generation,
                      issued>>
      BY <1>7 DEF vars
    <2>2. Issued'
      BY <2>1, OthersKeep DEF Tables
    <2>3. TypeOK'
      BY <2>1 DEF Tables, TypeOK, Words
    <2>4. /\ \A j \in Key : ChunksOf(j)' = ChunksOf(j)
          /\ \A c \in Collection : Searchable(c)' = Searchable(c)
      BY <2>1 DEF ChunksOf, Searchable
    <2>5. \A c \in Collection : totals'[c] = Tally(Searchable(c)')
      BY <2>1, <2>4 DEF Tables, StatisticsMatch
    <2> QED BY <2>1, <2>2, <2>3, <2>4, <2>5, NoWriteCounts
  <1> QED BY <1>1, <1>2, <1>3, <1>4, <1>5, <1>6, <1>7 DEF Next

(* Every table keeps its columns' types and postings name interned words     *)
(* (store.rs, every transaction).                                           *)
THEOREM TablesTyped == Spec => []TypeOK
  <1>1. Tables /\ [Next]_vars => Tables'
    BY NextCounts
  <1>2. Tables => TypeOK
    BY DEF Tables
  <1> QED BY <1>1, <1>2, InitTables, PTL DEF Spec

(* The statistics BM25 divides by are those of the searchable chunks after   *)
(* any history of transactions (store.rs, adjust_statistics).               *)
THEOREM StatisticsAlwaysMatch == Spec => []StatisticsMatch
  <1>1. Tables /\ [Next]_vars => Tables'
    BY NextCounts
  <1>2. Tables => StatisticsMatch
    BY DEF Tables
  <1> QED BY <1>1, <1>2, InitTables, PTL DEF Spec

(* A source's row counts its chunks, and they are numbered without gap       *)
(* (store.rs, source_stats and write_source's first ordinal).               *)
THEOREM SourceStatisticsAlwaysMatch == Spec => []SourceStatisticsMatch
  <1>1. Tables /\ [Next]_vars => Tables'
    BY NextCounts
  <1>2. Tables => SourceStatisticsMatch
    BY DEF Tables
  <1> QED BY <1>1, <1>2, InitTables, PTL DEF Spec

(* compact is never refused by a foreign key (store.rs, compact). *)
THEOREM CompactNeverRefused == Spec => []CompactNotRefused
  <1>1. Tables /\ [Next]_vars => Tables'
    BY NextCounts
  <1>2. Tables => CompactNotRefused
    BY UnusedUncounted
  <1> QED BY <1>1, <1>2, InitTables, PTL DEF Spec

(***************************************************************************)
(* The refinement: a transaction publishes a new generation of what can be *)
(* searched or leaves it as it is.                                         *)
(***************************************************************************)
LEMMA ViewTyped == TypeOK => SearchView \in Views
  <1> SUFFICES ASSUME TypeOK, NEW c \in Collection
               PROVE  [hits |-> Searchable(c), totals |-> totals[c]]
                          \in [hits : SUBSET ChunkType, totals : TotalType]
    BY DEF SearchView, Views
  <1>1. Searchable(c) \subseteq ChunkType
    BY DEF Searchable, TypeOK
  <1>2. totals[c] \in TotalType
    BY DEF TypeOK
  <1> QED BY <1>1, <1>2

(* Suppressing a collection with nothing searchable takes away nothing. *)
LEMMA EmptyInvalidation ==
  ASSUME Tables, NEW c \in Collection, InvalidateCollection(c), generation' = generation
  PROVE  UNCHANGED <<generation, SearchView>>
  <1> DEFINE hit == {k \in Key : sources[k].eligible /\ Home[k] = c}
  <1>1. TypeOK /\ generation \in Nat
    BY DEF Tables, TypeOK
  <1>2. hit = {} /\ totals' = [totals EXCEPT ![c] = Nothing] /\ UNCHANGED chunks
    BY <1>1 DEF InvalidateCollection
  <1>3. sources' = [k \in Key |-> sources[k]] /\ sources' = sources
    BY <1>1, <1>2 DEF InvalidateCollection, TypeOK
  <1>4. \A d \in Collection : Searchable(d)' = Searchable(d)
    BY <1>2, <1>3 DEF Searchable
  <1>5. Searchable(c) = {}
    BY <1>1, <1>2 DEF Searchable, TypeOK, ChunkType
  <1>6. totals[c] = Nothing
    BY <1>5, TallyNone DEF Tables, StatisticsMatch
  <1>7. totals' = totals
    BY <1>1, <1>2, <1>6 DEF TypeOK
  <1>8. SearchView' = SearchView
    BY <1>4, <1>7 DEF SearchView
  <1> QED BY <1>8

LEMMA StepPublishes ==
  ASSUME Tables, [Next]_vars
  PROVE  [Index!Publish]_<<generation, SearchView>>
  <1>1. Tables' /\ TypeOK'
    BY NextCounts DEF Tables
  <1>2. SearchView' \in Views
    <2>1. (SearchView \in Views)'
      BY <1>1, ViewTyped, PTL
    <2> QED BY <2>1 DEF Views, ChunkType, TotalType
  <1>3. ASSUME generation' = generation + 1
        PROVE  Index!Publish
    BY <1>2, <1>3 DEF Index!Publish
  <1>4. CASE \/ \E k \in Key, v \in Version, texts \in Texts, offset \in 0..NoCheckpoint :
                    ReplaceSource(k, v, texts, offset)
             \/ \E k \in Key, e \in Version, v \in Version, texts \in Texts,
                   offset \in 0..MaxOffset : AppendSource(k, e, v, texts, offset)
    BY <1>3, <1>4 DEF ReplaceSource, AppendSource, Commit
  <1>5. CASE \/ \E k \in Key : RemoveSource(k) \/ InvalidateSource(k) \/ MarkVerified(k)
             \/ Retokenize
    BY <1>3, <1>5 DEF RemoveSource, InvalidateSource, MarkVerified, Retokenize
  <1>6. ASSUME NEW c \in Collection, InvalidateCollection(c)
        PROVE  [Index!Publish]_<<generation, SearchView>>
    <2>1. generation' \in {generation, generation + 1}
      BY <1>6 DEF InvalidateCollection
    <2> QED BY <1>3, <1>6, <2>1, EmptyInvalidation
  <1>7. CASE Compact \/ UNCHANGED vars
    <2>1. UNCHANGED <<sources, chunks, totals, generation>>
      BY <1>7 DEF Compact, vars
    <2>2. SearchView' = SearchView
      BY <2>1 DEF SearchView, Searchable
    <2> QED BY <2>1, <2>2
  <1> QED BY <1>4, <1>5, <1>6, <1>7 DEF Next

(* Two searches that saw the same generation saw the same index: the store   *)
(* implements the abstract versioned index (store.rs, next_generation; the   *)
(* posting cache of hot.rs and answers' generations rest on it).             *)
THEOREM StoreIsVersioned == Spec => ImplementsVersionedIndex
  <1>1. Init => Index!ViewInit
    BY InitTables, ViewTyped DEF Init, Index!ViewInit, Tables
  <1>2. Tables /\ [Next]_vars => Tables'
    BY NextCounts
  <1>3. Tables /\ [Next]_vars => [Index!Publish]_<<generation, SearchView>>
    BY StepPublishes
  <1> QED BY <1>1, <1>2, <1>3, InitTables, PTL DEF Spec, ImplementsVersionedIndex, Index!Versioned

(***************************************************************************)
(* The registry.                                                           *)
(***************************************************************************)
Holding == {"locked", "loaded", "updated", "recorded"}
Steps == Holding \cup {"idle", "locking"}
Root1(p) == identity[p][1]
Key1(p) == identity[p][2]

RegistryTypes ==
    /\ file \in Table /\ exists \in BOOLEAN /\ remembered \in SUBSET Root
    /\ lock \in Proc \cup {Nobody}
    /\ step \in [Proc -> Steps]
    /\ entries \in [Proc -> Table]
    /\ identity \in [Proc -> Root \X OwnerKey]
    /\ \A p \in Proc : identity[p] \in Verified[p]

(* The steps under the lock belong to its holder. *)
Exclusive == \A p \in Proc : step[p] \in Holding => lock = p

(* Where there is no file, a writer on its way to it has no entries. *)
Absent ==
    ~exists => /\ file = Empty
               /\ \A p \in Proc : step[p] \in {"locking", "locked"} => entries[p] = Empty

(* The holder's copy is the file until it adds its entry. *)
Copied(p) ==
    /\ step[p] = "loaded" => entries[p] = file
    /\ step[p] = "updated" => entries[p] = [file EXCEPT ![Root1(p)] = Key1(p)]
    /\ step[p] = "recorded" => file[Root1(p)] = Key1(p)

RegistryInv ==
    RegistryTypes /\ Exclusive /\ Absent /\ RememberedNotLost /\ \A p \in Proc : Copied(p)

LEMMA EmptyIsTable == Empty \in Table
BY DEF Empty, Table

LEMMA UnknownIsNoKey == \A k \in OwnerKey : k # Unknown
BY RegistryAssumption

(* What replaces the file keeps every root and adds only a verified entry. *)
LEMMA EntryAdded ==
    ASSUME NEW p \in Proc, NEW f \in Table, NEW i \in Root \X OwnerKey, i \in Verified[p]
    PROVE  LET g == [f EXCEPT ![i[1]] = i[2]] IN
           /\ g \in Table
           /\ g[i[1]] = i[2]
           /\ \A r \in Root : f[r] # Unknown => g[r] # Unknown
           /\ \A r \in Root : g[r] # Unknown => g[r] = f[r] \/ <<r, g[r]>> \in Verified[p]
<1> DEFINE g == [f EXCEPT ![i[1]] = i[2]]
<1>1. i[1] \in Root /\ i[2] \in OwnerKey /\ i = <<i[1], i[2]>>
  OBVIOUS
<1>2. g \in Table /\ \A r \in Root : g[r] = IF r = i[1] THEN i[2] ELSE f[r]
  BY <1>1 DEF Table
<1>3. i[2] # Unknown
  BY <1>1, UnknownIsNoKey
<1>4. \A r \in Root : g[r] # Unknown => g[r] = f[r] \/ <<r, g[r]>> \in Verified[p]
  <2> SUFFICES ASSUME NEW r \in Root, g[r] # f[r] PROVE <<r, g[r]>> \in Verified[p]
    OBVIOUS
  <2>1. r = i[1] /\ g[r] = i[2]
    BY <1>2
  <2> QED
    BY <2>1, <1>1
<1> QED
  BY <1>1, <1>2, <1>3, <1>4

LEMMA RegistryInitHolds == RegistryInit => RegistryInv
<1> SUFFICES ASSUME RegistryInit PROVE RegistryInv
  OBVIOUS
<1> USE DEF RegistryInit
<1>1. RegistryTypes
  BY EmptyIsTable DEF RegistryTypes, Steps
<1>2. Exclusive /\ \A p \in Proc : Copied(p)
  BY DEF Exclusive, Copied, Holding
<1>3. Absent
  BY DEF Absent
<1>4. RememberedNotLost
  BY DEF RememberedNotLost, Empty
<1> QED
  BY <1>1, <1>2, <1>3, <1>4 DEF RegistryInv

(* A step of one process leaves what is said of another as it was, as long *)
(* as the file is the same.                                                *)
LEMMA OthersKept ==
    ASSUME NEW p \in Proc, NEW q \in Proc, q # p, Copied(q),
           file' = file, step'[q] = step[q], entries'[q] = entries[q],
           identity'[q] = identity[q]
    PROVE  Copied(q)'
BY DEF Copied, Root1, Key1

LEMMA OpenRegistryKeeps ==
    ASSUME RegistryInv, NEW p \in Proc, OpenRegistry(p) PROVE RegistryInv'
<1> USE DEF RegistryInv, OpenRegistry, Goto
<1>0. PICK i \in Verified[p] : identity' = [identity EXCEPT ![p] = i]
  OBVIOUS
<1>1. RegistryTypes'
  <2>1. i \in Root \X OwnerKey
    BY RegistryAssumption
  <2>2. /\ identity' \in [Proc -> Root \X OwnerKey]
        /\ \A q \in Proc : identity'[q] \in Verified[q]
    BY <1>0, <2>1 DEF RegistryTypes
  <2> QED
    BY <2>2 DEF RegistryTypes, Steps
<1>2. Exclusive'
  BY DEF Exclusive, Holding, RegistryTypes
<1>3. Absent'
  BY DEF Absent, RegistryTypes
<1>4. \A q \in Proc : Copied(q)'
  <2> TAKE q \in Proc
  <2>1. CASE q = p
    BY <2>1 DEF Copied, RegistryTypes
  <2>2. CASE q # p
    BY <2>2, OthersKept DEF RegistryTypes
  <2> QED
    BY <2>1, <2>2
<1>5. RememberedNotLost'
  BY DEF RememberedNotLost
<1> QED
  BY <1>1, <1>2, <1>3, <1>4, <1>5

LEMMA AcquireKeeps == ASSUME RegistryInv, NEW p \in Proc, Acquire(p) PROVE RegistryInv'
<1> USE DEF RegistryInv, Acquire, Goto
<1>1. RegistryTypes'
  BY DEF RegistryTypes, Steps, Holding
<1>2. Exclusive'
  BY RegistryAssumption DEF Exclusive, Holding, RegistryTypes
<1>3. Absent'
  BY DEF Absent, RegistryTypes
<1>4. \A q \in Proc : Copied(q)'
  <2> TAKE q \in Proc
  <2>1. CASE q = p
    BY <2>1 DEF Copied, RegistryTypes
  <2>2. CASE q # p
    BY <2>2, OthersKept DEF RegistryTypes
  <2> QED
    BY <2>1, <2>2
<1>5. RememberedNotLost'
  BY DEF RememberedNotLost
<1> QED
  BY <1>1, <1>2, <1>3, <1>4, <1>5

LEMMA WaitKeeps == ASSUME RegistryInv, NEW p \in Proc, WaitForLock(p) PROVE RegistryInv'
<1> USE DEF RegistryInv, WaitForLock, Goto
<1>1. RegistryTypes'
  BY DEF RegistryTypes, Steps
<1>2. Exclusive'
  BY DEF Exclusive, Holding, RegistryTypes
<1>3. Absent'
  BY DEF Absent, RegistryTypes
<1>4. \A q \in Proc : Copied(q)'
  <2> TAKE q \in Proc
  <2>1. CASE q = p
    BY <2>1 DEF Copied, RegistryTypes
  <2>2. CASE q # p
    BY <2>2, OthersKept DEF RegistryTypes
  <2> QED
    BY <2>1, <2>2
<1>5. RememberedNotLost'
  BY DEF RememberedNotLost
<1> QED
  BY <1>1, <1>2, <1>3, <1>4, <1>5

LEMMA ReloadKeeps == ASSUME RegistryInv, NEW p \in Proc, ReloadEntries(p) PROVE RegistryInv'
<1> USE DEF RegistryInv, ReloadEntries, Goto
<1>0. Reload(p) = file
  BY DEF Reload, Absent, RegistryTypes
<1>1. RegistryTypes'
  BY <1>0 DEF RegistryTypes, Steps, Holding
<1>2. Exclusive'
  BY DEF Exclusive, Holding, RegistryTypes
<1>3. Absent'
  BY DEF Absent, RegistryTypes
<1>4. \A q \in Proc : Copied(q)'
  <2> TAKE q \in Proc
  <2>1. CASE q = p
    BY <1>0, <2>1 DEF Copied, RegistryTypes
  <2>2. CASE q # p
    BY <2>2, OthersKept DEF RegistryTypes
  <2> QED
    BY <2>1, <2>2
<1>5. RememberedNotLost'
  BY DEF RememberedNotLost
<1> QED
  BY <1>1, <1>2, <1>3, <1>4, <1>5

LEMMA UpdateKeeps == ASSUME RegistryInv, NEW p \in Proc, UpdateEntries(p) PROVE RegistryInv'
<1> USE DEF RegistryInv, UpdateEntries, Goto
<1>0. entries[p] = file /\ file \in Table /\ identity[p] \in Root \X OwnerKey
  BY DEF Copied, RegistryTypes
<1>1. /\ entries'[p] = entries[p] \/ entries'[p] = [file EXCEPT ![Root1(p)] = Key1(p)]
      /\ \A q \in Proc : q # p => entries'[q] = entries[q]
      /\ entries' \in [Proc -> Table]
  <2> DEFINE g == [file EXCEPT ![identity[p][1]] = identity[p][2]]
  <2>1. identity[p] \in Verified[p]
    BY DEF RegistryTypes
  <2>2. g \in Table
    BY <1>0, <2>1, EntryAdded
  <2>3. entries' = entries \/ entries' = [entries EXCEPT ![p] = g]
    BY <1>0 DEF RegistryTypes
  <2> HIDE DEF g
  <2>4. entries \in [Proc -> Table]
    BY DEF RegistryTypes
  <2>5. /\ entries'[p] = entries[p] \/ entries'[p] = g
        /\ \A q \in Proc : q # p => entries'[q] = entries[q]
        /\ entries' \in [Proc -> Table]
    BY <2>2, <2>3, <2>4
  <2> QED
    BY <2>5 DEF g, Root1, Key1
<1>2. RegistryTypes'
  BY <1>1 DEF RegistryTypes, Steps, Holding
<1>3. Exclusive'
  BY DEF Exclusive, Holding, RegistryTypes
<1>4. Absent'
  BY <1>1 DEF Absent, RegistryTypes
<1>5. \A q \in Proc : Copied(q)'
  <2> TAKE q \in Proc
  <2>1. CASE q = p
    BY <1>0, <2>1 DEF Copied, RegistryTypes, Recorded, Root1, Key1
  <2>2. CASE q # p
    BY <1>1, <2>2, OthersKept DEF RegistryTypes
  <2> QED
    BY <2>1, <2>2
<1>6. RememberedNotLost'
  BY DEF RememberedNotLost
<1> QED
  BY <1>2, <1>3, <1>4, <1>5, <1>6

LEMMA PersistKeeps == ASSUME RegistryInv, NEW p \in Proc, Persist(p) PROVE RegistryInv'
<1> USE DEF RegistryInv, Persist, Goto
<1> DEFINE i == identity[p]
           g == [file EXCEPT ![i[1]] = i[2]]
<1>0. file' = g /\ file \in Table /\ i \in Root \X OwnerKey /\ i \in Verified[p]
  BY DEF Copied, RegistryTypes, Root1, Key1
<1>1. /\ g \in Table
      /\ g[i[1]] = i[2]
      /\ \A r \in Root : file[r] # Unknown => g[r] # Unknown
      /\ \A r \in Root : g[r] # Unknown => g[r] = file[r] \/ <<r, g[r]>> \in Verified[p]
  BY <1>0, EntryAdded
<1>2. RegistryTypes'
  BY <1>0, <1>1 DEF RegistryTypes, Steps, Holding
<1>3. Exclusive'
  BY DEF Exclusive, Holding, RegistryTypes
<1>4. Absent'
  BY DEF Absent
<1>5. \A q \in Proc : Copied(q)'
  <2> TAKE q \in Proc
  <2>1. CASE q = p
    BY <1>0, <1>1, <2>1 DEF Copied, RegistryTypes, Root1, Key1
  <2>2. CASE q # p
    <3>1. step[q] \notin Holding /\ step'[q] = step[q]
      BY <2>2 DEF Exclusive, Holding, RegistryTypes
    <3> QED
      BY <3>1 DEF Copied, Holding
  <2> QED
    BY <2>1, <2>2
<1>6. RememberedNotLost'
  <2> SUFFICES ASSUME NEW r \in Root
               PROVE /\ r \in remembered => g[r] # Unknown
                     /\ g[r] # Unknown => \E q \in Proc : <<r, g[r]>> \in Verified[q]
    BY <1>0 DEF RememberedNotLost
  <2>1. r \in remembered => g[r] # Unknown
    BY <1>1 DEF RememberedNotLost
  <2>2. ASSUME g[r] # Unknown PROVE \E q \in Proc : <<r, g[r]>> \in Verified[q]
    BY <1>1, <2>2 DEF RememberedNotLost
  <2> QED
    BY <2>1, <2>2
<1> QED
  BY <1>2, <1>3, <1>4, <1>5, <1>6

LEMMA RememberKeeps == ASSUME RegistryInv, NEW p \in Proc, Remember(p) PROVE RegistryInv'
<1> USE DEF RegistryInv, Remember, Goto, Unlock
<1>0. identity[p][1] \in Root /\ file[identity[p][1]] # Unknown
  BY UnknownIsNoKey DEF Copied, RegistryTypes, Root1, Key1
<1>1. RegistryTypes'
  BY <1>0 DEF RegistryTypes, Steps
<1>2. Exclusive'
  BY DEF Exclusive, Holding, RegistryTypes
<1>3. Absent'
  BY DEF Absent, RegistryTypes
<1>4. \A q \in Proc : Copied(q)'
  <2> TAKE q \in Proc
  <2>1. CASE q = p
    BY <2>1 DEF Copied, RegistryTypes
  <2>2. CASE q # p
    BY <2>2, OthersKept DEF RegistryTypes
  <2> QED
    BY <2>1, <2>2
<1>5. RememberedNotLost'
  BY <1>0 DEF RememberedNotLost
<1> QED
  BY <1>1, <1>2, <1>3, <1>4, <1>5

LEMMA StopKeeps == ASSUME RegistryInv, NEW p \in Proc, Stop(p) PROVE RegistryInv'
<1> USE DEF RegistryInv, Stop, Goto, Unlock
<1>1. RegistryTypes'
  BY DEF RegistryTypes, Steps
<1>2. Exclusive'
  BY DEF Exclusive, Holding, RegistryTypes
<1>3. Absent'
  BY DEF Absent, RegistryTypes
<1>4. \A q \in Proc : Copied(q)'
  <2> TAKE q \in Proc
  <2>1. CASE q = p
    BY <2>1 DEF Copied, RegistryTypes
  <2>2. CASE q # p
    BY <2>2, OthersKept DEF RegistryTypes
  <2> QED
    BY <2>1, <2>2
<1>5. RememberedNotLost'
  BY DEF RememberedNotLost
<1> QED
  BY <1>1, <1>2, <1>3, <1>4, <1>5

LEMMA RegistryNextHolds == RegistryInv /\ [RegistryNext]_registryVars => RegistryInv'
<1> SUFFICES ASSUME RegistryInv, [RegistryNext]_registryVars PROVE RegistryInv'
  OBVIOUS
<1>1. CASE UNCHANGED registryVars
  BY <1>1 DEF registryVars, RegistryInv, RegistryTypes, Exclusive, Absent, Copied, Root1,
     Key1, RememberedNotLost
<1>2. ASSUME NEW p \in Proc, RegistryStep(p) PROVE RegistryInv'
  BY <1>2, OpenRegistryKeeps, AcquireKeeps, WaitKeeps, ReloadKeeps, UpdateKeeps,
     PersistKeeps, RememberKeeps, StopKeeps DEF RegistryStep
<1> QED
  BY <1>1, <1>2 DEF RegistryNext

(* No process loses a root that any process was told is recorded, and the  *)
(* registry never holds an association that nobody verified, for any       *)
(* number of writers, failures and ends of processes (remember_verified).  *)
THEOREM RegistryKeepsRoots == RegistrySpec => []RememberedNotLost
<1>1. RegistryInv => RememberedNotLost
  BY DEF RegistryInv
<1> QED
  BY RegistryInitHolds, RegistryNextHolds, <1>1, PTL DEF RegistrySpec

(***************************************************************************)
(* The content cache.                                                      *)
(***************************************************************************)
CacheStages ==
    {"closed", "opening", "prune opened", "persist opened", "idle", "decode", "put",
     "renamed", "prune put", "persist put"}

CacheTypes ==
    /\ cached \in [SourceVersion -> Kinds] /\ now \in Nat
    /\ listed \subseteq Entry /\ manifest \subseteq Entry
    /\ stage \in CacheStages
    /\ stage \in {"decode", "put", "renamed"} => wanted \in SourceVersion

(* Entries are made of whole chunks only. *)
EntriesWhole == \A e \in listed \cup manifest : e.checksum = Whole

(* The file an entry is about to be made of is the one put there. *)
RenamedWhole == stage = "renamed" => cached[wanted] = Whole

CacheInv == CacheTypes /\ EntriesWhole /\ RenamedWhole /\ CommitsWhole

LEMMA CacheInitHolds == CacheInit => CacheInv
BY DEF CacheInit, CacheInv, CacheTypes, CacheStages, EntriesWhole, RenamedWhole,
       CommitsWhole, Kinds, Entry

LEMMA DeletedType ==
    ASSUME CacheTypes, NEW S
    PROVE  Deleted(S) \in [SourceVersion -> Kinds]
BY DEF CacheTypes, Deleted, Kinds

LEMMA TryDeleteType ==
    ASSUME CacheTypes, NEW S, TryDelete(S)
    PROVE  cached' \in [SourceVersion -> Kinds]
BY DeletedType DEF TryDelete

(* A step that makes no entry and commits nothing. *)
LEMMA NothingNew ==
    ASSUME CacheInv, cached' \in [SourceVersion -> Kinds], now' \in Nat, stage' \in CacheStages,
           listed' \subseteq listed \cup manifest, manifest' \subseteq listed \cup manifest,
           stage' \in {"decode", "put", "renamed"} => wanted' \in SourceVersion,
           stage' = "renamed" => cached'[wanted'] = Whole,
           indexed'.chunks = Whole
    PROVE  CacheInv'
BY DEF CacheInv, CacheTypes, EntriesWhole, RenamedWhole, CommitsWhole

LEMMA OpenCacheKeeps ==
    ASSUME CacheInv, CleanMissing \/ CleanOrphans \/ Prune \/ PersistManifest
    PROVE  CacheInv'
<1> USE DEF CacheInv, CacheTypes, CommitsWhole, At, CacheStages
<1>1. CASE CleanMissing
  <2>1. manifest' \subseteq listed /\ listed' = manifest'
    BY <1>1 DEF CleanMissing
  <2> QED
    BY <1>1, <2>1, NothingNew DEF CleanMissing
<1>2. CASE CleanOrphans
  <2>1. cached' \in [SourceVersion -> Kinds]
    BY <1>2, TryDeleteType DEF CleanOrphans
  <2> QED
    BY <1>2, <2>1, NothingNew DEF CleanOrphans
<1>3. CASE Prune
  <2>1. PICK kept \in Pruned(manifest) :
            manifest' = kept /\ TryDelete(FilesOf(manifest \ kept))
    BY <1>3 DEF Prune
  <2>2. kept \subseteq manifest
    BY DEF Pruned
  <2>3. cached' \in [SourceVersion -> Kinds]
    BY <2>1, TryDeleteType
  <2> QED
    BY <1>3, <2>1, <2>2, <2>3, NothingNew DEF Prune
<1>4. CASE PersistManifest
  BY <1>4, NothingNew DEF PersistManifest
<1> QED
  BY <1>1, <1>2, <1>3, <1>4

(* What get answers with is what its entry was made of. *)
LEMMA GetKeeps ==
    ASSUME CacheInv, NEW v \in SourceVersion, Get(v)
    PROVE  CacheInv'
<1> USE DEF CacheInv, CacheTypes, CommitsWhole, At, CacheStages
<1>1. CASE EntriesOf(manifest, v) = {} /\ At("decode")
           /\ UNCHANGED <<cached, listed, manifest, indexed, faults>>
  BY <1>1, NothingNew DEF Get
<1>2. ASSUME NEW e \in EntriesOf(manifest, v),
             manifest' = manifest \ {e}, cached' \in {cached, Deleted({v})},
             TryPersist, At("decode"), UNCHANGED indexed
      PROVE  CacheInv'
  <2>1. cached' \in [SourceVersion -> Kinds]
    BY <1>2, DeletedType
  <2>2. listed' \in {listed, manifest'}
    BY <1>2 DEF TryPersist
  <2> QED
    BY <1>2, <2>1, <2>2, NothingNew DEF Get
<1>3. ASSUME NEW e \in EntriesOf(manifest, v), Valid(e),
             manifest' = (manifest \ {e}) \cup {EntryOf(v)},
             TryPersist,
             indexed' \in {indexed, [version |-> v, chunks |-> cached[v]]},
             At("idle"), UNCHANGED cached
      PROVE  CacheInv'
  <2>1. e \in Entry /\ e \in manifest /\ e.version = v
    BY <1>3 DEF EntriesOf
  <2>2. cached[v] = Whole
    BY <1>3, <2>1 DEF Valid, EntriesWhole
  <2>3. EntryOf(v) \in Entry /\ EntryOf(v).checksum = Whole
    BY <2>1, <2>2 DEF Entry, EntryOf, Kinds
  <2>4. listed' \in {listed, manifest'}
    BY <1>3 DEF TryPersist
  <2>5. manifest' \subseteq Entry /\ \A x \in manifest' : x.checksum = Whole
    BY <1>3, <2>3 DEF EntriesWhole
  <2>6. listed' \subseteq Entry /\ \A x \in listed' : x.checksum = Whole
    BY <2>4, <2>5 DEF EntriesWhole
  <2>7. indexed'.chunks = Whole
    <3>1. indexed.chunks = Whole
      BY DEF CacheInv
    <3>2. CASE indexed' = [version |-> v, chunks |-> cached[v]]
      BY <2>2, <3>2
    <3> QED
      BY <1>3, <3>1, <3>2
  <2>8. now' = now
    BY DEF Get
  <2> QED
    BY <1>3, <2>5, <2>6, <2>7, <2>8 DEF EntriesWhole, RenamedWhole
<1> QED
  BY <1>1, <1>2, <1>3 DEF Get

LEMMA PutKeeps ==
    ASSUME CacheInv, CommitDecoded \/ PutFile \/ PutEntry \/ PutFails
    PROVE  CacheInv'
<1> USE DEF CacheInv, CacheTypes, CommitsWhole, At, CacheStages
<1>1. CASE CommitDecoded
  BY <1>1, NothingNew DEF CommitDecoded
<1>2. CASE PutFile
  BY <1>2, NothingNew DEF PutFile, Kinds
<1>3. CASE PutEntry
  <2>1. EntryOf(wanted) \in Entry /\ EntryOf(wanted).checksum = Whole
    BY <1>3 DEF PutEntry, Entry, EntryOf, RenamedWhole, Kinds
  <2>2. manifest' \subseteq manifest \cup {EntryOf(wanted)}
    BY <1>3 DEF PutEntry, OthersThan
  <2> QED
    BY <1>3, <2>1, <2>2 DEF PutEntry, EntriesWhole, RenamedWhole
<1>4. CASE PutFails
  BY <1>4, NothingNew DEF PutFails
<1> QED
  BY <1>1, <1>2, <1>3, <1>4

LEMMA LaterIsNat == now \in Nat => now + 1 \in Nat
OBVIOUS

LEMMA EnvironmentKeepsCache ==
    ASSUME CacheInv, \/ EndOfProcess \/ Tick
                     \/ \E v \in SourceVersion, kind \in {Short, Garbled, Gone} : Damage(v, kind)
    PROVE  CacheInv'
<1> USE DEF CacheInv, CacheTypes, CommitsWhole, At, CacheStages
<1>1. CASE EndOfProcess
  BY <1>1, NothingNew DEF EndOfProcess
<1>2. CASE Tick
  <2>1. now' \in Nat
    BY <1>2, LaterIsNat DEF Tick
  <2> QED
    BY <1>2, <2>1 DEF Tick, EntriesWhole, RenamedWhole
<1>3. ASSUME NEW v \in SourceVersion, NEW kind \in {Short, Garbled, Gone}, Damage(v, kind)
      PROVE  CacheInv'
  <2>1. cached' \in [SourceVersion -> Kinds]
    BY <1>3 DEF Damage, Kinds
  <2>2. stage \in {"closed", "idle"}
    BY <1>3 DEF Damage
  <2> QED
    BY <1>3, <2>1, <2>2, NothingNew DEF Damage
<1> QED
  BY <1>1, <1>2, <1>3

LEMMA CacheNextHolds == CacheInv /\ [CacheNext]_cacheVars => CacheInv'
<1> SUFFICES ASSUME CacheInv, [CacheNext]_cacheVars PROVE CacheInv'
  OBVIOUS
<1>1. CASE CacheStep
  BY <1>1, OpenCacheKeeps, GetKeeps, PutKeeps DEF CacheStep
<1>2. CASE CacheNext /\ ~CacheStep
  BY <1>2, EnvironmentKeepsCache DEF CacheNext
<1>3. CASE UNCHANGED cacheVars
  BY <1>3 DEF cacheVars, CacheInv, CacheTypes, EntriesWhole, RenamedWhole, CommitsWhole
<1> QED
  BY <1>1, <1>2, <1>3

(* What is committed for a version is all of its chunks, for any limits of *)
(* the cache and any number of damaged files, failures and restarts.       *)
THEOREM AlwaysWhole == CacheSpec => []CommitsWhole
<1>1. CacheInv => CommitsWhole
  BY DEF CacheInv
<1> QED
  BY <1>1, CacheInitHolds, CacheNextHolds, PTL DEF CacheSpec
=============================================================================
