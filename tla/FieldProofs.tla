---------------------------- MODULE FieldProofs -----------------------------
(***************************************************************************)
(* Every visible field of a record is indexed once and whole under its     *)
(* line, for every collection of files and of records, however often and   *)
(* with whatever interruptions the files are read.                         *)
(*                                                                         *)
(* What is indexed is what one reading would have left (IndexTrue), so     *)
(* that it is enough to say what one reading leaves.  The appender         *)
(* says the fields of the items it is fed, each in pieces of a chunk's     *)
(* size (ChunkedSays).  The deduplicator keeps, of orderly items, the      *)
(* fields, each said once (DeduplicatedSays).  What earlier records have   *)
(* taught the pass changes of a record's items only the tool that its      *)
(* results are said to be of (RecastNormalize), which no field shows.      *)
(* So a record that has not been met, and answers no call of an own tool,  *)
(* says what it says when it is read by itself (RecordTells), and the      *)
(* pass has told so much of every line it has come to (Recounts).          *)
(*                                                                         *)
(* Of the records themselves it is assumed that, each read by itself,      *)
(* they show what is promised of them (FieldsRead): that is a walk over    *)
(* their trees, which TLC evaluates for the records of its run.            *)
(***************************************************************************)
EXTENDS RebuildProofs

(***************************************************************************)
(* The appender, part of the way through a field.                          *)
(***************************************************************************)
(* S has been cut of earlier fields, and T has been met of that of the item x. *)
Filling(a, x, S, T) ==
    /\ a = AppenderOf(HeldOf(x), a.text, a.chunks)
    /\ IsSeq(a.chunks) /\ IsSeq(a.text) /\ IsSeq(S) /\ IsSeq(T)
    /\ IF a.text = <<>> THEN T = <<>> /\ SaidOf(a.chunks) = S
       ELSE /\ T # <<>>
            /\ Append(SaidOf(a.chunks), Part(x.kind, a.text)) = S \o CutText(x.kind, T)

(* An item that is held is a field. *)
LEMMA HeldIs ==
  ASSUME NEW x
  PROVE  HeldOf(x) # NoField /\ HeldOf(x).item = x
  <1>1. DOMAIN HeldOf(x) = {"item"}
    BY DEF HeldOf
  <1>2. DOMAIN NoField = {"none"}
    BY DEF NoField
  <1>3. {"item"} # {"none"}
    OBVIOUS
  <1>4. HeldOf(x).item = x
    BY DEF HeldOf
  <1> QED BY <1>1, <1>2, <1>3, <1>4

(* What is flushed has been said, *)
LEMMA FillingFlush ==
  ASSUME NEW a, NEW x, NEW S, NEW T, Filling(a, x, S, T), NEW line
  PROVE  LET b == FlushCurrent(a, line) IN
         /\ b = AppenderOf(HeldOf(x), <<>>, b.chunks) /\ IsSeq(b.chunks)
         /\ SaidOf(b.chunks) = S \o CutText(x.kind, T)
  <1>1. PICK f, t, c, b : f = HeldOf(x) /\ t = a.text /\ c = a.chunks
         /\ b = FlushCurrent(a, line)
    OBVIOUS
  <1>2. a = AppenderOf(f, t, c) /\ IsSeq(c) /\ IsSeq(S)
    BY <1>1 DEF Filling
  <1>3. CASE t = <<>>
    <2>1. b = a
      BY <1>1, <1>3 DEF FlushCurrent
    <2>2. T = <<>> /\ SaidOf(c) = S
      BY <1>1, <1>3 DEF Filling
    <2>3. CutText(x.kind, T) = <<>>
      <3>1. IsSeq(T)
        BY DEF Filling
      <3> QED BY ONLY <2>2, <3>1, CutTextGrows
    <2>4. S \o <<>> = S
      BY <1>2, ConcatNothing
    <2>5. b = AppenderOf(f, <<>>, c) /\ b.chunks = c
      BY <1>2, <1>3, <2>1 DEF AppenderOf
    <2> QED BY <1>1, <1>2, <2>2, <2>3, <2>4, <2>5
  <1>4. CASE t # <<>>
    <2>1. PICK k, d : k = MakeChunk(x, t, line) /\ d = Append(c, k)
      OBVIOUS
    <2>2. b = AppenderOf(f, <<>>, d)
      <3>1. f.item = x
        BY <1>1, HeldIs
      <3>2. FlushCurrent(AppenderOf(f, t, c), line)
               = AppenderOf(f, <<>>, Append(c, MakeChunk(f.item, t, line)))
        BY <1>4, FlushCurrentOf
      <3> QED BY <1>1, <1>2, <2>1, <3>1, <3>2
    <2>3. k.kind = x.kind /\ k.text = t
      BY <2>1 DEF MakeChunk
    <2>4. SaidOf(d) = Append(SaidOf(c), Part(k.kind, k.text)) /\ IsSeq(d)
      BY <1>2, <2>1, SaidAppend, AppendIs
    <2>5. Append(SaidOf(c), Part(x.kind, t)) = S \o CutText(x.kind, T)
      BY <1>1, <1>4 DEF Filling
    <2>6. b.chunks = d
      BY <2>2 DEF AppenderOf
    <2> QED BY <1>1, <2>2, <2>3, <2>4, <2>5, <2>6
  <1> QED BY <1>3, <1>4

(* and what is finished. *)
LEMMA FillingFinish ==
  ASSUME NEW a, NEW x, NEW S, NEW T, Filling(a, x, S, T), NEW line
  PROVE  LET b == FinishField(a, line) IN
         /\ b = AppenderOf(NoField, <<>>, b.chunks) /\ IsSeq(b.chunks)
         /\ SaidOf(b.chunks) = S \o CutText(x.kind, T)
  <1>1. PICK b, d, c : b = FinishField(a, line) /\ d = FlushCurrent(a, line) /\ c = d.chunks
    OBVIOUS
  <1>2. d = AppenderOf(HeldOf(x), <<>>, c) /\ IsSeq(c) /\ SaidOf(c) = S \o CutText(x.kind, T)
    BY <1>1, FillingFlush
  <1>3. b = [d EXCEPT !.active = NoField]
    BY <1>1 DEF FinishField
  <1>4. b = AppenderOf(NoField, <<>>, c) /\ b.chunks = c
    BY <1>2, <1>3 DEF AppenderOf
  <1> QED BY <1>1, <1>2, <1>4

(* One unit more. *)
LEMMA FillingUnit ==
  ASSUME NEW a, NEW x, NEW S, NEW T, Filling(a, x, S, T), NEW e, NEW line
  PROVE  Filling(PushUnit(a, e, line), x, S, Append(T, e))
  <1>1. PICK f, t, c, k, U : /\ f = HeldOf(x) /\ t = a.text /\ c = a.chunks /\ k = x.kind
                             /\ U = Append(T, e)
    OBVIOUS
  <1>2. a = AppenderOf(f, t, c) /\ IsSeq(c) /\ IsSeq(S) /\ IsSeq(T) /\ IsSeq(t)
    BY <1>1 DEF Filling
  <1>3. IsSeq(U) /\ U # <<>>
    <2>1. IsSeq(U) /\ Len(U) = Len(T) + 1 /\ Len(T) \in Nat
      BY <1>1, <1>2, AppendIs, SeqIs
    <2>2. Len(U) # 0
      BY <2>1
    <2> QED BY <2>1, <2>2
  <1>4. PICK A, B : A = CutText(k, T) /\ B = CutText(k, U)
    OBVIOUS
  <1>5. CutGrown(k, A, B, e) /\ (A = <<>> <=> T = <<>>)
    BY <1>1, <1>2, <1>4, CutTextGrows
  <1>6. IsSeq(A) /\ IsSeq(B)
    BY <1>2, <1>3, <1>4, CutTextIs
  <1>7. IsSeq(SaidOf(c))
    BY <1>2, SaidAppend
  <1>8. PICK w : w = <<e>>
    OBVIOUS
  <1>9. IsSeq(w) /\ w # <<>>
    BY <1>8 DEF IsSeq
  <1>10. PICK p : p = PushUnit(a, e, line)
    OBVIOUS
  <1>11. a.text = t
    BY <1>1
  <1>12. CASE t = <<>>
    <2>1. T = <<>> /\ SaidOf(c) = S
      BY <1>1, <1>12 DEF Filling
    <2>2. A = <<>> /\ B = <<Part(k, <<e>>)>>
      <3>1. ~(\E y, l : /\ IsSeq(y) /\ IsSeq(l) /\ Len(l) \in 1..ChunkUnits
                        /\ A = Append(y, Part(k, l)))
        <4>1. ASSUME NEW y, NEW l, IsSeq(y), A = Append(y, Part(k, l)) PROVE FALSE
          <5>1. Len(A) = Len(y) + 1 /\ Len(y) \in Nat
            BY <4>1, AppendIs, SeqIs
          <5>2. A = <<>>
            BY <1>5, <2>1
          <5> QED BY <5>1, <5>2
        <4> QED BY <4>1
      <3> QED BY <1>5, <3>1 DEF CutGrown
    <2>3. p = AppenderOf(f, w, c)
      <3>1. Len(a.text) + 1 = 1 /\ ~(1 > ChunkUnits)
        BY <1>11, <1>12, DedupAssumption
      <3>2. Append(t, e) = w
        BY <1>8, <1>12
      <3>3. p = [a EXCEPT !.text = Append(@, e)]
        BY <1>10, <3>1 DEF PushUnit
      <3> QED BY <1>2, <3>2, <3>3 DEF AppenderOf
    <2>4. Append(SaidOf(c), Part(k, w)) = S \o B
      <3>1. PICK o, q : o = <<>> /\ q = Part(k, w)
        OBVIOUS
      <3>2. B = Append(o, q) /\ IsSeq(o)
        BY <1>8, <2>2, <3>1, EmptyIs
      <3>3. S \o B = Append(S \o o, q) /\ S \o o = S
        BY <1>2, <3>1, <3>2, ConcatAppend, ConcatNothing
      <3> QED BY <2>1, <3>1, <3>3
    <2>5. p.text = w /\ p.chunks = c
      BY <2>3 DEF AppenderOf
    <2> QED BY <1>1, <1>2, <1>3, <1>4, <1>9, <1>10, <2>3, <2>4, <2>5 DEF Filling
  <1>13. CASE t # <<>>
    <2>1. Append(SaidOf(c), Part(k, t)) = S \o A
      BY <1>1, <1>4, <1>13 DEF Filling
    <2>2. A # <<>>
      <3>1. T # <<>>
        BY <1>11, <1>13 DEF Filling
      <3> QED BY <1>5, <3>1
    <2>3. PICK y, l : /\ IsSeq(y) /\ IsSeq(l) /\ Len(l) \in 1..ChunkUnits
                         /\ A = Append(y, Part(k, l))
                      /\ IF Len(l) + 1 <= ChunkUnits THEN B = Append(y, Part(k, Append(l, e)))
                         ELSE B = Append(A, Part(k, <<e>>))
      BY <1>5, <2>2 DEF CutGrown
    <2>4. S \o A = Append(S \o y, Part(k, l)) /\ IsSeq(S \o y)
      <3>1. IsSeq(y) /\ A = Append(y, Part(k, l))
        BY <2>3
      <3>2. S \o Append(y, Part(k, l)) = Append(S \o y, Part(k, l))
        BY ONLY <1>2, <3>1, ConcatAppend
      <3>3. IsSeq(S \o y)
        BY ONLY <1>2, <3>1, ConcatIs
      <3> QED BY <3>1, <3>2, <3>3
    <2>5. SaidOf(c) = S \o y /\ Part(k, t) = Part(k, l)
      <3>1. PICK g, h, q, r : /\ g = SaidOf(c) /\ h = S \o y /\ q = Part(k, t)
                              /\ r = Part(k, l)
        OBVIOUS
      <3>2. Append(g, q) = Append(h, r) /\ IsSeq(g) /\ IsSeq(h)
        BY <1>7, <2>1, <2>4, <3>1
      <3>3. g = h /\ q = r
        BY ONLY <3>2, LastAppended
      <3> QED BY <3>1, <3>3
    <2>6. t = l
      BY <2>5 DEF Part
    <2>7. CASE Len(l) + 1 <= ChunkUnits
      <3>1. PICK v : v = Append(t, e)
        OBVIOUS
      <3>2. IsSeq(v) /\ v # <<>>
        BY <1>2, <3>1, AppendIs
      <3>3. p = AppenderOf(f, v, c)
        <4>1. ~(Len(a.text) + 1 > ChunkUnits)
          <5>1. Len(l) \in Nat /\ ChunkUnits \in Nat
            BY <2>3, DedupAssumption, SeqIs
          <5> QED BY <1>11, <2>6, <2>7, <5>1
        <4>2. p = [a EXCEPT !.text = Append(@, e)]
          BY <1>10, <4>1 DEF PushUnit
        <4> QED BY <1>2, <3>1, <4>2 DEF AppenderOf
      <3>4. B = Append(y, Part(k, v))
        BY <2>3, <2>6, <2>7, <3>1
      <3>5. S \o B = Append(SaidOf(c), Part(k, v))
        BY <1>2, <2>3, <2>5, <3>4, ConcatAppend
      <3>6. p.text = v /\ p.chunks = c
        BY <3>3 DEF AppenderOf
      <3> QED BY <1>1, <1>2, <1>3, <1>4, <1>10, <3>2, <3>3, <3>5, <3>6 DEF Filling
    <2>8. CASE ~(Len(l) + 1 <= ChunkUnits)
      <3>1. PICK b, d : b = FlushCurrent(a, line) /\ d = b.chunks
        OBVIOUS
      <3>2. b = AppenderOf(f, <<>>, d) /\ IsSeq(d) /\ SaidOf(d) = S \o A
        <4>1. Filling(a, x, S, T)
          OBVIOUS
        <4>2. /\ b = AppenderOf(HeldOf(x), <<>>, b.chunks) /\ IsSeq(b.chunks)
              /\ SaidOf(b.chunks) = S \o CutText(x.kind, T)
          BY ONLY <3>1, <4>1, FillingFlush
        <4> QED BY <1>1, <1>4, <3>1, <4>2
      <3>3. p = AppenderOf(f, w, d)
        <4>1. Len(a.text) + 1 > ChunkUnits
          <5>1. Len(l) \in Nat /\ ChunkUnits \in Nat
            BY <2>3, DedupAssumption, SeqIs
          <5> QED BY <1>11, <2>6, <2>8, <5>1
        <4>2. p = [b EXCEPT !.text = Append(@, e)]
          BY <1>10, <3>1, <4>1 DEF PushUnit
        <4>3. Append(<<>>, e) = w
          BY <1>8
        <4> QED BY <3>2, <4>2, <4>3 DEF AppenderOf
      <3>4. B = Append(A, Part(k, w))
        BY <1>8, <2>3, <2>8
      <3>5. S \o B = Append(S \o A, Part(k, w))
        BY <1>2, <1>6, <3>4, ConcatAppend
      <3>6. p.text = w /\ p.chunks = d
        BY <3>3 DEF AppenderOf
      <3> QED BY <1>1, <1>2, <1>3, <1>4, <1>9, <1>10, <3>2, <3>3, <3>5, <3>6 DEF Filling
    <2> QED BY <2>7, <2>8
  <1> QED BY <1>12, <1>13

(* A prefix grows unit by unit, *)
LEMMA PrefixGrows ==
  ASSUME NEW t, IsSeq(t), NEW i \in Nat, NEW j, j = i + 1, j <= Len(t)
  PROVE  SubSeq(t, 1, j) = Append(SubSeq(t, 1, i), t[j]) /\ IsSeq(SubSeq(t, 1, i))
  <1>1. j \in Nat /\ j <= Len(t) /\ i <= Len(t) /\ 1 <= j + 1 /\ 1 <= i + 1
    <2>1. Len(t) \in Nat
      BY SeqIs
    <2> QED BY <2>1
  <1>2. PICK x, y, z : x = SubSeq(t, 1, j) /\ y = SubSeq(t, 1, i) /\ z = Append(y, t[j])
    OBVIOUS
  <1>3. IsSlice(x, t, 1, j)
    BY <1>1, <1>2, SubSeqPlaces
  <1>4. IsSlice(y, t, 1, i)
    BY <1>1, <1>2, SubSeqPlaces
  <1>5. IsSeq(x) /\ Len(x) = j /\ \A n \in 1..j : x[n] = t[n]
    BY <1>1, <1>3 DEF IsSlice
  <1>6. IsSeq(y) /\ Len(y) = i /\ \A n \in 1..i : y[n] = t[n]
    BY <1>1, <1>4 DEF IsSlice
  <1>7. IsSeq(z) /\ Len(z) = j /\ z[j] = t[j] /\ \A n \in 1..i : z[n] = y[n]
    BY <1>2, <1>6, AppendIs
  <1>8. ASSUME NEW n \in 1..j PROVE x[n] = z[n]
    <2>1. n = j \/ n \in 1..i
      BY <1>1
    <2> QED BY <1>5, <1>6, <1>7, <2>1
  <1>9. x = z
    BY <1>5, <1>7, <1>8, EqualPlaces
  <1> QED BY <1>2, <1>6, <1>9

(* from nothing to the whole. *)
LEMMA PrefixEnds ==
  ASSUME NEW t, IsSeq(t)
  PROVE  SubSeq(t, 1, 0) = <<>> /\ SubSeq(t, 1, Len(t)) = t
  <1> DEFINE S == {t[i] : i \in DOMAIN t}
  <1>1. t \in Seq(S)
    BY DEF IsSeq
  <1> HIDE DEF S
  <1>2. SubSeq(t, 1, Len(t)) = t
    BY <1>1
  <1>3. SubSeq(t, 1, 0) = <<>>
    BY <1>1
  <1> QED BY <1>2, <1>3

(* The units of a text. *)
LEMMA FillingUnits ==
  ASSUME NEW a, NEW x, NEW S, NEW T, Filling(a, x, S, T), NEW text, IsSeq(text), NEW line
  PROVE  Filling(PushUnits(a, text, line), x, S, T \o text)
  <1>1. PICK n, f : n = Len(text) /\ f = Pushing(a, text, line)
    OBVIOUS
  <1>2. n \in Nat
    BY <1>1, SeqIs
  <1>3. PushUnits(a, text, line) = f[n] /\ IsPushing(f, a, text, line, n)
    BY <1>1, <1>2, PushUnitsSteps
  <1>4. IsSeq(T)
    BY DEF Filling
  <1> DEFINE R == {i \in 0..n : Filling(f[i], x, S, T \o SubSeq(text, 1, i))}
  <1>5. R \in SUBSET Nat
    OBVIOUS
  <1>6. 0 \in R
    <2>1. f[0] = a
      BY <1>2, <1>3 DEF IsPushing
    <2>2. SubSeq(text, 1, 0) = <<>>
      BY PrefixEnds
    <2>3. T \o <<>> = T
      BY <1>4, ConcatNothing
    <2>4. Filling(f[0], x, S, T \o SubSeq(text, 1, 0)) /\ 0 \in 0..n
      <3>1. PICK u, v : u = SubSeq(text, 1, 0) /\ v = T \o u
        OBVIOUS
      <3>2. v = T
        BY <2>2, <2>3, <3>1
      <3>3. Filling(a, x, S, T)
        OBVIOUS
      <3>4. Filling(f[0], x, S, v)
        BY ONLY <2>1, <3>2, <3>3
      <3> QED BY <1>2, <3>1, <3>4
    <2> QED BY <2>4
  <1>7. ASSUME NEW i \in 0..n, i # n, i \in R PROVE i + 1 \in R
    <2>1. PICK j : j = i + 1
      OBVIOUS
    <2>2. j \in 0..n /\ j # 0 /\ j - 1 = i /\ i \in Nat /\ j <= Len(text)
      BY <1>1, <1>2, <1>7, <2>1
    <2>3. f[j] = PushUnit(f[i], text[j], line)
      BY <1>3, <2>2 DEF IsPushing
    <2>4. PICK u, v : u = SubSeq(text, 1, i) /\ v = SubSeq(text, 1, j)
      OBVIOUS
    <2>5. v = Append(u, text[j]) /\ IsSeq(u)
      BY <2>1, <2>2, <2>4, PrefixGrows
    <2>6. T \o v = Append(T \o u, text[j])
      BY <1>4, <2>5, ConcatAppend
    <2>7. Filling(f[i], x, S, T \o u)
      BY <1>7, <2>4
    <2>8. Filling(f[j], x, S, T \o v)
      BY <2>3, <2>6, <2>7, FillingUnit
    <2> QED BY <2>1, <2>2, <2>4, <2>8
  <1> HIDE DEF R
  <1>8. 0..n \subseteq R
    BY <1>2, <1>5, <1>6, <1>7, UpTo
  <1>9. n \in R
    BY <1>2, <1>8
  <1>10. SubSeq(text, 1, n) = text
    BY <1>1, PrefixEnds
  <1> QED BY <1>3, <1>9, <1>10 DEF R

(* The appender has been fed items of the fields F: the last is part of the way *)
(* through, unless it stands alone.                                            *)
Alone(a, F) ==
    /\ a.active = NoField /\ a.text = <<>> /\ IsSeq(a.chunks) /\ SaidOf(a.chunks) = CutsOf(F)
    /\ F # <<>> => F[Len(F)].path = <<>>
Within(a, F) ==
    \E x, G, T : /\ x.path # <<>> /\ Fields(G) /\ F = Append(G, FieldAs(x.path, x.kind, T))
                 /\ Filling(a, x, CutsOf(G), T)
Filled(a, F) ==
    /\ a = AppenderOf(a.active, a.text, a.chunks) /\ Fields(F)
    /\ Alone(a, F) \/ Within(a, F)

(* Fields with one more. *)
LEMMA FieldsAppend ==
  ASSUME NEW F, Fields(F), NEW p, NEW k, NEW T, IsSeq(T)
  PROVE  /\ Fields(Append(F, FieldAs(p, k, T)))
         /\ CutsOf(Append(F, FieldAs(p, k, T))) = CutsOf(F) \o CutText(k, T)
         /\ IsSeq(CutsOf(F))
  <1>1. PICK x, n, g : x = FieldAs(p, k, T) /\ n = Len(F) /\ g = Append(F, x)
    OBVIOUS
  <1>2. x.kind = k /\ x.text = T
    BY <1>1 DEF FieldAs
  <1>3. n \in Nat /\ IsSeq(F) /\ \A i \in 1..n : IsSeq(F[i].text)
    BY <1>1, SeqIs DEF Fields
  <1>4. IsSeq(g) /\ Len(g) = n + 1 /\ g[n + 1] = x /\ \A i \in 1..n : g[i] = F[i]
    BY <1>1, <1>3, AppendIs
  <1>5. \A i \in 1..(n + 1) : i \in 1..n \/ i = n + 1
    BY <1>3
  <1>6. Fields(g)
    BY <1>2, <1>3, <1>4, <1>5 DEF Fields
  <1>7. CutsOf(Append(F, x)) = CutsOf(F) \o CutText(x.kind, x.text) /\ IsSeq(CutsOf(F))
    BY <1>2, CutsAppend
  <1> QED BY <1>1, <1>2, <1>6, <1>7

(* What has been met has been said once the field is finished. *)
LEMMA FilledFinish ==
  ASSUME NEW a, NEW F, Filled(a, F), NEW line, NEW b, b = FinishField(a, line)
  PROVE  /\ b = AppenderOf(NoField, <<>>, b.chunks) /\ IsSeq(b.chunks)
         /\ SaidOf(b.chunks) = CutsOf(F)
  <1>1. CASE Alone(a, F)
    <2>1. PICK c : c = a.chunks
      OBVIOUS
    <2>2. a = AppenderOf(NoField, <<>>, c) /\ IsSeq(c) /\ SaidOf(c) = CutsOf(F)
      BY <1>1, <2>1 DEF Alone, Filled
    <2>3. FlushCurrent(a, line) = a
      BY <1>1 DEF FlushCurrent, Alone
    <2>4. b = [a EXCEPT !.active = NoField]
      BY <2>3 DEF FinishField
    <2>5. b = AppenderOf(NoField, <<>>, c) /\ b.chunks = c
      BY <2>2, <2>4 DEF AppenderOf
    <2> QED BY <2>2, <2>5
  <1>2. CASE Within(a, F)
    <2>1. PICK x, G, T : /\ x.path # <<>> /\ Fields(G)
                            /\ F = Append(G, FieldAs(x.path, x.kind, T))
                         /\ Filling(a, x, CutsOf(G), T)
      BY <1>2 DEF Within
    <2>2. IsSeq(T)
      BY <2>1 DEF Filling
    <2>3. PICK p, k : p = x.path /\ k = x.kind
      OBVIOUS
    <2>4. CutsOf(Append(G, FieldAs(p, k, T))) = CutsOf(G) \o CutText(k, T)
      BY <2>1, <2>2, FieldsAppend
    <2>5. PICK S : S = CutsOf(G)
      OBVIOUS
    <2>6. Filling(a, x, S, T)
      BY <2>1, <2>5
    <2>7. /\ b = AppenderOf(NoField, <<>>, b.chunks) /\ IsSeq(b.chunks)
          /\ SaidOf(b.chunks) = S \o CutText(x.kind, T)
      BY ONLY <2>6, b = FinishField(a, line), FillingFinish
    <2> QED BY <2>1, <2>3, <2>4, <2>5, <2>7
  <1> QED BY <1>1, <1>2 DEF Filled

(* A field is begun. *)
LEMMA FilledBegins ==
  ASSUME NEW a, NEW F, Filled(a, F), NEW line, NEW x
  PROVE  Filling([FinishField(a, line) EXCEPT !.active = [item |-> x]], x, CutsOf(F), <<>>)
  <1>1. PICK b, c, d, S : /\ b = FinishField(a, line) /\ c = b.chunks /\ S = CutsOf(F)
                          /\ d = [FinishField(a, line) EXCEPT !.active = [item |-> x]]
    OBVIOUS
  <1>2. b = AppenderOf(NoField, <<>>, c) /\ IsSeq(c) /\ SaidOf(c) = S
    BY <1>1, FilledFinish
  <1>3. d = AppenderOf(HeldOf(x), <<>>, c)
    <2>1. d = [b EXCEPT !.active = HeldOf(x)]
      BY <1>1 DEF HeldOf
    <2> QED BY <1>2, <2>1 DEF AppenderOf
  <1>4. d.text = <<>> /\ d.chunks = c
    BY <1>3 DEF AppenderOf
  <1>5. IsSeq(S)
    BY <1>2, SaidAppend
  <1>6. Filling(d, x, S, <<>>)
    BY <1>2, <1>3, <1>4, <1>5, EmptyIs DEF Filling
  <1> QED BY <1>1, <1>6

(* An item that goes on with the last field makes it longer. *)
JoinsAs(G, p, k, T, F, x) ==
    /\ Joins(F, x) <=> x.path = p
    /\ x.path = p => JoinItem(F, x) = Append(G, FieldAs(p, k, T \o x.text))
    /\ x.path # p => JoinItem(F, x) = Append(F, FieldAs(x.path, x.kind, x.text))

(* JoinItem says which. *)
LEMMA JoinedIs ==
  ASSUME NEW G, Fields(G), NEW p, p # <<>>, NEW k, NEW T, IsSeq(T), NEW F,
         F = Append(G, FieldAs(p, k, T)), NEW x
  PROVE  JoinsAs(G, p, k, T, F, x)
  <1>1. PICK n, m, y : n = Len(G) /\ m = n + 1 /\ y = FieldAs(p, k, T)
    OBVIOUS
  <1>2. IsSeq(G) /\ n \in Nat /\ m \in Nat
    BY <1>1, SeqIs DEF Fields
  <1>3. IsSeq(F) /\ Len(F) = m /\ F[m] = y /\ \A i \in 1..n : F[i] = G[i]
    BY <1>1, <1>2, AppendIs
  <1>4. y.path = p /\ y.kind = k /\ y.text = T
    BY <1>1 DEF FieldAs
  <1>5. F # <<>>
    <2>1. PICK o : o = <<>>
      OBVIOUS
    <2>2. Len(o) = 0 /\ m # 0
      BY <1>1, <1>2, <2>1
    <2> QED BY <1>3, <2>1, <2>2
  <1>6. Joins(F, x) <=> x.path = p
    BY <1>3, <1>4, <1>5 DEF Joins
  <1>7. ASSUME x.path = p
        PROVE  JoinItem(F, x) = Append(G, FieldAs(p, k, T \o x.text))
    <2>1. PICK u, z, H, w : /\ u = T \o x.text /\ z = FieldAs(p, k, u) /\ H = Append(G, z)
                            /\ w = JoinItem(F, x)
      OBVIOUS
    <2>2. w = [F EXCEPT ![m].text = @ \o x.text]
      BY <1>3, <1>6, <1>7, <2>1 DEF JoinItem
    <2>3. F = [i \in 1..m |-> F[i]]
      <3>1. F = [i \in 1..Len(F) |-> F[i]]
        BY ONLY <1>3, SeqIs
      <3> QED BY <1>3, <3>1
    <2>4. PICK v : v = [y EXCEPT !.text = u]
      OBVIOUS
    <2>5. v = z
      <3>1. y = [path |-> p, kind |-> k, text |-> T] /\ z = [path |-> p, kind |-> k, text |-> u]
        BY <1>1, <2>1 DEF FieldAs
      <3> QED BY ONLY <2>4, <3>1
    <2>10. m \in 1..m /\ m = n + 1
      BY <1>1, <1>2
    <2>11. w = [F EXCEPT ![m] = v]
      BY <1>3, <1>4, <2>1, <2>2, <2>4
    <2>12. w = [i \in 1..m |-> IF i = m THEN z ELSE F[i]]
      <3>1. DOMAIN F = 1..m
        BY <2>3
      <3> QED BY <2>5, <2>10, <2>11, <3>1
    <2>6. IsSeq(w) /\ Len(w) = m
      <3>1. w = [i \in 1..m |-> w[i]]
        BY <2>12
      <3> QED BY <1>2, <3>1, TableIs
    <2>7. IsSeq(H) /\ Len(H) = m /\ H[m] = z /\ \A i \in 1..n : H[i] = G[i]
      BY <1>1, <1>2, <2>1, AppendIs
    <2>8. ASSUME NEW i \in 1..m PROVE w[i] = H[i]
      <3>1. i = m \/ (i \in 1..n /\ i # m)
        BY <1>2, <2>10
      <3> QED BY <1>3, <2>7, <2>12, <3>1
    <2>9. w = H
      BY <2>6, <2>7, <2>8, EqualPlaces
    <2> QED BY <2>1, <2>9
  <1>8. ASSUME x.path # p
        PROVE  JoinItem(F, x) = Append(F, FieldAs(x.path, x.kind, x.text))
    BY <1>6, <1>8 DEF JoinItem
  <1> QED BY <1>6, <1>7, <1>8 DEF JoinsAs

(* An item is taken. *)
LEMMA FilledItem ==
  ASSUME NEW a, NEW F, Filled(a, F), NEW x, IsSeq(x.text), NEW line
  PROVE  Filled(PushText(a, x, line), JoinItem(F, x))
  <1>1. PICK p, k, t, s : /\ p = x.path /\ k = x.kind /\ t = x.text
                          /\ s = [FinishField(a, line) EXCEPT !.active = [item |-> x]]
    OBVIOUS
  <1>2. PICK S, G, y, o : S = CutsOf(F) /\ G = Append(F, FieldAs(p, k, t))
         /\ y = PushText(a, x, line) /\ o = <<>>
    OBVIOUS
  <1>3. Fields(F)
    BY DEF Filled
  <1>4. Fields(G) /\ CutsOf(G) = S \o CutText(k, t) /\ IsSeq(S)
    <2>1. IsSeq(t)
      BY <1>1
    <2>2. /\ Fields(Append(F, FieldAs(p, k, t)))
          /\ CutsOf(Append(F, FieldAs(p, k, t))) = CutsOf(F) \o CutText(k, t)
          /\ IsSeq(CutsOf(F))
      BY ONLY <1>3, <2>1, FieldsAppend
    <2> QED BY <1>2, <2>2
  <1>5. Filling(PushUnits(s, t, line), x, S, t)
    <2>1. Filling(s, x, S, o)
      BY <1>1, <1>2, FilledBegins
    <2>2. Filling(PushUnits(s, t, line), x, S, o \o t)
      BY <1>1, <2>1, FillingUnits
    <2>3. o \o t = t
      BY <1>1, <1>2, ConcatNothing
    <2> QED BY <2>2, <2>3
  <1>6. CASE p = <<>>
    <2>1. JoinItem(F, x) = G
      BY <1>1, <1>2, <1>6 DEF JoinItem, Joins
    <2>2. y = FinishField(PushUnits(s, t, line), line)
      BY <1>1, <1>2, <1>6 DEF PushText
    <2>3. /\ y = AppenderOf(NoField, <<>>, y.chunks) /\ IsSeq(y.chunks)
          /\ SaidOf(y.chunks) = S \o CutText(x.kind, t)
      BY ONLY <1>5, <2>2, FillingFinish
    <2>4. y.active = NoField /\ y.text = <<>>
      BY <2>3 DEF AppenderOf
    <2>5. G[Len(G)].path = <<>>
      <3>1. IsSeq(F)
        BY <1>3 DEF Fields
      <3>2. G[Len(G)] = FieldAs(p, k, t)
        BY <1>2, <3>1, AppendIs
      <3> QED BY <1>6, <3>2 DEF FieldAs
    <2>6. Alone(y, G)
      BY <1>1, <1>4, <2>3, <2>4, <2>5 DEF Alone
    <2> QED BY <1>2, <1>4, <2>1, <2>3, <2>4, <2>6 DEF Filled
  <1>7. CASE p # <<>> /\ (a.active = NoField \/ a.active.item.path # p)
    <2>1. JoinItem(F, x) = G
      <3>1. CASE Alone(a, F)
        <4>1. ~Joins(F, x)
          BY <1>1, <1>7, <3>1 DEF Joins, Alone
        <4> QED BY <1>1, <1>2, <4>1 DEF JoinItem
      <3>2. CASE Within(a, F)
        <4>1. PICK z, H, T : /\ z.path # <<>> /\ Fields(H)
                                /\ F = Append(H, FieldAs(z.path, z.kind, T))
                             /\ Filling(a, z, CutsOf(H), T)
          BY <3>2 DEF Within
        <4>2. PICK r, j : r = z.path /\ j = z.kind
          OBVIOUS
        <4>3. a.active = HeldOf(z) /\ IsSeq(T)
          BY <4>1 DEF Filling, AppenderOf
        <4>4. r # p
          BY <1>7, <4>2, <4>3, HeldIs
        <4>5. x.path # r => JoinItem(F, x) = Append(F, FieldAs(x.path, x.kind, x.text))
          <5>1. F = Append(H, FieldAs(r, j, T)) /\ r # <<>> /\ Fields(H) /\ IsSeq(T)
            BY <4>1, <4>2, <4>3
          <5>2. JoinsAs(H, r, j, T, F, x)
            BY ONLY <5>1, JoinedIs
          <5> QED BY <5>2 DEF JoinsAs
        <4> QED BY <1>1, <1>2, <4>4, <4>5
      <3> QED BY <3>1, <3>2 DEF Filled
    <2>2. y = PushUnits(s, t, line)
      BY <1>1, <1>2, <1>7 DEF PushText
    <2>3. Filling(y, x, CutsOf(F), t)
      BY <1>2, <1>5, <2>2
    <2>4. Within(y, G)
      BY <1>1, <1>2, <1>3, <1>7, <2>3 DEF Within
    <2>5. y = AppenderOf(y.active, y.text, y.chunks)
      BY <2>3 DEF Filling, AppenderOf
    <2> QED BY <1>2, <1>4, <2>1, <2>4, <2>5 DEF Filled
  <1>8. CASE p # <<>> /\ ~(a.active = NoField \/ a.active.item.path # p)
    <2>1. Within(a, F)
      BY <1>8 DEF Filled, Alone
    <2>2. PICK z, H, T : /\ z.path # <<>> /\ Fields(H)
                            /\ F = Append(H, FieldAs(z.path, z.kind, T))
                         /\ Filling(a, z, CutsOf(H), T)
      BY <2>1 DEF Within
    <2>3. PICK j, Q, U : j = z.kind /\ Q = CutsOf(H) /\ U = T \o t
      OBVIOUS
    <2>4. a.active = HeldOf(z) /\ IsSeq(T)
      BY <2>2 DEF Filling, AppenderOf
    <2>5. z.path = p
      BY <1>8, <2>4, HeldIs
    <2>6. JoinItem(F, x) = Append(H, FieldAs(p, j, U))
      <3>1. F = Append(H, FieldAs(p, j, T)) /\ Fields(H) /\ p # <<>> /\ IsSeq(T)
        BY <1>8, <2>2, <2>3, <2>4, <2>5
      <3>2. x.path = p => JoinItem(F, x) = Append(H, FieldAs(p, j, T \o x.text))
        <4>1. JoinsAs(H, p, j, T, F, x)
          BY ONLY <3>1, JoinedIs
        <4> QED BY <4>1 DEF JoinsAs
      <3> QED BY <1>1, <2>3, <3>2
    <2>7. y = PushUnits(a, t, line)
      BY <1>1, <1>2, <1>8 DEF PushText
    <2>8. Filling(y, z, Q, U)
      <3>1. Filling(a, z, Q, T) /\ IsSeq(t)
        BY <1>1, <2>2, <2>3
      <3> QED BY ONLY <2>3, <2>7, <3>1, FillingUnits
    <2>9. IsSeq(U)
      BY <2>8 DEF Filling
    <2>10. Within(y, Append(H, FieldAs(p, j, U)))
      BY <1>8, <2>2, <2>3, <2>5, <2>8 DEF Within
    <2>11. Fields(Append(H, FieldAs(p, j, U)))
      BY <2>2, <2>9, FieldsAppend
    <2>12. y = AppenderOf(y.active, y.text, y.chunks)
      BY <2>8 DEF Filling, AppenderOf
    <2> QED BY <1>2, <2>6, <2>10, <2>11, <2>12 DEF Filled
  <1> QED BY <1>6, <1>7, <1>8

(* The chunks of items say their fields, each in pieces of a chunk's size. *)
THEOREM ChunkedSays ==
  ASSUME NEW kept, IsSeq(kept), \A i \in 1..Len(kept) : IsSeq(kept[i].text), NEW line
  PROVE  SaidOf(Chunked(kept, line)) = CutsOf(FieldsOf(kept)) /\ IsSeq(Chunked(kept, line))
  <1>1. PICK n, f : n = Len(kept) /\ f = Chunking(kept, line)
    OBVIOUS
  <1>2. n \in Nat
    BY <1>1, SeqIs
  <1>3. Chunked(kept, line) = FinishField(f[n], line).chunks /\ IsChunking(f, kept, line, n)
    BY <1>1, <1>2, ChunkedSteps
  <1>4. PICK g : IsJoining(g, kept, n) /\ FieldsOf(kept) = g[n]
    BY <1>1, <1>2, JoiningSteps
  <1> DEFINE R == {i \in 0..n : Filled(f[i], g[i])}
  <1>5. R \in SUBSET Nat
    OBVIOUS
  <1>6. 0 \in R
    <2>1. f[0] = NewAppender
      BY <1>2, <1>3 DEF IsChunking
    <2>2. g[0] = <<>>
      BY <1>2, <1>4, JoiningFirst
    <2>3. PICK a, o : a = NewAppender /\ o = <<>>
      OBVIOUS
    <2>4. IsSeq(o) /\ Len(o) = 0
      BY <2>3, EmptyIs
    <2>5. Fields(o)
      BY <2>4 DEF Fields
    <2>6. a = AppenderOf(NoField, o, o)
      BY <2>3 DEF NewAppender, AppenderOf
    <2>7. a.active = NoField /\ a.text = o /\ a.chunks = o
      BY <2>6 DEF AppenderOf
    <2>8. SaidOf(o) = o
      <3>1. IsSeq(SaidOf(o)) /\ Len(SaidOf(o)) = 0
        BY <2>4, SaidAppend
      <3>2. PICK q : q = SaidOf(o)
        OBVIOUS
      <3>3. Len(q) = Len(o) /\ \A i \in 1..Len(q) : q[i] = o[i]
        BY <2>4, <3>1, <3>2
      <3>4. q = o
        BY <2>4, <3>1, <3>2, <3>3, EqualPlaces
      <3> QED BY <3>2, <3>4
    <2>9. CutsOf(o) = o
      BY <2>3, CutsOfNone
    <2>10. Alone(a, o)
      BY <2>3, <2>4, <2>7, <2>8, <2>9 DEF Alone
    <2>11. Filled(a, o)
      BY <2>5, <2>6, <2>7, <2>10 DEF Filled
    <2>12. Filled(f[0], g[0])
      BY <2>1, <2>2, <2>3, <2>11
    <2> QED BY <1>2, <2>12
  <1>7. ASSUME NEW i \in 0..n, i # n, i \in R PROVE i + 1 \in R
    <2>1. PICK j : j = i + 1
      OBVIOUS
    <2>2. j \in 0..n /\ j # 0 /\ j - 1 = i /\ j \in 1..Len(kept)
      BY <1>1, <1>2, <1>7, <2>1
    <2>3. f[j] = PushText(f[i], kept[j], line)
      BY <1>3, <2>2 DEF IsChunking
    <2>4. g[i + 1] = JoinItem(g[i], kept[i + 1])
      BY ONLY <1>2, <1>4, <1>7, JoiningStep
    <2>5. IsSeq(kept[j].text) /\ Filled(f[i], g[i])
      BY <1>7, <2>2
    <2>6. PICK x : x = kept[j]
      OBVIOUS
    <2>7. Filled(PushText(f[i], x, line), JoinItem(g[i], x))
      BY <2>5, <2>6, FilledItem
    <2>8. Filled(f[j], g[j])
      BY <2>1, <2>3, <2>4, <2>6, <2>7
    <2> QED BY <2>1, <2>2, <2>8
  <1> HIDE DEF R
  <1>8. 0..n \subseteq R
    BY <1>2, <1>5, <1>6, <1>7, UpTo
  <1>9. Filled(f[n], g[n])
    <2>1. n \in R
      BY <1>2, <1>8
    <2> QED BY <2>1 DEF R
  <1>10. PICK b : b = FinishField(f[n], line)
    OBVIOUS
  <1>11. SaidOf(b.chunks) = CutsOf(g[n]) /\ IsSeq(b.chunks)
    BY <1>9, <1>10, FilledFinish
  <1> QED BY <1>3, <1>4, <1>10, <1>11

(***************************************************************************)
(* Fields said once.                                                       *)
(***************************************************************************)
(* Two additions agree as long as their fields do. *)
LEMMA AddingAgree ==
  ASSUME NEW t, NEW u, NEW n \in Nat, NEW m \in Nat, n <= m, \A i \in 1..n : t[i] = u[i],
         NEW f, IsAdding(f, t, n), NEW g, IsAdding(g, u, m)
  PROVE  \A i \in 0..n : f[i] = g[i]
  <1> DEFINE S == {i \in 0..n : f[i] = g[i]}
  <1>1. S \in SUBSET Nat /\ 0 \in S
    <2>1. f[0] = <<>>
      BY AddingFirst
    <2>2. g[0] = <<>>
      BY AddingFirst
    <2> QED BY <2>1, <2>2
  <1>2. ASSUME NEW i \in 0..n, i # n, i \in S PROVE i + 1 \in S
    <2>1. i \in 0..m /\ i # m /\ i + 1 \in 0..n /\ i + 1 \in 1..n
      BY <1>2
    <2>2. f[i + 1] = AddField(f[i], t[i + 1])
      BY <1>2, AddingStep
    <2>3. g[i + 1] = AddField(g[i], u[i + 1])
      BY <2>1, AddingStep
    <2> QED BY <1>2, <2>1, <2>2, <2>3
  <1> HIDE DEF S
  <1>3. 0..n \subseteq S
    BY <1>1, <1>2, UpTo
  <1> QED BY <1>3 DEF S

(* One field more is added to what is said of those before it; *)
LEMMA DistinctAppend ==
  ASSUME NEW t, IsSeq(t), NEW e
  PROVE  Distinct(Append(t, e)) = AddField(Distinct(t), e)
  <1>1. PICK u, n, m : u = Append(t, e) /\ n = Len(t) /\ m = n + 1
    OBVIOUS
  <1>2. /\ n \in Nat /\ m \in Nat /\ Len(u) = m /\ u[m] = e
        /\ \A i \in 1..n : t[i] = u[i]
    BY <1>1, AppendIs, SeqIs
  <1>3. PICK f : IsAdding(f, t, n) /\ Distinct(t) = f[n]
    BY <1>1, <1>2, AddingSteps
  <1>4. PICK g : IsAdding(g, u, m) /\ Distinct(u) = g[m]
    BY <1>2, AddingSteps
  <1>5. n <= m /\ n \in 0..m /\ n \in 0..n /\ n # m
    BY <1>1, <1>2
  <1>6. f[n] = g[n]
    <2>1. \A i \in 1..n : t[i] = u[i]
      BY <1>2
    <2>2. n \in Nat /\ m \in Nat /\ n <= m
      BY <1>2, <1>5
    <2>3. \A i \in 0..n : f[i] = g[i]
      BY ONLY <1>3, <1>4, <2>1, <2>2, AddingAgree
    <2> QED BY <1>5, <2>3
  <1>7. g[n + 1] = AddField(g[n], u[n + 1])
    <2>1. m \in Nat /\ n \in 0..m /\ n # m
      BY <1>2, <1>5
    <2> QED BY ONLY <1>4, <2>1, AddingStep
  <1> QED BY <1>1, <1>2, <1>3, <1>4, <1>5, <1>6, <1>7

(* of none there is nothing. *)
LEMMA DistinctNone == Distinct(<<>>) = <<>>
  <1>1. Len(<<>>) = 0 /\ Len(<<>>) \in Nat
    OBVIOUS
  <1>2. PICK f : IsAdding(f, <<>>, 0) /\ Distinct(<<>>) = f[0]
    BY <1>1, AddingSteps
  <1> QED BY <1>2, AddingFirst

(* What is said at first is said at the end. *)
Begins(s, t) ==
    IsSeq(s) /\ IsSeq(t) /\ Len(s) <= Len(t) /\ \A i \in 1..Len(s) : t[i] = s[i]

(* One field more begins with the fields before it; *)
LEMMA AddsOne ==
  ASSUME NEW s, IsSeq(s), NEW e
  PROVE  Begins(s, AddField(s, e)) /\ IsSeq(AddField(s, e))
  <1>1. CASE Repeating(s, e)
    <2>1. Len(s) \in Nat
      BY SeqIs
    <2> QED BY <1>1, <2>1 DEF AddField, Begins
  <1>2. CASE ~Repeating(s, e)
    <2>1. AddField(s, e) = Append(s, e)
      BY <1>2 DEF AddField
    <2>2. IsSeq(Append(s, e)) /\ Len(s) <= Len(Append(s, e))
           /\ \A i \in 1..Len(s) : Append(s, e)[i] = s[i]
      <3>1. /\ IsSeq(Append(s, e)) /\ Len(Append(s, e)) = Len(s) + 1
            /\ \A i \in 1..Len(s) : Append(s, e)[i] = s[i]
        BY AppendIs
      <3>2. Len(s) \in Nat
        BY SeqIs
      <3> QED BY <3>1, <3>2
    <2> QED BY <2>1, <2>2 DEF Begins
  <1> QED BY <1>1, <1>2

(* and what begins what begins a sequence begins it. *)
LEMMA BeginsTransitive ==
  ASSUME NEW s, NEW t, NEW u, Begins(s, t), Begins(t, u)
  PROVE  Begins(s, u)
  <1>1. Len(s) \in Nat /\ Len(t) \in Nat /\ Len(u) \in Nat
    BY SeqIs DEF Begins
  <1> QED BY <1>1 DEF Begins

(* So it is from any place on. *)
LEMMA AddingBegins ==
  ASSUME NEW t, NEW n \in Nat, NEW f, IsAdding(f, t, n), NEW m \in 0..n
  PROVE  Begins(f[m], f[n]) /\ IsSeq(f[m])
  <1> DEFINE S == {i \in 0..n : IsSeq(f[i]) /\ (m <= i => Begins(f[m], f[i]))}
  <1>1. S \in SUBSET Nat
    OBVIOUS
  <1>2. 0 \in S
    <2>1. f[0] = <<>>
      BY AddingFirst
    <2>2. PICK o : o = f[0]
      OBVIOUS
    <2>3. IsSeq(o) /\ Len(o) = 0
      BY <2>1, <2>2, EmptyIs
    <2>4. Begins(o, o)
      BY <2>3 DEF Begins
    <2>5. m <= 0 => m = 0
      OBVIOUS
    <2> QED BY <2>2, <2>3, <2>4, <2>5
  <1>3. ASSUME NEW i \in 0..n, i # n, i \in S PROVE i + 1 \in S
    <2>1. PICK j : j = i + 1
      OBVIOUS
    <2>2. f[j] = AddField(f[i], t[j])
      BY <1>3, <2>1, AddingStep
    <2>3. IsSeq(f[i]) /\ (m <= i => Begins(f[m], f[i]))
      BY <1>3
    <2>4. Begins(f[i], f[j]) /\ IsSeq(f[j])
      BY <2>2, <2>3, AddsOne
    <2>5. m <= j => Begins(f[m], f[j])
      <3>1. CASE m <= i
        BY <2>3, <2>4, <3>1, BeginsTransitive
      <3>2. CASE m = j
        <4>1. Begins(f[j], f[j])
          <5>1. Len(f[j]) \in Nat
            BY <2>4, SeqIs
          <5> QED BY <2>4, <5>1 DEF Begins
        <4> QED BY <3>2, <4>1
      <3>3. m <= j => m <= i \/ m = j
        BY <2>1
      <3> QED BY <3>1, <3>2, <3>3
    <2>6. j \in 0..n
      BY <1>3, <2>1
    <2> QED BY <2>1, <2>4, <2>5, <2>6
  <1> HIDE DEF S
  <1>4. 0..n \subseteq S
    BY <1>1, <1>2, <1>3, UpTo
  <1>5. m \in S /\ n \in S /\ m <= n
    BY <1>4
  <1> QED BY <1>5 DEF S

(* What is said of the first fields begins what is said of all. *)
LEMMA DistinctBegins ==
  ASSUME NEW s, NEW t, Begins(s, t)
  PROVE  Begins(Distinct(s), Distinct(t))
  <1>1. PICK m, n : m = Len(s) /\ n = Len(t)
    OBVIOUS
  <1>2. m \in Nat /\ n \in Nat /\ m <= n /\ m \in 0..n /\ m \in 0..m
    <2>1. m \in Nat /\ n \in Nat /\ m <= n
      BY <1>1, SeqIs DEF Begins
    <2> QED BY <2>1
  <1>3. PICK f : IsAdding(f, s, m) /\ Distinct(s) = f[m]
    BY <1>1, <1>2, AddingSteps
  <1>4. PICK g : IsAdding(g, t, n) /\ Distinct(t) = g[n]
    BY <1>1, <1>2, AddingSteps
  <1>5. \A i \in 1..m : s[i] = t[i]
    BY <1>1 DEF Begins
  <1>6. \A i \in 0..m : f[i] = g[i]
    BY ONLY <1>2, <1>3, <1>4, <1>5, AddingAgree
  <1>7. Begins(g[m], g[n])
    BY ONLY <1>2, <1>4, AddingBegins
  <1> QED BY <1>2, <1>3, <1>4, <1>6, <1>7

(* What is said of fields are fields. *)
LEMMA DistinctFields ==
  ASSUME NEW F, Fields(F)
  PROVE  Fields(Distinct(F))
  <1>1. PICK n : n = Len(F)
    OBVIOUS
  <1>2. n \in Nat
    BY <1>1, SeqIs DEF Fields
  <1>3. PICK f : IsAdding(f, F, n) /\ Distinct(F) = f[n]
    BY <1>1, <1>2, AddingSteps
  <1> DEFINE S == {i \in 0..n : Fields(f[i])}
  <1>4. S \in SUBSET Nat
    OBVIOUS
  <1>5. 0 \in S
    <2>1. f[0] = <<>>
      BY <1>2, <1>3, AddingFirst
    <2>2. PICK o : o = f[0]
      OBVIOUS
    <2>3. IsSeq(o) /\ Len(o) = 0
      BY <2>1, <2>2, EmptyIs
    <2>4. Fields(o)
      BY <2>3 DEF Fields
    <2> QED BY <1>2, <2>2, <2>4
  <1>6. ASSUME NEW i \in 0..n, i # n, i \in S PROVE i + 1 \in S
    <2>1. PICK j, x, s : j = i + 1 /\ x = F[j] /\ s = f[i]
      OBVIOUS
    <2>2. f[i + 1] = AddField(f[i], F[i + 1])
      BY ONLY <1>2, <1>3, <1>6, AddingStep
    <2>3. j \in 0..n /\ j \in 1..n
      BY <1>2, <1>6, <2>1
    <2>4. IsSeq(x.text)
      BY <1>1, <2>1, <2>3 DEF Fields
    <2>5. Fields(s)
      BY <1>6, <2>1
    <2>6. Fields(Append(s, x))
      <3>1. PICK g, k : g = Append(s, x) /\ k = Len(s)
        OBVIOUS
      <3>2. IsSeq(g) /\ Len(g) = k + 1 /\ g[k + 1] = x /\ (\A l \in 1..k : g[l] = s[l])
             /\ k \in Nat
        BY <2>5, <3>1, AppendIs, SeqIs DEF Fields
      <3>3. \A l \in 1..(k + 1) : l \in 1..k \/ l = k + 1
        BY <3>2
      <3> QED BY <2>4, <2>5, <3>1, <3>2, <3>3 DEF Fields
    <2>7. Fields(f[j])
      BY <2>1, <2>2, <2>5, <2>6 DEF AddField
    <2> QED BY <2>1, <2>3, <2>7
  <1> HIDE DEF S
  <1>7. 0..n \subseteq S
    BY <1>2, <1>4, <1>5, <1>6, UpTo
  <1>8. n \in S
    BY <1>2, <1>7
  <1> QED BY <1>3, <1>8 DEF S

(***************************************************************************)
(* The deduplicator, part of the way through a field.                      *)
(***************************************************************************)
(* The index offers what has been said, and nothing else. *)
Offers(x, v, f, K) ==
    /\ x.key = K[f.kind] /\ x.length = Len(f.text)
    /\ x.start \in Nat /\ x.start + Len(f.text) <= Len(v)
    /\ SubSeq(v, x.start + 1, x.start + Len(f.text)) = f.text
Indexed(I, v, D, K) ==
    /\ \A n \in 1..Len(D) : Deduplicated(D[n]) => \E x \in I : Offers(x, v, D[n], K)
    /\ \A x \in I : \E n \in 1..Len(D) : Deduplicated(D[n]) /\ Offers(x, v, D[n], K)
Novel(D) == \A n \in 1..Len(D) : ~Deduplicated(D[n])

(* The fields D have been handed on. *)
Handed(d, D, K) ==
    /\ d = DeduperOf(d.active, d.stored, d.values, d.index, d.output)
    /\ IsSeq(d.values) /\ IsSeq(d.output) /\ FieldsOf(d.output) = D /\ Fields(D)
    /\ IF d.stored THEN Indexed(d.index, d.values, D, K)
       ELSE d.index = {} /\ d.values = <<>> /\ Novel(D)

(* The text t has been met of the field of the item a. *)
Opened(d, a, t) ==
    /\ IsSeq(t)
    /\ d.active = FieldOf(a, d.active.start, Len(t), d.active.inline)
    /\ IF d.stored
       THEN /\ d.active.start \in Nat /\ d.active.start + Len(t) = Len(d.values)
            /\ SubSeq(d.values, d.active.start + 1, d.active.start + Len(t)) = t
       ELSE d.active.inline = t

(* A slice of what begins a sequence is one of the sequence. *)
LEMMA SliceKept ==
  ASSUME NEW v, IsSeq(v), NEW w, IsSeq(w), NEW s \in Nat, NEW l \in Nat, s + l <= Len(v)
  PROVE  SubSeq(v \o w, s + 1, s + l) = SubSeq(v, s + 1, s + l)
  <1>1. PICK u, k, m, n : u = v \o w /\ k = Len(v) /\ m = s + 1 /\ n = s + l
    OBVIOUS
  <1>2. IsSeq(u) /\ Len(u) = k + Len(w) /\ (\A i \in 1..k : u[i] = v[i])
    BY <1>1, ConcatIs
  <1>3. k \in Nat /\ Len(w) \in Nat /\ k <= Len(u) /\ m \in Nat \ {0} /\ n \in Nat /\ n <= k
        /\ m <= n + 1 /\ Len(v) = k
    BY <1>1, <1>2, SeqIs
  <1>4. SubSeq(u, m, n) = SubSeq(v, m, n)
    BY ONLY <1>2, <1>3, IsSeq(v), SameSlice
  <1> QED BY <1>1, <1>4

(* A slice up to the end of a sequence grows with it. *)
LEMMA SliceConcat ==
  ASSUME NEW v, IsSeq(v), NEW w, IsSeq(w), NEW s \in Nat, NEW l \in Nat, s + l = Len(v),
         NEW t, SubSeq(v, s + 1, s + l) = t
  PROVE  SubSeq(v \o w, s + 1, s + (l + Len(w))) = t \o w
  <1>1. PICK u, k, m, n, r : /\ u = v \o w /\ k = Len(w) /\ m = s + 1 /\ n = s + (l + k)
                             /\ r = s + l
    OBVIOUS
  <1>2. /\ IsSeq(u) /\ Len(u) = Len(v) + k /\ (\A i \in 1..Len(v) : u[i] = v[i])
        /\ (\A i \in 1..k : u[Len(v) + i] = w[i])
    BY <1>1, ConcatIs
  <1>3. k \in Nat /\ Len(v) \in Nat
    BY <1>1, SeqIs
  <1>4. m \in Nat \ {0} /\ n \in Nat /\ n <= Len(u) /\ m <= n + 1 /\ r \in Nat /\ r <= Len(v)
        /\ m <= r + 1 /\ n - m + 1 = l + k /\ r - m + 1 = l
    BY <1>1, <1>2, <1>3
  <1>5. IsSlice(SubSeq(u, m, n), u, m, n)
    BY <1>2, <1>4, SubSeqPlaces
  <1>6. IsSlice(t, v, m, r)
    <2>1. IsSlice(SubSeq(v, m, r), v, m, r)
      BY <1>4, SubSeqPlaces
    <2> QED BY <1>1, <2>1
  <1>7. PICK p, q : p = SubSeq(u, m, n) /\ q = t \o w
    OBVIOUS
  <1>8. /\ IsSeq(p) /\ Len(p) = l + k /\ \A i \in 1..(l + k) : p[i] = u[m + i - 1]
    BY <1>4, <1>5, <1>7 DEF IsSlice
  <1>9. /\ IsSeq(t) /\ Len(t) = l /\ \A i \in 1..l : t[i] = v[m + i - 1]
    BY <1>4, <1>6 DEF IsSlice
  <1>10. /\ IsSeq(q) /\ Len(q) = l + k /\ (\A i \in 1..l : q[i] = t[i])
         /\ (\A i \in 1..k : q[l + i] = w[i])
    <2>1. /\ IsSeq(q) /\ Len(q) = Len(t) + Len(w) /\ (\A i \in 1..Len(t) : q[i] = t[i])
          /\ (\A i \in 1..Len(w) : q[Len(t) + i] = w[i])
      <3>1. IsSeq(t)
        BY <1>9
      <3>2. q = t \o w
        BY <1>7
      <3> QED BY ONLY <3>1, <3>2, IsSeq(w), ConcatIs
    <2>2. Len(t) = l /\ Len(w) = k
      BY <1>1, <1>9
    <2> QED BY ONLY <2>1, <2>2
  <1>11. ASSUME NEW i \in 1..(l + k) PROVE p[i] = q[i]
    <2>1. CASE i <= l
      <3>1. i \in 1..l /\ m + i - 1 \in 1..Len(v)
        BY <1>1, <1>3, <2>1
      <3> QED BY <1>2, <1>8, <1>9, <1>10, <3>1
    <2>2. CASE ~(i <= l)
      <3>1. PICK j : j = i - l
        OBVIOUS
      <3>2. j \in 1..k /\ i = l + j /\ m + i - 1 = Len(v) + j
        <4>1. m = s + 1 /\ Len(v) = s + l /\ k \in Nat /\ s \in Nat /\ l \in Nat
          BY <1>1, <1>3
        <4> QED BY ONLY <2>2, <3>1, <4>1, i \in 1..(l + k)
      <3>3. p[i] = u[Len(v) + j]
        BY <1>8, <3>2
      <3>4. u[Len(v) + j] = w[j] /\ q[l + j] = w[j]
        BY <1>2, <1>10, <3>2
      <3> QED BY <3>2, <3>3, <3>4
    <2> QED BY <2>1, <2>2
  <1>12. p = q
    BY <1>8, <1>10, <1>11, EqualPlaces
  <1> QED BY <1>1, <1>7, <1>12

(* What the index offers it offers of a longer file. *)
LEMMA IndexedGrows ==
  ASSUME NEW I, NEW v, IsSeq(v), NEW w, IsSeq(w), NEW D, Fields(D), NEW K, Indexed(I, v, D, K)
  PROVE  Indexed(I, v \o w, D, K)
  <1>1. ASSUME NEW x, NEW n \in 1..Len(D), Offers(x, v, D[n], K) PROVE Offers(x, v \o w, D[n], K)
    <2>1. PICK t, l, s : t = D[n].text /\ l = Len(t) /\ s = x.start
      OBVIOUS
    <2>2. IsSeq(t) /\ l \in Nat
      BY <2>1, SeqIs DEF Fields
    <2>3. s \in Nat /\ s + l <= Len(v) /\ SubSeq(v, s + 1, s + l) = t
      BY <1>1, <2>1 DEF Offers
    <2>4. SubSeq(v \o w, s + 1, s + l) = SubSeq(v, s + 1, s + l)
      BY <2>2, <2>3, SliceKept
    <2>5. Len(v \o w) = Len(v) + Len(w) /\ Len(v) \in Nat /\ Len(w) \in Nat
      BY ConcatIs, SeqIs
    <2>6. s + l <= Len(v \o w)
      BY <2>2, <2>3, <2>5
    <2> QED BY <1>1, <2>1, <2>3, <2>4, <2>6 DEF Offers
  <1>2. ASSUME NEW n \in 1..Len(D), Deduplicated(D[n])
         PROVE \E x \in I : Offers(x, v \o w, D[n], K)
    <2>1. PICK x \in I : Offers(x, v, D[n], K)
      BY <1>2 DEF Indexed
    <2> QED BY <1>1, <2>1
  <1>3. ASSUME NEW x \in I
        PROVE  \E n \in 1..Len(D) : Deduplicated(D[n]) /\ Offers(x, v \o w, D[n], K)
    <2>1. PICK n \in 1..Len(D) : Deduplicated(D[n]) /\ Offers(x, v, D[n], K)
      BY <1>3 DEF Indexed
    <2> QED BY <1>1, <2>1
  <1> QED BY <1>2, <1>3 DEF Indexed

(* The field moves to the file with what has been met of it; *)
LEMMA HandedPromote ==
  ASSUME NEW d, NEW D, NEW K, Handed(d, D, K), ~d.stored, NEW a, NEW t, Opened(d, a, t),
         NEW p, p = Promote(d)
  PROVE  Handed(p, D, K) /\ Opened(p, a, t) /\ p.stored
  <1>1. PICK x, o, s, l : x = d.index /\ o = d.output /\ s = d.active.start /\ l = Len(t)
    OBVIOUS
  <1>2. PICK st : st = d.stored
    OBVIOUS
  <1>3. /\ d.active = FieldOf(a, s, l, t) /\ d.values = <<>> /\ x = {} /\ Novel(D)
        /\ d = DeduperOf(d.active, d.stored, d.values, d.index, d.output)
        /\ IsSeq(t) /\ IsSeq(o) /\ FieldsOf(o) = D /\ Fields(D)
    BY <1>1 DEF Handed, Opened, FieldOf
  <1>4. PICK v, m, w : v = d.values /\ m = Len(v) /\ w = v \o t
    OBVIOUS
  <1>5. m = 0 /\ w = t
    <2>1. v = <<>>
      BY <1>3, <1>4
    <2>2. <<>> \o t = t
      BY <1>3, ConcatNothing
    <2> QED BY <1>4, <2>1, <2>2
  <1>6. d = DeduperOf(FieldOf(a, s, l, t), st, v, x, o)
    BY <1>1, <1>2, <1>3, <1>4
  <1>7. p = DeduperOf(FieldOf(a, m, l, <<>>), Yes, w, x, o)
    BY ONLY <1>4, <1>6, p = Promote(d), PromoteOf
  <1>8. PICK z : z = <<>>
    OBVIOUS
  <1>9. /\ p.active = FieldOf(a, m, l, z) /\ p.stored /\ p.values = w /\ p.index = x
        /\ p.output = o /\ p = DeduperOf(p.active, p.stored, p.values, p.index, p.output)
        /\ p.active.start = m /\ p.active.inline = z
    BY <1>7, <1>8 DEF DeduperOf, FieldOf, Yes
  <1>10. SubSeq(w, 1, l) = t /\ l \in Nat
    BY <1>1, <1>3, <1>5, PrefixEnds, SeqIs
  <1>11. SubSeq(w, m + 1, m + l) = t /\ m + l = Len(w) /\ m \in Nat
    BY <1>1, <1>5, <1>10
  <1>12. Opened(p, a, t)
    BY ONLY <1>1, <1>3, <1>9, <1>11 DEF Opened
  <1>13. Indexed(x, w, D, K)
    BY <1>3 DEF Indexed, Novel
  <1>14. Handed(p, D, K)
    BY ONLY <1>3, <1>5, <1>9, <1>13 DEF Handed
  <1> QED BY <1>9, <1>12, <1>14

(* it grows; *)
LEMMA HandedLonger ==
  ASSUME NEW d, NEW D, NEW K, Handed(d, D, K), NEW a, NEW t, Opened(d, a, t),
         NEW text, IsSeq(text), NEW p, p = Lengthened(d, text)
  PROVE  Handed(p, D, K) /\ Opened(p, a, t \o text)
  <1>1. PICK x, o, s, l, i, v, st : /\ x = d.index /\ o = d.output /\ s = d.active.start
                                    /\ l = Len(t) /\ i = d.active.inline /\ v = d.values
                                    /\ st = d.stored
    OBVIOUS
  <1>2. /\ d = DeduperOf(FieldOf(a, s, l, i), st, v, x, o)
        /\ IsSeq(t) /\ IsSeq(o) /\ IsSeq(v) /\ FieldsOf(o) = D /\ Fields(D)
    BY <1>1 DEF Handed, Opened, FieldOf
  <1>3. PICK u, w, k, n : u = t \o text /\ w = v \o text /\ k = Len(text) /\ n = l + k
    OBVIOUS
  <1>4. IsSeq(u) /\ IsSeq(w) /\ Len(u) = n /\ Len(w) = Len(v) + k
        /\ k \in Nat /\ l \in Nat /\ n \in Nat /\ Len(v) \in Nat
    <2>1. IsSeq(u) /\ Len(u) = Len(t) + Len(text)
      BY ONLY <1>2, <1>3, IsSeq(text), ConcatIs
    <2>2. IsSeq(w) /\ Len(w) = Len(v) + Len(text)
      BY ONLY <1>2, <1>3, IsSeq(text), ConcatIs
    <2>3. k \in Nat /\ l \in Nat /\ Len(v) \in Nat
      BY <1>1, <1>2, <1>3, SeqIs
    <2> QED BY ONLY <1>1, <1>3, <2>1, <2>2, <2>3
  <1>5. CASE st
    <2>1. p = DeduperOf(FieldOf(a, s, n, i), st, w, x, o)
      <3>1. Lengthened(d, text) =
              IF st THEN DeduperOf(FieldOf(a, s, l + Len(text), i), st, v \o text, x, o)
              ELSE DeduperOf(FieldOf(a, s, l + Len(text), i \o text), st, v, x, o)
        BY ONLY <1>2, LongerOf
      <3> QED BY ONLY <1>3, <1>5, <3>1, p = Lengthened(d, text)
    <2>2. /\ p.active = FieldOf(a, s, n, i) /\ p.stored = st /\ p.values = w /\ p.index = x
          /\ p.output = o /\ p = DeduperOf(p.active, p.stored, p.values, p.index, p.output)
          /\ p.active.start = s /\ p.active.inline = i
      BY <2>1 DEF DeduperOf, FieldOf
    <2>3. s \in Nat /\ s + l = Len(v) /\ SubSeq(v, s + 1, s + l) = t
      BY <1>1, <1>5 DEF Opened
    <2>4. SubSeq(w, s + 1, s + n) = u
      <3>1. s \in Nat /\ l \in Nat /\ s + l = Len(v)
        BY ONLY <1>4, <2>3
      <3>2. SubSeq(v, s + 1, s + l) = t
        BY <2>3
      <3>3. SubSeq(v \o text, s + 1, s + (l + Len(text))) = t \o text
        BY ONLY <1>2, <3>1, <3>2, IsSeq(text), SliceConcat
      <3> QED BY ONLY <1>3, <3>3
    <2>5. s + n = Len(w)
      <3>1. s \in Nat /\ s + l = Len(v)
        BY <2>3
      <3>2. n = l + k
        BY <1>3
      <3> QED BY ONLY <1>4, <3>1, <3>2
    <2>6. Opened(p, a, u)
      BY ONLY <1>4, <1>5, <2>2, <2>3, <2>4, <2>5 DEF Opened
    <2>7. Indexed(x, v, D, K)
      BY <1>1, <1>5 DEF Handed
    <2>8. Indexed(x, w, D, K)
      BY ONLY <1>2, <1>3, <2>7, IsSeq(text), IndexedGrows
    <2>9. Handed(p, D, K)
      BY ONLY <1>2, <1>4, <1>5, <2>2, <2>8 DEF Handed
    <2> QED BY <1>3, <2>6, <2>9
  <1>6. CASE ~st
    <2>1. i = t
      BY <1>1, <1>6 DEF Opened
    <2>2. p = DeduperOf(FieldOf(a, s, n, u), st, v, x, o)
      <3>1. Lengthened(d, text) =
              IF st THEN DeduperOf(FieldOf(a, s, l + Len(text), i), st, v \o text, x, o)
              ELSE DeduperOf(FieldOf(a, s, l + Len(text), i \o text), st, v, x, o)
        BY ONLY <1>2, LongerOf
      <3> QED BY ONLY <1>3, <1>6, <2>1, <3>1, p = Lengthened(d, text)
    <2>3. /\ p.active = FieldOf(a, s, n, u) /\ p.stored = st /\ p.values = v /\ p.index = x
          /\ p.output = o /\ p = DeduperOf(p.active, p.stored, p.values, p.index, p.output)
          /\ p.active.start = s /\ p.active.inline = u
      BY <2>2 DEF DeduperOf, FieldOf
    <2>4. Opened(p, a, u)
      BY ONLY <1>4, <1>6, <2>3 DEF Opened
    <2>5. x = {} /\ v = <<>> /\ Novel(D)
      BY <1>1, <1>6 DEF Handed
    <2>6. Handed(p, D, K)
      BY ONLY <1>2, <1>6, <2>3, <2>5 DEF Handed
    <2> QED BY <1>3, <2>4, <2>6
  <1> QED BY <1>5, <1>6

(* both at once, if it has to; *)
LEMMA HandedAppend ==
  ASSUME NEW d, NEW D, NEW K, Handed(d, D, K), NEW a, NEW t, Opened(d, a, t),
         NEW text, IsSeq(text)
  PROVE  Handed(AppendActive(d, text), D, K) /\ Opened(AppendActive(d, text), a, t \o text)
  <1>1. PICK s : s = (~d.stored /\ Len(d.active.inline) + Len(text) > InlineField)
    OBVIOUS
  <1>2. PICK e : e = IF s THEN Promote(d) ELSE d
    OBVIOUS
  <1>3. AppendActive(d, text) = Lengthened(e, text)
    BY <1>1, <1>2 DEF AppendActive, Lengthened
  <1>4. Handed(e, D, K) /\ Opened(e, a, t)
    BY <1>1, <1>2, HandedPromote
  <1> QED BY <1>3, <1>4, HandedLonger

(* and the next is begun. *)
LEMMA HandedStart ==
  ASSUME NEW d, NEW D, NEW K, Handed(d, D, K), NEW x, IsSeq(x.text)
  PROVE  Handed(StartField(d, x), D, K) /\ Opened(StartField(d, x), x, x.text)
  <1>1. PICK n, z : n = Len(d.values) /\ z = <<>>
    OBVIOUS
  <1>2. PICK e : e = [d EXCEPT !.active = [item |-> x, start |-> Len(d.values), length |-> 0,
                                           inline |-> <<>>]]
    OBVIOUS
  <1>3. StartField(d, x) = AppendActive(e, x.text)
    BY <1>2 DEF StartField
  <1>4. d = DeduperOf(d.active, d.stored, d.values, d.index, d.output)
    BY DEF Handed
  <1>5. e = DeduperOf(FieldOf(x, n, 0, z), d.stored, d.values, d.index, d.output)
    BY ONLY <1>1, <1>2, <1>4 DEF DeduperOf, FieldOf
  <1>6. /\ e.active = FieldOf(x, n, 0, z) /\ e.stored = d.stored /\ e.values = d.values
        /\ e.index = d.index /\ e.output = d.output
        /\ e = DeduperOf(e.active, e.stored, e.values, e.index, e.output)
        /\ e.active.start = n /\ e.active.inline = z
    BY <1>5 DEF DeduperOf, FieldOf
  <1>7. Handed(e, D, K)
    BY ONLY <1>6, Handed(d, D, K) DEF Handed
  <1>8. IsSeq(z) /\ Len(z) = 0 /\ n \in Nat
    BY <1>1, EmptyIs, SeqIs DEF Handed
  <1>9. SubSeq(d.values, n + 1, n + 0) = z
    <2>1. PICK v, m : v = d.values /\ m = n + 1
      OBVIOUS
    <2>2. IsSeq(v) /\ m \in Nat \ {0} /\ n <= Len(v) /\ m <= n + 1
      BY <1>1, <1>8, <2>1 DEF Handed
    <2>3. IsSlice(SubSeq(v, m, n), v, m, n)
      BY <1>8, <2>2, SubSeqPlaces
    <2>4. PICK q : q = SubSeq(v, m, n)
      OBVIOUS
    <2>5. IsSeq(q) /\ Len(q) = 0
      BY <1>8, <2>1, <2>3, <2>4 DEF IsSlice
    <2>6. q = z
      BY ONLY <1>8, <2>5, EqualPlaces
    <2> QED BY <1>8, <2>1, <2>4, <2>6
  <1>10. Opened(e, x, z)
    BY ONLY <1>1, <1>6, <1>8, <1>9 DEF Opened
  <1>11. z \o x.text = x.text
    BY <1>1, ConcatNothing
  <1>12. Handed(AppendActive(e, x.text), D, K) /\ Opened(AppendActive(e, x.text), x, z \o x.text)
    BY ONLY <1>7, <1>10, IsSeq(x.text), HandedAppend
  <1> QED BY <1>3, <1>11, <1>12

(***************************************************************************)
(* The deduplicator, done with a field.                                    *)
(***************************************************************************)
(* The kinds that are compared have keys of their own. *)
Keyed(K) == \A k, m \in {"message", "tool_result"} : K[k] = K[m] => k = m
IsItem(x) == x = ItemWith(x, x.session) /\ IsSeq(x.text)

(* A field repeats what the file holds if it repeats what has been handed on. *)
LEMMA RepeatsAs ==
  ASSUME NEW d, NEW D, NEW K, Keyed(K), Handed(d, D, K), d.stored,
         NEW a, Deduplicated(a), DedupKey(a) = K[a.kind], NEW t, Opened(d, a, t),
         NEW f, f = FieldAs(a.path, a.kind, t)
  PROVE  Repeats(d) <=> Repeating(D, f)
  <1>1. PICK v, I, s, c : v = d.values /\ I = d.index /\ s = d.active.start /\ c = d.active
    OBVIOUS
  <1>2. /\ c.item = a /\ c.length = Len(t) /\ c.start = s
        /\ SubSeq(v, s + 1, s + Len(t)) = t
    BY <1>1 DEF Opened, FieldOf
  <1>3. /\ \A n \in 1..Len(D) : Deduplicated(D[n]) => \E x \in I : Offers(x, v, D[n], K)
        /\ \A x \in I : \E n \in 1..Len(D) : Deduplicated(D[n]) /\ Offers(x, v, D[n], K)
    BY <1>1 DEF Handed, Indexed
  <1>4. Repeats(d) <=> \E x \in I : /\ x.key = DedupKey(a) /\ x.length = Len(t)
                                    /\ SubSeq(v, x.start + 1, x.start + x.length) = t
    BY <1>1, <1>2 DEF Repeats, ValueRange
  <1>5. f.kind = a.kind /\ f.text = t /\ Deduplicated(f)
    BY DEF FieldAs, Deduplicated
  <1>6. DOMAIN D = 1..Len(D)
    BY SeqIs DEF Handed, Fields
  <1>7. ASSUME Repeats(d) PROVE Repeating(D, f)
    <2>1. PICK x \in I : /\ x.key = DedupKey(a) /\ x.length = Len(t)
                         /\ SubSeq(v, x.start + 1, x.start + x.length) = t
      BY <1>4, <1>7
    <2>2. PICK n \in 1..Len(D) : Deduplicated(D[n]) /\ Offers(x, v, D[n], K)
      BY <1>3
    <2>3. x.key = K[D[n].kind] /\ x.length = Len(D[n].text)
          /\ SubSeq(v, x.start + 1, x.start + Len(D[n].text)) = D[n].text
      BY <2>2 DEF Offers
    <2>4. D[n].kind = a.kind
      BY <2>1, <2>2, <2>3 DEF Keyed, Deduplicated
    <2>5. D[n].text = t
      BY <2>1, <2>3
    <2> QED BY <1>5, <1>6, <2>4, <2>5 DEF Repeating
  <1>8. ASSUME Repeating(D, f) PROVE Repeats(d)
    <2>1. PICK n \in 1..Len(D) : D[n].kind = f.kind /\ D[n].text = f.text
      BY <1>6, <1>8 DEF Repeating
    <2>2. Deduplicated(D[n])
      BY <1>5, <2>1 DEF Deduplicated
    <2>3. PICK x \in I : Offers(x, v, D[n], K)
      BY <1>3, <2>2
    <2>4. /\ x.key = DedupKey(a) /\ x.length = Len(t)
          /\ SubSeq(v, x.start + 1, x.start + x.length) = t
      BY <1>5, <2>1, <2>3 DEF Offers
    <2> QED BY <1>4, <2>4
  <1> QED BY <1>7, <1>8

(* Two slices that follow each other are one. *)
LEMMA SlicesJoin ==
  ASSUME NEW t, IsSeq(t), NEW m \in Nat, NEW n \in Nat, m <= n, n <= Len(t)
  PROVE  /\ SubSeq(t, 1, m) \o SubSeq(t, m + 1, n) = SubSeq(t, 1, n)
         /\ IsSeq(SubSeq(t, 1, m)) /\ IsSeq(SubSeq(t, m + 1, n)) /\ IsSeq(SubSeq(t, 1, n))
  <1>1. PICK k, o : k = m + 1 /\ o = 1
    OBVIOUS
  <1>2. k \in Nat \ {0} /\ o \in Nat \ {0} /\ k <= n + 1 /\ o <= n + 1 /\ o <= m + 1
        /\ m <= Len(t) /\ Len(t) \in Nat
    BY <1>1, SeqIs
  <1>3. PICK p, q, r : p = SubSeq(t, o, m) /\ q = SubSeq(t, k, n) /\ r = SubSeq(t, o, n)
    OBVIOUS
  <1>4. IsSlice(p, t, o, m)
    BY <1>2, <1>3, SubSeqPlaces
  <1>5. IsSlice(q, t, k, n)
    BY <1>2, <1>3, SubSeqPlaces
  <1>6. IsSlice(r, t, o, n)
    BY <1>2, <1>3, SubSeqPlaces
  <1>7. /\ IsSeq(p) /\ Len(p) = m /\ \A i \in 1..m : p[i] = t[i]
    BY <1>1, <1>4 DEF IsSlice
  <1>8. /\ IsSeq(q) /\ Len(q) = n - m /\ \A i \in 1..(n - m) : q[i] = t[m + i]
    BY <1>1, <1>5 DEF IsSlice
  <1>9. /\ IsSeq(r) /\ Len(r) = n /\ \A i \in 1..n : r[i] = t[i]
    BY <1>1, <1>6 DEF IsSlice
  <1>10. PICK u : u = p \o q
    OBVIOUS
  <1>11. /\ IsSeq(u) /\ Len(u) = n /\ (\A i \in 1..m : u[i] = p[i])
         /\ (\A i \in 1..(n - m) : u[m + i] = q[i])
    <2>1. /\ IsSeq(u) /\ Len(u) = Len(p) + Len(q) /\ (\A i \in 1..Len(p) : u[i] = p[i])
          /\ (\A i \in 1..Len(q) : u[Len(p) + i] = q[i])
      BY ONLY <1>7, <1>8, <1>10, ConcatIs
    <2>2. Len(p) = m /\ Len(q) = n - m
      BY <1>7, <1>8
    <2> QED BY ONLY <2>1, <2>2, m \in Nat, n \in Nat
  <1>12. ASSUME NEW i \in 1..n PROVE u[i] = r[i]
    <2>1. CASE i <= m
      <3>1. i \in 1..m
        BY <2>1
      <3> QED BY <1>7, <1>9, <1>11, <3>1
    <2>2. CASE ~(i <= m)
      <3>1. PICK j : j = i - m
        OBVIOUS
      <3>2. j \in 1..(n - m) /\ i = m + j
        BY ONLY <2>2, <3>1, m \in Nat, n \in Nat, i \in 1..n
      <3> QED BY <1>8, <1>9, <1>11, <3>2
    <2> QED BY <2>1, <2>2
  <1>13. u = r
    BY ONLY <1>9, <1>11, <1>12, EqualPlaces
  <1> QED BY <1>1, <1>3, <1>7, <1>8, <1>9, <1>10, <1>13

(* The pieces of a text end where the next begin. *)
EndingAt(p, t, b, n) ==
    /\ n \in Nat \ {0} /\ IsSeq(p) /\ Len(p) = n /\ b[0] = 0 /\ b[n] = Len(t)
    /\ \A i \in 0..n : b[i] \in Nat /\ b[i] <= Len(t)
    /\ \A i \in 1..n : b[i - 1] <= b[i] /\ p[i] = SubSeq(t, b[i - 1] + 1, b[i])

(* The pieces of a text that is not empty have such ends. *)
LEMMA PiecesBounded ==
  ASSUME NEW t, IsSeq(t), t # <<>>
  PROVE  \E b, n : EndingAt(Pieces(t), t, b, n)
  <1>1. PICK c, l, n, p : /\ c = FragmentUnits /\ l = Len(t) /\ n = (l + c - 1) \div c
                          /\ p = PiecesBy(t, c)
    OBVIOUS
  <1>2. c \in Nat \ {0} /\ l \in Nat /\ p = Pieces(t)
    BY <1>1, SeqIs, PiecesBySize, FragmentAssumption
  <1>3. InPieces(p, t, l, c, n)
    BY <1>1, <1>2, PiecesPlaces
  <1>4. l # 0
    <2>1. Len(<<>>) = 0 /\ IsSeq(<<>>)
      BY EmptyIs
    <2>2. \A z : z = <<>> => Len(t) # 0
      BY <2>1, EqualPlaces
    <2> QED BY <1>1, <2>2
  <1>5. PICK b : b = [i \in 0..n |-> IF i < n THEN i * c ELSE l]
    OBVIOUS
  <1>6. /\ IsSeq(p) /\ Len(p) = n /\ n \in Nat \ {0}
        /\ \A i \in 1..n : p[i] = SubSeq(t, (i - 1) * c + 1, IF i < n THEN i * c ELSE l)
        /\ \A i \in 1..n : (i - 1) * c \in Nat /\ (i - 1) * c < l
        /\ \A i \in 1..n : i < n => i * c \in Nat /\ i * c < l /\ i * c = (i - 1) * c + c
    BY <1>3, <1>4 DEF InPieces
  <1>7. b[0] = 0 /\ b[n] = l
    <2>1. 0 \in 0..n /\ n \in 0..n /\ 0 < n /\ ~(n < n) /\ 0 * c = 0
      BY <1>2, <1>6
    <2> QED BY <1>5, <2>1
  <1>8. ASSUME NEW i \in 1..n
        PROVE  /\ b[i - 1] = (i - 1) * c /\ b[i] = (IF i < n THEN i * c ELSE l)
    <2>1. i \in 0..n /\ i - 1 \in 0..n /\ i - 1 < n
      BY <1>6
    <2> QED BY <1>5, <2>1
  <1>9. ASSUME NEW i \in 1..n
        PROVE  /\ b[i - 1] \in Nat /\ b[i] \in Nat /\ b[i] <= l /\ b[i - 1] <= b[i]
               /\ p[i] = SubSeq(t, b[i - 1] + 1, b[i])
    <2>1. PICK x, y, z : x = (i - 1) * c /\ y = i * c /\ z = p[i]
      OBVIOUS
    <2>2. x \in Nat /\ x < l /\ (i < n => y \in Nat /\ y < l /\ y = x + c)
      BY <1>6, <2>1
    <2>3. b[i - 1] = x /\ b[i] = IF i < n THEN y ELSE l
      BY <1>8, <2>1
    <2>4. z = SubSeq(t, x + 1, IF i < n THEN y ELSE l)
      BY <1>6, <2>1
    <2>5. b[i] \in Nat /\ b[i] <= l /\ x <= b[i]
      BY <1>2, <2>2, <2>3
    <2>6. z = SubSeq(t, b[i - 1] + 1, b[i])
      BY ONLY <2>3, <2>4
    <2> QED BY <2>1, <2>2, <2>3, <2>5, <2>6
  <1>10. \A i \in 0..n : b[i] \in Nat /\ b[i] <= l
    <2>1. \A i \in 0..n : i = 0 \/ i \in 1..n
      BY <1>6
    <2>2. 0 <= l
      BY <1>2
    <2> QED BY <1>7, <1>9, <2>1, <2>2
  <1>11. EndingAt(p, t, b, n)
    BY ONLY <1>1, <1>6, <1>7, <1>9, <1>10 DEF EndingAt
  <1> QED BY <1>2, <1>11

(* A piece of an item is like the item. *)
LEMMA PieceIs ==
  ASSUME NEW a, IsItem(a), NEW u, NEW v, v = [a EXCEPT !.text = u]
  PROVE  v.path = a.path /\ v.kind = a.kind /\ v.text = u
  <1>1. PICK s : s = a.session
    OBVIOUS
  <1>2. a = ItemWith(a, s)
    BY <1>1 DEF IsItem
  <1>4. v = [text |-> u, path |-> a.path, kind |-> a.kind, role |-> a.role,
             tool |-> a.tool, session |-> s, event |-> a.event]
    BY ONLY <1>2, v = [a EXCEPT !.text = u] DEF ItemWith
  <1> QED BY <1>4

(* A field that comes back in pieces is one field. *)
LEMMA ReplayJoins ==
  ASSUME NEW a, IsItem(a), a.path # <<>>, NEW o, IsSeq(o), NEW F, F = FieldsOf(o), Fields(F),
         F # <<>> => F[Len(F)].path # a.path, NEW t, IsSeq(t), t # <<>>,
         NEW r, r = [i \in DOMAIN Pieces(t) |-> [a EXCEPT !.text = Pieces(t)[i]]]
  PROVE  IsSeq(o \o r) /\ FieldsOf(o \o r) = Append(F, FieldAs(a.path, a.kind, t))
  <1>1. PICK p : p = Pieces(t)
    OBVIOUS
  <1>2. PICK b, n : EndingAt(p, t, b, n)
    BY <1>1, PiecesBounded
  <1>3. /\ n \in Nat \ {0} /\ IsSeq(p) /\ Len(p) = n /\ b[0] = 0 /\ b[n] = Len(t)
        /\ \A i \in 0..n : b[i] \in Nat /\ b[i] <= Len(t)
        /\ \A i \in 1..n : b[i - 1] <= b[i] /\ p[i] = SubSeq(t, b[i - 1] + 1, b[i])
    BY <1>2 DEF EndingAt
  <1>4. r = [i \in 1..n |-> [a EXCEPT !.text = p[i]]]
    <2>1. DOMAIN p = 1..n
      BY <1>3, SeqIs
    <2> QED BY <1>1, <2>1
  <1>5. IsSeq(r) /\ Len(r) = n /\ \A i \in 1..n : r[i] = [a EXCEPT !.text = p[i]]
    <2>1. \A i \in 1..n : r[i] = [a EXCEPT !.text = p[i]]
      BY <1>4
    <2>2. r = [i \in 1..n |-> r[i]]
      BY <1>4, <2>1
    <2>3. n \in Nat
      BY <1>3
    <2>4. IsSeq(r) /\ Len(r) = n
      BY ONLY <2>2, <2>3, TableIs
    <2> QED BY <2>1, <2>4
  <1>6. ASSUME NEW i \in 1..n
        PROVE  r[i].path = a.path /\ r[i].kind = a.kind /\ r[i].text = p[i]
    <2>1. PICK u : u = p[i]
      OBVIOUS
    <2>2. PICK v : v = r[i]
      OBVIOUS
    <2>3. v = [a EXCEPT !.text = u]
      BY <1>5, <2>1, <2>2
    <2>4. v.path = a.path /\ v.kind = a.kind /\ v.text = u
      BY ONLY <2>3, IsItem(a), PieceIs
    <2> QED BY <2>1, <2>2, <2>4
  <1> DEFINE said(i) == SubSeq(t, 1, b[i])
             S == {i \in 0..n : /\ IsSeq(o \o SubSeq(r, 1, i))
                                /\ FieldsOf(o \o SubSeq(r, 1, i)) =
                                      IF i = 0 THEN F
                                      ELSE Append(F, FieldAs(a.path, a.kind, said(i)))}
  <1>7. S \in SUBSET Nat
    BY <1>3
  <1>8. 0 \in S
    <2>1. SubSeq(r, 1, 0) = <<>>
      BY <1>5, PrefixEnds
    <2>2. o \o <<>> = o
      BY ConcatNothing
    <2>3. PICK z : z = SubSeq(r, 1, 0)
      OBVIOUS
    <2>4. o \o z = o
      BY <2>1, <2>2, <2>3
    <2>5. IsSeq(o \o z) /\ FieldsOf(o \o z) = F
      BY <2>4
    <2>6. 0 \in 0..n
      BY <1>3
    <2> QED BY ONLY <2>3, <2>5, <2>6
  <1>9. ASSUME NEW i \in 0..n, i # n, i \in S PROVE i + 1 \in S
    <2>1. PICK j : j = i + 1
      OBVIOUS
    <2>2. i \in Nat /\ j \in 0..n /\ j \in 1..n /\ j <= Len(r) /\ j - 1 = i /\ j # 0
      BY <1>3, <1>5, <1>9, <2>1
    <2>3. PICK x, q, c, m, k : /\ x = r[j] /\ q = SubSeq(r, 1, i) /\ c = SubSeq(r, 1, j)
                               /\ m = b[i] /\ k = b[j]
      OBVIOUS
    <2>4. c = Append(q, x) /\ IsSeq(q)
      BY ONLY <1>5, <2>1, <2>2, <2>3, PrefixGrows
    <2>5. o \o c = Append(o \o q, x)
      BY ONLY <2>4, IsSeq(o), ConcatAppend
    <2>6. PICK g, h, G, H : /\ g = o \o q /\ h = o \o c /\ G = FieldsOf(g)
                            /\ H = Append(F, FieldAs(a.path, a.kind, SubSeq(t, 1, k)))
      OBVIOUS
    <2>7. IsSeq(g) /\ G = (IF i = 0 THEN F
           ELSE Append(F, FieldAs(a.path, a.kind, SubSeq(t, 1, m))))
      BY <1>9, <2>3, <2>6
    <2>8. IsSeq(h) /\ FieldsOf(h) = JoinItem(G, x)
      <3>1. h = Append(g, x)
        BY <2>5, <2>6
      <3>2. FieldsOf(Append(g, x)) = JoinItem(FieldsOf(g), x)
        BY ONLY <2>7, FieldsOfAppend
      <3>3. IsSeq(Append(g, x))
        BY <2>7, AppendIs
      <3> QED BY <2>6, <3>1, <3>2, <3>3
    <2>9. /\ m \in Nat /\ k \in Nat /\ m <= k /\ k <= Len(t)
          /\ x.path = a.path /\ x.kind = a.kind /\ x.text = SubSeq(t, m + 1, k)
      <3>1. b[i] \in Nat /\ b[j] \in Nat /\ b[j] <= Len(t) /\ b[j - 1] <= b[j]
            /\ p[j] = SubSeq(t, b[j - 1] + 1, b[j])
        BY <1>3, <1>9, <2>2
      <3>2. x.path = a.path /\ x.kind = a.kind /\ x.text = p[j]
        BY <1>6, <2>2, <2>3
      <3> QED BY <2>2, <2>3, <3>1, <3>2
    <2>10. /\ SubSeq(t, 1, m) \o SubSeq(t, m + 1, k) = SubSeq(t, 1, k)
           /\ IsSeq(SubSeq(t, 1, m))
      BY ONLY <2>9, IsSeq(t), SlicesJoin
    <2>11. JoinItem(G, x) = H
      <3>1. CASE i = 0
        <4>1. G = F /\ m = 0
          BY <1>3, <2>3, <2>7, <3>1
        <4>2. ~Joins(G, x)
          BY <2>9, <4>1 DEF Joins
        <4>3. x.text = SubSeq(t, 1, k)
          BY <2>9, <4>1
        <4> QED BY <2>6, <2>9, <4>1, <4>2, <4>3 DEF JoinItem
      <3>2. CASE i # 0
        <4>1. PICK T, P, Q : T = SubSeq(t, 1, m) /\ P = a.path /\ Q = a.kind
          OBVIOUS
        <4>2. G = Append(F, FieldAs(P, Q, T)) /\ P # <<>> /\ IsSeq(T)
          BY <2>7, <2>10, <3>2, <4>1
        <4>3. JoinsAs(F, P, Q, T, G, x)
          BY ONLY <4>2, Fields(F), JoinedIs
        <4>4. JoinItem(G, x) = Append(F, FieldAs(P, Q, T \o x.text))
          BY <2>9, <4>1, <4>3 DEF JoinsAs
        <4>5. T \o x.text = SubSeq(t, 1, k)
          BY <2>9, <2>10, <4>1
        <4> QED BY <2>6, <4>1, <4>4, <4>5
      <3> QED BY <3>1, <3>2
    <2>12. FieldsOf(o \o SubSeq(r, 1, j)) = (IF j = 0 THEN F
           ELSE Append(F, FieldAs(a.path, a.kind, SubSeq(t, 1, b[j]))))
      BY ONLY <2>2, <2>3, <2>6, <2>8, <2>11
    <2>13. IsSeq(o \o SubSeq(r, 1, j))
      BY <2>3, <2>6, <2>8
    <2>14. j \in S
      BY <2>2, <2>12, <2>13
    <2> QED BY <2>1, <2>14
  <1> HIDE DEF S
  <1>10. 0..n \subseteq S
    BY <1>3, <1>7, <1>8, <1>9, UpTo
  <1>11. n \in S /\ n # 0
    BY <1>3, <1>10
  <1>12. IsSeq(o \o SubSeq(r, 1, n))
         /\ FieldsOf(o \o SubSeq(r, 1, n)) = Append(F, FieldAs(a.path, a.kind, said(n)))
    BY <1>11 DEF S
  <1>13. SubSeq(r, 1, n) = r /\ said(n) = t
    <2>1. SubSeq(r, 1, Len(r)) = r /\ SubSeq(t, 1, Len(t)) = t
      BY <1>5, PrefixEnds
    <2> QED BY <1>3, <1>5, <2>1
  <1> QED BY <1>12, <1>13

(* One field more is offered. *)
LEMMA IndexedAdds ==
  ASSUME NEW I, NEW v, NEW D, IsSeq(D), NEW K, Indexed(I, v, D, K), NEW e, NEW f,
         Deduplicated(f), Offers(e, v, f, K)
  PROVE  Indexed(I \cup {e}, v, Append(D, f), K)
  <1>1. PICK E, n : E = Append(D, f) /\ n = Len(D)
    OBVIOUS
  <1>2. Len(E) = n + 1 /\ E[n + 1] = f /\ (\A i \in 1..n : E[i] = D[i]) /\ n \in Nat
    BY <1>1, AppendIs, SeqIs
  <1>3. ASSUME NEW i \in 1..(n + 1), Deduplicated(E[i])
        PROVE  \E x \in I \cup {e} : Offers(x, v, E[i], K)
    <2>1. CASE i = n + 1
      BY <1>2, <2>1
    <2>2. CASE i # n + 1
      <3>1. i \in 1..n
        BY <1>2, <2>2
      <3>2. E[i] = D[i] /\ i \in 1..Len(D)
        BY <1>1, <1>2, <3>1
      <3>3. PICK x \in I : Offers(x, v, D[i], K)
        BY <1>3, <3>2 DEF Indexed
      <3> QED BY <3>2, <3>3
    <2> QED BY <2>1, <2>2
  <1>4. ASSUME NEW x \in I \cup {e}
        PROVE  \E i \in 1..(n + 1) : Deduplicated(E[i]) /\ Offers(x, v, E[i], K)
    <2>1. n + 1 \in 1..(n + 1)
      BY <1>2
    <2>2. CASE x = e
      BY <1>2, <2>1, <2>2
    <2>3. CASE x \in I
      <3>1. PICK i \in 1..Len(D) : Deduplicated(D[i]) /\ Offers(x, v, D[i], K)
        BY <2>3 DEF Indexed
      <3>2. E[i] = D[i] /\ i \in 1..(n + 1)
        BY <1>1, <1>2
      <3> QED BY <3>1, <3>2
    <2> QED BY <2>2, <2>3
  <1>5. Indexed(I \cup {e}, v, E, K)
    BY ONLY <1>2, <1>3, <1>4 DEF Indexed
  <1> QED BY <1>1, <1>5

(* A field of an item that is compared. *)
Comparable(a, t, K) ==
    /\ IsItem(a) /\ Deduplicated(a) /\ a.path # <<>> /\ DedupKey(a) = K[a.kind]
    /\ IsSeq(t) /\ t # <<>>
Apart(D, path) == D # <<>> => D[Len(D)].path # path

(* A field in the file is handed on unless it has been. *)
LEMMA HandedFinish ==
  ASSUME NEW d, NEW D, NEW K, Keyed(K), Handed(d, D, K), d.stored, NEW a, NEW t, Opened(d, a, t),
         Comparable(a, t, K), NEW f, f = FieldAs(a.path, a.kind, t),
         Repeating(D, f) \/ Apart(D, a.path), NEW e, e = FinishActive(d)
  PROVE  Handed(e, AddField(D, f), K) /\ e.active = NoField /\ e.stored
  <1>1. PICK v, I, s, c, o, st : /\ v = d.values /\ I = d.index /\ s = d.active.start
                                 /\ c = d.active /\ o = d.output /\ st = d.stored
    OBVIOUS
  <1>2. /\ c = FieldOf(a, s, Len(t), c.inline) /\ s \in Nat /\ s + Len(t) = Len(v)
        /\ SubSeq(v, s + 1, s + Len(t)) = t
    BY <1>1 DEF Opened
  <1>3. /\ d = DeduperOf(c, st, v, I, o) /\ IsSeq(v) /\ IsSeq(o) /\ FieldsOf(o) = D /\ Fields(D)
        /\ Indexed(I, v, D, K) /\ st
    BY <1>1 DEF Handed
  <1>4. e = FinishedOf(d, c, st, I, o)
    BY ONLY <1>3, e = FinishActive(d), FinishActiveIs
  <1>5. c # NoField
    <2>1. PICK n, i : n = Len(t) /\ i = c.inline
      OBVIOUS
    <2>2. c = FieldOf(a, s, n, i)
      BY <1>2, <2>1
    <2>3. IsActive(c)
      BY ONLY <2>2, SomeField DEF FieldOf
    <2> QED BY <2>3 DEF IsActive
  <1>6. Repeats(d) <=> Repeating(D, f)
    BY RepeatsAs DEF Comparable
  <1>7. c.item = a /\ c.length = Len(t) /\ c.start = s
    BY <1>2 DEF FieldOf
  <1>8. PICK z : z = NoField
    OBVIOUS
  <1>9. CASE Repeats(d)
    <2>1. e = DeduperOf(z, st, v, I, o)
      BY <1>1, <1>3, <1>4, <1>5, <1>8, <1>9 DEF FinishedOf, Finished
    <2>2. /\ e.active = z /\ e.stored = st /\ e.values = v /\ e.index = I /\ e.output = o
          /\ e = DeduperOf(e.active, e.stored, e.values, e.index, e.output)
      BY <2>1 DEF DeduperOf
    <2>3. Handed(e, D, K)
      BY ONLY <1>3, <2>2 DEF Handed
    <2>4. AddField(D, f) = D
      BY <1>6, <1>9 DEF AddField
    <2> QED BY <1>3, <1>8, <2>2, <2>3, <2>4
  <1>10. CASE ~Repeats(d)
    <2>1. PICK x, r, E, J, w : /\ x = [key |-> DedupKey(a), start |-> s, length |-> Len(t)]
                               /\ r = Replay(d) /\ E = Append(D, f) /\ J = I \cup {x}
                                  /\ w = o \o r
      OBVIOUS
    <2>2. e = DeduperOf(z, st, v, J, w)
      BY <1>1, <1>3, <1>4, <1>5, <1>7, <1>8, <1>10, <2>1 DEF FinishedOf, Finished
    <2>3. /\ e.active = z /\ e.stored = st /\ e.values = v /\ e.index = J /\ e.output = w
          /\ e = DeduperOf(e.active, e.stored, e.values, e.index, e.output)
      BY <2>2 DEF DeduperOf
    <2>4. r = [i \in DOMAIN Pieces(t) |-> [a EXCEPT !.text = Pieces(t)[i]]]
      <3>1. ValueRange(d, s, Len(t)) = t
        BY <1>1, <1>2 DEF ValueRange
      <3> QED BY <1>1, <1>7, <2>1, <3>1 DEF Replay
    <2>5. Apart(D, a.path)
      BY <1>6, <1>10
    <2>6. IsSeq(w) /\ FieldsOf(w) = E
      <3>1. IsItem(a) /\ a.path # <<>> /\ IsSeq(t) /\ t # <<>>
        BY DEF Comparable
      <3>2. D # <<>> => D[Len(D)].path # a.path
        BY <2>5 DEF Apart
      <3>3. D = FieldsOf(o)
        BY <1>3
      <3>4. IsSeq(o) /\ Fields(D)
        BY <1>3
      <3>5. IsSeq(o \o r) /\ FieldsOf(o \o r) = Append(D, FieldAs(a.path, a.kind, t))
        BY ONLY <2>4, <3>1, <3>2, <3>3, <3>4, ReplayJoins
      <3> QED BY <2>1, <3>5
    <2>7. Fields(E)
      <3>1. IsSeq(t)
        BY DEF Comparable
      <3>2. Fields(Append(D, FieldAs(a.path, a.kind, t)))
        BY ONLY <1>3, <3>1, FieldsAppend
      <3> QED BY <2>1, <3>2
    <2>8. Offers(x, v, f, K)
      <3>1. f.kind = a.kind /\ f.text = t
        BY DEF FieldAs
      <3>2. DedupKey(a) = K[a.kind] /\ Len(t) \in Nat /\ Len(v) \in Nat
        BY <1>3, SeqIs DEF Comparable
      <3>3. x.key = DedupKey(a) /\ x.start = s /\ x.length = Len(t)
        BY <2>1
      <3> QED BY ONLY <1>2, <3>1, <3>2, <3>3 DEF Offers
    <2>9. Deduplicated(f)
      BY DEF FieldAs, Deduplicated, Comparable
    <2>10. Indexed(J, v, E, K)
      <3>1. IsSeq(D)
        BY <1>3 DEF Fields
      <3>2. Indexed(I \cup {x}, v, Append(D, f), K)
        BY ONLY <1>3, <2>8, <2>9, <3>1, IndexedAdds
      <3> QED BY <2>1, <3>2
    <2>11. Handed(e, E, K)
      BY ONLY <1>3, <2>3, <2>6, <2>7, <2>10 DEF Handed
    <2>12. AddField(D, f) = E
      BY <1>6, <1>10, <2>1 DEF AddField
    <2> QED BY <1>3, <1>8, <2>3, <2>11, <2>12
  <1> QED BY <1>9, <1>10

(* Nothing is done where no field is open. *)
LEMMA FinishNothing ==
  ASSUME NEW d, d.active = NoField
  PROVE  FinishActive(d) = d
  BY DEF FinishActive

(* Fields that are not compared make no difference to the index. *)
SameSaid(D, E) ==
    /\ \A n \in 1..Len(D) : Deduplicated(D[n]) => n \in 1..Len(E) /\ E[n] = D[n]
    /\ \A n \in 1..Len(E) : Deduplicated(E[n]) => n \in 1..Len(D) /\ D[n] = E[n]

(* An item that is not compared is handed on as it is. *)
LEMMA HandedOther ==
  ASSUME NEW d, NEW D, NEW K, Handed(d, D, K), NEW x, NEW E, E = JoinItem(D, x), Fields(E),
         SameSaid(D, E), NEW e, e = [d EXCEPT !.output = Append(@, x)]
  PROVE  Handed(e, E, K) /\ e.active = d.active
  <1>1. PICK v, I, c, o, st, w : /\ v = d.values /\ I = d.index /\ c = d.active /\ o = d.output
                                 /\ st = d.stored /\ w = Append(o, x)
    OBVIOUS
  <1>2. /\ d = DeduperOf(c, st, v, I, o) /\ IsSeq(v) /\ IsSeq(o) /\ FieldsOf(o) = D /\ Fields(D)
        /\ IF st THEN Indexed(I, v, D, K) ELSE I = {} /\ v = <<>> /\ Novel(D)
    BY <1>1 DEF Handed
  <1>3. e = DeduperOf(c, st, v, I, w)
    BY ONLY <1>1, <1>2, e = [d EXCEPT !.output = Append(@, x)] DEF DeduperOf
  <1>4. /\ e.active = c /\ e.stored = st /\ e.values = v /\ e.index = I /\ e.output = w
        /\ e = DeduperOf(e.active, e.stored, e.values, e.index, e.output)
    BY ONLY <1>3 DEF DeduperOf
  <1>5. IsSeq(w) /\ FieldsOf(w) = E
    <2>1. IsSeq(Append(o, x)) /\ FieldsOf(Append(o, x)) = JoinItem(FieldsOf(o), x)
      BY ONLY <1>2, AppendIs, FieldsOfAppend
    <2> QED BY <1>1, <1>2, <2>1
  <1>6. CASE st
    <2>1. Indexed(I, v, D, K)
      BY <1>2, <1>6
    <2>2. ASSUME NEW n \in 1..Len(E), Deduplicated(E[n]) PROVE \E y \in I : Offers(y, v, E[n], K)
      <3>1. n \in 1..Len(D) /\ D[n] = E[n]
        BY <2>2 DEF SameSaid
      <3>2. \E y \in I : Offers(y, v, D[n], K)
        BY <2>1, <2>2, <3>1 DEF Indexed
      <3> QED BY <3>1, <3>2
    <2>3. ASSUME NEW y \in I
          PROVE  \E n \in 1..Len(E) : Deduplicated(E[n]) /\ Offers(y, v, E[n], K)
      <3>1. PICK n \in 1..Len(D) : Deduplicated(D[n]) /\ Offers(y, v, D[n], K)
        BY <2>1 DEF Indexed
      <3>2. n \in 1..Len(E) /\ E[n] = D[n]
        BY <3>1 DEF SameSaid
      <3> QED BY <3>1, <3>2
    <2>4. Indexed(I, v, E, K)
      BY ONLY <2>2, <2>3 DEF Indexed
    <2>5. Handed(e, E, K)
      BY ONLY <1>2, <1>4, <1>5, <1>6, <2>4, Fields(E) DEF Handed
    <2> QED BY <1>1, <1>4, <2>5
  <1>7. CASE ~st
    <2>1. I = {} /\ v = <<>> /\ Novel(D)
      BY <1>2, <1>7
    <2>2. Novel(E)
      BY <2>1 DEF Novel, SameSaid
    <2>3. Handed(e, E, K)
      BY ONLY <1>2, <1>4, <1>5, <1>7, <2>1, <2>2, Fields(E) DEF Handed
    <2> QED BY <1>1, <1>4, <2>3
  <1> QED BY <1>6, <1>7

(* The last field of a small record never leaves the memory. *)
LEMMA HandedLast ==
  ASSUME NEW d, NEW D, NEW K, Handed(d, D, K), ~d.stored, NEW a, NEW t, Opened(d, a, t),
         Comparable(a, t, K), NEW f, f = FieldAs(a.path, a.kind, t), Apart(D, a.path)
  PROVE  FieldsOf(FinishActive(d).output) = AddField(D, f) /\ IsSeq(FinishActive(d).output)
  <1>1. PICK v, I, c, o, st, e : /\ v = d.values /\ I = d.index /\ c = d.active /\ o = d.output
                                 /\ st = d.stored /\ e = FinishActive(d)
    OBVIOUS
  <1>2. /\ d = DeduperOf(c, st, v, I, o) /\ IsSeq(o) /\ FieldsOf(o) = D /\ Fields(D) /\ Novel(D)
        /\ ~st
    BY <1>1 DEF Handed
  <1>3. c = FieldOf(a, c.start, Len(t), t)
    BY <1>1, <1>2 DEF Opened, FieldOf
  <1>4. c # NoField /\ c.item = a /\ c.inline = t
    BY <1>3 DEF FieldOf, NoField
  <1>5. e = FinishedOf(d, c, st, I, o)
    BY ONLY <1>1, <1>2, FinishActiveIs
  <1>6. PICK y : y = [a EXCEPT !.text = t]
    OBVIOUS
  <1>7. y.path = a.path /\ y.kind = a.kind /\ y.text = t
    BY <1>6, PieceIs DEF Comparable
  <1>8. e.output = Append(o, y)
    BY <1>2, <1>4, <1>5, <1>6 DEF FinishedOf, Finished, DeduperOf
  <1>9. IsSeq(Append(o, y)) /\ FieldsOf(Append(o, y)) = JoinItem(D, y)
    BY ONLY <1>2, AppendIs, FieldsOfAppend
  <1>10. JoinItem(D, y) = Append(D, f)
    <2>1. ~Joins(D, y)
      BY <1>7 DEF Joins, Apart
    <2> QED BY <1>7, <2>1 DEF JoinItem
  <1>11. ~Repeating(D, f)
    <2>1. DOMAIN D = 1..Len(D) /\ f.kind = a.kind
      BY <1>2, SeqIs DEF Fields, FieldAs
    <2> QED BY <1>2, <2>1 DEF Repeating, Novel, Deduplicated, Comparable
  <1> QED BY <1>1, <1>8, <1>9, <1>10, <1>11 DEF AddField

(***************************************************************************)
(* The deduplicator, item by item.                                         *)
(***************************************************************************)
(* The fields F have been met: of the last, if it is compared, the            *)
(* deduplicator may hold the text; the others it has handed on.               *)
Seen(d, F, K) ==
    /\ Fields(F)
    /\ \/ /\ Handed(d, Distinct(F), K) /\ d.active = NoField
          /\ \/ F = <<>>
             \/ \E G, p, k, t : /\ Fields(G) /\ IsSeq(t) /\ F = Append(G, FieldAs(p, k, t))
                                /\ ~Deduplicated(FieldAs(p, k, t))
       \/ \E G, a, t : /\ Fields(G) /\ F = Append(G, FieldAs(a.path, a.kind, t))
                       /\ Comparable(a, t, K) /\ Opened(d, a, t) /\ Handed(d, Distinct(G), K)

(* A field that is compared stands apart from the one handed on before it. *)
StandsApart(F) ==
    \A G, f : Fields(G) /\ F = Append(G, f) /\ Deduplicated(f) =>
                  Repeating(Distinct(G), f) \/ Apart(Distinct(G), f.path)

(* What an item has to be like after the fields F. *)
Fits(F, x, K) ==
    /\ Joins(F, x) => F[Len(F)].kind = x.kind
    /\ Deduplicated(x) => x.path # <<>> /\ DedupKey(x) = K[x.kind]
    /\ ~Joins(F, x) =>
          /\ StandsApart(F)
          /\ ~Deduplicated(x) =>
                /\ ~Joins(Distinct(F), x)
                /\ \A G, f : Fields(G) /\ F = Append(G, f) /\ Deduplicated(f) =>
                               ~Novel(Distinct(G))

(* An item that is not compared is a field of its own, *)
LEMMA OtherBegins ==
  ASSUME NEW F, Fields(F), NEW x, ~Deduplicated(x), IsSeq(x.text), ~Joins(F, x),
         ~Joins(Distinct(F), x), NEW D, D = Distinct(F), NEW g, g = FieldAs(x.path, x.kind,
         x.text)
  PROVE  /\ JoinItem(F, x) = Append(F, g) /\ JoinItem(D, x) = Append(D, g) /\ ~Deduplicated(g)
         /\ Distinct(Append(F, g)) = Append(D, g)
         /\ Fields(Append(F, g)) /\ Fields(Append(D, g)) /\ SameSaid(D, Append(D, g))
  <1>1. Fields(D)
    BY DistinctFields
  <1>2. JoinItem(F, x) = Append(F, g) /\ JoinItem(D, x) = Append(D, g)
    BY DEF JoinItem
  <1>3. ~Deduplicated(g)
    BY DEF FieldAs, Deduplicated
  <1>4. Distinct(Append(F, g)) = AddField(D, g)
    BY DistinctAppend DEF Fields
  <1>5. AddField(D, g) = Append(D, g)
    BY <1>3 DEF AddField, Repeating
  <1>6. Fields(Append(F, g)) /\ Fields(Append(D, g))
    BY <1>1, FieldsAppend
  <1>7. PICK E, n : E = Append(D, g) /\ n = Len(D)
    OBVIOUS
  <1>8. Len(E) = n + 1 /\ E[n + 1] = g /\ (\A i \in 1..n : E[i] = D[i]) /\ n \in Nat
    BY <1>1, <1>7, AppendIs, SeqIs DEF Fields
  <1>9. \A i \in 1..(n + 1) : i \in 1..n \/ i = n + 1
    BY <1>8
  <1>10. SameSaid(D, E)
    BY ONLY <1>3, <1>7, <1>8, <1>9 DEF SameSaid
  <1> QED BY <1>2, <1>3, <1>4, <1>5, <1>6, <1>7, <1>10

(* or goes on with one that is not either. *)
GoesOn(F, x, G, D, H, g) ==
    /\ JoinItem(F, x) = Append(G, g) /\ JoinItem(D, x) = Append(H, g) /\ ~Deduplicated(g)
    /\ Distinct(Append(G, g)) = Append(H, g)
    /\ Fields(Append(G, g)) /\ Fields(Append(H, g)) /\ SameSaid(D, Append(H, g))

(* So it is with two items of one field. *)
LEMMA OtherGoesOn ==
  ASSUME NEW G, Fields(G), NEW p, NEW k, NEW t, IsSeq(t), NEW f, f = FieldAs(p, k, t),
         NEW F, F = Append(G, f), ~Deduplicated(f), NEW x, IsSeq(x.text), Joins(F, x),
         NEW D, D = Distinct(F), NEW g, g = FieldAs(p, k, t \o x.text), NEW H, H = Distinct(G)
  PROVE  GoesOn(F, x, G, D, H, g)
  <1>1. PICK m, n : m = Len(G) /\ n = m + 1
    OBVIOUS
  <1>2. Len(F) = n /\ F[n] = f /\ n \in Nat
    <2>1. Len(Append(G, f)) = Len(G) + 1 /\ Append(G, f)[Len(G) + 1] = f /\ Len(G) \in Nat
      BY AppendIs, SeqIs DEF Fields
    <2> QED BY <1>1, <2>1
  <1>3. p # <<>> /\ x.path = p
    <2>1. f.path = p
      BY DEF FieldAs
    <2> QED BY <1>2, <2>1 DEF Joins
  <1>4. D = Append(H, f)
    <2>1. Distinct(Append(G, f)) = AddField(H, f)
      BY DistinctAppend DEF Fields
    <2>2. AddField(H, f) = Append(H, f)
      BY DEF AddField, Repeating
    <2> QED BY <1>1, <2>1, <2>2
  <1>5. Fields(H)
    BY DistinctFields
  <1>6. JoinItem(F, x) = Append(G, g)
    <2>1. JoinsAs(G, p, k, t, F, x)
      BY <1>3, JoinedIs
    <2> QED BY <1>3, <2>1 DEF JoinsAs
  <1>7. JoinItem(D, x) = Append(H, g)
    <2>1. JoinsAs(H, p, k, t, D, x)
      BY ONLY <1>3, <1>4, <1>5, IsSeq(t), f = FieldAs(p, k, t), JoinedIs
    <2> QED BY <1>3, <2>1 DEF JoinsAs
  <1>8. ~Deduplicated(f) /\ ~Deduplicated(g)
    BY DEF FieldAs, Deduplicated
  <1>9. Distinct(Append(G, g)) = Append(H, g)
    <2>1. Distinct(Append(G, g)) = AddField(H, g)
      BY DistinctAppend DEF Fields
    <2> QED BY <1>8, <2>1 DEF AddField, Repeating
  <1>10. IsSeq(t \o x.text)
    BY ConcatIs
  <1>11. Fields(Append(G, g)) /\ Fields(Append(H, g))
    BY <1>5, <1>10, FieldsAppend
  <1>12. PICK E, l : E = Append(H, g) /\ l = Len(H)
    OBVIOUS
  <1>13. Len(E) = l + 1 /\ E[l + 1] = g /\ (\A i \in 1..l : E[i] = H[i]) /\ l \in Nat
    BY <1>5, <1>12, AppendIs, SeqIs DEF Fields
  <1>14. Len(D) = l + 1 /\ D[l + 1] = f /\ (\A i \in 1..l : D[i] = H[i])
    BY <1>4, <1>5, <1>12, AppendIs DEF Fields
  <1>15. \A i \in 1..(l + 1) : i \in 1..l \/ i = l + 1
    BY <1>13
  <1>16. SameSaid(D, E)
    BY ONLY <1>8, <1>13, <1>14, <1>15 DEF SameSaid
  <1> QED BY <1>6, <1>7, <1>8, <1>9, <1>11, <1>12, <1>16 DEF GoesOn

(* Items that are not compared are handed on at once. *)
LEMMA PushOther ==
  ASSUME NEW d, NEW x, ~Deduplicated(x), NEW e, e = FinishActive(d)
  PROVE  PushItem(d, x) = [e EXCEPT !.output = Append(@, x)]
  BY DEF PushItem

(* After fields that are handed on, an item that is not compared is handed on, *)
LEMMA SeenOther ==
  ASSUME NEW d, NEW F, NEW K, Fields(F), Handed(d, Distinct(F), K), d.active = NoField, NEW x,
         \/ F = <<>> \/ ~Joins(F, x)
         \/ \E G, p, k, t : /\ Fields(G) /\ IsSeq(t) /\ F = Append(G, FieldAs(p, k, t))
                            /\ ~Deduplicated(FieldAs(p, k, t)),
         IsSeq(x.text), ~Deduplicated(x), ~Joins(F, x) => ~Joins(Distinct(F), x),
         NEW e, e = [d EXCEPT !.output = Append(@, x)]
  PROVE  Seen(e, JoinItem(F, x), K)
  <1>1. PICK D, y : D = Distinct(F) /\ y = x.text
    OBVIOUS
  <1>2. CASE ~Joins(F, x)
    <2>1. PICK g : g = FieldAs(x.path, x.kind, y)
      OBVIOUS
    <2>2. g = FieldAs(x.path, x.kind, x.text) /\ ~Joins(Distinct(F), x)
      BY <1>1, <1>2, <2>1
    <2>3. /\ JoinItem(F, x) = Append(F, g) /\ JoinItem(D, x) = Append(D, g) /\ ~Deduplicated(g)
          /\ Distinct(Append(F, g)) = Append(D, g)
          /\ Fields(Append(F, g)) /\ Fields(Append(D, g)) /\ SameSaid(D, Append(D, g))
      BY ONLY <1>1, <1>2, <2>2, Fields(F), ~Deduplicated(x), IsSeq(x.text), OtherBegins
    <2>4. PICK E : E = Append(D, g)
      OBVIOUS
    <2>5. Handed(e, E, K) /\ e.active = d.active
      <3>1. E = JoinItem(D, x) /\ Fields(E) /\ SameSaid(D, E) /\ Handed(d, D, K)
        BY <1>1, <2>3, <2>4
      <3> QED BY ONLY <3>1, e = [d EXCEPT !.output = Append(@, x)], HandedOther
    <2>6. Handed(e, Distinct(Append(F, g)), K) /\ e.active = NoField
      BY <2>3, <2>4, <2>5
    <2>7. IsSeq(y) /\ ~Deduplicated(FieldAs(x.path, x.kind, y))
      BY <1>1, <2>1, <2>3
    <2>8. Seen(e, Append(F, g), K)
      BY ONLY <2>1, <2>3, <2>6, <2>7, Fields(F) DEF Seen
    <2> QED BY <2>3, <2>8
  <1>3. CASE Joins(F, x)
    <2>1. F # <<>>
      BY <1>3 DEF Joins
    <2>2. PICK G, p, k, t : /\ Fields(G) /\ IsSeq(t) /\ F = Append(G, FieldAs(p, k, t))
                            /\ ~Deduplicated(FieldAs(p, k, t))
      BY <1>3, <2>1
    <2>3. PICK u, g, H : u = t \o y /\ g = FieldAs(p, k, u) /\ H = Distinct(G)
      OBVIOUS
    <2>4. g = FieldAs(p, k, t \o x.text)
      BY <1>1, <2>3
    <2>5. /\ JoinItem(F, x) = Append(G, g) /\ JoinItem(D, x) = Append(H, g) /\ ~Deduplicated(g)
          /\ Distinct(Append(G, g)) = Append(H, g)
          /\ Fields(Append(G, g)) /\ Fields(Append(H, g)) /\ SameSaid(D, Append(H, g))
      <3>1. Fields(G) /\ IsSeq(t)
        BY <2>2
      <3>2. PICK f : f = FieldAs(p, k, t)
        OBVIOUS
      <3>3. F = Append(G, f) /\ ~Deduplicated(f)
        BY <2>2, <3>2
      <3>4. D = Distinct(F)
        BY <1>1
      <3>5. H = Distinct(G)
        BY <2>3
      <3>6. GoesOn(F, x, G, D, H, g)
        BY ONLY <1>3, <2>4, <3>1, <3>2, <3>3, <3>4, <3>5, IsSeq(x.text), OtherGoesOn
      <3> QED BY <3>6 DEF GoesOn
    <2>6. PICK E : E = Append(H, g)
      OBVIOUS
    <2>7. Handed(e, E, K) /\ e.active = d.active
      <3>1. E = JoinItem(D, x) /\ Fields(E) /\ SameSaid(D, E) /\ Handed(d, D, K)
        BY <1>1, <2>5, <2>6
      <3> QED BY ONLY <3>1, e = [d EXCEPT !.output = Append(@, x)], HandedOther
    <2>8. Handed(e, Distinct(Append(G, g)), K) /\ e.active = NoField
      BY <2>5, <2>6, <2>7
    <2>9. IsSeq(u) /\ ~Deduplicated(FieldAs(p, k, u))
      BY <1>1, <2>2, <2>3, <2>5, ConcatIs
    <2>10. Seen(e, Append(G, g), K)
      BY ONLY <2>2, <2>3, <2>5, <2>8, <2>9 DEF Seen
    <2> QED BY <2>5, <2>10
  <1> QED BY <1>2, <1>3

(* and one that is compared is begun. *)
LEMMA SeenStart ==
  ASSUME NEW d, NEW F, NEW K, Fields(F), Handed(d, Distinct(F), K),
         NEW x, IsItem(x), x.text # <<>>, Deduplicated(x), x.path # <<>>,
         DedupKey(x) = K[x.kind],
         ~Joins(F, x)
  PROVE  Seen(StartField(d, x), JoinItem(F, x), K)
  <1>1. PICK e, t : e = StartField(d, x) /\ t = x.text
    OBVIOUS
  <1>2. IsSeq(t)
    BY <1>1 DEF IsItem
  <1>3. Handed(e, Distinct(F), K) /\ Opened(e, x, t)
    BY <1>1, <1>2, HandedStart
  <1>4. Comparable(x, t, K)
    BY <1>1, <1>2 DEF Comparable
  <1>5. PICK H : H = Append(F, FieldAs(x.path, x.kind, t))
    OBVIOUS
  <1>6. JoinItem(F, x) = H /\ Fields(H)
    BY <1>1, <1>2, <1>5, FieldsAppend DEF JoinItem
  <1>7. Seen(e, H, K)
    BY ONLY <1>3, <1>4, <1>5, <1>6, Fields(F) DEF Seen
  <1> QED BY <1>1, <1>6, <1>7

(* Nothing follows nothing. *)
LEMMA AppendSome ==
  ASSUME NEW s, IsSeq(s), NEW e
  PROVE  Append(s, e) # <<>> /\ Append(s, e)[Len(Append(s, e))] = e
  <1>1. Len(Append(s, e)) = Len(s) + 1 /\ Len(s) \in Nat /\ Append(s, e)[Len(s) + 1] = e
    BY AppendIs, SeqIs
  <1>2. PICK a : a = Append(s, e)
    OBVIOUS
  <1>3. Len(a) # 0 /\ a[Len(a)] = e
    BY <1>1, <1>2
  <1>4. Len(<<>>) = 0
    OBVIOUS
  <1>5. a # <<>>
    BY ONLY <1>3, <1>4
  <1> QED BY <1>2, <1>3, <1>5

(* A text with more is not empty. *)
LEMMA ConcatSome ==
  ASSUME NEW s, IsSeq(s), s # <<>>, NEW t, IsSeq(t)
  PROVE  s \o t # <<>> /\ IsSeq(s \o t)
  <1>1. PICK u, z : u = s \o t /\ z = <<>>
    OBVIOUS
  <1>2. IsSeq(u) /\ Len(u) = Len(s) + Len(t) /\ Len(s) \in Nat /\ Len(t) \in Nat
    BY <1>1, ConcatIs, SeqIs
  <1>3. Len(z) = 0 /\ IsSeq(z)
    BY <1>1, EmptyIs
  <1>4. Len(s) # 0
    <2>1. Len(s) = 0 => s = z
      BY <1>3, EqualPlaces
    <2> QED BY <1>1, <2>1
  <1>5. Len(u) # 0
    BY <1>2, <1>4
  <1>6. u # z
    BY ONLY <1>3, <1>5
  <1> QED BY <1>1, <1>2, <1>6

(* The field in hand is finished. *)
LEMMA SeenFinish ==
  ASSUME NEW F, StandsApart(F), NEW K, Keyed(K), NEW G, Fields(G), NEW a, NEW t,
         NEW f, f = FieldAs(a.path, a.kind, t), F = Append(G, f),
         Comparable(a, t, K), NEW d, Opened(d, a, t), Handed(d, Distinct(G), K), d.stored
  PROVE  Handed(FinishActive(d), Distinct(F), K) /\ FinishActive(d).active = NoField
  <1>1. PICK D, e : D = Distinct(G) /\ e = FinishActive(d)
    OBVIOUS
  <1>2. Distinct(F) = AddField(D, f)
    BY <1>1, DistinctAppend DEF Fields
  <1>3. f.path = a.path /\ Deduplicated(f)
    BY DEF FieldAs, Deduplicated, Comparable
  <1>4. Repeating(D, f) \/ Apart(D, a.path)
    BY <1>1, <1>3 DEF StandsApart
  <1>5. Handed(e, AddField(D, f), K) /\ e.active = NoField /\ e.stored
    <2>1. Handed(d, D, K)
      BY <1>1
    <2> QED BY ONLY <1>1, <1>4, <2>1, Keyed(K), d.stored, Opened(d, a, t), Comparable(a, t, K),
                    f = FieldAs(a.path, a.kind, t), HandedFinish
  <1> QED BY <1>1, <1>2, <1>5

(* An item of the field in hand has its path and its key. *)
LEMMA SameFieldIs ==
  ASSUME NEW d, NEW a, NEW t, Opened(d, a, t), NEW x
  PROVE  /\ d.active # NoField
         /\ SameField(d.active, x) <=> a.path = x.path /\ DedupKey(a) = DedupKey(x)
  <1>1. PICK c, s, n, i : c = d.active /\ s = c.start /\ n = Len(t) /\ i = c.inline
    OBVIOUS
  <1>2. c = FieldOf(a, s, n, i)
    BY <1>1 DEF Opened
  <1>3. IsActive(c) /\ c.item = a
    BY ONLY <1>2, SomeField DEF FieldOf
  <1> QED BY <1>1, <1>3 DEF SameField, IsActive

(* One item more, after a field that is in hand: *)
LEMMA SeenWithin ==
  ASSUME NEW d, NEW F, NEW K, Keyed(K), Fields(F), NEW x, IsItem(x), x.text # <<>>, Fits(F, x,
         K),
         NEW G, Fields(G), NEW a, NEW t, F = Append(G, FieldAs(a.path, a.kind, t)),
         Comparable(a, t, K), Opened(d, a, t), Handed(d, Distinct(G), K)
  PROVE  Seen(PushItem(d, x), JoinItem(F, x), K)
  <1>1. PICK p, k, f, D, y : /\ p = a.path /\ k = a.kind /\ f = FieldAs(p, k, t)
                                /\ D = Distinct(G)
                             /\ y = x.text
    OBVIOUS
  <1>2. /\ F = Append(G, f) /\ Deduplicated(f) /\ Deduplicated(a) /\ p # <<>> /\ IsSeq(t)
           /\ IsSeq(y)
        /\ t # <<>> /\ f.path = p /\ f.kind = k /\ DedupKey(a) = K[k]
    BY <1>1 DEF Comparable, IsItem, FieldAs, Deduplicated
  <1>3. F[Len(F)] = f
    BY <1>2, AppendSome DEF Fields
  <1>4. /\ Joins(F, x) <=> x.path = p
        /\ x.path = p => JoinItem(F, x) = Append(G, FieldAs(p, k, t \o x.text))
    <2>1. JoinsAs(G, p, k, t, F, x)
      BY ONLY <1>1, <1>2, Fields(G), JoinedIs
    <2> QED BY <2>1 DEF JoinsAs
  <1>5. d.active # NoField /\ (SameField(d.active, x) <=> p = x.path
         /\ DedupKey(a) = DedupKey(x))
    BY <1>1, SameFieldIs
  <1>6. CASE x.path = p
    <2>1. x.kind = k
      BY <1>2, <1>3, <1>4, <1>6 DEF Fits
    <2>2. Deduplicated(x)
      BY <1>1, <1>2, <2>1 DEF Deduplicated
    <2>3. DedupKey(x) = K[k]
      BY <2>1, <2>2 DEF Fits
    <2>4. SameField(d.active, x)
      BY <1>2, <1>5, <1>6, <2>3
    <2>5. PushItem(d, x) = AppendActive(d, y)
      BY <1>1, <2>2, <2>4 DEF PushItem
    <2>6. PICK e, u : e = AppendActive(d, y) /\ u = t \o y
      OBVIOUS
    <2>7. Handed(e, D, K) /\ Opened(e, a, u)
      BY ONLY <1>1, <1>2, <2>6, Handed(d, Distinct(G), K), Opened(d, a, t), HandedAppend
    <2>8. u # <<>> /\ IsSeq(u)
      BY ONLY <1>2, <2>6, ConcatSome
    <2>9. Comparable(a, u, K)
      BY <2>8 DEF Comparable
    <2>10. PICK H : H = Append(G, FieldAs(p, k, u))
      OBVIOUS
    <2>11. JoinItem(F, x) = H
      BY <1>1, <1>4, <1>6, <2>6, <2>10
    <2>12. Fields(H)
      BY ONLY <2>8, <2>10, Fields(G), FieldsAppend
    <2>13. Seen(e, H, K)
      BY ONLY <1>1, <2>7, <2>9, <2>10, <2>12, Fields(G) DEF Seen
    <2> QED BY <2>5, <2>6, <2>11, <2>13
  <1>7. CASE x.path # p /\ Deduplicated(x)
    <2>1. ~SameField(d.active, x) /\ ~Joins(F, x)
      BY <1>4, <1>5, <1>7
    <2>2. StandsApart(F) /\ x.path # <<>> /\ DedupKey(x) = K[x.kind]
      BY <1>7, <2>1 DEF Fits
    <2>3. PICK e : e = IF d.active # NoField /\ ~d.stored THEN Promote(d) ELSE d
      OBVIOUS
    <2>4. PushItem(d, x) = StartField(FinishActive(e), x)
      BY <1>7, <2>1, <2>3 DEF PushItem
    <2>5. Handed(e, D, K) /\ Opened(e, a, t) /\ e.stored
      <3>1. Handed(d, D, K)
        BY <1>1
      <3>2. CASE d.stored
        BY <2>3, <3>1, <3>2
      <3>3. CASE ~d.stored
        <4>1. e = Promote(d)
          BY <1>5, <2>3, <3>3
        <4> QED BY ONLY <3>1, <3>3, <4>1, Opened(d, a, t), HandedPromote
      <3> QED BY <3>2, <3>3
    <2>6. PICK g : g = FinishActive(e)
      OBVIOUS
    <2>7. Handed(g, Distinct(F), K) /\ g.active = NoField
      <3>1. Handed(e, Distinct(G), K) /\ f = FieldAs(a.path, a.kind, t)
        BY <1>1, <2>5
      <3> QED BY ONLY <1>2, <2>2, <2>5, <2>6, <3>1, Keyed(K), Fields(G), Comparable(a, t, K),
                      SeenFinish
    <2>8. Seen(StartField(g, x), JoinItem(F, x), K)
      BY ONLY <1>7, <2>1, <2>2, <2>7, Fields(F), IsItem(x), x.text # <<>>, SeenStart
    <2> QED BY <2>4, <2>6, <2>8
  <1>8. CASE x.path # p /\ ~Deduplicated(x)
    <2>1. ~Joins(F, x)
      BY <1>4, <1>8
    <2>2. StandsApart(F) /\ ~Joins(Distinct(F), x) /\ ~Novel(D)
      BY <1>1, <1>2, <1>8, <2>1 DEF Fits
    <2>3. d.stored
      BY <1>1, <2>2 DEF Handed
    <2>4. PICK g : g = FinishActive(d)
      OBVIOUS
    <2>5. Handed(g, Distinct(F), K) /\ g.active = NoField
      <3>1. f = FieldAs(a.path, a.kind, t)
        BY <1>1
      <3> QED BY ONLY <1>2, <2>2, <2>3, <2>4, <3>1, Keyed(K), Fields(G), Comparable(a, t, K),
                      Opened(d, a, t), Handed(d, Distinct(G), K), SeenFinish
    <2>6. PICK e : e = [g EXCEPT !.output = Append(@, x)]
      OBVIOUS
    <2>7. PushItem(d, x) = e
      BY <1>8, <2>4, <2>6, PushOther
    <2>8. Seen(e, JoinItem(F, x), K)
      <3>1. IsSeq(x.text)
        BY DEF IsItem
      <3> QED BY ONLY <1>8, <2>1, <2>2, <2>5, <2>6, <3>1, Fields(F), SeenOther
    <2> QED BY <2>7, <2>8
  <1> QED BY <1>6, <1>7, <1>8

(* one item more. *)
LEMMA SeenItem ==
  ASSUME NEW d, NEW F, NEW K, Keyed(K), Seen(d, F, K), NEW x, IsItem(x), x.text # <<>>,
         Fits(F, x, K)
  PROVE  Seen(PushItem(d, x), JoinItem(F, x), K)
  <1>1. Fields(F)
    BY DEF Seen
  <1>2. CASE \E G, a, t : /\ Fields(G) /\ F = Append(G, FieldAs(a.path, a.kind, t))
                          /\ Comparable(a, t, K) /\ Opened(d, a, t) /\ Handed(d, Distinct(G), K)
    <2>1. PICK G, a, t : /\ Fields(G) /\ F = Append(G, FieldAs(a.path, a.kind, t))
                         /\ Comparable(a, t, K) /\ Opened(d, a, t) /\ Handed(d, Distinct(G), K)
      BY <1>2
    <2> QED BY <1>1, <2>1, SeenWithin
  <1>3. CASE /\ Handed(d, Distinct(F), K) /\ d.active = NoField
             /\ \/ F = <<>>
                \/ \E G, p, k, t : /\ Fields(G) /\ IsSeq(t) /\ F = Append(G, FieldAs(p, k, t))
                                   /\ ~Deduplicated(FieldAs(p, k, t))
    <2>1. FinishActive(d) = d
      BY <1>3, FinishNothing
    <2>2. CASE ~Deduplicated(x)
      <3>1. PICK e : e = [d EXCEPT !.output = Append(@, x)]
        OBVIOUS
      <3>2. PushItem(d, x) = e
        BY <2>1, <2>2, <3>1, PushOther
      <3>3. ~Joins(F, x) => ~Joins(Distinct(F), x)
        BY <2>2 DEF Fits
      <3>4. IsSeq(x.text)
        BY DEF IsItem
      <3>5. Handed(d, Distinct(F), K) /\ d.active = NoField
        BY <1>3
      <3>6. \/ F = <<>> \/ ~Joins(F, x)
            \/ \E G, p, k, t : /\ Fields(G) /\ IsSeq(t) /\ F = Append(G, FieldAs(p, k, t))
                               /\ ~Deduplicated(FieldAs(p, k, t))
        BY <1>3
      <3>7. Seen(e, JoinItem(F, x), K)
        BY ONLY <1>1, <2>2, <3>1, <3>3, <3>4, <3>5, <3>6, SeenOther
      <3> QED BY <3>2, <3>7
    <2>3. CASE Deduplicated(x)
      <3>1. ~SameField(d.active, x)
        BY <1>3 DEF SameField
      <3>2. PushItem(d, x) = StartField(d, x)
        BY <1>3, <2>1, <2>3, <3>1 DEF PushItem
      <3>3. ~Joins(F, x)
        <4>1. CASE F = <<>>
          BY <4>1 DEF Joins
        <4>2. CASE F # <<>>
          <5>1. PICK G, p, k, t : /\ Fields(G) /\ IsSeq(t) /\ F = Append(G, FieldAs(p, k, t))
                                  /\ ~Deduplicated(FieldAs(p, k, t))
            BY <1>3, <4>2
          <5>2. PICK f : f = FieldAs(p, k, t)
            OBVIOUS
          <5>3. F[Len(F)] = f /\ ~Deduplicated(f)
            BY <5>1, <5>2, AppendSome DEF Fields
          <5>4. f.kind # x.kind
            BY <2>3, <5>3 DEF Deduplicated
          <5> QED BY <5>3, <5>4 DEF Fits
        <4> QED BY <4>1, <4>2
      <3>4. x.path # <<>> /\ DedupKey(x) = K[x.kind]
        BY <2>3 DEF Fits
      <3>5. Handed(d, Distinct(F), K)
        BY <1>3
      <3>6. Seen(StartField(d, x), JoinItem(F, x), K)
        BY ONLY <1>1, <2>3, <3>3, <3>4, <3>5, IsItem(x), x.text # <<>>, SeenStart
      <3> QED BY <3>2, <3>6
    <2> QED BY <2>2, <2>3
  <1> QED BY <1>2, <1>3 DEF Seen

(* The last field is finished. *)
LEMMA SeenEnds ==
  ASSUME NEW d, NEW F, NEW K, Keyed(K), Seen(d, F, K), StandsApart(F)
  PROVE  FieldsOf(FinishActive(d).output) = Distinct(F)
  <1>1. CASE Handed(d, Distinct(F), K) /\ d.active = NoField
    <2>1. FinishActive(d) = d
      BY <1>1, FinishNothing
    <2> QED BY <1>1, <2>1 DEF Handed
  <1>2. CASE \E G, a, t : /\ Fields(G) /\ F = Append(G, FieldAs(a.path, a.kind, t))
                          /\ Comparable(a, t, K) /\ Opened(d, a, t) /\ Handed(d, Distinct(G), K)
    <2>1. PICK G, a, t : /\ Fields(G) /\ F = Append(G, FieldAs(a.path, a.kind, t))
                         /\ Comparable(a, t, K) /\ Opened(d, a, t) /\ Handed(d, Distinct(G), K)
      BY <1>2
    <2>2. PICK f, D : f = FieldAs(a.path, a.kind, t) /\ D = Distinct(G)
      OBVIOUS
    <2>3. F = Append(G, f) /\ Handed(d, D, K)
      BY <2>1, <2>2
    <2>4. CASE d.stored
      <3>1. Handed(FinishActive(d), Distinct(F), K)
        BY ONLY <2>1, <2>2, <2>3, <2>4, Keyed(K), StandsApart(F), SeenFinish
      <3> QED BY <3>1 DEF Handed
    <2>5. CASE ~d.stored
      <3>1. Novel(D) /\ Fields(D)
        BY <2>3, <2>5 DEF Handed
      <3>2. Deduplicated(f) /\ f.path = a.path
        BY <2>1, <2>2 DEF FieldAs, Deduplicated, Comparable
      <3>3. ~Repeating(D, f)
        <4>1. DOMAIN D = 1..Len(D)
          BY <3>1, SeqIs DEF Fields
        <4> QED BY <3>1, <3>2, <4>1 DEF Repeating, Novel, Deduplicated
      <3>4. Apart(D, a.path)
        BY <2>1, <2>2, <2>3, <3>2, <3>3 DEF StandsApart
      <3>5. FieldsOf(FinishActive(d).output) = AddField(D, f)
        BY ONLY <2>1, <2>2, <2>3, <2>5, <3>4, HandedLast
      <3>6. Distinct(F) = AddField(D, f)
        BY <2>1, <2>2, <2>3, DistinctAppend DEF Fields
      <3> QED BY <3>5, <3>6
    <2> QED BY <2>4, <2>5
  <1> QED BY <1>1, <1>2 DEF Seen

(* Nothing has been met at first. *)
LEMMA SeenNothing ==
  ASSUME NEW K
  PROVE  Seen(NewDeduper, <<>>, K)
  <1>1. PICK z : z = <<>>
    OBVIOUS
  <1>2. IsSeq(z) /\ Len(z) = 0
    BY <1>1, EmptyIs
  <1>3. Fields(z) /\ Novel(z)
    BY <1>2 DEF Fields, Novel
  <1>4. Distinct(z) = z /\ FieldsOf(z) = z
    BY <1>1, DistinctNone, FieldsOfNone
  <1>5. PICK d : d = NewDeduper
    OBVIOUS
  <1>6. /\ d.active = NoField /\ ~d.stored /\ d.values = z /\ d.index = {} /\ d.output = z
        /\ d = DeduperOf(d.active, d.stored, d.values, d.index, d.output)
    BY ONLY <1>1, <1>5 DEF NewDeduper, DeduperOf
  <1>7. Handed(d, Distinct(z), K)
    BY ONLY <1>1, <1>2, <1>3, <1>4, <1>6 DEF Handed
  <1> QED BY <1>1, <1>3, <1>5, <1>6, <1>7 DEF Seen

(***************************************************************************)
(* From what is said of all items to what is said of each.                 *)
(***************************************************************************)
(* Fields that end with one of a path and a kind. *)
EndsAs(F, p, k) ==
    \E G, t : Fields(G) /\ IsSeq(t) /\ F = Append(G, FieldAs(p, k, t))

(* More items leave the fields but the last, and the path and kind of that. *)
Led(A, F) ==
    /\ Fields(A) /\ Fields(F) /\ Len(A) <= Len(F)
    /\ \A i \in 1..Len(A) : i < Len(A) => F[i] = A[i]
    /\ Len(A) # 0 => F[Len(A)].path = A[Len(A)].path /\ F[Len(A)].kind = A[Len(A)].kind

(* Fields lead to themselves, *)
LEMMA LedSame ==
  ASSUME NEW A, Fields(A)
  PROVE  Led(A, A)
  <1>1. Len(A) \in Nat
    BY SeqIs DEF Fields
  <1> QED BY <1>1 DEF Led

(* what is led to leads on, *)
LEMMA LedTransitive ==
  ASSUME NEW A, NEW B, NEW C, Led(A, B), Led(B, C)
  PROVE  Led(A, C)
  <1>1. PICK a, b, c : a = Len(A) /\ b = Len(B) /\ c = Len(C)
    OBVIOUS
  <1>2. a \in Nat /\ b \in Nat /\ c \in Nat /\ Fields(A) /\ Fields(C)
    BY <1>1, SeqIs DEF Led, Fields
  <1>3. /\ a <= b /\ (\A i \in 1..a : i < a => B[i] = A[i])
        /\ (a # 0 => B[a].path = A[a].path /\ B[a].kind = A[a].kind)
    BY <1>1 DEF Led
  <1>4. /\ b <= c /\ (\A i \in 1..b : i < b => C[i] = B[i])
        /\ (b # 0 => C[b].path = B[b].path /\ C[b].kind = B[b].kind)
    BY <1>1 DEF Led
  <1>5. ASSUME NEW i \in 1..a, i < a PROVE C[i] = A[i]
    <2>1. i \in 1..b /\ i < b
      BY <1>2, <1>3, <1>5
    <2> QED BY <1>3, <1>4, <1>5, <2>1
  <1>6. ASSUME a # 0 PROVE C[a].path = A[a].path /\ C[a].kind = A[a].kind
    <2>1. a \in 1..b /\ (a < b \/ a = b)
      BY <1>2, <1>3, <1>6
    <2>2. CASE a < b
      <3>1. C[a] = B[a]
        BY <1>4, <2>1, <2>2
      <3> QED BY <1>3, <1>6, <3>1
    <2>3. CASE a = b
      BY <1>3, <1>4, <1>6, <2>3
    <2> QED BY <2>1, <2>2, <2>3
  <1>7. a <= c
    BY <1>2, <1>3, <1>4
  <1> QED BY ONLY <1>1, <1>2, <1>5, <1>6, <1>7 DEF Led

(* A field more, or more of the last. *)
LEMMA LedAppend ==
  ASSUME NEW F, Fields(F), NEW p, NEW k, NEW t, IsSeq(t), NEW H, H = Append(F, FieldAs(p, k, t))
  PROVE  Led(F, H) /\ EndsAs(H, p, k)
  <1>1. PICK g, n : g = FieldAs(p, k, t) /\ n = Len(F)
    OBVIOUS
  <1>2. Fields(H)
    BY FieldsAppend
  <1>3. Len(H) = n + 1 /\ (\A i \in 1..n : H[i] = F[i]) /\ n \in Nat
    BY <1>1, AppendIs, SeqIs DEF Fields
  <1>4. n # 0 => n \in 1..n
    BY <1>3
  <1>5. Led(F, H)
    BY ONLY <1>1, <1>2, <1>3, <1>4, Fields(F) DEF Led
  <1> QED BY <1>5 DEF EndsAs

(* and a longer last field is led to. *)
LEMMA LedLonger ==
  ASSUME NEW G, Fields(G), NEW p, NEW k, NEW t, IsSeq(t), NEW u, IsSeq(u),
         NEW F, F = Append(G, FieldAs(p, k, t)), NEW H, H = Append(G, FieldAs(p, k, u))
  PROVE  Led(F, H) /\ EndsAs(H, p, k)
  <1>1. PICK f, g, n, m : f = FieldAs(p, k, t) /\ g = FieldAs(p, k, u) /\ n = Len(G) /\ m = n + 1
    OBVIOUS
  <1>2. Fields(H) /\ Fields(F)
    BY FieldsAppend
  <1>3. Len(H) = m /\ H[m] = g /\ (\A i \in 1..n : H[i] = G[i]) /\ n \in Nat
    BY <1>1, AppendIs, SeqIs DEF Fields
  <1>4. Len(F) = m /\ F[m] = f /\ (\A i \in 1..n : F[i] = G[i])
    BY <1>1, AppendIs DEF Fields
  <1>5. f.path = g.path /\ f.kind = g.kind
    BY <1>1 DEF FieldAs
  <1>6. \A i \in 1..m : i < m => i \in 1..n
    BY <1>1, <1>3
  <1>7. m <= m
    BY <1>1, <1>3
  <1>8. Led(F, H)
    BY ONLY <1>2, <1>3, <1>4, <1>5, <1>6, <1>7 DEF Led
  <1> QED BY <1>8 DEF EndsAs

(* An item joined to fields that end with one of its path ends them still. *)
Joined(F, x, p) ==
    /\ Led(F, JoinItem(F, x)) /\ EndsAs(JoinItem(F, x), x.path, x.kind)
    /\ Joins(F, x) <=> x.path # <<>> /\ x.path = p
    /\ ~Joins(F, x) => JoinItem(F, x) = Append(F, FieldAs(x.path, x.kind, x.text))

(* So it is: the fields before are led to, whatever the item. *)
LEMMA JoinLeads ==
  ASSUME NEW F, NEW p, NEW k, EndsAs(F, p, k), NEW x, IsSeq(x.text),
         x.path # <<>> /\ x.path = p => x.kind = k
  PROVE  Joined(F, x, p)
  <1>1. PICK G, t : Fields(G) /\ IsSeq(t) /\ F = Append(G, FieldAs(p, k, t))
    BY DEF EndsAs
  <1>2. PICK y, u : y = x.text /\ u = t \o y
    OBVIOUS
  <1>3. IsSeq(y) /\ IsSeq(u)
    BY <1>1, <1>2, ConcatIs
  <1>4. Fields(F) /\ F # <<>> /\ F[Len(F)].path = p
    <2>1. PICK f : f = FieldAs(p, k, t)
      OBVIOUS
    <2>2. f.path = p
      BY <2>1 DEF FieldAs
    <2>3. F # <<>> /\ F[Len(F)] = f
      BY <1>1, <2>1, AppendSome DEF Fields
    <2> QED BY <1>1, <2>2, <2>3, FieldsAppend
  <1>5. Joins(F, x) <=> x.path # <<>> /\ x.path = p
    BY <1>4 DEF Joins
  <1>6. CASE Joins(F, x)
    <2>1. p # <<>> /\ x.path = p /\ x.kind = k
      BY <1>5, <1>6
    <2>2. PICK H : H = Append(G, FieldAs(p, k, u))
      OBVIOUS
    <2>3. JoinItem(F, x) = H
      <3>1. JoinsAs(G, p, k, t, F, x)
        BY ONLY <1>1, <2>1, JoinedIs
      <3> QED BY <1>2, <2>1, <2>2, <3>1 DEF JoinsAs
    <2>4. Led(F, H) /\ EndsAs(H, p, k)
      BY ONLY <1>1, <1>3, <2>2, LedLonger
    <2> QED BY <1>5, <1>6, <2>1, <2>3, <2>4 DEF Joined
  <1>7. CASE ~Joins(F, x)
    <2>1. PICK H : H = Append(F, FieldAs(x.path, x.kind, y))
      OBVIOUS
    <2>2. JoinItem(F, x) = H
      BY <1>2, <1>7, <2>1 DEF JoinItem
    <2>3. Led(F, H) /\ EndsAs(H, x.path, x.kind)
      BY ONLY <1>3, <1>4, <2>1, LedAppend
    <2> QED BY <1>2, <1>5, <1>7, <2>1, <2>2, <2>3 DEF Joined
  <1> QED BY <1>6, <1>7

(* The first item of all. *)
LEMMA JoinFirst ==
  ASSUME NEW x, IsSeq(x.text), NEW F, F = <<>>
  PROVE  /\ Led(F, JoinItem(F, x)) /\ EndsAs(JoinItem(F, x), x.path, x.kind) /\ ~Joins(F, x)
         /\ JoinItem(F, x) = Append(F, FieldAs(x.path, x.kind, x.text))
  <1>1. Fields(F)
    <2>1. IsSeq(F) /\ Len(F) = 0
      BY EmptyIs
    <2> QED BY <2>1 DEF Fields
  <1>2. ~Joins(F, x)
    BY DEF Joins
  <1>3. PICK H, y : y = x.text /\ H = Append(F, FieldAs(x.path, x.kind, y))
    OBVIOUS
  <1>4. JoinItem(F, x) = H
    BY <1>2, <1>3 DEF JoinItem
  <1>5. IsSeq(y)
    BY <1>3
  <1>6. Led(F, H) /\ EndsAs(H, x.path, x.kind)
    BY ONLY <1>1, <1>3, <1>5, LedAppend
  <1> QED BY <1>2, <1>3, <1>4, <1>6

(* What is led to by one more field begins with the fields before it. *)
LEMMA LedBegun ==
  ASSUME NEW F, Fields(F), NEW g, NEW A, Led(Append(F, g), A)
  PROVE  /\ Begins(F, A)
         /\ \E e : e.path = g.path /\ e.kind = g.kind /\ Begins(Append(F, e), A)
  <1>1. PICK n, m, H : n = Len(F) /\ m = n + 1 /\ H = Append(F, g)
    OBVIOUS
  <1>2. Len(H) = m /\ H[m] = g /\ (\A i \in 1..n : H[i] = F[i]) /\ n \in Nat /\ m # 0
    BY <1>1, AppendIs, SeqIs DEF Fields
  <1>3. /\ IsSeq(A) /\ m <= Len(A) /\ (\A i \in 1..m : i < m => A[i] = H[i])
        /\ A[m].path = g.path /\ A[m].kind = g.kind /\ IsSeq(F) /\ Len(A) \in Nat
    BY <1>1, <1>2, SeqIs DEF Led, Fields
  <1>4. \A i \in 1..n : A[i] = F[i]
    <2>1. \A i \in 1..n : i \in 1..m /\ i < m
      BY <1>1, <1>2
    <2> QED BY <1>2, <1>3, <2>1
  <1>5. Begins(F, A)
    <2>1. n <= Len(A)
      BY <1>1, <1>2, <1>3
    <2> QED BY <1>1, <1>3, <1>4, <2>1 DEF Begins
  <1>6. PICK e, B : e = A[m] /\ B = Append(F, e)
    OBVIOUS
  <1>7. IsSeq(B) /\ Len(B) = m /\ B[m] = e /\ (\A i \in 1..n : B[i] = F[i])
    BY <1>1, <1>3, <1>6, AppendIs
  <1>8. \A i \in 1..m : A[i] = B[i]
    <2>1. \A i \in 1..m : i \in 1..n \/ i = m
      BY <1>1, <1>2
    <2> QED BY <1>4, <1>6, <1>7, <2>1
  <1>9. Begins(B, A)
    BY <1>3, <1>7, <1>8 DEF Begins
  <1> QED BY <1>3, <1>5, <1>6, <1>9

(* Fields of one path do not follow each other. *)
Neat(S) == \A n \in 1..Len(S) : n > 1 /\ S[n].path # <<>> => S[n].path # S[n - 1].path

(* The last that is said stands apart, if it is not said again. *)
LEMMA NeatBegun ==
  ASSUME NEW D, IsSeq(D), NEW f, f.path # <<>>, NEW S, Neat(S), Begins(Append(D, f), S)
  PROVE  Apart(D, f.path)
  <1>1. PICK B, n, m : B = Append(D, f) /\ n = Len(D) /\ m = n + 1
    OBVIOUS
  <1>2. Len(B) = m /\ B[m] = f /\ (\A i \in 1..n : B[i] = D[i]) /\ n \in Nat
    BY <1>1, AppendIs, SeqIs
  <1>3. m <= Len(S) /\ (\A i \in 1..m : S[i] = B[i]) /\ Len(S) \in Nat
    BY <1>1, <1>2, SeqIs DEF Begins
  <1>4. ASSUME D # <<>> PROVE D[n].path # f.path
    <2>1. n # 0
      <3>1. IsSeq(<<>>) /\ Len(<<>>) = 0
        BY EmptyIs
      <3>2. \A z : z = <<>> => ~(n = 0)
        BY <1>1, <1>4, <3>1, EqualPlaces
      <3> QED BY <3>2
    <2>2. n \in 1..n /\ m \in 1..m /\ n \in 1..m /\ m \in 1..Len(S) /\ m > 1 /\ m - 1 = n
      BY <1>1, <1>2, <1>3, <2>1
    <2>3. S[m] = f /\ S[n] = D[n]
      BY <1>2, <1>3, <2>2
    <2>4. S[m].path # S[m - 1].path
      BY <2>2, <2>3 DEF Neat
    <2> QED BY <2>2, <2>3, <2>4
  <1> QED BY <1>1, <1>4 DEF Apart

(* Where what is said of all fields is neat, it is so of the first of them. *)
LEMMA NeatStands ==
  ASSUME NEW F, NEW A, Begins(F, A), Neat(Distinct(A)),
         \A G, f : Fields(G) /\ F = Append(G, f) /\ Deduplicated(f) => f.path # <<>>
  PROVE  StandsApart(F)
  <1>1. SUFFICES ASSUME NEW G, NEW f, Fields(G), F = Append(G, f), Deduplicated(f),
                        ~Repeating(Distinct(G), f)
                 PROVE  Apart(Distinct(G), f.path)
    BY DEF StandsApart
  <1>2. PICK D, S : D = Distinct(G) /\ S = Distinct(A)
    OBVIOUS
  <1>3. Distinct(F) = Append(D, f)
    <2>1. Distinct(Append(G, f)) = AddField(D, f)
      BY <1>1, <1>2, DistinctAppend DEF Fields
    <2> QED BY <1>1, <1>2, <2>1 DEF AddField
  <1>4. Begins(Append(D, f), S)
    BY <1>2, <1>3, DistinctBegins
  <1>5. IsSeq(D) /\ f.path # <<>>
    BY <1>1, <1>2, DistinctFields DEF Fields
  <1>6. Neat(S)
    BY <1>2
  <1> QED BY ONLY <1>2, <1>4, <1>5, <1>6, NeatBegun

(* Two that are compared are both said, or one says what the other does. *)
LEMMA NotNovel ==
  ASSUME NEW G, Fields(G), Len(G) # 0, Deduplicated(G[Len(G)])
  PROVE  ~Novel(Distinct(G))
  <1>1. PICK n, g, k : n = Len(G) /\ g = G[n] /\ k = n - 1
    OBVIOUS
  <1>2. n \in Nat \ {0} /\ k \in Nat /\ n = k + 1
    BY <1>1, SeqIs DEF Fields
  <1>3. PICK H : H = SubSeq(G, 1, k)
    OBVIOUS
  <1>4. G = Append(H, g) /\ IsSeq(H)
    <2>1. SubSeq(G, 1, n) = Append(SubSeq(G, 1, k), G[n]) /\ IsSeq(SubSeq(G, 1, k))
      <3>1. n <= Len(G) /\ IsSeq(G)
        BY <1>1, <1>2 DEF Fields
      <3> QED BY ONLY <1>2, <3>1, PrefixGrows
    <2>2. SubSeq(G, 1, n) = G
      BY <1>1, PrefixEnds DEF Fields
    <2> QED BY <1>1, <1>3, <2>1, <2>2
  <1>5. PICK D : D = Distinct(H)
    OBVIOUS
  <1>6. Distinct(G) = AddField(D, g)
    BY <1>4, <1>5, DistinctAppend
  <1>7. IsSeq(D)
    <2>1. Begins(Distinct(H), Distinct(G))
      <3>1. Begins(H, G)
        <4>1. Len(G) = Len(H) + 1 /\ (\A i \in 1..Len(H) : G[i] = H[i]) /\ Len(H) \in Nat
          BY <1>4, AppendIs, SeqIs
        <4> QED BY <1>4, <4>1 DEF Begins, Fields
      <3> QED BY <3>1, DistinctBegins
    <2> QED BY <1>5, <2>1 DEF Begins
  <1>8. Deduplicated(g)
    BY <1>1
  <1>9. CASE Repeating(D, g)
    <2>1. PICK i \in DOMAIN D : D[i].kind = g.kind
      BY <1>9 DEF Repeating
    <2>2. i \in 1..Len(D) /\ Deduplicated(D[i])
      BY <1>7, <1>8, <2>1, SeqIs DEF Deduplicated
    <2> QED BY <1>6, <1>9, <2>2 DEF AddField, Novel
  <1>10. CASE ~Repeating(D, g)
    <2>1. PICK E : E = Append(D, g)
      OBVIOUS
    <2>2. Distinct(G) = E
      BY <1>6, <1>10, <2>1 DEF AddField
    <2>3. Len(E) = Len(D) + 1 /\ E[Len(D) + 1] = g /\ Len(D) \in Nat
      BY <1>7, <2>1, AppendIs, SeqIs
    <2>4. Len(D) + 1 \in 1..Len(E)
      BY <2>3
    <2> QED BY <1>8, <2>2, <2>3, <2>4 DEF Novel
  <1> QED BY <1>9, <1>10

(* A key for each kind. *)
LEMMA KeysExist ==
  ASSUME NEW items, NEW n \in Nat,
         \A i, j \in 1..n : Deduplicated(items[i]) /\ items[j].kind = items[i].kind =>
                                DedupKey(items[j]) = DedupKey(items[i])
  PROVE  \E K : /\ Keyed(K)
                /\ \A i \in 1..n : Deduplicated(items[i]) =>
                                   DedupKey(items[i]) = K[items[i].kind]
  <1> DEFINE one(k) == CHOOSE i \in 1..n : items[i].kind = k
  <1>1. PICK K : K = [k \in {"message", "tool_result"} |->
                        IF \E i \in 1..n : items[i].kind = k THEN DedupKey(items[one(k)])
                               ELSE <<k>>]
    OBVIOUS
  <1>2. ASSUME NEW k, \E i \in 1..n : items[i].kind = k
        PROVE  one(k) \in 1..n /\ items[one(k)].kind = k
    BY <1>2
  <1> HIDE DEF one
  <1>3. \A k \in {"message", "tool_result"} :
            K[k] = IF \E i \in 1..n : items[i].kind = k THEN DedupKey(items[one(k)]) ELSE <<k>>
    BY <1>1
  <1>4. ASSUME NEW k \in {"message", "tool_result"} PROVE K[k][1] = k
    <2>1. CASE \E i \in 1..n : items[i].kind = k
      <3>1. K[k] = DedupKey(items[one(k)]) /\ items[one(k)].kind = k
        BY <1>2, <1>3, <2>1
      <3>2. PICK x : x = items[one(k)]
        OBVIOUS
      <3>3. DedupKey(x)[1] = x.kind
        BY DEF DedupKey
      <3> QED BY <3>1, <3>2, <3>3
    <2>2. CASE ~\E i \in 1..n : items[i].kind = k
      <3>1. K[k] = <<k>>
        BY <1>3, <2>2
      <3> QED BY <3>1
    <2> QED BY <2>1, <2>2
  <1>5. Keyed(K)
    BY <1>4 DEF Keyed
  <1>6. ASSUME NEW i \in 1..n, Deduplicated(items[i]) PROVE DedupKey(items[i]) = K[items[i].kind]
    <2>1. PICK k : k = items[i].kind
      OBVIOUS
    <2>2. k \in {"message", "tool_result"} /\ \E j \in 1..n : items[j].kind = k
      BY <1>6, <2>1 DEF Deduplicated
    <2>3. K[k] = DedupKey(items[one(k)]) /\ one(k) \in 1..n /\ items[one(k)].kind = k
      BY <1>2, <1>3, <2>2
    <2>4. DedupKey(items[one(k)]) = DedupKey(items[i])
      BY <1>6, <2>1, <2>3
    <2> QED BY <2>1, <2>3, <2>4
  <1> QED BY <1>5, <1>6

(* The fields of the first items lead to those of all of them, and end like  *)
(* the last of the first.                                                    *)
LeadTo(f, items, n) ==
    /\ f[0] = <<>>
    /\ \A i \in 0..n : Fields(f[i]) /\ Led(f[i], f[n])
    /\ \A i \in 1..n : EndsAs(f[i], items[i].path, items[i].kind)
    /\ \A i \in 2..n : Joined(f[i - 1], items[i], items[i - 1].path)

(* So they do, one item after another. *)
LEMMA JoiningLeads ==
  ASSUME NEW items, NEW n \in Nat, \A i \in 1..n : IsSeq(items[i].text),
         \A i \in 2..n : items[i].path = items[i - 1].path /\ items[i].path # <<>> =>
                             items[i].kind = items[i - 1].kind,
         NEW f, IsJoining(f, items, n)
  PROVE  LeadTo(f, items, n)
  <1>1. f[0] = <<>>
    BY JoiningFirst
  <1> DEFINE S == {i \in 0..n : IF i = 0 THEN Fields(f[i])
                                ELSE /\ EndsAs(f[i], items[i].path, items[i].kind)
                                     /\ Led(f[i - 1], f[i]) /\ Fields(f[i])}
  <1>2. S \in SUBSET Nat
    OBVIOUS
  <1>3. 0 \in S
    <2>1. PICK z : z = f[0]
      OBVIOUS
    <2>2. IsSeq(z) /\ Len(z) = 0
      BY <1>1, <2>1, EmptyIs
    <2>3. Fields(z)
      BY <2>2 DEF Fields
    <2> QED BY <2>1, <2>3
  <1>4. ASSUME NEW i \in 0..n, i # n, i \in S PROVE i + 1 \in S
    <2>1. PICK j, x, F, H : j = i + 1 /\ x = items[j] /\ F = f[i] /\ H = f[j]
      OBVIOUS
    <2>2. H = JoinItem(F, x)
      BY <1>4, <2>1, JoiningStep
    <2>3. j \in 0..n /\ j \in 1..n /\ j # 0 /\ j - 1 = i
      BY <1>4, <2>1
    <2>4. IsSeq(x.text)
      BY <2>1, <2>3
    <2>5. Led(F, H) /\ EndsAs(H, x.path, x.kind)
      <3>1. CASE i = 0
        <4>1. F = <<>>
          BY <1>1, <2>1, <3>1
        <4> QED BY <2>2, <2>4, <4>1, JoinFirst
      <3>2. CASE i # 0
        <4>1. PICK y : y = items[i]
          OBVIOUS
        <4>2. EndsAs(F, y.path, y.kind)
          BY <1>4, <2>1, <3>2, <4>1
        <4>3. x.path # <<>> /\ x.path = y.path => x.kind = y.kind
          <5>1. j \in 2..n
            BY <2>3, <3>2
          <5> QED BY <2>1, <2>3, <4>1, <5>1
        <4>4. Joined(F, x, y.path)
          BY ONLY <2>4, <4>2, <4>3, JoinLeads
        <4> QED BY <2>2, <4>4 DEF Joined
      <3> QED BY <3>1, <3>2
    <2>6. Fields(H)
      BY <2>5 DEF Led
    <2>7. j \in S
      BY <2>1, <2>3, <2>5, <2>6
    <2> QED BY <2>1, <2>7
  <1> HIDE DEF S
  <1>5. 0..n \subseteq S
    BY <1>2, <1>3, <1>4, UpTo
  <1>6. ASSUME NEW i \in 1..n
        PROVE  EndsAs(f[i], items[i].path, items[i].kind) /\ Led(f[i - 1], f[i]) /\ Fields(f[i])
    <2>1. i \in S /\ i # 0
      BY <1>5
    <2> QED BY <2>1 DEF S
  <1>7. \A i \in 0..n : Fields(f[i])
    <2>1. ASSUME NEW i \in 0..n PROVE Fields(f[i])
      <3>1. i \in S
        BY <1>5
      <3> QED BY <3>1 DEF S
    <2> QED BY <2>1
  <1>8. ASSUME NEW m \in 0..n PROVE Led(f[m], f[n])
    <2> DEFINE T == {i \in 0..n : m <= i => Led(f[m], f[i])}
    <2>1. T \in SUBSET Nat
      OBVIOUS
    <2>2. Led(f[m], f[m])
      BY <1>7, LedSame
    <2>3. 0 \in T
      <3>1. m <= 0 => m = 0
        OBVIOUS
      <3> QED BY <2>2, <3>1
    <2>4. ASSUME NEW i \in 0..n, i # n, i \in T PROVE i + 1 \in T
      <3>1. PICK j : j = i + 1
        OBVIOUS
      <3>2. j \in 1..n /\ j \in 0..n /\ j - 1 = i
        BY <2>4, <3>1
      <3>3. Led(f[i], f[j])
        BY <1>6, <3>2
      <3>4. CASE m <= i
        <4>1. Led(f[m], f[i])
          BY <2>4, <3>4
        <4>2. Led(f[m], f[j])
          BY <3>3, <4>1, LedTransitive
        <4> QED BY <3>1, <3>2, <4>2
      <3>5. CASE m = j
        BY <2>2, <3>1, <3>2, <3>5
      <3>6. CASE ~(m <= j)
        BY <3>1, <3>2, <3>6
      <3>7. m <= i \/ m = j \/ ~(m <= j)
        BY <3>1
      <3> QED BY <3>4, <3>5, <3>6, <3>7
    <2> HIDE DEF T
    <2>5. 0..n \subseteq T
      BY <2>1, <2>3, <2>4, UpTo
    <2>6. n \in T /\ m <= n
      BY <2>5
    <2> QED BY <2>6 DEF T
  <1>9. ASSUME NEW i \in 2..n PROVE Joined(f[i - 1], items[i], items[i - 1].path)
    <2>1. PICK h, F, x, y : h = i - 1 /\ F = f[h] /\ x = items[i] /\ y = items[h]
      OBVIOUS
    <2>2. h \in 1..n /\ i \in 1..n
      BY <2>1
    <2>3. EndsAs(F, y.path, y.kind) /\ IsSeq(x.text)
      BY <1>6, <2>1, <2>2
    <2>4. x.path # <<>> /\ x.path = y.path => x.kind = y.kind
      BY <2>1
    <2>5. Joined(F, x, y.path)
      BY ONLY <2>3, <2>4, JoinLeads
    <2> QED BY <2>1, <2>5
  <1> QED BY <1>1, <1>6, <1>7, <1>8, <1>9 DEF LeadTo

(* What Orderly says, place by place. *)
Ordered(items, n, fields) ==
    /\ \A i \in 1..n : IsItem(items[i]) /\ items[i].text # <<>>
    /\ \A i \in 2..n : items[i].path = items[i - 1].path /\ items[i].path # <<>> =>
                           items[i].kind = items[i - 1].kind
    /\ \A i \in 1..n : Deduplicated(items[i]) => items[i].path # <<>>
    /\ \A i, j \in 1..n : Deduplicated(items[i]) /\ items[j].kind = items[i].kind =>
                              DedupKey(items[j]) = DedupKey(items[i])
    /\ \A k \in 1..Len(fields) :
          k > 1 /\ Deduplicated(fields[k - 1]) /\ ~Deduplicated(fields[k]) =>
              k > 2 /\ Deduplicated(fields[k - 2])
    /\ Neat(Distinct(fields))

(* Orderly says all of it. *)
LEMMA OrderlyIs ==
  ASSUME NEW items, IsSeq(items), \A i \in 1..Len(items) : IsItem(items[i]), Orderly(items),
         NEW n, n = Len(items), NEW fields, fields = FieldsOf(items), Fields(fields)
  PROVE  Ordered(items, n, fields)
  <1>1. PICK said : said = Distinct(fields)
    OBVIOUS
  <1>2. DOMAIN items = 1..n /\ DOMAIN fields = 1..Len(fields) /\ DOMAIN said = 1..Len(said)
    <2>1. Fields(said)
      BY <1>1, DistinctFields
    <2> QED BY <2>1, SeqIs DEF Fields
  <1>3. /\ \A i \in DOMAIN items :
              /\ items[i].text # <<>>
              /\ i > 1 /\ items[i].path = items[i - 1].path /\ items[i].path # <<>> =>
                    items[i].kind = items[i - 1].kind
              /\ Deduplicated(items[i]) => items[i].path # <<>>
              /\ \A j \in DOMAIN items :
                    Deduplicated(items[i]) /\ items[j].kind = items[i].kind =>
                        DedupKey(items[j]) = DedupKey(items[i])
        /\ \A k \in DOMAIN fields :
              k > 1 /\ Deduplicated(fields[k - 1]) /\ ~Deduplicated(fields[k]) =>
                  k > 2 /\ Deduplicated(fields[k - 2])
        /\ \A k \in DOMAIN said :
              k > 1 /\ said[k].path # <<>> => said[k].path # said[k - 1].path
    BY <1>1 DEF Orderly
  <1>4. \A i \in 2..n : i \in 1..n /\ i > 1
    OBVIOUS
  <1>5. Neat(said)
    BY <1>2, <1>3 DEF Neat
  <1> QED BY <1>1, <1>2, <1>3, <1>4, <1>5 DEF Ordered

(* The last field is as the fields end. *)
LEMMA EndsWith ==
  ASSUME NEW G, Fields(G), NEW g, NEW p, NEW k, EndsAs(Append(G, g), p, k)
  PROVE  g.path = p /\ g.kind = k
  <1>1. PICK H, t : Fields(H) /\ IsSeq(t) /\ Append(G, g) = Append(H, FieldAs(p, k, t))
    BY DEF EndsAs
  <1>2. PICK h : h = FieldAs(p, k, t)
    OBVIOUS
  <1>3. Append(G, g) = Append(H, h) /\ IsSeq(G) /\ IsSeq(H)
    BY <1>1, <1>2 DEF Fields
  <1>4. g = h
    BY ONLY <1>3, LastAppended
  <1> QED BY <1>2, <1>4 DEF FieldAs

(* The fields of the first items stand apart from each other, *)
LEMMA OrderedStands ==
  ASSUME NEW items, NEW n \in Nat, NEW f, LeadTo(f, items, n), Ordered(items, n, f[n]),
         NEW i \in 0..n, Begins(f[i], f[n])
  PROVE  StandsApart(f[i])
  <1>1. PICK F, A : F = f[i] /\ A = f[n]
    OBVIOUS
  <1>2. Begins(F, A) /\ Neat(Distinct(A))
    BY <1>1 DEF Ordered
  <1>3. ASSUME NEW G, NEW g, Fields(G), F = Append(G, g), Deduplicated(g) PROVE g.path # <<>>
    <2>1. i # 0
      <3>1. Append(G, g) # <<>>
        BY <1>3, AppendSome DEF Fields
      <3> QED BY <1>1, <1>3, <3>1 DEF LeadTo
    <2>2. i \in 1..n
      BY <2>1
    <2>3. PICK x : x = items[i]
      OBVIOUS
    <2>4. EndsAs(F, x.path, x.kind)
      BY <1>1, <2>2, <2>3 DEF LeadTo
    <2>5. g.path = x.path /\ g.kind = x.kind
      <3>1. PICK p, k : p = x.path /\ k = x.kind
        OBVIOUS
      <3>2. EndsAs(F, p, k)
        BY <2>4, <3>1
      <3>3. g.path = p /\ g.kind = k
        <4>1. Fields(G) /\ EndsAs(Append(G, g), p, k)
          BY <1>3, <3>2
        <4> QED BY ONLY <4>1, EndsWith
      <3> QED BY <3>1, <3>3
    <2>6. Deduplicated(x)
      BY <1>3, <2>5 DEF Deduplicated
    <2> QED BY <2>2, <2>3, <2>5, <2>6 DEF Ordered
  <1>4. StandsApart(F)
    BY ONLY <1>2, <1>3, NeatStands
  <1> QED BY <1>1, <1>4

(* and the next item is as it has to be. *)
LEMMA OrderedFits ==
  ASSUME NEW items, NEW n \in Nat, NEW f, LeadTo(f, items, n), Ordered(items, n, f[n]),
         IsJoining(f, items, n), NEW K,
         \A i \in 1..n : Deduplicated(items[i]) => DedupKey(items[i]) = K[items[i].kind],
         NEW i \in 0..n, i # n
  PROVE  Fits(f[i], items[i + 1], K)
  <1>1. PICK j, F, A, x, H : /\ j = i + 1 /\ F = f[i] /\ A = f[n] /\ x = items[j] /\ H = f[j]
    OBVIOUS
  <1>2. j \in 1..n /\ j \in 0..n /\ j - 1 = i
    BY <1>1
  <1>3. H = JoinItem(F, x)
    BY <1>1, JoiningStep
  <1>4. Fields(F) /\ Fields(A) /\ Led(H, A)
    BY <1>1, <1>2 DEF LeadTo
  <1>5. IsSeq(x.text)
    BY <1>1, <1>2 DEF Ordered, IsItem
  <1>6. Joins(F, x) => F[Len(F)].kind = x.kind
    <2>1. ASSUME Joins(F, x) PROVE F[Len(F)].kind = x.kind
      <3>1. i # 0
        BY <1>1, <2>1 DEF Joins, LeadTo
      <3>2. i \in 1..n /\ j \in 2..n
        BY <1>2, <3>1
      <3>3. PICK y : y = items[i]
        OBVIOUS
      <3>4. EndsAs(F, y.path, y.kind)
        BY <1>1, <3>2, <3>3 DEF LeadTo
      <3>5. PICK G, t : Fields(G) /\ IsSeq(t) /\ F = Append(G, FieldAs(y.path, y.kind, t))
        BY <3>4 DEF EndsAs
      <3>6. PICK g : g = FieldAs(y.path, y.kind, t)
        OBVIOUS
      <3>7. F[Len(F)] = g /\ g.path = y.path /\ g.kind = y.kind
        <4>1. Append(G, g)[Len(Append(G, g))] = g
          BY <3>5, AppendSome DEF Fields
        <4>2. F = Append(G, g)
          BY <3>5, <3>6
        <4>3. g.path = y.path /\ g.kind = y.kind
          BY <3>6 DEF FieldAs
        <4> QED BY <4>1, <4>2, <4>3
      <3>8. x.path = y.path /\ x.path # <<>>
        BY <2>1, <3>7 DEF Joins
      <3>9. x.kind = y.kind
        BY <1>1, <1>2, <3>2, <3>3, <3>8 DEF Ordered
      <3> QED BY <3>7, <3>9
    <2> QED BY <2>1
  <1>7. Deduplicated(x) => x.path # <<>> /\ DedupKey(x) = K[x.kind]
    BY <1>1, <1>2 DEF Ordered
  <1>8. ASSUME ~Joins(F, x)
        PROVE  /\ StandsApart(F)
               /\ ~Deduplicated(x) =>
                    /\ ~Joins(Distinct(F), x)
                    /\ \A G, g : Fields(G) /\ F = Append(G, g) /\ Deduplicated(g) =>
                                     ~Novel(Distinct(G))
    <2>1. PICK g0 : g0 = FieldAs(x.path, x.kind, x.text)
      OBVIOUS
    <2>2. H = Append(F, g0) /\ g0.path = x.path /\ g0.kind = x.kind
      BY <1>3, <1>8, <2>1 DEF JoinItem, FieldAs
    <2>3. /\ Begins(F, A)
          /\ \E e : e.path = g0.path /\ e.kind = g0.kind /\ Begins(Append(F, e), A)
      <3>1. Led(Append(F, g0), A)
        BY <1>4, <2>2
      <3> QED BY ONLY <1>4, <3>1, LedBegun
    <2>4. PICK e : e.path = x.path /\ e.kind = x.kind /\ Begins(Append(F, e), A)
      BY <2>2, <2>3
    <2>5. StandsApart(F)
      <3>1. Begins(f[i], f[n])
        BY <1>1, <2>3
      <3>2. StandsApart(f[i])
        BY <3>1, OrderedStands
      <3> QED BY <1>1, <3>2
    <2>6. ASSUME ~Deduplicated(x) PROVE ~Joins(Distinct(F), x)
      <3>1. SUFFICES ASSUME Joins(Distinct(F), x) PROVE FALSE
        OBVIOUS
      <3>2. PICK D, S : D = Distinct(F) /\ S = Distinct(A)
        OBVIOUS
      <3>3. ~Deduplicated(e)
        BY <2>4, <2>6 DEF Deduplicated
      <3>4. Distinct(Append(F, e)) = Append(D, e)
        <4>1. Distinct(Append(F, e)) = AddField(D, e)
          BY <1>4, <3>2, DistinctAppend DEF Fields
        <4> QED BY <3>3, <4>1 DEF AddField, Repeating
      <3>5. Begins(Append(D, e), S)
        <4>1. Begins(Distinct(Append(F, e)), Distinct(A))
          BY <2>4, DistinctBegins
        <4> QED BY <3>2, <3>4, <4>1
      <3>6. Neat(S) /\ IsSeq(D)
        BY <1>1, <1>4, <3>2, DistinctFields DEF Ordered, Fields
      <3>7. e.path # <<>> /\ D # <<>> /\ D[Len(D)].path = e.path
        BY <2>4, <3>1, <3>2 DEF Joins
      <3>8. Apart(D, e.path)
        BY ONLY <3>5, <3>6, <3>7, NeatBegun
      <3> QED BY <3>7, <3>8 DEF Apart
    <2>7. ASSUME ~Deduplicated(x), NEW G, NEW g, Fields(G), F = Append(G, g), Deduplicated(g)
          PROVE  ~Novel(Distinct(G))
      <3>1. PICK l, m, k, B : l = Len(G) /\ m = l + 1 /\ k = m + 1 /\ B = Append(F, e)
        OBVIOUS
      <3>2. Len(F) = m /\ F[m] = g /\ (\A h \in 1..l : F[h] = G[h]) /\ l \in Nat
        BY <2>7, <3>1, AppendIs, SeqIs DEF Fields
      <3>3. Len(B) = k /\ B[k] = e /\ (\A h \in 1..m : B[h] = F[h])
        <4>1. Len(B) = Len(F) + 1 /\ B[Len(F) + 1] = e /\ (\A h \in 1..Len(F) : B[h] = F[h])
          BY <1>4, <3>1, AppendIs DEF Fields
        <4> QED BY <3>1, <3>2, <4>1
      <3>4. k <= Len(A) /\ (\A h \in 1..k : A[h] = B[h]) /\ Len(A) \in Nat
        BY <1>4, <2>4, <3>1, <3>3, SeqIs DEF Begins, Fields
      <3>5. k \in 1..k /\ m \in 1..k /\ m \in 1..m /\ k > 1 /\ k - 1 = m /\ k - 2 = l
            /\ k \in 1..Len(A)
        BY <3>1, <3>2, <3>4
      <3>6. A[k] = e /\ A[m] = g
        BY <3>2, <3>3, <3>4, <3>5
      <3>7. ~Deduplicated(A[k]) /\ Deduplicated(A[k - 1])
        BY <2>4, <2>7, <3>5, <3>6 DEF Deduplicated
      <3>8. k > 2 /\ Deduplicated(A[k - 2])
        BY <1>1, <3>5, <3>7 DEF Ordered
      <3>9. l # 0 /\ l \in 1..k /\ l \in 1..m /\ l \in 1..l
        BY <3>1, <3>2, <3>8
      <3>10. A[l] = G[l]
        BY <3>2, <3>3, <3>4, <3>9
      <3>11. Deduplicated(G[Len(G)]) /\ Len(G) # 0
        BY <3>1, <3>5, <3>8, <3>9, <3>10
      <3> QED BY <2>7, <3>11, NotNovel
    <2> QED BY <2>5, <2>6, <2>7
  <1>9. Fits(F, x, K)
    BY ONLY <1>6, <1>7, <1>8 DEF Fits
  <1> QED BY <1>1, <1>9

(* What is kept of the items of a record are their fields, each said once. *)
THEOREM DeduplicatedSays ==
  ASSUME NEW items, IsSeq(items), \A i \in 1..Len(items) : IsItem(items[i]), Orderly(items)
  PROVE  FieldsOf(Deduplicate(items)) = Distinct(FieldsOf(items))
  <1>1. PICK n : n = Len(items)
    OBVIOUS
  <1>2. n \in Nat
    BY <1>1, SeqIs
  <1>3. PICK f : IsJoining(f, items, n) /\ FieldsOf(items) = f[n]
    BY <1>1, <1>2, JoiningSteps
  <1>4. DOMAIN items = 1..n
    BY <1>1, SeqIs
  <1>5. LeadTo(f, items, n)
    <2>1. \A i \in 1..n : IsSeq(items[i].text)
      BY <1>1 DEF IsItem
    <2>2. ASSUME NEW i \in 2..n, items[i].path = items[i - 1].path, items[i].path # <<>>
          PROVE  items[i].kind = items[i - 1].kind
      <3>1. i \in DOMAIN items /\ i > 1
        BY <1>4
      <3> QED BY <2>2, <3>1 DEF Orderly
    <2> QED BY ONLY <1>2, <1>3, <2>1, <2>2, JoiningLeads
  <1>6. Ordered(items, n, f[n])
    <2>1. n \in 0..n
      BY <1>2
    <2>2. PICK A : A = f[n]
      OBVIOUS
    <2>3. A = FieldsOf(items) /\ Fields(A)
      BY <1>3, <1>5, <2>1, <2>2 DEF LeadTo
    <2>4. Ordered(items, n, A)
      BY ONLY <1>1, <2>3, IsSeq(items), \A i \in 1..Len(items) : IsItem(items[i]),
              Orderly(items),
              OrderlyIs
    <2> QED BY <2>2, <2>4
  <1>7. PICK K : /\ Keyed(K)
                 /\ \A i \in 1..n : Deduplicated(items[i]) =>
                                    DedupKey(items[i]) = K[items[i].kind]
    <2>1. \A i, j \in 1..n : Deduplicated(items[i]) /\ items[j].kind = items[i].kind =>
                                DedupKey(items[j]) = DedupKey(items[i])
      BY <1>6 DEF Ordered
    <2> QED BY ONLY <1>2, <2>1, KeysExist
  <1>8. PICK g : /\ g = Deduplicating(items) /\ IsDeduplicating(g, items, n)
                 /\ Deduplicate(items) = FinishActive(g[n]).output
    BY <1>1, <1>2, DeduplicateSteps
  <1>9. \A i \in 0..n : g[i] = IF i = 0 THEN NewDeduper ELSE PushItem(g[i - 1], items[i])
    BY <1>8 DEF IsDeduplicating
  <1> DEFINE S == {i \in 0..n : Seen(g[i], f[i], K)}
  <1>10. S \in SUBSET Nat
    OBVIOUS
  <1>11. 0 \in S
    <2>1. 0 \in 0..n
      BY <1>2
    <2>2. g[0] = NewDeduper /\ f[0] = <<>>
      BY <1>5, <1>9, <2>1 DEF LeadTo
    <2> QED BY <2>1, <2>2, SeenNothing
  <1>12. ASSUME NEW i \in 0..n, i # n, i \in S PROVE i + 1 \in S
    <2>1. PICK j, x, d, F : j = i + 1 /\ x = items[j] /\ d = g[i] /\ F = f[i]
      OBVIOUS
    <2>2. j \in 1..n /\ j \in 0..n /\ j # 0 /\ j - 1 = i
      BY <1>2, <1>12, <2>1
    <2>3. f[j] = JoinItem(F, x) /\ g[j] = PushItem(d, x)
      <3>1. f[i + 1] = JoinItem(f[i], items[i + 1])
        BY ONLY <1>2, <1>3, <1>12, JoiningStep
      <3>2. g[j] = PushItem(g[j - 1], items[j])
        BY <1>9, <2>2
      <3> QED BY <2>1, <2>2, <3>1, <3>2
    <2>4. Fits(F, x, K)
      <3>1. Fits(f[i], items[i + 1], K)
        BY ONLY <1>2, <1>3, <1>5, <1>6, <1>7, <1>12, OrderedFits
      <3> QED BY <2>1, <3>1
    <2>5. IsItem(x) /\ x.text # <<>>
      BY <1>6, <2>1, <2>2 DEF Ordered
    <2>6. Seen(d, F, K)
      BY <1>12, <2>1
    <2>7. Seen(PushItem(d, x), JoinItem(F, x), K)
      BY ONLY <1>7, <2>4, <2>5, <2>6, SeenItem
    <2> QED BY <2>1, <2>2, <2>3, <2>7
  <1> HIDE DEF S
  <1>13. 0..n \subseteq S
    BY <1>2, <1>10, <1>11, <1>12, UpTo
  <1>14. n \in S
    BY <1>2, <1>13
  <1>15. Seen(g[n], f[n], K)
    BY <1>14 DEF S
  <1>16. StandsApart(f[n])
    <2>1. n \in 0..n
      BY <1>2
    <2>2. Begins(f[n], f[n])
      <3>1. PICK A : A = f[n]
        OBVIOUS
      <3>2. IsSeq(A) /\ Len(A) \in Nat
        BY <1>5, <2>1, <3>1, SeqIs DEF LeadTo, Fields
      <3>3. Begins(A, A)
        BY <3>2 DEF Begins
      <3> QED BY <3>1, <3>3
    <2> QED BY ONLY <1>2, <1>5, <1>6, <2>1, <2>2, OrderedStands
  <1>17. FieldsOf(FinishActive(g[n]).output) = Distinct(f[n])
    BY ONLY <1>7, <1>15, <1>16, SeenEnds
  <1> QED BY <1>3, <1>8, <1>17

(***************************************************************************)
(* The same record with other identifiers met before it.                   *)
(***************************************************************************)
(* The items of a, but that results are taken to be of the tool g. *)
RecastItem(x, a, g) ==
    [text |-> x.text, path |-> x.path, kind |-> x.kind, role |-> x.role,
     tool |-> IF x.kind = "tool_result" THEN g ELSE x.tool, session |-> a, event |-> x.event]
Recast(x, y, a, g) == y = RecastItem(x, a, g) /\ IsSeq(x.text)
Recasts(s, t, a, g) ==
    /\ IsSeq(s) /\ IsSeq(t) /\ Len(t) = Len(s)
    /\ \A i \in 1..Len(s) : Recast(s[i], t[i], a, g)

(* What is recast says the same. *)
LEMMA RecastIs ==
  ASSUME NEW x, NEW y, NEW a, NEW g, Recast(x, y, a, g)
  PROVE  /\ y.path = x.path /\ y.kind = x.kind /\ y.text = x.text /\ y = ItemWith(y, a)
         /\ y = ItemWith(y, y.session) /\ IsSeq(y.text)
         /\ Deduplicated(y) <=> Deduplicated(x)
  BY DEF Recast, RecastItem, ItemWith, Deduplicated

(* Items are joined to fields as their path, kind and text are. *)
LEMMA SameJoin ==
  ASSUME NEW F, NEW x, NEW y, y.path = x.path, y.kind = x.kind, y.text = x.text
  PROVE  JoinItem(F, y) = JoinItem(F, x)
  BY DEF JoinItem, Joins

(* So are all items of a record. *)
LEMMA RecastFields ==
  ASSUME NEW s, NEW t, NEW a, NEW g, Recasts(s, t, a, g)
  PROVE  FieldsOf(t) = FieldsOf(s)
  <1>1. PICK n : n = Len(s) /\ n = Len(t) /\ n \in Nat
    BY SeqIs DEF Recasts
  <1>2. PICK f : IsJoining(f, s, n) /\ FieldsOf(s) = f[n]
    BY ONLY <1>1, JoiningSteps
  <1>3. PICK h : IsJoining(h, t, n) /\ FieldsOf(t) = h[n]
    BY ONLY <1>1, JoiningSteps
  <1> DEFINE B == {i \in 0..n : h[i] # f[i]}
  <1>4. B = {}
    <2> SUFFICES ASSUME B # {} PROVE FALSE
      OBVIOUS
    <2>1. PICK i \in B : \A j \in B : i <= j
      <3>1. B \in SUBSET Nat
        BY <1>1
      <3> HIDE DEF B
      <3> QED BY <3>1, Smallest
    <2>2. i # 0
      <3>1. f[0] = <<>> /\ h[0] = <<>>
        BY ONLY <1>1, <1>2, <1>3, JoiningFirst
      <3> QED BY <2>1, <3>1
    <2>3. PICK j : j = i - 1
      OBVIOUS
    <2>4. j \in 0..n /\ j # n /\ i = j + 1 /\ j \notin B /\ i \in 1..n
      BY <1>1, <2>1, <2>2, <2>3
    <2>5. f[j + 1] = JoinItem(f[j], s[j + 1])
      BY ONLY <1>1, <1>2, <2>4, JoiningStep
    <2>6. h[j + 1] = JoinItem(h[j], t[j + 1])
      BY ONLY <1>1, <1>3, <2>4, JoiningStep
    <2>7. h[j] = f[j]
      BY <2>4
    <2>8. PICK x, y, F : x = s[i] /\ y = t[i] /\ F = f[j]
      OBVIOUS
    <2>9. Recast(x, y, a, g)
      BY <1>1, <2>4, <2>8 DEF Recasts
    <2>10. y.path = x.path /\ y.kind = x.kind /\ y.text = x.text
      BY ONLY <2>9, RecastIs
    <2>11. JoinItem(F, y) = JoinItem(F, x)
      BY ONLY <2>10, SameJoin
    <2>12. h[i] = f[i]
      BY ONLY <2>4, <2>5, <2>6, <2>7, <2>8, <2>11
    <2> QED BY <2>1, <2>12
  <1>5. n \in 0..n
    BY <1>1
  <1> QED BY <1>2, <1>3, <1>4, <1>5

(* Items of one context are still of one. *)
LEMMA RecastKeys ==
  ASSUME NEW x, NEW y, NEW u, NEW v, NEW a, NEW g, Recast(x, y, a, g), Recast(u, v, a, g),
         DedupKey(u) = DedupKey(x)
  PROVE  DedupKey(v) = DedupKey(y)
  <1>1. u.kind = x.kind /\ u.event = x.event /\ u.role = x.role /\ u.tool = x.tool
    BY DEF DedupKey
  <1>2. /\ y.kind = x.kind /\ y.session = a /\ y.event = x.event /\ y.role = x.role
        /\ y.tool = IF x.kind = "tool_result" THEN g ELSE x.tool
    BY DEF Recast, RecastItem
  <1>3. /\ v.kind = u.kind /\ v.session = a /\ v.event = u.event /\ v.role = u.role
        /\ v.tool = IF u.kind = "tool_result" THEN g ELSE u.tool
    BY DEF Recast, RecastItem
  <1> QED BY <1>1, <1>2, <1>3 DEF DedupKey

(* Items that records have are such under any session and tool. *)
LEMMA RecastOrderly ==
  ASSUME NEW s, NEW t, NEW a, NEW g, Recasts(s, t, a, g), Orderly(s)
  PROVE  Orderly(t)
  <1>1. FieldsOf(t) = FieldsOf(s)
    BY RecastFields
  <1>2. DOMAIN s = 1..Len(s) /\ DOMAIN t = 1..Len(s) /\ Len(s) \in Nat
    BY SeqIs DEF Recasts
  <1>3. \A i \in DOMAIN s : Recast(s[i], t[i], a, g)
    BY <1>2 DEF Recasts
  <1>4. \A i \in DOMAIN s : /\ t[i].path = s[i].path /\ t[i].kind = s[i].kind
                            /\ t[i].text = s[i].text
                            /\ Deduplicated(t[i]) <=> Deduplicated(s[i])
    <2> SUFFICES ASSUME NEW i \in DOMAIN s
                 PROVE  /\ t[i].path = s[i].path /\ t[i].kind = s[i].kind
                        /\ t[i].text = s[i].text
                        /\ Deduplicated(t[i]) <=> Deduplicated(s[i])
      OBVIOUS
    <2>1. PICK x, y : x = s[i] /\ y = t[i]
      OBVIOUS
    <2>2. Recast(x, y, a, g)
      BY <1>3, <2>1
    <2> QED BY <2>1, <2>2, RecastIs
  <1>5. \A i, j \in DOMAIN s : DedupKey(s[j]) = DedupKey(s[i]) => DedupKey(t[j]) = DedupKey(t[i])
    <2> SUFFICES ASSUME NEW i \in DOMAIN s, NEW j \in DOMAIN s, DedupKey(s[j]) = DedupKey(s[i])
                 PROVE  DedupKey(t[j]) = DedupKey(t[i])
      OBVIOUS
    <2>1. PICK x, y, u, v : x = s[i] /\ y = t[i] /\ u = s[j] /\ v = t[j]
      OBVIOUS
    <2>2. Recast(x, y, a, g) /\ Recast(u, v, a, g) /\ DedupKey(u) = DedupKey(x)
      BY <1>3, <2>1
    <2>3. DedupKey(v) = DedupKey(y)
      BY ONLY <2>2, RecastKeys
    <2> QED BY <2>1, <2>3
  <1> DEFINE fields == FieldsOf(s)
             said == Distinct(fields)
  <1>6. /\ \A n \in DOMAIN fields :
              n > 1 /\ Deduplicated(fields[n - 1]) /\ ~Deduplicated(fields[n]) =>
                  n > 2 /\ Deduplicated(fields[n - 2])
        /\ \A n \in DOMAIN said :
              n > 1 /\ said[n].path # <<>> => said[n].path # said[n - 1].path
    BY DEF Orderly
  <1>7. \A i \in DOMAIN t :
              /\ t[i].text # <<>>
              /\ i > 1 /\ t[i].path = t[i - 1].path /\ t[i].path # <<>> =>
                    t[i].kind = t[i - 1].kind
              /\ Deduplicated(t[i]) => t[i].path # <<>>
              /\ \A j \in DOMAIN t :
                    Deduplicated(t[i]) /\ t[j].kind = t[i].kind =>
                        DedupKey(t[j]) = DedupKey(t[i])
    <2> SUFFICES ASSUME NEW i \in DOMAIN t
                 PROVE  /\ t[i].text # <<>>
                        /\ i > 1 /\ t[i].path = t[i - 1].path /\ t[i].path # <<>> =>
                              t[i].kind = t[i - 1].kind
                        /\ Deduplicated(t[i]) => t[i].path # <<>>
                        /\ \A j \in DOMAIN t :
                              Deduplicated(t[i]) /\ t[j].kind = t[i].kind =>
                                  DedupKey(t[j]) = DedupKey(t[i])
      OBVIOUS
    <2>1. i \in DOMAIN s /\ DOMAIN t = DOMAIN s
      BY <1>2
    <2>2. /\ s[i].text # <<>>
          /\ i > 1 /\ s[i].path = s[i - 1].path /\ s[i].path # <<>> => s[i].kind = s[i - 1].kind
          /\ Deduplicated(s[i]) => s[i].path # <<>>
          /\ \A j \in DOMAIN s :
                Deduplicated(s[i]) /\ s[j].kind = s[i].kind => DedupKey(s[j]) = DedupKey(s[i])
      BY <2>1 DEF Orderly
    <2>3. i > 1 => i - 1 \in DOMAIN s
      BY <1>2, <2>1
    <2>4. i > 1 => t[i - 1].path = s[i - 1].path /\ t[i - 1].kind = s[i - 1].kind
      BY <1>4, <2>3
    <2>5. /\ t[i].path = s[i].path /\ t[i].kind = s[i].kind /\ t[i].text = s[i].text
          /\ Deduplicated(t[i]) <=> Deduplicated(s[i])
      BY <1>4, <2>1
    <2>6. ASSUME NEW j \in DOMAIN t, Deduplicated(t[i]), t[j].kind = t[i].kind
          PROVE  DedupKey(t[j]) = DedupKey(t[i])
      <3>1. j \in DOMAIN s
        BY <2>1
      <3>2. t[j].kind = s[j].kind
        BY <1>4, <3>1
      <3>3. DedupKey(s[j]) = DedupKey(s[i])
        BY ONLY <2>2, <2>5, <2>6, <3>1, <3>2
      <3> QED BY ONLY <1>5, <2>1, <3>1, <3>3
    <2>7. t[i].text # <<>> /\ (Deduplicated(t[i]) => t[i].path # <<>>)
      BY ONLY <2>2, <2>5
    <2>8. i > 1 /\ t[i].path = t[i - 1].path /\ t[i].path # <<>> => t[i].kind = t[i - 1].kind
      BY ONLY <2>2, <2>4, <2>5
    <2> QED BY ONLY <2>6, <2>7, <2>8
  <1> HIDE DEF fields, said
  <1>8. PICK F, S : F = fields /\ S = said
    OBVIOUS
  <1>9. FieldsOf(t) = fields /\ Distinct(fields) = said
    BY <1>1 DEF fields, said
  <1> QED BY ONLY <1>6, <1>7, <1>9 DEF Orderly

(* The chunks of orderly items say their fields, each once, in pieces. *)
LEMMA ChunksSay ==
  ASSUME NEW items, IsSeq(items), NEW a,
         \A i \in 1..Len(items) : items[i] = ItemWith(items[i], a) /\ IsSeq(items[i].text),
         Orderly(items), NEW line
  PROVE  /\ IsSeq(ChunksOf(items, line)) /\ Lined(ChunksOf(items, line), line)
         /\ SaidOf(ChunksOf(items, line)) = CutsOf(Distinct(FieldsOf(items)))
  <1>1. Twins(items, items, a, a)
    BY DEF Twins, Twin
  <1>2. PICK kept : kept = Deduplicate(items)
    OBVIOUS
  <1>3. Twins(kept, kept, a, a)
    BY <1>1, <1>2, TwinDeduplicate
  <1>4. IsSeq(kept) /\ \A i \in 1..Len(kept) : IsSeq(kept[i].text)
    BY ONLY <1>3 DEF Twins, Twin
  <1>5. SaidOf(Chunked(kept, line)) = CutsOf(FieldsOf(kept))
    BY ONLY <1>4, ChunkedSays
  <1>6. \A i \in 1..Len(items) : IsItem(items[i])
    <2> SUFFICES ASSUME NEW i \in 1..Len(items) PROVE IsItem(items[i])
      OBVIOUS
    <2>1. PICK x : x = items[i]
      OBVIOUS
    <2>2. x = ItemWith(x, a) /\ IsSeq(x.text)
      BY <2>1
    <2>3. x.session = a
      BY ONLY <2>2 DEF ItemWith
    <2> QED BY ONLY <2>1, <2>2, <2>3 DEF IsItem
  <1>7. FieldsOf(kept) = Distinct(FieldsOf(items))
    BY <1>2, <1>6, DeduplicatedSays
  <1>8. ChunksOf(items, line) = Chunked(kept, line)
    BY <1>2 DEF ChunksOf
  <1>9. IsSeq(ChunksOf(items, line)) /\ Lined(ChunksOf(items, line), line)
    BY ONLY <1>1, ChunksLined
  <1> QED BY ONLY <1>5, <1>7, <1>8, <1>9

(* No items are recast as no items, *)
LEMMA RecastsEmpty == \A a, g : Recasts(<<>>, <<>>, a, g)
  <1>1. IsSeq(<<>>)
    BY EmptyIs
  <1>2. Len(<<>>) = 0
    OBVIOUS
  <1> QED BY <1>1, <1>2 DEF Recasts

(* tables of items item by item, *)
LEMMA RecastsTable ==
  ASSUME NEW a, NEW g, NEW n \in Nat, NEW f, NEW h,
         f = [i \in 1..n |-> f[i]], h = [i \in 1..n |-> h[i]],
         \A i \in 1..n : Recast(f[i], h[i], a, g)
  PROVE  Recasts(f, h, a, g)
  <1>1. IsSeq(f) /\ Len(f) = n /\ IsSeq(h) /\ Len(h) = n
    BY TableIs
  <1> QED BY <1>1 DEF Recasts

(* and what follows what is recast if it is too. *)
LEMMA RecastsConcat ==
  ASSUME NEW a, NEW g, NEW s, NEW t, Recasts(s, t, a, g), NEW p, NEW q, Recasts(p, q, a, g)
  PROVE  Recasts(s \o p, t \o q, a, g)
  <1>1. PICK u, v : u = s \o p /\ v = t \o q
    OBVIOUS
  <1>2. PICK m, n : /\ m = Len(s) /\ m = Len(t) /\ m \in Nat
                    /\ n = Len(p) /\ n = Len(q) /\ n \in Nat
    BY SeqIs DEF Recasts
  <1>3. /\ IsSeq(u) /\ Len(u) = m + n
        /\ \A i \in 1..m : u[i] = s[i]
        /\ \A i \in 1..n : u[m + i] = p[i]
    BY <1>1, <1>2, ConcatIs DEF Recasts
  <1>4. /\ IsSeq(v) /\ Len(v) = m + n
        /\ \A i \in 1..m : v[i] = t[i]
        /\ \A i \in 1..n : v[m + i] = q[i]
    <2>1. IsSeq(t) /\ IsSeq(q)
      BY DEF Recasts
    <2> QED BY ONLY <1>1, <1>2, <2>1, ConcatIs
  <1>5. ASSUME NEW i \in 1..(m + n) PROVE Recast(u[i], v[i], a, g)
    <2>1. CASE i \in 1..m
      BY <1>2, <1>3, <1>4, <2>1 DEF Recasts
    <2>2. CASE i \notin 1..m
      <3>1. PICK j \in 1..n : i = m + j
        <4>1. i - m \in 1..n /\ i = m + (i - m)
          BY <1>2, <2>2
        <4> QED BY <4>1
      <3>2. u[i] = p[j] /\ v[i] = q[j]
        BY <1>3, <1>4, <3>1
      <3>3. Recast(p[j], q[j], a, g)
        BY <1>2 DEF Recasts
      <3> QED BY <3>2, <3>3
    <2> QED BY <2>1, <2>2
  <1>6. Recasts(u, v, a, g)
    BY ONLY <1>3, <1>4, <1>5 DEF Recasts
  <1> QED BY <1>1, <1>6

(* Sequences of them flatten into such. *)
LEMMA RecastFlatten ==
  ASSUME NEW a, NEW b, NEW n \in Nat, NEW s, NEW t,
         s = [i \in 1..n |-> s[i]], t = [i \in 1..n |-> t[i]],
         \A i \in 1..n : Recasts(s[i], t[i], a, b)
  PROVE  Recasts(FlattenSeq(s), FlattenSeq(t), a, b)
  <1>1. Len(s) = n /\ Len(t) = n
    BY TableIs
  <1>2. CASE n = 0
    <2>1. s = <<>> /\ t = <<>>
      BY <1>2
    <2>2. FlattenSeq(s) = s /\ FlattenSeq(t) = t
      BY <1>1, <1>2, FlattenSteps
    <2> QED BY <2>1, <2>2, RecastsEmpty
  <1>3. CASE n # 0
    <2> DEFINE g == Flattening(s)
               h == Flattening(t)
               B == {i \in 1..n : ~Recasts(g[i], h[i], a, b)}
    <2>1. /\ FlattenSeq(s) = g[n] /\ IsFlattening(g, s, n)
          /\ FlattenSeq(t) = h[n] /\ IsFlattening(h, t, n)
      BY <1>1, <1>3, FlattenSteps
    <2> HIDE DEF g, h
    <2>2. /\ \A i \in 1..n : g[i] = IF i = 1 THEN s[i] ELSE g[i - 1] \o s[i]
          /\ \A i \in 1..n : h[i] = IF i = 1 THEN t[i] ELSE h[i - 1] \o t[i]
      BY <2>1 DEF IsFlattening
    <2>3. B = {}
      <3> SUFFICES ASSUME B # {} PROVE FALSE
        OBVIOUS
      <3>1. PICK i \in B : \A j \in B : i <= j
        <4>1. B \in SUBSET Nat
          OBVIOUS
        <4> HIDE DEF B
        <4> QED BY <4>1, Smallest
      <3>2. i # 1
        <4>1. g[1] = s[1] /\ h[1] = t[1] /\ 1 \in 1..n
          BY <1>3, <2>2
        <4> QED BY <4>1
      <3>3. i - 1 \in 1..n /\ i - 1 \notin B /\ i \in 1..n
        BY <3>1, <3>2
      <3>4. Recasts(g[i - 1], h[i - 1], a, b) /\ Recasts(s[i], t[i], a, b)
        BY <3>3
      <3>5. g[i] = g[i - 1] \o s[i] /\ h[i] = h[i - 1] \o t[i]
        BY <2>2, <3>2, <3>3
      <3>6. Recasts(g[i], h[i], a, b)
        BY <3>4, <3>5, RecastsConcat
      <3> QED BY <3>1, <3>6
    <2>4. Recasts(g[n], h[n], a, b)
      BY <1>3, <2>3
    <2> QED BY <2>1, <2>4
  <1> QED BY <1>2, <1>3

(* Fragments are emitted recast if results are all that the tool differs of, *)
RecastTool(o, r, t, u, g) ==
    /\ FieldKind(o, r, u) = FieldKind(o, r, t)
    /\ u = IF FieldKind(o, r, t) = "tool_result" THEN g ELSE t

(* So is what is emitted of them. *)
LEMMA RecastEmit ==
  ASSUME NEW a, NEW b, NEW e, NEW f, Texts(f), NEW o, NEW r, NEW t, NEW u, NEW g,
         RecastTool(o, r, t, u, g)
  PROVE  Recasts(Emit(f, o, r, t, ContextOf(a, e)), Emit(f, o, r, u, ContextOf(b, e)), b, g)
  <1>1. PICK c : c = Among(f, {x \in Range(f) : ~IsBlank(x.text)})
    OBVIOUS
  <1>2. Texts(c)
    BY <1>1, AmongTexts
  <1>3. PICK n : n = Len(c)
    OBVIOUS
  <1>4. n \in Nat /\ DOMAIN c = 1..n
    BY <1>2, <1>3, SeqIs DEF Texts
  <1> DEFINE v == [i \in 1..n |-> Item(c[i].text, c[i].path, o, r, t, ContextOf(a, e))]
             w == [i \in 1..n |-> Item(c[i].text, c[i].path, o, r, u, ContextOf(b, e))]
  <1>5. /\ Emit(f, o, r, t, ContextOf(a, e)) = v
        /\ Emit(f, o, r, u, ContextOf(b, e)) = w
    BY <1>1, <1>4 DEF Emit
  <1>6. ASSUME NEW i \in 1..n PROVE Recast(v[i], w[i], b, g)
    <2>1. IsSeq(c[i].text)
      BY <1>2, <1>3, <1>6 DEF Texts
    <2>2. /\ v[i] = Item(c[i].text, c[i].path, o, r, t, ContextOf(a, e))
          /\ w[i] = Item(c[i].text, c[i].path, o, r, u, ContextOf(b, e))
      OBVIOUS
    <2> HIDE DEF v, w
    <2>3. PICK k : k = FieldKind(o, r, t) /\ k = FieldKind(o, r, u)
      BY DEF RecastTool
    <2>4. u = IF k = "tool_result" THEN g ELSE t
      BY <2>3 DEF RecastTool
    <2>5. PICK x, y : x = v[i] /\ y = w[i]
      OBVIOUS
    <2>6. x = [text |-> c[i].text, path |-> c[i].path, kind |-> k, role |-> r, tool |-> t,
               session |-> a, event |-> e]
      BY ONLY <2>2, <2>3, <2>5 DEF Item, ContextOf
    <2>7. y = [text |-> c[i].text, path |-> c[i].path, kind |-> k, role |-> r, tool |-> u,
               session |-> b, event |-> e]
      BY ONLY <2>2, <2>3, <2>5 DEF Item, ContextOf
    <2>8. y = RecastItem(x, b, g) /\ x.text = c[i].text
      BY ONLY <2>4, <2>6, <2>7 DEF RecastItem
    <2> QED BY ONLY <2>1, <2>5, <2>8 DEF Recast
  <1>7. v = [i \in 1..n |-> v[i]] /\ w = [i \in 1..n |-> w[i]]
    OBVIOUS
  <1> HIDE DEF v, w
  <1>8. Recasts(v, w, b, g)
    BY <1>4, <1>6, <1>7, RecastsTable
  <1> QED BY <1>5, <1>8

(* and so are names. *)
LEMMA RecastEmitName ==
  ASSUME NEW a, NEW b, NEW e, NEW name, NEW g
  PROVE  Recasts(EmitName(name, ContextOf(a, e)), EmitName(name, ContextOf(b, e)), b, g)
  <1>1. CASE name = None
    <2>1. \A c : EmitName(name, c) = <<>>
      BY <1>1 DEF EmitName
    <2> QED BY <2>1, RecastsEmpty
  <1>2. CASE name # None
    <2>1. PICK x, y : /\ x = Item(<<name>>, <<>>, None, "tool", name, ContextOf(a, e))
                      /\ y = Item(<<name>>, <<>>, None, "tool", name, ContextOf(b, e))
      OBVIOUS
    <2>2. FieldKind(None, "tool", name) = "tool_call"
      BY <1>2 DEF FieldKind
    <2>3. PICK t : t = <<name>>
      OBVIOUS
    <2>4. IsSeq(t) /\ Len(t) = 1
      <3>1. <<name>> \in Seq({name}) /\ Len(<<name>>) = 1
        OBVIOUS
      <3> QED BY <2>3, <3>1, TypedSeq
    <2>5. /\ x = [text |-> t, path |-> <<>>, kind |-> "tool_call", role |-> "tool",
                  tool |-> name, session |-> a, event |-> e]
          /\ y = [text |-> t, path |-> <<>>, kind |-> "tool_call", role |-> "tool",
                  tool |-> name, session |-> b, event |-> e]
      BY ONLY <2>1, <2>2, <2>3 DEF Item, ContextOf
    <2>6. Recast(x, y, b, g)
      BY ONLY <2>4, <2>5 DEF Recast, RecastItem
    <2> DEFINE v == [i \in 1..1 |-> x]
               w == [i \in 1..1 |-> y]
    <2>7. <<x>> = v /\ <<y>> = w
      OBVIOUS
    <2>8. /\ v = [i \in 1..1 |-> v[i]] /\ w = [i \in 1..1 |-> w[i]]
          /\ \A i \in 1..1 : Recast(v[i], w[i], b, g)
      BY <2>6
    <2> HIDE DEF v, w
    <2>9. 1 \in Nat
      OBVIOUS
    <2>10. Recasts(v, w, b, g)
      BY ONLY <2>8, <2>9, RecastsTable
    <2>11. EmitName(name, ContextOf(a, e)) = <<x>> /\ EmitName(name, ContextOf(b, e)) = <<y>>
      BY <1>2, <2>1 DEF EmitName
    <2> QED BY <2>7, <2>10, <2>11
  <1> QED BY <1>1, <1>2

(* Messages, calls and results differ in no tool, but for the results'. *)
LEMMA MessageTool ==
  ASSUME NEW r, r # "tool", NEW g
  PROVE  RecastTool(None, r, None, None, g)
  <1>1. FieldKind(None, r, None) = "message"
    BY DEF FieldKind
  <1> QED BY <1>1 DEF RecastTool

(* A call has a name, so that the tool of a session makes no difference; *)
LEMMA CallTool ==
  ASSUME NEW name, NEW g
  PROVE  RecastTool(None, "tool", OrDefault(name), OrDefault(name), g)
  <1>1. OrDefault(name) # None
    <2>1. "" # "none"
      BY Zenon
    <2> QED BY <2>1, Zenon DEF OrDefault, None
  <1>2. PICK t : t = OrDefault(name)
    OBVIOUS
  <1>3. FieldKind(None, "tool", t) = "tool_call"
    BY <1>1, <1>2 DEF FieldKind
  <1>4. RecastTool(None, "tool", t, t, g)
    BY ONLY <1>3 DEF RecastTool
  <1> QED BY <1>2, <1>4

(* the tool that a result names is that of the session. *)
LEMMA ResultsTool ==
  ASSUME NEW t, NEW g
  PROVE  RecastTool("tool_result", "tool", t, g, g)
  <1>1. \A u : FieldKind("tool_result", "tool", u) = "tool_result"
    BY DEF FieldKind, None
  <1> QED BY <1>1 DEF RecastTool

(* The items of a Claude fragment are recast, if its result is of no own call, *)
LEMMA RecastClaudeItems ==
  ASSUME NEW a, NEW b, NEW e, NEW s, s.role # "tool", NEW f, NEW x, IsSeq(x.text), NEW call,
         call = OrElse(BlockScalar(s, f, "tool_result", "tool_use_id"), s.toolUse),
         NEW y, NEW z, ~OwnResult(y, call), ~OwnResult(z, call), NEW g, g = ResultTool(z, call)
  PROVE  Recasts(ClaudeItems(s, f, y, ContextOf(a, e), x),
                 ClaudeItems(s, f, z, ContextOf(b, e), x), b, g)
  <1>1. PICK c, d : c = ContextOf(a, e) /\ d = ContextOf(b, e)
    OBVIOUS
  <1>2. Texts(<<x>>)
    <2>1. <<x>> \in Seq({x}) /\ Len(<<x>>) = 1 /\ <<x>>[1] = x
      OBVIOUS
    <2>2. IsSeq(<<x>>)
      BY <2>1, TypedSeq
    <2> QED BY <2>1, <2>2 DEF Texts
  <1>3. PICK w : w = <<x>> /\ Texts(w)
    BY <1>2
  <1>4. PICK name : name = OrDefault(BlockScalar(s, f, "tool_use", "name"))
    OBVIOUS
  <1>5. Recasts(Emit(w, None, s.role, None, c), Emit(w, None, s.role, None, d), b, g)
    <2>1. PICK r : r = s.role /\ r # "tool"
      OBVIOUS
    <2>2. RecastTool(None, r, None, None, g)
      BY ONLY <2>1, MessageTool
    <2>3. Recasts(Emit(w, None, r, None, ContextOf(a, e)), Emit(w, None, r, None, ContextOf(b,
           e)),
                  b, g)
      BY ONLY <1>3, <2>2, RecastEmit
    <2> QED BY ONLY <1>1, <2>1, <2>3
  <1>6. Recasts(Emit(w, None, "tool", name, c), Emit(w, None, "tool", name, d), b, g)
    <2>1. RecastTool(None, "tool", name, name, g)
      BY ONLY <1>4, CallTool
    <2>2. Recasts(Emit(w, None, "tool", name, ContextOf(a, e)),
                  Emit(w, None, "tool", name, ContextOf(b, e)), b, g)
      BY ONLY <1>3, <2>1, RecastEmit
    <2> QED BY ONLY <1>1, <2>2
  <1>7. PICK h : h = ResultTool(y, call)
    OBVIOUS
  <1>8. Recasts(Emit(w, "tool_result", "tool", h, c), Emit(w, "tool_result", "tool", g, d), b, g)
    <2>1. RecastTool("tool_result", "tool", h, g, g)
      BY ONLY ResultsTool
    <2>2. Recasts(Emit(w, "tool_result", "tool", h, ContextOf(a, e)),
                  Emit(w, "tool_result", "tool", g, ContextOf(b, e)), b, g)
      BY ONLY <1>3, <2>1, RecastEmit
    <2> QED BY ONLY <1>1, <2>2
  <1>9. Recasts(<<>>, <<>>, b, g)
    BY RecastsEmpty
  <1>10. Recasts(ClaudeItems(s, f, y, c, x), ClaudeItems(s, f, z, d, x), b, g)
    <2> DEFINE keys == KeysOf(x.path)
               block == IF Len(keys) >= 3 /\ Starts(x, <<"message", "content">>)
                        THEN InnermostType(s, x.path) ELSE None
               isText == (keys = <<"message", "content">> /\ s.role # "tool") \/ block = "text"
               isUse == block = "tool_use" /\ \E i \in DOMAIN keys : keys[i] = "input"
               isResult == /\ block = "tool_result" /\ \E i \in DOMAIN keys : keys[i] = "content"
               Of(own, tool, t) ==
                   CASE isText -> Emit(w, None, s.role, None, t)
                     [] isUse -> Emit(w, None, "tool", name, t)
                     [] isResult /\ ~own -> Emit(w, "tool_result", "tool", tool, t)
                     [] OTHER -> <<>>
    <2>1. /\ ClaudeItems(s, f, y, c, x) = Of(OwnResult(y, call), h, c)
          /\ ClaudeItems(s, f, z, d, x) = Of(OwnResult(z, call), g, d)
      BY <1>3, <1>4, <1>7 DEF ClaudeItems
    <2>2. ~(isText /\ isUse) /\ ~(isText /\ isResult) /\ ~(isUse /\ isResult)
      <3>1. keys = <<"message", "content">> => Len(keys) = 2
        OBVIOUS
      <3>2. keys = <<"message", "content">> => block = None
        <4> HIDE DEF keys
        <4> QED BY <3>1
      <3> HIDE DEF keys, block
      <3> QED BY <3>2 DEF None
    <2> HIDE DEF isText, isUse, isResult
    <2>3. PICK u, v : u = ClaudeItems(s, f, y, c, x) /\ v = ClaudeItems(s, f, z, d, x)
      OBVIOUS
    <2>4. isText => u = Emit(w, None, s.role, None, c) /\ v = Emit(w, None, s.role, None, d)
      BY <2>1, <2>2, <2>3
    <2>5. isUse => u = Emit(w, None, "tool", name, c) /\ v = Emit(w, None, "tool", name, d)
      BY <2>1, <2>2, <2>3
    <2>6. isResult => /\ u = Emit(w, "tool_result", "tool", h, c)
                      /\ v = Emit(w, "tool_result", "tool", g, d)
      BY <2>1, <2>2, <2>3
    <2>7. ~isText /\ ~isUse /\ ~isResult => u = <<>> /\ v = <<>>
      BY <2>1, <2>3
    <2> HIDE DEF Of
    <2>8. Recasts(u, v, b, g)
      BY ONLY <1>5, <1>6, <1>8, <1>9, <2>4, <2>5, <2>6, <2>7, Zenon
    <2> QED BY <2>3, <2>8
  <1> QED BY <1>1, <1>10

(* those of a Codex record, *)
LEMMA RecastNormalizeCodex ==
  ASSUME NEW a, NEW b, NEW e, NEW s, NEW f, Texts(f), NEW y, NEW z,
         FieldAt(f, <<"payload", "type">>)
                 \in {"function_call_output", "custom_tool_call_output"} =>
             ~OwnResult(y, s.call) /\ ~OwnResult(z, s.call),
         NEW g, g = ResultTool(z, s.call)
  PROVE  Recasts(NormalizeCodex(s, f, y, ContextOf(a, e)).items,
                 NormalizeCodex(s, f, z, ContextOf(b, e)).items, b, g)
  <1>1. PICK c, d : c = ContextOf(a, e) /\ d = ContextOf(b, e)
    OBVIOUS
  <1> DEFINE payload == FieldAt(f, <<"payload", "type">>)
             argument == {x \in Range(f) : \/ Starts(x, <<"payload", "arguments">>)
                                          \/ Starts(x, <<"payload", "input">>)}
             output == {x \in Range(f) : Starts(x, <<"payload", "output">>)}
             text == {x \in Range(f) : CodexText(s, x)}
             isMeta == s.kind \in {"session_meta", "turn_context", None}
             isMessage == s.kind = "response_item" /\ payload = "message"
             isCall == /\ s.kind = "response_item"
                       /\ payload \in {"function_call", "custom_tool_call"}
             isOutput == /\ s.kind = "response_item"
                         /\ payload \in {"function_call_output", "custom_tool_call_output"}
             shown == s.role \in {"user", "assistant"} /\ s.channel # "analysis"
             name == OrDefault(s.name)
             said(t) == IF shown THEN Emit(Among(f, text), None, s.role, None, t) ELSE <<>>
             use(t) == EmitName(s.name, t) \o Emit(Among(f, argument), None, "tool", name, t)
             got(v, t) == IF OwnResult(v, s.call) THEN <<>>
                          ELSE Emit(Among(f, output), "tool_result", "tool",
                                    ResultTool(v, s.call), t)
             called(v) == RegisterCall(v, s.call, s.name)
             Of(v, t) == CASE isMeta -> Outcome3(<<>>, v, 0)
                           [] isMessage -> Outcome3(said(t), v, 0)
                           [] isCall -> Outcome3(use(t), called(v), 0)
                           [] isOutput -> Outcome3(got(v, t), v, 0)
                           [] OTHER -> Outcome3(<<>>, v, 1)
  <1>2. NormalizeCodex(s, f, y, c) = Of(y, c) /\ NormalizeCodex(s, f, z, d) = Of(z, d)
    BY DEF NormalizeCodex
  <1>3. /\ ~(isMeta /\ isMessage) /\ ~(isMeta /\ isCall) /\ ~(isMeta /\ isOutput)
        /\ ~(isMessage /\ isCall) /\ ~(isMessage /\ isOutput) /\ ~(isCall /\ isOutput)
    <2> HIDE DEF payload
    <2> QED BY DEF None
  <1>4. isOutput => ~OwnResult(y, s.call) /\ ~OwnResult(z, s.call)
    OBVIOUS
  <1>5. Recasts(<<>>, <<>>, b, g)
    BY RecastsEmpty
  <1>6. \A S : Texts(Among(f, S))
    BY AmongTexts
  <1>7. \A i, j, v : Outcome3(i, v, j).items = i
    BY DEF Outcome3
  <1> HIDE DEF isMeta, isMessage, isCall, isOutput, argument, output, text
  <1>8. Recasts(said(c), said(d), b, g)
    <2>1. CASE shown
      <3>1. PICK w, r : w = Among(f, text) /\ Texts(w) /\ r = s.role
        BY <1>6
      <3>2. r # "tool"
        BY <2>1, <3>1
      <3>3. RecastTool(None, r, None, None, g)
        BY ONLY <3>2, MessageTool
      <3>4. Recasts(Emit(w, None, r, None, ContextOf(a, e)),
                    Emit(w, None, r, None, ContextOf(b, e)), b, g)
        BY ONLY <3>1, <3>3, RecastEmit
      <3>5. said(c) = Emit(w, None, r, None, c) /\ said(d) = Emit(w, None, r, None, d)
        BY <2>1, <3>1
      <3> QED BY ONLY <1>1, <3>4, <3>5
    <2>2. CASE ~shown
      <3>1. said(c) = <<>> /\ said(d) = <<>>
        BY <2>2
      <3> QED BY ONLY <1>5, <3>1
    <2> QED BY <2>1, <2>2
  <1>9. Recasts(use(c), use(d), b, g)
    <2>1. Recasts(EmitName(s.name, c), EmitName(s.name, d), b, g)
      BY <1>1, RecastEmitName
    <2>2. PICK w : w = Among(f, argument) /\ Texts(w)
      BY <1>6
    <2>3. PICK n : n = name
      OBVIOUS
    <2>4. RecastTool(None, "tool", n, n, g)
      BY <2>3, CallTool
    <2>5. Recasts(Emit(w, None, "tool", n, ContextOf(a, e)),
                  Emit(w, None, "tool", n, ContextOf(b, e)), b, g)
      BY ONLY <2>2, <2>4, RecastEmit
    <2>6. Recasts(Emit(w, None, "tool", n, c), Emit(w, None, "tool", n, d), b, g)
      BY ONLY <1>1, <2>5
    <2>7. /\ use(c) = EmitName(s.name, c) \o Emit(w, None, "tool", n, c)
          /\ use(d) = EmitName(s.name, d) \o Emit(w, None, "tool", n, d)
      BY <2>2, <2>3
    <2> QED BY ONLY <2>1, <2>6, <2>7, RecastsConcat
  <1>10. isOutput => Recasts(got(y, c), got(z, d), b, g)
    <2> SUFFICES ASSUME isOutput PROVE Recasts(got(y, c), got(z, d), b, g)
      OBVIOUS
    <2>1. PICK w, h : w = Among(f, output) /\ Texts(w) /\ h = ResultTool(y, s.call)
      BY <1>6
    <2>2. RecastTool("tool_result", "tool", h, g, g)
      BY ONLY ResultsTool
    <2>3. Recasts(Emit(w, "tool_result", "tool", h, ContextOf(a, e)),
                  Emit(w, "tool_result", "tool", g, ContextOf(b, e)), b, g)
      BY ONLY <2>1, <2>2, RecastEmit
    <2>4. /\ got(y, c) = Emit(w, "tool_result", "tool", h, c)
          /\ got(z, d) = Emit(w, "tool_result", "tool", g, d)
      BY <1>4, <2>1
    <2> QED BY ONLY <1>1, <2>3, <2>4
  <1> HIDE DEF said, use, got, called
  <1>11. PICK u, v : u = Of(y, c).items /\ v = Of(z, d).items
    OBVIOUS
  <1>12. Recasts(u, v, b, g)
    <2>1. CASE isMeta
      <3>1. u = <<>> /\ v = <<>>
        BY <1>3, <1>7, <1>11, <2>1
      <3> QED BY ONLY <1>5, <3>1
    <2>2. CASE isMessage
      <3>1. u = said(c) /\ v = said(d)
        BY <1>3, <1>7, <1>11, <2>2
      <3> QED BY ONLY <1>8, <3>1
    <2>3. CASE isCall
      <3>1. u = use(c) /\ v = use(d)
        BY <1>3, <1>7, <1>11, <2>3
      <3> QED BY ONLY <1>9, <3>1
    <2>4. CASE isOutput
      <3>1. u = got(y, c) /\ v = got(z, d)
        BY <1>3, <1>7, <1>11, <2>4
      <3> QED BY ONLY <1>10, <2>4, <3>1
    <2>5. CASE ~isMeta /\ ~isMessage /\ ~isCall /\ ~isOutput
      <3>1. u = <<>> /\ v = <<>>
        BY <1>7, <1>11, <2>5
      <3> QED BY ONLY <1>5, <3>1
    <2> QED BY <2>1, <2>2, <2>3, <2>4, <2>5
  <1> QED BY <1>1, <1>2, <1>11, <1>12

(* of a Copilot record, *)
LEMMA RecastNormalizeCopilot ==
  ASSUME NEW a, NEW b, NEW e, NEW s, NEW f, Texts(f), NEW y, NEW z,
         s.kind \in {"tool.execution_complete", "tool.complete", "tool_result", "tool.result"} =>
             ~OwnResult(y, s.call) /\ ~OwnResult(z, s.call),
         NEW g, g = ResultTool(z, s.call)
  PROVE  Recasts(NormalizeCopilot(s, f, y, ContextOf(a, e)).items,
                 NormalizeCopilot(s, f, z, ContextOf(b, e)).items, b, g)
  <1>1. PICK c, d : c = ContextOf(a, e) /\ d = ContextOf(b, e)
    OBVIOUS
  <1> DEFINE text == {x \in Range(f) : \/ Starts(x, <<"data", "content">>)
                                      \/ Starts(x, <<"content">>)}
             argument == {x \in Range(f) : \/ Starts(x, <<"data", "arguments">>)
                                          \/ Starts(x, <<"data", "input">>)}
             output == {x \in Range(f) : \/ Starts(x, <<"data", "result", "content">>)
                                        \/ Starts(x, <<"data", "result", "detailedContent">>)
                                        \/ Starts(x, <<"result", "content">>)}
             isMeta == s.kind \in {"session.start", "session.resume", "session.info"}
             isMessage == s.kind \in {"user.message", "assistant.message"}
             isCall == s.kind \in {"tool.execution_start", "tool.start", "tool_use", "tool.call"}
             isOutput == s.kind \in {"tool.execution_complete", "tool.complete", "tool_result",
                                     "tool.result"}
             role == IF s.kind = "user.message" THEN "user" ELSE "assistant"
             name == OrDefault(s.name)
             said(t) == Emit(Among(f, text), None, role, None, t)
             use(t) == EmitName(s.name, t) \o Emit(Among(f, argument), None, "tool", name, t)
             got(v, t) == IF OwnResult(v, s.call) THEN <<>>
                          ELSE Emit(Among(f, output), "tool_result", "tool",
                                    ResultTool(v, s.call), t)
             called(v) == RegisterCall(v, s.call, s.name)
             Of(v, t) == CASE isMeta -> Outcome3(<<>>, v, 0)
                           [] isMessage -> Outcome3(said(t), v, 0)
                           [] isCall -> Outcome3(use(t), called(v), 0)
                           [] isOutput -> Outcome3(got(v, t), v, 0)
                           [] OTHER -> Outcome3(<<>>, v, 1)
  <1>2. NormalizeCopilot(s, f, y, c) = Of(y, c) /\ NormalizeCopilot(s, f, z, d) = Of(z, d)
    BY DEF NormalizeCopilot
  <1>3. /\ ~(isMeta /\ isMessage) /\ ~(isMeta /\ isCall) /\ ~(isMeta /\ isOutput)
        /\ ~(isMessage /\ isCall) /\ ~(isMessage /\ isOutput) /\ ~(isCall /\ isOutput)
    OBVIOUS
  <1>4. isOutput => ~OwnResult(y, s.call) /\ ~OwnResult(z, s.call)
    OBVIOUS
  <1>5. Recasts(<<>>, <<>>, b, g)
    BY RecastsEmpty
  <1>6. \A S : Texts(Among(f, S))
    BY AmongTexts
  <1>7. \A i, j, v : Outcome3(i, v, j).items = i
    BY DEF Outcome3
  <1> HIDE DEF isMeta, isMessage, isCall, isOutput, argument, output, text
  <1>8. Recasts(said(c), said(d), b, g)
    <2>1. PICK w, r : w = Among(f, text) /\ Texts(w) /\ r = role
      BY <1>6
    <2>2. r # "tool"
      BY <2>1
    <2>3. RecastTool(None, r, None, None, g)
      BY ONLY <2>2, MessageTool
    <2>4. Recasts(Emit(w, None, r, None, ContextOf(a, e)),
                  Emit(w, None, r, None, ContextOf(b, e)), b, g)
      BY ONLY <2>1, <2>3, RecastEmit
    <2>5. said(c) = Emit(w, None, r, None, c) /\ said(d) = Emit(w, None, r, None, d)
      BY <2>1
    <2> QED BY ONLY <1>1, <2>4, <2>5
  <1>9. Recasts(use(c), use(d), b, g)
    <2>1. Recasts(EmitName(s.name, c), EmitName(s.name, d), b, g)
      BY <1>1, RecastEmitName
    <2>2. PICK w : w = Among(f, argument) /\ Texts(w)
      BY <1>6
    <2>3. PICK n : n = name
      OBVIOUS
    <2>4. RecastTool(None, "tool", n, n, g)
      BY <2>3, CallTool
    <2>5. Recasts(Emit(w, None, "tool", n, ContextOf(a, e)),
                  Emit(w, None, "tool", n, ContextOf(b, e)), b, g)
      BY ONLY <2>2, <2>4, RecastEmit
    <2>6. Recasts(Emit(w, None, "tool", n, c), Emit(w, None, "tool", n, d), b, g)
      BY ONLY <1>1, <2>5
    <2>7. /\ use(c) = EmitName(s.name, c) \o Emit(w, None, "tool", n, c)
          /\ use(d) = EmitName(s.name, d) \o Emit(w, None, "tool", n, d)
      BY <2>2, <2>3
    <2> QED BY ONLY <2>1, <2>6, <2>7, RecastsConcat
  <1>10. isOutput => Recasts(got(y, c), got(z, d), b, g)
    <2> SUFFICES ASSUME isOutput PROVE Recasts(got(y, c), got(z, d), b, g)
      OBVIOUS
    <2>1. PICK w, h : w = Among(f, output) /\ Texts(w) /\ h = ResultTool(y, s.call)
      BY <1>6
    <2>2. RecastTool("tool_result", "tool", h, g, g)
      BY ONLY ResultsTool
    <2>3. Recasts(Emit(w, "tool_result", "tool", h, ContextOf(a, e)),
                  Emit(w, "tool_result", "tool", g, ContextOf(b, e)), b, g)
      BY ONLY <2>1, <2>2, RecastEmit
    <2>4. /\ got(y, c) = Emit(w, "tool_result", "tool", h, c)
          /\ got(z, d) = Emit(w, "tool_result", "tool", g, d)
      BY <1>4, <2>1
    <2> QED BY ONLY <1>1, <2>3, <2>4
  <1> HIDE DEF said, use, got, called
  <1>11. PICK u, v : u = Of(y, c).items /\ v = Of(z, d).items
    OBVIOUS
  <1>12. Recasts(u, v, b, g)
    <2>1. CASE isMeta
      <3>1. u = <<>> /\ v = <<>>
        BY <1>3, <1>7, <1>11, <2>1
      <3> QED BY ONLY <1>5, <3>1
    <2>2. CASE isMessage
      <3>1. u = said(c) /\ v = said(d)
        BY <1>3, <1>7, <1>11, <2>2
      <3> QED BY ONLY <1>8, <3>1
    <2>3. CASE isCall
      <3>1. u = use(c) /\ v = use(d)
        BY <1>3, <1>7, <1>11, <2>3
      <3> QED BY ONLY <1>9, <3>1
    <2>4. CASE isOutput
      <3>1. u = got(y, c) /\ v = got(z, d)
        BY <1>3, <1>7, <1>11, <2>4
      <3> QED BY ONLY <1>10, <2>4, <3>1
    <2>5. CASE ~isMeta /\ ~isMessage /\ ~isCall /\ ~isOutput
      <3>1. u = <<>> /\ v = <<>>
        BY <1>7, <1>11, <2>5
      <3> QED BY ONLY <1>5, <3>1
    <2> QED BY <2>1, <2>2, <2>3, <2>4, <2>5
  <1> QED BY <1>1, <1>2, <1>11, <1>12

(* and of a Claude record. *)
LEMMA RecastNormalizeClaude ==
  ASSUME NEW a, NEW b, NEW e, NEW s, s.role # "tool", NEW f, Texts(f), NEW call,
         call = OrElse(BlockScalar(s, f, "tool_result", "tool_use_id"), s.toolUse),
         NEW y, NEW z, ~OwnResult(y, call), ~OwnResult(z, call), NEW g, g = ResultTool(z, call)
  PROVE  Recasts(NormalizeClaude(s, f, y, ContextOf(a, e)).items,
                 NormalizeClaude(s, f, z, ContextOf(b, e)).items, b, g)
  <1>1. PICK c, d : c = ContextOf(a, e) /\ d = ContextOf(b, e)
    OBVIOUS
  <1>2. PICK n : n = Len(f)
    OBVIOUS
  <1>3. n \in Nat /\ DOMAIN f = 1..n
    BY <1>2, SeqIs DEF Texts
  <1> DEFINE spent == HasType(s.types, "tool_use")
             name == BlockScalar(s, f, "tool_use", "name")
             id == BlockScalar(s, f, "tool_use", "id")
             isMessage == s.kind \in {"user", "assistant"}
             isOther == s.kind \in {"system", "summary", "progress",
                                    "file-history-snapshot", None}
             parts(v, t) == [i \in 1..n |-> ClaudeItems(s, f, v, t, f[i])]
             named(t) == IF spent THEN EmitName(name, t) ELSE <<>>
             said(v, t) == FlattenSeq(parts(v, t)) \o named(t)
             now(v) == IF spent THEN RegisterCall(v, id, name) ELSE v
             Of(v, t) == CASE isMessage -> Outcome3(said(v, t), now(v), 0)
                           [] isOther -> Outcome3(<<>>, v, 0)
                           [] OTHER -> Outcome3(<<>>, v, 1)
  <1>4. NormalizeClaude(s, f, y, c) = Of(y, c) /\ NormalizeClaude(s, f, z, d) = Of(z, d)
    BY <1>3 DEF NormalizeClaude
  <1>5. ~(isMessage /\ isOther)
    BY DEF None
  <1>6. Recasts(<<>>, <<>>, b, g)
    BY RecastsEmpty
  <1>7. \A i, j, v : Outcome3(i, v, j).items = i
    BY DEF Outcome3
  <1> HIDE DEF spent, name, id, isMessage, isOther, now
  <1>8. Recasts(FlattenSeq(parts(y, c)), FlattenSeq(parts(z, d)), b, g)
    <2>1. ASSUME NEW i \in 1..n PROVE Recasts(parts(y, c)[i], parts(z, d)[i], b, g)
      <3>1. IsSeq(f[i].text)
        BY <1>2 DEF Texts
      <3>2. PICK x : x = f[i]
        OBVIOUS
      <3>3. Recasts(ClaudeItems(s, f, y, c, x), ClaudeItems(s, f, z, d, x), b, g)
        BY <1>1, <3>1, <3>2, RecastClaudeItems
      <3> QED BY <3>2, <3>3
    <2>2. /\ parts(y, c) = [i \in 1..n |-> parts(y, c)[i]]
          /\ parts(z, d) = [i \in 1..n |-> parts(z, d)[i]]
      OBVIOUS
    <2>3. PICK p, q : p = parts(y, c) /\ q = parts(z, d)
      OBVIOUS
    <2> HIDE DEF parts
    <2>4. /\ p = [i \in 1..n |-> p[i]] /\ q = [i \in 1..n |-> q[i]]
          /\ \A i \in 1..n : Recasts(p[i], q[i], b, g)
      BY <2>1, <2>2, <2>3
    <2>5. Recasts(FlattenSeq(p), FlattenSeq(q), b, g)
      BY ONLY <1>3, <2>4, RecastFlatten
    <2> QED BY <2>3, <2>5
  <1> HIDE DEF parts
  <1>9. Recasts(named(c), named(d), b, g)
    <2>1. CASE spent
      <3>1. named(c) = EmitName(name, c) /\ named(d) = EmitName(name, d)
        BY <2>1
      <3> HIDE DEF named
      <3> QED BY <1>1, <3>1, RecastEmitName
    <2>2. CASE ~spent
      <3>1. named(c) = <<>> /\ named(d) = <<>>
        BY <2>2
      <3> QED BY ONLY <1>6, <3>1
    <2> QED BY <2>1, <2>2
  <1> HIDE DEF named
  <1>10. Recasts(said(y, c), said(z, d), b, g)
    BY <1>8, <1>9, RecastsConcat
  <1> HIDE DEF said
  <1>11. PICK u, v : u = Of(y, c).items /\ v = Of(z, d).items
    OBVIOUS
  <1>12. Recasts(u, v, b, g)
    <2>1. CASE isMessage
      <3>1. u = said(y, c) /\ v = said(z, d)
        BY <1>5, <1>7, <1>11, <2>1
      <3> QED BY ONLY <1>10, <3>1
    <2>2. CASE ~isMessage
      <3>1. u = <<>> /\ v = <<>>
        BY <1>7, <1>11, <2>2
      <3> QED BY ONLY <1>6, <3>1
    <2> QED BY <2>1, <2>2
  <1> QED BY <1>1, <1>4, <1>11, <1>12

(* A record says the same whatever was met before it, unless it is an own result. *)
LEMMA RecastNormalize ==
  ASSUME NEW provider \in {"codex", "claude", "copilot"}, NEW r,
         NEW f, f = FragmentsOf(r), Texts(f), NEW s, s = Summary(provider, f),
         provider = "claude" => s.role # "tool", NEW y, NEW z, NEW h, NEW k,
         NEW call, call = AnsweredCall(provider, r), ~OwnResult(y, call), ~OwnResult(z, call)
  PROVE  \E b, g : Recasts(Normalize(provider, s, f, y, h).items,
                           Normalize(provider, s, f, z, k).items, b, g)
  <1>1. PICK a, b, e : /\ a = OrElse(s.session, OrElse(h, "unknown"))
                       /\ b = OrElse(s.session, OrElse(k, "unknown")) /\ e = s.event
    OBVIOUS
  <1>2. PICK c, d : c = ContextOf(a, e) /\ d = ContextOf(b, e)
    OBVIOUS
  <1>3. CASE provider = "codex"
    <2>1. /\ Normalize(provider, s, f, y, h) = NormalizeCodex(s, f, y, c)
          /\ Normalize(provider, s, f, z, k) = NormalizeCodex(s, f, z, d)
      BY <1>1, <1>2, <1>3 DEF Normalize, ContextOf
    <2>2. FieldAt(f, <<"payload", "type">>)
                 \in {"function_call_output", "custom_tool_call_output"} =>
             ~OwnResult(y, s.call) /\ ~OwnResult(z, s.call)
      BY <1>3 DEF AnsweredCall
    <2>3. PICK g : g = ResultTool(z, s.call)
      OBVIOUS
    <2>4. Recasts(NormalizeCodex(s, f, y, ContextOf(a, e)).items,
                  NormalizeCodex(s, f, z, ContextOf(b, e)).items, b, g)
      BY <2>2, <2>3, RecastNormalizeCodex
    <2> QED BY <1>2, <2>1, <2>4
  <1>4. CASE provider = "claude"
    <2>1. /\ Normalize(provider, s, f, y, h) = NormalizeClaude(s, f, y, c)
          /\ Normalize(provider, s, f, z, k) = NormalizeClaude(s, f, z, d)
      BY <1>1, <1>2, <1>4 DEF Normalize, ContextOf
    <2>2. call = OrElse(BlockScalar(s, f, "tool_result", "tool_use_id"), s.toolUse)
      BY <1>4 DEF AnsweredCall
    <2>3. PICK g : g = ResultTool(z, call)
      OBVIOUS
    <2>4. Recasts(NormalizeClaude(s, f, y, ContextOf(a, e)).items,
                  NormalizeClaude(s, f, z, ContextOf(b, e)).items, b, g)
      BY <1>4, <2>2, <2>3, RecastNormalizeClaude
    <2> QED BY <1>2, <2>1, <2>4
  <1>5. CASE provider = "copilot"
    <2>1. /\ Normalize(provider, s, f, y, h) = NormalizeCopilot(s, f, y, c)
          /\ Normalize(provider, s, f, z, k) = NormalizeCopilot(s, f, z, d)
      BY <1>1, <1>2, <1>5 DEF Normalize, ContextOf
    <2>2. s.kind \in {"tool.execution_complete", "tool.complete", "tool_result",
           "tool.result"} =>
             ~OwnResult(y, s.call) /\ ~OwnResult(z, s.call)
      BY <1>5 DEF AnsweredCall
    <2>3. PICK g : g = ResultTool(z, s.call)
      OBVIOUS
    <2>4. Recasts(NormalizeCopilot(s, f, y, ContextOf(a, e)).items,
                  NormalizeCopilot(s, f, z, ContextOf(b, e)).items, b, g)
      BY <2>2, <2>3, RecastNormalizeCopilot
    <2> QED BY <1>2, <2>1, <2>4
  <1> QED BY <1>3, <1>4, <1>5

(***************************************************************************)
(* A call of an own tool is known only if a record makes it.               *)
(***************************************************************************)
(* What is inserted as another identifier is no own call; *)
LEMMA InsertOwns ==
  ASSUME NEW x, IdsOk(x), NEW kind, NEW id, NEW value, NEW call,
         OwnResult(InsertId(x, kind, id, value), call)
  PROVE  OwnResult(x, call) \/ (kind = "own_call" /\ id = call)
  <1>1. PICK u : u = InsertId(x, kind, id, value)
    OBVIOUS
  <1>2. Known(u) = IF HasKey(Known(x), IdKey(kind, id)) THEN Known(x)
                   ELSE Known(x) \cup {Pair(IdKey(kind, id), value)}
    BY <1>1, InsertIdOk
  <1>3. call # None /\ HasKey(Known(u), IdKey("own_call", call))
    BY <1>1 DEF OwnResult, HasId, Known
  <1>4. PICK z \in Known(u) : z.key = IdKey("own_call", call)
    BY <1>3 DEF HasKey
  <1>5. CASE z \in Known(x)
    BY <1>3, <1>4, <1>5 DEF OwnResult, HasId, HasKey, Known
  <1>6. CASE z \notin Known(x)
    <2>1. z = Pair(IdKey(kind, id), value)
      BY <1>2, <1>4, <1>6
    <2>2. IdKey(kind, id) = IdKey("own_call", call)
      BY <1>4, <2>1 DEF Pair
    <2>3. kind = "own_call" /\ id = call
      BY <2>2 DEF IdKey
    <2> QED BY <2>3
  <1> QED BY <1>5, <1>6

(* the registration of a call knows no other; *)
LEMMA RegisterOwns ==
  ASSUME NEW x, IdsOk(x), NEW id, NEW name, NEW call, OwnResult(RegisterCall(x, id, name), call)
  PROVE  OwnResult(x, call) \/ (id = call /\ name \in OwnTools)
  <1>1. PICK k, v : k = "tool_call" /\ v = OrDefault(name)
    OBVIOUS
  <1>2. PICK u : u = InsertId(x, k, id, v)
    OBVIOUS
  <1>3. PICK l, w : l = "own_call" /\ w = InsertId(u, l, id, name)
    OBVIOUS
  <1>4. RegisterCall(x, id, name) = IF id = None THEN x ELSE IF name \in OwnTools THEN w ELSE u
    BY <1>1, <1>2, <1>3 DEF RegisterCall
  <1>5. IdsOk(u)
    BY ONLY <1>2, IdsOk(x), InsertIdOk
  <1>6. OwnResult(u, call) => OwnResult(x, call)
    <2> SUFFICES ASSUME OwnResult(u, call) PROVE OwnResult(x, call)
      OBVIOUS
    <2>1. OwnResult(InsertId(x, k, id, v), call)
      BY <1>2
    <2>2. OwnResult(x, call) \/ (k = "own_call" /\ id = call)
      BY ONLY <2>1, IdsOk(x), InsertOwns
    <2> QED BY <1>1, <2>2
  <1>7. OwnResult(w, call) => OwnResult(u, call) \/ id = call
    <2> SUFFICES ASSUME OwnResult(w, call) PROVE OwnResult(u, call) \/ id = call
      OBVIOUS
    <2>1. OwnResult(InsertId(u, l, id, name), call)
      BY <1>3
    <2> QED BY ONLY <2>1, <1>5, InsertOwns
  <1> QED BY <1>4, <1>6, <1>7

(* and no record teaches one that it does not make. *)
LEMMA NormalizeOwns ==
  ASSUME NEW provider \in {"codex", "claude", "copilot"}, NEW r, Tree[r] # Malformed,
         NEW f, f = FragmentsOf(r), NEW s, s = Summary(provider, f), NEW x, IdsOk(x), NEW h,
         NEW call, OwnResult(Normalize(provider, s, f, x, h).ids, call)
  PROVE  OwnResult(x, call) \/ CallsOwn(provider, r, call)
  <1>1. PICK c : c = ContextOf(OrElse(s.session, OrElse(h, "unknown")), s.event)
    OBVIOUS
  <1>2. CASE provider = "codex"
    <2>1. Normalize(provider, s, f, x, h) = NormalizeCodex(s, f, x, c)
      BY <1>1, <1>2 DEF Normalize, ContextOf
    <2>2. PICK payload : payload = FieldAt(f, <<"payload", "type">>)
      OBVIOUS
    <2>3. CASE s.kind = "response_item" /\ payload \in {"function_call", "custom_tool_call"}
      <3>1. NormalizeCodex(s, f, x, c).ids \in {x, RegisterCall(x, s.call, s.name)}
        BY DEF NormalizeCodex, Outcome3
      <3>2. OwnResult(x, call) \/ (s.call = call /\ s.name \in OwnTools)
        BY <2>1, <3>1, RegisterOwns
      <3> QED BY <1>2, <2>2, <2>3, <3>2 DEF CallsOwn
    <2>4. CASE ~(s.kind = "response_item" /\ payload \in {"function_call", "custom_tool_call"})
      <3>1. NormalizeCodex(s, f, x, c).ids = x
        BY <2>2, <2>4 DEF NormalizeCodex, Outcome3
      <3> QED BY <2>1, <3>1
    <2> QED BY <2>3, <2>4
  <1>3. CASE provider = "claude"
    <2>1. Normalize(provider, s, f, x, h) = NormalizeClaude(s, f, x, c)
      BY <1>1, <1>3 DEF Normalize, ContextOf
    <2>2. PICK id, name : /\ id = BlockScalar(s, f, "tool_use", "id")
                          /\ name = BlockScalar(s, f, "tool_use", "name")
      OBVIOUS
    <2>3. CASE s.kind \in {"user", "assistant"} /\ HasType(s.types, "tool_use")
      <3>1. NormalizeClaude(s, f, x, c).ids \in {x, RegisterCall(x, id, name)}
        BY <2>2 DEF NormalizeClaude, Outcome3
      <3>2. OwnResult(x, call) \/ (id = call /\ name \in OwnTools)
        BY <2>1, <3>1, RegisterOwns
      <3> QED BY <1>3, <2>2, <2>3, <3>2 DEF CallsOwn
    <2>4. CASE ~(s.kind \in {"user", "assistant"} /\ HasType(s.types, "tool_use"))
      <3>1. NormalizeClaude(s, f, x, c).ids = x
        BY <2>4 DEF NormalizeClaude, Outcome3
      <3> QED BY <2>1, <3>1
    <2> QED BY <2>3, <2>4
  <1>4. CASE provider = "copilot"
    <2>1. Normalize(provider, s, f, x, h) = NormalizeCopilot(s, f, x, c)
      BY <1>1, <1>4 DEF Normalize, ContextOf
    <2>2. CASE s.kind \in {"tool.execution_start", "tool.start", "tool_use", "tool.call"}
      <3>1. NormalizeCopilot(s, f, x, c).ids \in {x, RegisterCall(x, s.call, s.name)}
        BY DEF NormalizeCopilot, Outcome3
      <3>2. OwnResult(x, call) \/ (s.call = call /\ s.name \in OwnTools)
        BY <2>1, <3>1, RegisterOwns
      <3> QED BY <1>4, <2>2, <3>2 DEF CallsOwn
    <2>3. CASE s.kind \notin {"tool.execution_start", "tool.start", "tool_use", "tool.call"}
      <3>1. NormalizeCopilot(s, f, x, c).ids = x
        BY <2>3 DEF NormalizeCopilot, Outcome3
      <3> QED BY <2>1, <3>1
    <2> QED BY <2>2, <2>3
  <1> QED BY <1>2, <1>3, <1>4

(***************************************************************************)
(* What a record leaves of a pass.                                         *)
(***************************************************************************)
(* The record shows what it is meant to when it is read by itself. *)
Readable(provider, r) ==
    Tree[r] # Malformed =>
        /\ Orderly(ItemsOf(provider, r))
        /\ provider = "claude" => Summary(provider, FragmentsOf(r)).role # "tool"
Told(provider, r) ==
    IF Tree[r] = Malformed THEN <<>> ELSE CutsOf(Distinct(FieldsOf(ItemsOf(provider, r))))

(* Unless it has been met, or answers a known call, it leaves chunks that say it. *)
LeftBy(provider, r, line, n, c) ==
    /\ IsSeq(c) /\ Lined(c, line)
    /\ /\ ~MetIn(n.ids, r)
       /\ Tree[r] # Malformed => ~OwnResult(n.ids, AnsweredCall(provider, r))
       => SaidOf(c) = Told(provider, r)
RecordLeaves(provider, r, line, n, m) ==
    /\ Trails(m, m, 0)
    /\ \A q : MetIn(m.ids, q) => MetIn(n.ids, q) \/ q = r
    /\ \A call : OwnResult(m.ids, call) => OwnResult(n.ids, call) \/ CallsOwn(provider, r, call)
    /\ \E c : LeftBy(provider, r, line, n, c) /\ m.chunks = n.chunks \o c

(* No identifiers, no own calls. *)
LEMMA FreshOwns == \A call : ~OwnResult(NewIds(FALSE, {}), call)
  BY DEF OwnResult, HasId, HasKey, NewIds

(* That the record has been seen is no own call. *)
LEMMA SeenOwns ==
  ASSUME NEW n, IdsOk(n.ids), NEW s, NEW r, NEW x, x = SeenIds(s, r, n)
  PROVE  IdsOk(x) /\ \A call : OwnResult(x, call) => OwnResult(n.ids, call)
  <1>1. CASE s.event = None
    BY <1>1 DEF SeenIds
  <1>2. CASE s.event # None
    <2>1. PICK e : e = <<s.event, r>>
      OBVIOUS
    <2>2. PICK kind, v : kind = "seen_event" /\ v = ""
      OBVIOUS
    <2>3. x = InsertId(n.ids, kind, e, v)
      BY <1>2, <2>1, <2>2 DEF SeenIds
    <2>4. IdsOk(n.ids)
      OBVIOUS
    <2>5. IdsOk(x)
      BY ONLY <2>3, <2>4, InsertIdOk
    <2>6. kind # "own_call"
      BY <2>2
    <2>7. ASSUME NEW call, OwnResult(x, call) PROVE OwnResult(n.ids, call)
      <3>1. OwnResult(InsertId(n.ids, kind, e, v), call)
        BY <2>3, <2>7
      <3>2. OwnResult(n.ids, call) \/ (kind = "own_call" /\ e = call)
        BY ONLY <2>4, <3>1, InsertOwns
      <3> QED BY <2>6, <3>2
    <2> QED BY <2>5, <2>7
  <1> QED BY <1>1, <1>2

(* What is made of orderly items that are recast is what they say. *)
LEMMA RecastSays ==
  ASSUME NEW s, NEW t, NEW a, NEW g, Recasts(s, t, a, g), Orderly(s), NEW line
  PROVE  SaidOf(ChunksOf(t, line)) = CutsOf(Distinct(FieldsOf(s)))
  <1>1. FieldsOf(t) = FieldsOf(s) /\ Orderly(t)
    BY RecastFields, RecastOrderly
  <1>2. IsSeq(t)
    BY DEF Recasts
  <1>3. \A i \in 1..Len(t) : t[i] = ItemWith(t[i], a) /\ IsSeq(t[i].text)
    <2> SUFFICES ASSUME NEW i \in 1..Len(t)
                 PROVE  t[i] = ItemWith(t[i], a) /\ IsSeq(t[i].text)
      OBVIOUS
    <2>1. PICK x, y : x = s[i] /\ y = t[i]
      OBVIOUS
    <2>2. Recast(x, y, a, g)
      BY <2>1 DEF Recasts
    <2>3. y = ItemWith(y, a) /\ IsSeq(y.text)
      BY ONLY <2>2, RecastIs
    <2> QED BY <2>1, <2>3
  <1>4. SaidOf(ChunksOf(t, line)) = CutsOf(Distinct(FieldsOf(t)))
    BY ONLY <1>1, <1>2, <1>3, ChunksSay
  <1> QED BY <1>1, <1>4

(* Every record leaves just that. *)
LEMMA RecordTells ==
  ASSUME NEW provider \in {"codex", "claude", "copilot"}, NEW r \in DOMAIN Tree,
         Readable(provider, r), NEW line, NEW n, Trails(n, n, 0)
  PROVE  RecordLeaves(provider, r, line, n, RecordOf(provider, r, line, n))
  <1>1. PICK m : m = RecordOf(provider, r, line, n)
    OBVIOUS
  <1>2. Advances(provider, r, n, m)
    BY <1>1, RecordAdvances
  <1>3. Trails(m, m, 0) /\ \A q : MetIn(m.ids, q) => MetIn(n.ids, q) \/ q = r
    BY <1>2 DEF Advances
  <1>4. IdsOk(n.ids) /\ IsSeq(n.chunks)
    BY DEF Trails, IdsSame, Follows
  <1>5. n.chunks = n.chunks \o <<>> /\ IsSeq(<<>>) /\ Lined(<<>>, line)
    <2>1. n.chunks \o <<>> = n.chunks
      BY <1>4, ConcatNothing
    <2>2. Lined(<<>>, line)
      BY DEF Lined
    <2> QED BY <2>1, <2>2, EmptyIs
  <1>6. CASE Tree[r] = Malformed
    <2>1. PICK d : d = n.diagnostics + 1
      OBVIOUS
    <2>2. m = [n EXCEPT !.diagnostics = d]
      BY <1>1, <1>6, <2>1 DEF RecordOf
    <2>3. m.chunks = n.chunks /\ m.ids = n.ids
      BY <2>2 DEF Trails, IsNormalised
    <2>4. SaidOf(<<>>) = Told(provider, r)
      BY <1>6 DEF SaidOf, Told
    <2>5. LeftBy(provider, r, line, n, <<>>) /\ m.chunks = n.chunks \o <<>>
      BY <1>5, <2>3, <2>4 DEF LeftBy
    <2>6. RecordLeaves(provider, r, line, n, m)
      BY <1>3, <2>3, <2>5 DEF RecordLeaves
    <2> QED BY <1>1, <2>6
  <1>7. CASE Tree[r] # Malformed
    <2>1. PICK f : f = FragmentsOf(r)
      OBVIOUS
    <2>2. PICK s : s = Summary(provider, f)
      OBVIOUS
    <2>3. PICK k : k = OrElse(s.session, n.session)
      OBVIOUS
    <2>4. PICK x : x = SeenIds(s, r, n)
      OBVIOUS
    <2>5. PICK u : u = Normalize(provider, s, f, x, k)
      OBVIOUS
    <2>6. m = IF IsSeen(s, r, n) THEN n ELSE Normalised3(s, u, n, line, k)
      BY <1>1, <1>7, <2>1, <2>2, <2>3, <2>4, <2>5, NormaliseRecordIs DEF RecordOf
    <2>7. CASE IsSeen(s, r, n)
      <3>1. m = n
        BY <2>6, <2>7
      <3>2. MetIn(n.ids, r)
        BY <2>7 DEF IsSeen, HasId, MetIn, Known
      <3>3. LeftBy(provider, r, line, n, <<>>) /\ m.chunks = n.chunks \o <<>>
        BY <1>5, <3>1, <3>2 DEF LeftBy
      <3>4. RecordLeaves(provider, r, line, n, m)
        BY <1>3, <3>1, <3>3 DEF RecordLeaves
      <3> QED BY <1>1, <3>4
    <2>8. CASE ~IsSeen(s, r, n)
      <3>1. PICK c, d : /\ c = ChunksOf(u.items, line)
                        /\ d = n.diagnostics + Reports(s, u)
        OBVIOUS
      <3>2. m = PassOf(n.chunks \o c, u.ids, k, d)
        BY <2>6, <2>8, <3>1 DEF Normalised3
      <3>3. m.ids = u.ids /\ m.chunks = n.chunks \o c
        BY <3>2 DEF PassOf
      <3>4. IdsOk(x) /\ \A call : OwnResult(x, call) => OwnResult(n.ids, call)
        BY ONLY <1>4, <2>4, SeenOwns
      <3>5. \A call : OwnResult(m.ids, call) =>
                OwnResult(n.ids, call) \/ CallsOwn(provider, r, call)
        <4> SUFFICES ASSUME NEW call, OwnResult(m.ids, call)
                     PROVE  OwnResult(n.ids, call) \/ CallsOwn(provider, r, call)
          OBVIOUS
        <4>1. OwnResult(Normalize(provider, s, f, x, k).ids, call)
          BY <2>5, <3>3
        <4>2. OwnResult(x, call) \/ CallsOwn(provider, r, call)
          BY <1>7, <2>1, <2>2, <3>4, <4>1, NormalizeOwns
        <4> QED BY <3>4, <4>2
      <3>6. IsSeq(c) /\ Lined(c, line)
        <4>1. PICK a : a = OrElse(s.session, OrElse(k, "unknown"))
          OBVIOUS
        <4>2. OutcomeTwin(u, u, a, a)
          BY <2>1, <2>5, <4>1, CapturedIs, TwinNormalize
        <4>3. Twins(u.items, u.items, a, a)
          BY <4>2 DEF OutcomeTwin
        <4> QED BY <3>1, <4>3, ChunksLined
      <3>7. ASSUME ~OwnResult(n.ids, AnsweredCall(provider, r))
            PROVE  SaidOf(c) = Told(provider, r)
        <4>1. PICK call, y, h : /\ call = AnsweredCall(provider, r)
                                /\ y = NewIds(FALSE, {}) /\ h = None
          OBVIOUS
        <4>2. ~OwnResult(x, call) /\ ~OwnResult(y, call)
          BY <3>4, <3>7, <4>1, FreshOwns
        <4>3. Texts(f)
          BY <2>1, CapturedIs
        <4>4. provider = "claude" => s.role # "tool"
          BY <1>7, <2>1, <2>2 DEF Readable
        <4>5. \E b, g : Recasts(Normalize(provider, s, f, y, h).items,
                                Normalize(provider, s, f, x, k).items, b, g)
          BY <2>1, <2>2, <4>1, <4>2, <4>3, <4>4, RecastNormalize
        <4>6. PICK items : items = ItemsOf(provider, r)
          OBVIOUS
        <4>7. items = Normalize(provider, s, f, y, h).items
          BY <2>1, <2>2, <4>1, <4>6 DEF ItemsOf
        <4>8. PICK v : v = u.items
          OBVIOUS
        <4>9. PICK b, g : Recasts(items, v, b, g)
          BY <2>5, <4>5, <4>7, <4>8
        <4>10. Orderly(items)
          BY <1>7, <4>6 DEF Readable
        <4>11. SaidOf(ChunksOf(v, line)) = CutsOf(Distinct(FieldsOf(items)))
          BY ONLY <4>9, <4>10, RecastSays
        <4> QED BY <1>7, <3>1, <4>6, <4>8, <4>11 DEF Told
      <3>8. LeftBy(provider, r, line, n, c)
        BY <1>7, <3>6, <3>7 DEF LeftBy
      <3>9. RecordLeaves(provider, r, line, n, m)
        BY <1>3, <3>3, <3>5, <3>8 DEF RecordLeaves
      <3> QED BY <1>1, <3>9
    <2> QED BY <2>7, <2>8
  <1> QED BY <1>6, <1>7

(***************************************************************************)
(* The chunks of a line.                                                   *)
(***************************************************************************)
OnLine(chunks, j) == {c \in Range(chunks) : c.line = j}
LineOf(chunks, j) == Among(chunks, OnLine(chunks, j))

(* Two selections agree as long as what they select of does. *)
LEMMA SelectingAgree ==
  ASSUME NEW s, NEW t, NEW S, NEW T, NEW n \in Nat, NEW m \in Nat, n <= m,
         \A i \in 1..n : t[i] = s[i] /\ (t[i] \in T <=> s[i] \in S),
         NEW f, IsSelecting(f, s, S, n), NEW g, IsSelecting(g, t, T, m)
  PROVE  \A i \in 0..n : g[i] = f[i]
  <1> DEFINE B == {i \in 0..n : g[i] # f[i]}
  <1>1. B = {}
    <2> SUFFICES ASSUME B # {} PROVE FALSE
      OBVIOUS
    <2>1. PICK i \in B : \A j \in B : i <= j
      <3>1. B \in SUBSET Nat
        OBVIOUS
      <3> HIDE DEF B
      <3> QED BY <3>1, Smallest
    <2>2. i \in 0..n /\ i \in 0..m
      BY <2>1
    <2>3. f[i] = CASE i = 0 -> <<>>
                   [] i > 0 /\ s[i] \in S -> Append(f[i - 1], s[i])
                   [] OTHER -> f[i - 1]
      BY <2>2, Zenon DEF IsSelecting
    <2>4. g[i] = CASE i = 0 -> <<>>
                   [] i > 0 /\ t[i] \in T -> Append(g[i - 1], t[i])
                   [] OTHER -> g[i - 1]
      BY <2>2, Zenon DEF IsSelecting
    <2>5. i # 0
      BY <2>1, <2>3, <2>4
    <2>6. i - 1 \in 0..n /\ i - 1 \notin B /\ i \in 1..n
      BY <2>1, <2>2, <2>5
    <2>7. g[i - 1] = f[i - 1] /\ t[i] = s[i] /\ (t[i] \in T <=> s[i] \in S)
      BY <2>6
    <2> QED BY <2>1, <2>3, <2>4, <2>7
  <1> QED BY <1>1

(* No chunks are on no line, *)
LEMMA LineOfNone == \A j : LineOf(<<>>, j) = <<>>
  <1> SUFFICES ASSUME NEW j PROVE LineOf(<<>>, j) = <<>>
    OBVIOUS
  <1>1. PICK e, S : e = <<>> /\ S = OnLine(<<>>, j)
    OBVIOUS
  <1>2. Len(e) = 0
    BY <1>1
  <1>3. Len(e) \in Nat
    BY <1>2
  <1>4. Among(e, S) = Selecting(e, S)[Len(e)] /\ IsSelecting(Selecting(e, S), e, S, Len(e))
    BY ONLY <1>3, AmongSteps
  <1>5. PICK f : f = Selecting(e, S)
    OBVIOUS
  <1>6. IsSelecting(f, e, S, 0) /\ Among(e, S) = f[0]
    BY ONLY <1>2, <1>4, <1>5
  <1>7. f[0] = <<>>
    <2>1. 0 \in 0..0
      OBVIOUS
    <2>2. f[0] = CASE 0 = 0 -> <<>>
                   [] 0 > 0 /\ e[0] \in S -> Append(f[0 - 1], e[0])
                   [] OTHER -> f[0 - 1]
      BY <1>6, <2>1, Zenon DEF IsSelecting
    <2> QED BY <2>2
  <1> QED BY <1>1, <1>6, <1>7 DEF LineOf

(* and a chunk more is on its own. *)
LEMMA LineAppend ==
  ASSUME NEW s, IsSeq(s), NEW e, NEW j
  PROVE  LineOf(Append(s, e), j) = IF e.line = j THEN Append(LineOf(s, j), e) ELSE LineOf(s, j)
  <1>1. PICK t, S, T : t = Append(s, e) /\ S = OnLine(s, j) /\ T = OnLine(Append(s, e), j)
    OBVIOUS
  <1>2. PICK n : n = Len(s) /\ n \in Nat /\ DOMAIN s = 1..n
    BY SeqIs
  <1>3. PICK m : m = n + 1
    OBVIOUS
  <1>4. /\ IsSeq(t) /\ Len(t) = m /\ t[m] = e
        /\ \A i \in 1..n : t[i] = s[i]
    BY <1>1, <1>2, <1>3, AppendIs
  <1>5. DOMAIN t = 1..m /\ m \in Nat /\ n <= m /\ m \in 1..m /\ m \in 0..m /\ n \in 0..n /\ m # 0
    BY <1>2, <1>3, <1>4, SeqIs
  <1>6. \A i \in 1..n : s[i] \in S <=> s[i].line = j
    BY <1>1, <1>2 DEF OnLine, Range
  <1>7. \A i \in 1..m : t[i] \in T <=> t[i].line = j
    BY <1>1, <1>5 DEF OnLine, Range
  <1>8. \A i \in 1..n : t[i] = s[i] /\ (t[i] \in T <=> s[i] \in S)
    <2>1. \A i \in 1..n : i \in 1..m
      BY <1>2, <1>3
    <2> QED BY <1>4, <1>6, <1>7, <2>1
  <1>9. PICK f : f[n] = Among(s, S) /\ IsSelecting(f, s, S, n)
    BY ONLY <1>2, AmongSteps
  <1>10. PICK g : g[m] = Among(t, T) /\ IsSelecting(g, t, T, m)
    BY ONLY <1>4, <1>5, AmongSteps
  <1>11. \A i \in 0..n : g[i] = f[i]
    <2>1. n \in Nat /\ m \in Nat /\ n <= m
      BY <1>2, <1>5
    <2>2. IsSelecting(f, s, S, n) /\ IsSelecting(g, t, T, m)
      BY <1>9, <1>10
    <2> QED BY ONLY <1>8, <2>1, <2>2, SelectingAgree
  <1>12. g[n] = f[n]
    BY ONLY <1>5, <1>11
  <1>13. g[m] = CASE m = 0 -> <<>>
                  [] m > 0 /\ t[m] \in T -> Append(g[m - 1], t[m])
                  [] OTHER -> g[m - 1]
    BY <1>5, <1>10, Zenon DEF IsSelecting
  <1>14. m - 1 = n /\ m > 0
    BY <1>2, <1>3
  <1>15. g[m] = IF t[m] \in T THEN Append(g[n], e) ELSE g[n]
    BY <1>4, <1>5, <1>13, <1>14
  <1>16. t[m] \in T <=> e.line = j
    BY <1>4, <1>5, <1>7
  <1> QED BY <1>1, <1>9, <1>10, <1>12, <1>15, <1>16 DEF LineOf

(* What is on a line is a sequence. *)
LEMMA LineIs ==
  ASSUME NEW s, IsSeq(s), NEW j
  PROVE  IsSeq(LineOf(s, j))
  <1>1. PICK n : n = Len(s) /\ n \in Nat
    BY SeqIs
  <1> DEFINE S == {i \in 0..n : IsSeq(LineOf(SubSeq(s, 1, i), j))}
  <1>2. S \in SUBSET Nat
    OBVIOUS
  <1>3. 0 \in S
    <2>1. SubSeq(s, 1, 0) = <<>>
      BY PrefixEnds
    <2>2. LineOf(<<>>, j) = <<>>
      BY LineOfNone
    <2>3. IsSeq(LineOf(SubSeq(s, 1, 0), j))
      BY ONLY <2>1, <2>2, EmptyIs
    <2>4. 0 \in 0..n
      BY <1>1
    <2> QED BY <2>3, <2>4
  <1>4. ASSUME NEW i \in 0..n, i # n, i \in S PROVE i + 1 \in S
    <2>1. PICK k : k = i + 1
      OBVIOUS
    <2>2. k \in 0..n /\ k <= Len(s) /\ i \in Nat
      BY <1>1, <1>4, <2>1
    <2>3. PICK t, e : t = SubSeq(s, 1, i) /\ e = s[k]
      OBVIOUS
    <2>4. SubSeq(s, 1, k) = Append(t, e) /\ IsSeq(t)
      BY ONLY IsSeq(s), <2>1, <2>2, <2>3, PrefixGrows
    <2>5. LineOf(Append(t, e), j) = IF e.line = j THEN Append(LineOf(t, j), e) ELSE LineOf(t, j)
      BY ONLY <2>4, LineAppend
    <2>6. PICK l : l = LineOf(t, j)
      OBVIOUS
    <2>7. IsSeq(l)
      BY <1>4, <2>3, <2>6
    <2>8. IsSeq(Append(l, e))
      BY ONLY <2>7, AppendIs
    <2>9. IsSeq(LineOf(SubSeq(s, 1, k), j))
      BY ONLY <2>4, <2>5, <2>6, <2>7, <2>8
    <2> QED BY <2>1, <2>2, <2>9
  <1> HIDE DEF S
  <1>5. 0..n \subseteq S
    BY <1>1, <1>2, <1>3, <1>4, UpTo
  <1>6. SubSeq(s, 1, n) = s
    BY <1>1, PrefixEnds
  <1>7. n \in S
    BY <1>1, <1>5
  <1> QED BY <1>6, <1>7 DEF S

(* What a line more leaves on a line. *)
LEMMA LineConcat ==
  ASSUME NEW s, IsSeq(s), NEW c, IsSeq(c), NEW l, Lined(c, l), NEW j
  PROVE  LineOf(s \o c, j) = IF j = l THEN LineOf(s, j) \o c ELSE LineOf(s, j)
  <1>1. PICK n : n = Len(c) /\ n \in Nat
    BY SeqIs
  <1>2. PICK p : p = LineOf(s, j) /\ IsSeq(p)
    BY LineIs
  <1> DEFINE Is(i) == LineOf(s \o SubSeq(c, 1, i), j) = IF j = l THEN p \o SubSeq(c, 1, i) ELSE p
             S == {i \in 0..n : Is(i)}
  <1>3. S \in SUBSET Nat
    OBVIOUS
  <1>4. 0 \in S
    <2>1. SubSeq(c, 1, 0) = <<>>
      BY PrefixEnds
    <2>2. s \o <<>> = s /\ p \o <<>> = p
      BY <1>2, ConcatNothing
    <2>3. Is(0)
      BY ONLY <1>2, <2>1, <2>2
    <2>4. 0 \in 0..n
      BY <1>1
    <2> HIDE DEF Is
    <2> QED BY <2>3, <2>4
  <1>5. ASSUME NEW i \in 0..n, i # n, i \in S PROVE i + 1 \in S
    <2>1. PICK k : k = i + 1
      OBVIOUS
    <2>2. k \in 0..n /\ k <= Len(c) /\ i \in Nat /\ k \in 1..n
      BY <1>1, <1>5, <2>1
    <2>3. PICK t, e : t = SubSeq(c, 1, i) /\ e = c[k]
      OBVIOUS
    <2>4. SubSeq(c, 1, k) = Append(t, e) /\ IsSeq(t)
      BY ONLY IsSeq(c), <2>1, <2>2, <2>3, PrefixGrows
    <2>5. PICK u : u = s \o t
      OBVIOUS
    <2>6. IsSeq(u)
      BY ONLY IsSeq(s), <2>4, <2>5, ConcatIs
    <2>7. s \o Append(t, e) = Append(u, e) /\ p \o Append(t, e) = Append(p \o t, e)
      BY ONLY IsSeq(s), <1>2, <2>4, <2>5, ConcatAppend
    <2>8. LineOf(Append(u, e), j) = IF e.line = j THEN Append(LineOf(u, j), e) ELSE LineOf(u, j)
      BY ONLY <2>6, LineAppend
    <2>9. e.line = l
      BY <1>1, <2>2, <2>3 DEF Lined
    <2>10. LineOf(u, j) = IF j = l THEN p \o t ELSE p
      BY <1>5, <2>3, <2>5
    <2>11. LineOf(s \o SubSeq(c, 1, k), j) = IF j = l THEN p \o SubSeq(c, 1, k) ELSE p
      BY ONLY <2>4, <2>7, <2>8, <2>9, <2>10
    <2>12. Is(k)
      BY ONLY <2>11
    <2> QED BY <2>1, <2>2, <2>12
  <1> HIDE DEF S
  <1>6. 0..n \subseteq S
    BY <1>1, <1>3, <1>4, <1>5, UpTo
  <1>7. SubSeq(c, 1, n) = c
    BY <1>1, PrefixEnds
  <1>8. n \in S
    BY <1>1, <1>6
  <1>9. Is(n)
    BY <1>8 DEF S
  <1> QED BY <1>2, <1>7, <1>9

(* Chunks that follow others say on each line what the others say. *)
LEMMA LineFollows ==
  ASSUME NEW s, NEW t, Follows(s, t), NEW j
  PROVE  SaidOf(LineOf(s, j)) = SaidOf(LineOf(t, j))
  <1>1. PICK n : n = Len(s) /\ n = Len(t) /\ n \in Nat
    BY SeqIs DEF Follows
  <1>2. IsSeq(s) /\ IsSeq(t)
    BY DEF Follows
  <1> DEFINE Is(i) == SaidOf(LineOf(SubSeq(s, 1, i), j)) = SaidOf(LineOf(SubSeq(t, 1, i), j))
             S == {i \in 0..n : Is(i)}
  <1>3. S \in SUBSET Nat
    OBVIOUS
  <1>4. 0 \in S
    <2>1. SubSeq(s, 1, 0) = <<>> /\ SubSeq(t, 1, 0) = <<>>
      BY <1>2, PrefixEnds
    <2>2. Is(0)
      BY ONLY <2>1
    <2>3. 0 \in 0..n
      BY <1>1
    <2> HIDE DEF Is
    <2> QED BY <2>2, <2>3
  <1>5. ASSUME NEW i \in 0..n, i # n, i \in S PROVE i + 1 \in S
    <2>1. PICK k : k = i + 1
      OBVIOUS
    <2>2. k \in 0..n /\ k <= Len(s) /\ k <= Len(t) /\ i \in Nat /\ k \in 1..Len(s)
      BY <1>1, <1>5, <2>1
    <2>3. PICK u, v, d, e : /\ u = SubSeq(s, 1, i) /\ d = s[k]
                            /\ v = SubSeq(t, 1, i) /\ e = t[k]
      OBVIOUS
    <2>4. SubSeq(s, 1, k) = Append(u, d) /\ IsSeq(u)
      BY ONLY <1>2, <2>1, <2>2, <2>3, PrefixGrows
    <2>5. SubSeq(t, 1, k) = Append(v, e) /\ IsSeq(v)
      BY ONLY <1>2, <2>1, <2>2, <2>3, PrefixGrows
    <2>6. LineOf(Append(u, d), j) = IF d.line = j THEN Append(LineOf(u, j), d) ELSE LineOf(u, j)
      BY ONLY <2>4, LineAppend
    <2>7. LineOf(Append(v, e), j) = IF e.line = j THEN Append(LineOf(v, j), e) ELSE LineOf(v, j)
      BY ONLY <2>5, LineAppend
    <2>8. d.line = e.line /\ d.kind = e.kind /\ d.text = e.text
      <3>1. FollowsChunk(d, e)
        BY <2>2, <2>3 DEF Follows
      <3> QED BY ONLY <3>1 DEF FollowsChunk, ChunkWith
    <2>9. PICK x, y : x = LineOf(u, j) /\ y = LineOf(v, j)
      OBVIOUS
    <2>10. IsSeq(x) /\ IsSeq(y)
      BY ONLY <2>4, <2>5, <2>9, LineIs
    <2>11. /\ SaidOf(Append(x, d)) = Append(SaidOf(x), Part(d.kind, d.text))
           /\ SaidOf(Append(y, e)) = Append(SaidOf(y), Part(e.kind, e.text))
      BY ONLY <2>10, SaidAppend
    <2>12. SaidOf(x) = SaidOf(y)
      BY <1>5, <2>3, <2>9
    <2>13. SaidOf(LineOf(SubSeq(s, 1, k), j)) = SaidOf(LineOf(SubSeq(t, 1, k), j))
      BY ONLY <2>4, <2>5, <2>6, <2>7, <2>8, <2>9, <2>11, <2>12
    <2>14. Is(k)
      BY ONLY <2>13
    <2> QED BY <2>1, <2>2, <2>14
  <1> HIDE DEF S
  <1>6. 0..n \subseteq S
    BY <1>1, <1>3, <1>4, <1>5, UpTo
  <1>7. SubSeq(s, 1, n) = s /\ SubSeq(t, 1, n) = t
    BY <1>1, <1>2, PrefixEnds
  <1>8. n \in S
    BY <1>1, <1>6
  <1>9. Is(n)
    BY <1>8 DEF S
  <1> QED BY <1>7, <1>9

(***************************************************************************)
(* A whole pass.                                                           *)
(***************************************************************************)
(* The place j of a file holds a record that has not been met, and answers no *)
(* call of an own tool that is made before it.                                *)
Unmet(provider, t, j) ==
    /\ \A h \in 1..(j - 1) : t[h] # t[j]
    /\ \A call \in {AnsweredCall(provider, t[j])} :
          call # None /\ Tree[t[j]] # Malformed =>
              \A h \in 1..(j - 1) : ~CallsOwn(provider, t[h], call)

(* A pass that has come to place i has told what such records say, each on its *)
(* own line, and nothing on the lines to come.                                 *)
Recounts(provider, t, i, n) ==
    /\ Trails(n, n, 0)
    /\ \A q : MetIn(n.ids, q) => \E j \in 1..i : t[j] = q
    /\ \A call : OwnResult(n.ids, call) => \E j \in 1..i : CallsOwn(provider, t[j], call)
    /\ \A j \in 1..i : Unmet(provider, t, j) =>
          SaidOf(LineOf(n.chunks, j)) = Told(provider, t[j])
    /\ \A j : j \notin 1..i => LineOf(n.chunks, j) = <<>>

(* A place further it is the same. *)
LEMMA LeavesRecounts ==
  ASSUME NEW provider, NEW t, NEW i \in Nat, NEW k, k = i + 1, NEW n, NEW m,
         Recounts(provider, t, i, n), RecordLeaves(provider, t[k], k, n, m)
  PROVE  Recounts(provider, t, k, m)
  <1>1. \A j : j \in 1..k <=> j \in 1..i \/ j = k
    OBVIOUS
  <1>2. k \notin 1..i /\ k - 1 = i
    OBVIOUS
  <1>3. PICK c : LeftBy(provider, t[k], k, n, c) /\ m.chunks = n.chunks \o c
    BY DEF RecordLeaves
  <1>4. PICK s, u, r : s = n.chunks /\ u = m.chunks /\ r = t[k]
    OBVIOUS
  <1>5. IsSeq(s) /\ IsSeq(c) /\ Lined(c, k) /\ u = s \o c
    BY <1>3, <1>4 DEF LeftBy, Recounts, Trails, Follows
  <1>6. \A j : LineOf(u, j) = IF j = k THEN LineOf(s, j) \o c ELSE LineOf(s, j)
    BY ONLY <1>5, LineConcat
  <1>7. LineOf(u, k) = c
    <2>1. LineOf(s, k) = <<>>
      BY <1>2, <1>4 DEF Recounts
    <2>2. <<>> \o c = c
      BY ONLY <1>5, ConcatNothing
    <2> QED BY ONLY <1>6, <2>1, <2>2
  <1>8. ASSUME NEW q, MetIn(m.ids, q) PROVE \E j \in 1..k : t[j] = q
    <2>1. MetIn(n.ids, q) \/ q = r
      BY <1>4, <1>8 DEF RecordLeaves
    <2>2. CASE MetIn(n.ids, q)
      <3>1. PICK j \in 1..i : t[j] = q
        BY <2>2 DEF Recounts
      <3> QED BY <1>1, <3>1
    <2>3. CASE q = r
      BY <1>1, <1>4, <2>3
    <2> QED BY <2>1, <2>2, <2>3
  <1>9. ASSUME NEW call, OwnResult(m.ids, call)
         PROVE \E j \in 1..k : CallsOwn(provider, t[j], call)
    <2>1. OwnResult(n.ids, call) \/ CallsOwn(provider, t[k], call)
      BY <1>9 DEF RecordLeaves
    <2>2. CASE OwnResult(n.ids, call)
      <3>1. PICK j \in 1..i : CallsOwn(provider, t[j], call)
        BY <2>2 DEF Recounts
      <3> QED BY <1>1, <3>1
    <2>3. CASE CallsOwn(provider, t[k], call)
      BY <1>1, <2>3
    <2> QED BY <2>1, <2>2, <2>3
  <1>10. ASSUME NEW j \in 1..k, Unmet(provider, t, j)
         PROVE  SaidOf(LineOf(u, j)) = Told(provider, t[j])
    <2>1. CASE j # k
      <3>1. j \in 1..i
        BY <1>1, <2>1
      <3>2. SaidOf(LineOf(s, j)) = Told(provider, t[j])
        BY <1>4, <1>10, <3>1 DEF Recounts
      <3>3. LineOf(u, j) = LineOf(s, j)
        BY <1>6, <2>1
      <3> QED BY <3>2, <3>3
    <2>2. CASE j = k
      <3>1. PICK call : call = AnsweredCall(provider, r)
        OBVIOUS
      <3>2. \A h \in 1..i : t[h] # r
        BY <1>2, <1>4, <1>10, <2>2 DEF Unmet
      <3>3. call # None /\ Tree[r] # Malformed => \A h \in 1..i : ~CallsOwn(provider, t[h], call)
        BY <1>2, <1>4, <1>10, <2>2, <3>1 DEF Unmet
      <3>4. ~MetIn(n.ids, r)
        BY <3>2 DEF Recounts
      <3>5. Tree[r] # Malformed => ~OwnResult(n.ids, call)
        <4> SUFFICES ASSUME Tree[r] # Malformed, OwnResult(n.ids, call) PROVE FALSE
          OBVIOUS
        <4>1. call # None
          BY DEF OwnResult
        <4>2. PICK h \in 1..i : CallsOwn(provider, t[h], call)
          BY DEF Recounts
        <4> QED BY <3>3, <4>1, <4>2
      <3>6. SaidOf(c) = Told(provider, r)
        BY <1>3, <1>4, <3>1, <3>4, <3>5 DEF LeftBy
      <3> QED BY <1>4, <1>7, <2>2, <3>6
    <2> QED BY <2>1, <2>2
  <1>11. ASSUME NEW j, j \notin 1..k PROVE LineOf(u, j) = <<>>
    <2>1. j \notin 1..i /\ j # k
      BY <1>1, <1>11
    <2>2. LineOf(s, j) = <<>>
      BY <1>4, <2>1 DEF Recounts
    <2> QED BY <1>6, <2>1, <2>2
  <1>12. Trails(m, m, 0)
    BY DEF RecordLeaves
  <1>13. \A q : MetIn(m.ids, q) => \E j \in 1..k : t[j] = q
    BY <1>8
  <1>14. \A call : OwnResult(m.ids, call) => \E j \in 1..k : CallsOwn(provider, t[j], call)
    BY <1>9
  <1>15. \A j \in 1..k : Unmet(provider, t, j) =>
             SaidOf(LineOf(m.chunks, j)) = Told(provider, t[j])
    BY <1>4, <1>10
  <1>16. \A j : j \notin 1..k => LineOf(m.chunks, j) = <<>>
    BY <1>4, <1>11
  <1> QED BY ONLY <1>12, <1>13, <1>14, <1>15, <1>16 DEF Recounts

(* So it is at the end of a pass. *)
LEMMA PassRecounts ==
  ASSUME NEW provider \in {"codex", "claude", "copilot"}, NEW t \in Seq(DOMAIN Tree),
         \A i \in 1..Len(t) : Readable(provider, t[i]),
         NEW start, Trails(start, start, 0), \A q : ~MetIn(start.ids, q),
         \A call : ~OwnResult(start.ids, call), start.chunks = <<>>,
         NEW n, PassTo(provider, t, 0, start, n)
  PROVE  Recounts(provider, t, Len(t), n)
  <1>1. PICK k : k = Len(t)
    OBVIOUS
  <1>2. k \in Nat /\ k \in 0..k /\ 0 \in 0..k
    BY <1>1
  <1>3. PICK l, f : l = 0 /\ IsPass(f, provider, t, l, start, k) /\ n = f[k]
    BY <1>1 DEF PassTo
  <1> DEFINE S == {i \in 0..k : Recounts(provider, t, i, f[i])}
  <1>4. S \in SUBSET Nat
    OBVIOUS
  <1>5. 0 \in S
    <2>1. f[0] = start
      BY <1>2, <1>3, PassFirst
    <2>2. \A j : LineOf(start.chunks, j) = <<>>
      BY LineOfNone
    <2>3. Recounts(provider, t, 0, start)
      BY <2>2 DEF Recounts
    <2> QED BY <1>2, <2>1, <2>3
  <1>6. ASSUME NEW i \in 0..k, i # k, i \in S PROVE i + 1 \in S
    <2>1. PICK j : j = i + 1
      OBVIOUS
    <2>2. j \in 0..k /\ j \in 1..k /\ i \in Nat
      BY <1>2, <1>6, <2>1
    <2>3. PICK r, line : r = t[j] /\ line = l + j
      OBVIOUS
    <2>4. PICK x, y : x = f[i] /\ y = f[j]
      OBVIOUS
    <2>5. y = RecordOf(provider, r, line, x)
      BY <1>2, <1>3, <1>6, <2>1, <2>3, <2>4, PassStep
    <2>6. Recounts(provider, t, i, x)
      BY <1>6, <2>4
    <2>7. r \in DOMAIN Tree /\ Readable(provider, r)
      BY <1>1, <2>2, <2>3
    <2>8. Trails(x, x, 0)
      BY <2>6 DEF Recounts
    <2>9. RecordLeaves(provider, r, j, x, y)
      <3>1. line = j
        BY <1>3, <2>2, <2>3
      <3>2. RecordLeaves(provider, r, line, x, y)
        BY <2>5, <2>7, <2>8, RecordTells
      <3> QED BY <3>1, <3>2
    <2>10. Recounts(provider, t, j, y)
      BY <2>1, <2>2, <2>3, <2>6, <2>9, LeavesRecounts
    <2> QED BY <2>1, <2>2, <2>4, <2>10
  <1> HIDE DEF S
  <1>7. 0..k \subseteq S
    BY <1>2, <1>4, <1>5, <1>6, UpTo
  <1> QED BY <1>1, <1>2, <1>3, <1>7 DEF S

(* What is rebuilt of a file tells what its records say. *)
LEMMA RebuildRecounts ==
  ASSUME NEW p, Provider[p] \in {"codex", "claude", "copilot"}, NEW t \in Seq(DOMAIN Tree),
         \A i \in 1..Len(t) : Readable(Provider[p], t[i])
  PROVE  Recounts(Provider[p], t, Len(t), Rebuild(p, t))
  <1>1. PICK provider, read : provider = Provider[p] /\ read = ReadAll(Provider[p], t)
    OBVIOUS
  <1>2. ReadsAll(provider, t, Len(t), read) /\ read.streamed = t
    BY <1>1, ReadAllReads
  <1>3. Sound(read, 0)
    BY <1>2 DEF ReadsAll
  <1>4. PICK s : s = StartOf(read)
    OBVIOUS
  <1>5. read.diagnostics \in Nat
    BY <1>3 DEF Sound, IsRead
  <1>6. IsNormalised(s) /\ IdsOk(s.ids) /\ s.chunks = <<>> /\ s.ids = NoIds
    BY <1>4, <1>5, StartIs
  <1>7. s.diagnostics = s.diagnostics + 0
    BY <1>4, <1>5, StartIs
  <1>8. Trails(s, s, 0)
    BY <1>6, <1>7, FollowsEmpty DEF Trails, IdsSame
  <1>9. \A q : ~MetIn(s.ids, q)
    BY <1>6 DEF MetIn, HasKey, Known, NoIds, IdsOf
  <1>10. \A call : ~OwnResult(s.ids, call)
    BY <1>6 DEF OwnResult, HasId, HasKey, NoIds, IdsOf
  <1>11. PICK n : n = Rebuild(p, t)
    OBVIOUS
  <1>12. n = NormaliseAll(provider, read, s)
    BY <1>1, <1>4, <1>11, RebuildIs
  <1>13. PassTo(provider, t, 0, s, n)
    BY <1>2, <1>3, <1>12, SoundPass
  <1>14. \A i \in 1..Len(t) : Readable(provider, t[i])
    BY <1>1
  <1>15. Recounts(provider, t, Len(t), n)
    BY <1>1, <1>6, <1>8, <1>9, <1>10, <1>13, <1>14, PassRecounts
  <1> QED BY <1>1, <1>11, <1>15

(* What is shown is cut as the fields that it says are. *)
LEMMA SaysCuts ==
  ASSUME NEW shown, NEW said, Says(shown, said)
  PROVE  CutsOf(shown) = CutsOf(said)
  <1>1. DOMAIN shown = DOMAIN said
    BY DEF Says
  <1>2. \A n \in DOMAIN said : shown[n].kind = said[n].kind /\ shown[n].text = said[n].text
    BY DEF Says
  <1>3. \A n \in DOMAIN said :
            CutText(shown[n].kind, shown[n].text) = CutText(said[n].kind, said[n].text)
    BY <1>2
  <1>4. [n \in DOMAIN shown |-> CutText(shown[n].kind, shown[n].text)] =
        [n \in DOMAIN said |-> CutText(said[n].kind, said[n].text)]
    BY <1>1, <1>3
  <1> QED BY <1>4 DEF CutsOf

(* Every visible field of a record is indexed once and whole under its line: *)
(* FieldsKept for every collection whose records show what is promised of    *)
(* them when each is read by itself.                                         *)
THEOREM SessionFieldsKept ==
  ASSUME FieldsRead
  PROVE  Spec => []FieldsKept
  <1>1. (TypeOK /\ SInv /\ IndexTrue) /\ (TypeOK /\ SInv /\ Authored) => FieldsKept
    <2> SUFFICES ASSUME TypeOK, SInv, IndexTrue, Authored, NEW p \in Path, Committed(p),
                        NEW i \in DOMAIN docs[p].prefix, ~Repeated(p, i), ~OwnAnswer(p, i)
                 PROVE  SaidOf(ChunksAt(p, i)) = CutsOf(Shown[docs[p].prefix[i]])
      BY DEF FieldsKept, SaidOf, CutsOf, CutText, Part
    <2>1. Present(rows[p])
      BY DEF Committed, IndexTrue, OutcomeCommitted
    <2>2. PICK t, d, provider : t = docs[p].prefix /\ d = docs[p].chunks
           /\ provider = Provider[p]
      OBVIOUS
    <2>3. PICK n : n = Rebuild(p, t)
      OBVIOUS
    <2>4. Follows(d, n.chunks)
      BY <2>1, <2>2, <2>3 DEF IndexTrue, RowsRebuilt, IndexedSo, RebuiltAs
    <2>5. t \in Seq(DOMAIN Tree)
      BY <2>2 DEF TypeOK, IsDocs
    <2>6. DOMAIN t = 1..Len(t) /\ Len(t) \in Nat /\ i \in 1..Len(t)
      BY <2>2, <2>5
    <2>7. \A j \in 1..Len(t) : t[j] \in RecordsOf(p)
      BY <2>1, <2>2, <2>6 DEF Authored, RowsDrawn, Drawn, Range
    <2>8. \A j \in 1..Len(t) : Readable(provider, t[j])
      BY <2>2, <2>7 DEF FieldsRead, Readable
    <2>9. Recounts(provider, t, Len(t), n)
      BY <2>2, <2>3, <2>5, <2>8, RebuildRecounts, SessionAssumption
    <2>10. PICK r : r = t[i] /\ r \in RecordsOf(p)
      BY <2>6, <2>7
    <2>11. Unmet(provider, t, i)
      <3>1. \A h \in 1..(i - 1) : t[h] # t[i]
        BY <2>2 DEF Repeated
      <3>2. ASSUME NEW call, call = AnsweredCall(provider, r), call # None, Tree[r] # Malformed,
                   NEW h \in 1..(i - 1)
            PROVE  ~CallsOwn(provider, t[h], call)
        <4> SUFFICES ASSUME CallsOwn(provider, t[h], call) PROVE FALSE
          OBVIOUS
        <4>1. call = AnswerTo[r]
          BY <2>2, <2>10, <3>2 DEF FieldsRead
        <4>2. h \in 1..Len(t)
          BY <2>6
        <4>3. PICK q : q = t[h] /\ q \in RecordsOf(p)
          BY <2>7, <4>2
        <4>4. OwnCallOf[q] = AnswerTo[r]
          BY <2>2, <2>10, <3>2, <4>1, <4>3 DEF FieldsRead
        <4> QED BY <2>2, <2>10, <3>2, <4>1, <4>3, <4>4 DEF OwnAnswer
      <3> QED BY <2>10, <3>1, <3>2 DEF Unmet
    <2>12. SaidOf(LineOf(n.chunks, i)) = Told(provider, r)
      BY <2>6, <2>9, <2>10, <2>11 DEF Recounts
    <2>13. SaidOf(LineOf(d, i)) = SaidOf(LineOf(n.chunks, i))
      BY <2>4, LineFollows
    <2>14. ChunksAt(p, i) = LineOf(d, i)
      BY <2>2 DEF ChunksAt, LineOf, OnLine
    <2>15. CutsOf(Shown[r]) = Told(provider, r)
      <3>1. CASE Tree[r] = Malformed
        <4>1. Shown[r] = <<>>
          BY <2>10, <3>1 DEF FieldsRead
        <4> QED BY <3>1, <4>1, CutsOfNone DEF Told
      <3>2. CASE Tree[r] # Malformed
        <4>1. PICK shown, said : /\ shown = Shown[r]
                                 /\ said = Distinct(FieldsOf(ItemsOf(provider, r)))
          OBVIOUS
        <4>2. Says(shown, said)
          BY <2>2, <2>10, <3>2, <4>1 DEF FieldsRead
        <4>3. CutsOf(shown) = CutsOf(said)
          BY ONLY <4>2, SaysCuts
        <4> QED BY <3>2, <4>1, <4>3 DEF Told
      <3> QED BY <3>1, <3>2
    <2> QED BY <2>2, <2>10, <2>12, <2>13, <2>14, <2>15
  <1> QED BY <1>1, IndexInductive, IndexAuthored, PTL
=============================================================================
