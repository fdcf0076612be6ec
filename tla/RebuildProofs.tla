---------------------------- MODULE RebuildProofs ----------------------------
(***************************************************************************)
(* What is indexed of a session file is what one reading of it would have  *)
(* left, for every collection of files and of records, however often and   *)
(* with whatever interruptions it was appended to.                         *)
(*                                                                         *)
(* The argument, from the inside out.  The functions of FieldDedup and     *)
(* SessionRecords treat a record alike whatever session it is filed under, *)
(* and however the identifiers met so far are divided between memory and   *)
(* the rows (the first half of the module: twins, then identifiers).       *)
(* So the records an append reads leave what they would have left had the  *)
(* reading begun at the first, but that chunks may say "unknown" where the *)
(* session was named later (`Trails', `Passes', `Follows').  The archive   *)
(* of a read gives the second pass the fragments the first one took        *)
(* (`Sound', `Holds').  IndexTrue then holds of every step, and of what is *)
(* settled: SessionRebuilt.  What the ledger counts as diagnostics of an   *)
(* entry is what the same reading counts: SessionLedgered.  And it makes   *)
(* no chunk of an answer to a call of this program's own tools, once it    *)
(* has met the call (`Shows', `Excludes'): SessionOwnResults.              *)
(*                                                                         *)
(* The last part are lemmas for FieldProofs: how items make fields, and    *)
(* how a text is cut into pieces.                                          *)
(***************************************************************************)
EXTENDS SessionProofs, SequenceTheorems

(***************************************************************************)
(* Sequences, place by place.                                              *)
(***************************************************************************)
(* A function over 1..n is a sequence of length n. *)
LEMMA TableIs ==
  ASSUME NEW n \in Nat, NEW f, f = [i \in 1..n |-> f[i]]
  PROVE  IsSeq(f) /\ Len(f) = n
  <1> DEFINE S == {f[i] : i \in DOMAIN f}
  <1>1. DOMAIN f = 1..n /\ \A i \in 1..n : f[i] \in S
    OBVIOUS
  <1>2. f \in [1..n -> S]
    BY <1>1
  <1>3. f \in Seq(S)
    BY <1>2
  <1> QED BY <1>1, <1>3 DEF IsSeq

(* So is every member of a set of sequences. *)
LEMMA TypedSeq ==
  ASSUME NEW T, NEW s \in Seq(T)
  PROVE  IsSeq(s)
  <1> DEFINE S == {s[i] : i \in DOMAIN s}
             n == Len(s)
  <1>1. n \in Nat /\ s \in [1..n -> T]
    OBVIOUS
  <1> HIDE DEF n
  <1>2. DOMAIN s = 1..n /\ \A i \in 1..n : s[i] \in S
    BY <1>1
  <1>3. s \in [1..n -> S]
    BY <1>1, <1>2
  <1>4. s \in Seq(S)
    <2> HIDE DEF S
    <2> QED BY <1>1, <1>3
  <1> QED BY <1>4 DEF IsSeq

(* The length and the places of a sequence. *)
LEMMA SeqIs ==
  ASSUME NEW s, IsSeq(s)
  PROVE  /\ Len(s) \in Nat /\ DOMAIN s = 1..Len(s)
         /\ s = [i \in 1..Len(s) |-> s[i]]
  BY DEF IsSeq

(* The empty sequence is one. *)
LEMMA EmptyIs == IsSeq(<<>>)
  BY DEF IsSeq

(* Append, place by place. *)
LEMMA AppendIs ==
  ASSUME NEW s, IsSeq(s), NEW e
  PROVE  /\ IsSeq(Append(s, e)) /\ Len(Append(s, e)) = Len(s) + 1
         /\ Append(s, e)[Len(s) + 1] = e
         /\ \A i \in 1..Len(s) : Append(s, e)[i] = s[i]
  <1> DEFINE S == {s[i] : i \in DOMAIN s} \cup {e}
  <1>1. s \in Seq(S) /\ e \in S
    BY DEF IsSeq
  <1> HIDE DEF S
  <1>2. Append(s, e) \in Seq(S)
    BY <1>1
  <1>3. IsSeq(Append(s, e))
    BY <1>2, TypedSeq
  <1> QED BY <1>1, <1>3

(* Concatenation, place by place. *)
LEMMA ConcatIs ==
  ASSUME NEW s, IsSeq(s), NEW t, IsSeq(t)
  PROVE  /\ IsSeq(s \o t) /\ Len(s \o t) = Len(s) + Len(t)
         /\ \A i \in 1..Len(s) : (s \o t)[i] = s[i]
         /\ \A i \in 1..Len(t) : (s \o t)[Len(s) + i] = t[i]
  <1> DEFINE S == {s[i] : i \in DOMAIN s} \cup {t[i] : i \in DOMAIN t}
  <1>1. s \in Seq(S) /\ t \in Seq(S)
    BY DEF IsSeq
  <1> HIDE DEF S
  <1>2. s \o t \in Seq(S)
    BY <1>1
  <1>3. IsSeq(s \o t)
    BY <1>2, TypedSeq
  <1> QED BY <1>1, <1>3

(***************************************************************************)
(* The same record under two sessions.                                     *)
(***************************************************************************)
ItemWith(x, a) ==
    [text |-> x.text, path |-> x.path, kind |-> x.kind, role |-> x.role,
     tool |-> x.tool, session |-> a, event |-> x.event]
Twin(x, y, a, b) == x = ItemWith(x, a) /\ y = ItemWith(x, b) /\ IsSeq(x.text)
Twins(s, t, a, b) ==
    /\ IsSeq(s) /\ IsSeq(t) /\ Len(t) = Len(s)
    /\ \A i \in 1..Len(s) : Twin(s[i], t[i], a, b)

(* Twins are so with one more item each. *)
LEMMA TwinsAppend ==
  ASSUME NEW a, NEW b, NEW s, NEW t, Twins(s, t, a, b), NEW x, NEW y, Twin(x, y, a, b)
  PROVE  Twins(Append(s, x), Append(t, y), a, b)
  <1> DEFINE u == Append(s, x)
             v == Append(t, y)
             n == Len(s)
  <1>1. n \in Nat /\ Len(t) = n
    BY SeqIs DEF Twins
  <1>2. IsSeq(u) /\ Len(u) = n + 1 /\ u[n + 1] = x /\ \A i \in 1..n : u[i] = s[i]
    BY AppendIs DEF Twins
  <1>3. IsSeq(v) /\ Len(v) = n + 1 /\ v[n + 1] = y /\ \A i \in 1..n : v[i] = t[i]
    BY <1>1, AppendIs DEF Twins
  <1> HIDE DEF u, v
  <1>4. \A i \in 1..n : Twin(u[i], v[i], a, b)
    BY <1>2, <1>3 DEF Twins
  <1> HIDE DEF n
  <1>5. \A i \in 1..(n + 1) : i = n + 1 \/ i \in 1..n
    BY <1>1
  <1>6. \A i \in 1..(n + 1) : Twin(u[i], v[i], a, b)
    BY <1>2, <1>3, <1>4, <1>5
  <1>7. Twins(u, v, a, b)
    BY <1>2, <1>3, <1>6 DEF Twins
  <1> QED BY <1>7 DEF u, v

(* Twins are so one after the other. *)
LEMMA TwinsConcat ==
  ASSUME NEW a, NEW b, NEW s, NEW t, Twins(s, t, a, b), NEW p, NEW q, Twins(p, q, a, b)
  PROVE  Twins(s \o p, t \o q, a, b)
  <1> DEFINE u == s \o p
             v == t \o q
             n == Len(s)
             m == Len(p)
  <1>1. n \in Nat /\ Len(t) = n /\ m \in Nat /\ Len(q) = m
    BY SeqIs DEF Twins
  <1>2. /\ IsSeq(u) /\ Len(u) = n + m /\ \A i \in 1..n : u[i] = s[i]
        /\ \A i \in 1..m : u[n + i] = p[i]
    BY ConcatIs DEF Twins
  <1>3. /\ IsSeq(v) /\ Len(v) = n + m /\ \A i \in 1..n : v[i] = t[i]
        /\ \A i \in 1..m : v[n + i] = q[i]
    <2>0. IsSeq(t) /\ IsSeq(q)
      BY DEF Twins
    <2>1. /\ IsSeq(v) /\ Len(v) = Len(t) + Len(q)
          /\ \A i \in 1..Len(t) : v[i] = t[i]
          /\ \A i \in 1..Len(q) : v[Len(t) + i] = q[i]
      BY ONLY <2>0, ConcatIs
    <2> HIDE DEF v, n, m
    <2> QED BY <1>1, <2>1
  <1> HIDE DEF u, v
  <1>4. \A i \in 1..n : Twin(u[i], v[i], a, b)
    BY <1>2, <1>3 DEF Twins
  <1>5. \A i \in 1..m : Twin(u[n + i], v[n + i], a, b)
    BY <1>2, <1>3 DEF Twins
  <1> HIDE DEF n, m
  <1>6. ASSUME NEW i \in 1..(n + m), i \notin 1..n
        PROVE  \E j \in 1..m : i = n + j
    <2>1. i - n \in 1..m /\ i = n + (i - n)
      BY <1>1, <1>6
    <2> QED BY <2>1
  <1>7. \A i \in 1..(n + m) : Twin(u[i], v[i], a, b)
    BY <1>4, <1>5, <1>6
  <1>8. Twins(u, v, a, b)
    BY <1>2, <1>3, <1>7 DEF Twins
  <1> QED BY <1>8 DEF u, v

(* No items are twins of no items. *)
LEMMA TwinsEmpty == \A a, b : Twins(<<>>, <<>>, a, b)
  <1>1. IsSeq(<<>>)
    BY DEF IsSeq
  <1> QED BY <1>1 DEF Twins

(* Tables of items are twins if the items are. *)
LEMMA TwinsTable ==
  ASSUME NEW a, NEW b, NEW n \in Nat, NEW f, NEW g,
         f = [i \in 1..n |-> f[i]], g = [i \in 1..n |-> g[i]],
         \A i \in 1..n : Twin(f[i], g[i], a, b)
  PROVE  Twins(f, g, a, b)
  <1>1. IsSeq(f) /\ Len(f) = n /\ IsSeq(g) /\ Len(g) = n
    BY TableIs
  <1> QED BY <1>1 DEF Twins

(***************************************************************************)
(* The deduplicator, fed twins.                                            *)
(***************************************************************************)
KeyWith(k, a) == <<k[1], a, k[3], k[4], k[5]>>
IndexTwin(I, J, a, b) ==
    /\ \A x \in I : /\ x.key = KeyWith(x.key, a)
                    /\ [key |-> KeyWith(x.key, b), start |-> x.start,
                        length |-> x.length] \in J
    /\ \A y \in J : \E x \in I : y = [key |-> KeyWith(x.key, b), start |-> x.start,
                                      length |-> x.length]
IsActive(f) ==
    f # NoField /\ f = [item |-> f.item, start |-> f.start, length |-> f.length,
                        inline |-> f.inline]
ActiveTwin(f, g, a, b) ==
    \/ f = NoField /\ g = NoField
    \/ /\ IsActive(f) /\ IsActive(g) /\ Twin(f.item, g.item, a, b)
       /\ g.start = f.start /\ g.length = f.length /\ g.inline = f.inline
       /\ f.start \in Nat /\ f.length \in Nat /\ IsSeq(f.inline)
DedupTwin(d, e, a, b) ==
    /\ d = [active |-> d.active, stored |-> d.stored, values |-> d.values,
            index |-> d.index, output |-> d.output]
    /\ e = [active |-> e.active, stored |-> d.stored, values |-> d.values,
            index |-> e.index, output |-> e.output]
    /\ ActiveTwin(d.active, e.active, a, b) /\ IndexTwin(d.index, e.index, a, b)
    /\ IsSeq(d.values)
    /\ Twins(d.output, e.output, a, b)

(* A field that is made of an item is one. *)
LEMMA SomeField ==
  ASSUME NEW i, NEW s, NEW l, NEW t
  PROVE  IsActive([item |-> i, start |-> s, length |-> l, inline |-> t])
  <1> DEFINE f == [item |-> i, start |-> s, length |-> l, inline |-> t]
  <1>1. "item" \in DOMAIN f /\ "item" \notin DOMAIN NoField
    BY DEF NoField
  <1> QED BY <1>1 DEF IsActive

(* The keys of twins differ in the session only. *)
LEMMA TwinKey ==
  ASSUME NEW a, NEW b, NEW x, NEW y, Twin(x, y, a, b)
  PROVE  /\ DedupKey(x) = KeyWith(DedupKey(x), a) /\ DedupKey(y) = KeyWith(DedupKey(x), b)
         /\ y.path = x.path /\ y.text = x.text /\ y.kind = x.kind
         /\ Deduplicated(y) <=> Deduplicated(x)
  BY DEF Twin, ItemWith, DedupKey, KeyWith, Deduplicated

DeduperOf(f, st, v, x, o) ==
    [active |-> f, stored |-> st, values |-> v, index |-> x, output |-> o]
FieldOf(i, s, l, t) == [item |-> i, start |-> s, length |-> l, inline |-> t]

Yes == TRUE

(* Promote moves the text of the active field to the value file. *)
LEMMA PromoteOf ==
  ASSUME NEW i, NEW s, NEW l, NEW t, NEW st, NEW v, NEW x, NEW o, NEW d,
         d = DeduperOf(FieldOf(i, s, l, t), st, v, x, o)
  PROVE  Promote(d) = DeduperOf(FieldOf(i, Len(v), l, <<>>), Yes, v \o t, x, o)
  <1>1. PICK n, w : n = Len(v) /\ w = v \o t
    OBVIOUS
  <1>2. d.active = FieldOf(i, s, l, t) /\ d.values = v /\ d.active.inline = t
    BY DEF DeduperOf, FieldOf
  <1>3. PICK f : f = d.active
    OBVIOUS
  <1>4. PICK g : g = [f EXCEPT !.start = n, !.inline = <<>>]
    OBVIOUS
  <1>4a. g = FieldOf(i, n, l, <<>>)
    <2>1. f = FieldOf(i, s, l, t)
      BY <1>2, <1>3
    <2> QED BY ONLY <2>1, <1>4 DEF FieldOf
  <1>5. PICK p : p = Promote(d)
    OBVIOUS
  <1>6. p = [d EXCEPT !.stored = TRUE, !.values = w, !.active = g]
    BY <1>1, <1>2, <1>3, <1>4, <1>5 DEF Promote
  <1>7. p = DeduperOf(g, Yes, w, x, o)
    BY <1>6 DEF DeduperOf, Yes
  <1> QED BY <1>1, <1>4a, <1>5, <1>7

(* AppendActive once the field is where it is to be kept. *)
Lengthened(d, text) ==
    LET longer == [d.active EXCEPT !.length = @ + Len(text)] IN
    IF d.stored THEN [d EXCEPT !.values = @ \o text, !.active = longer]
    ELSE [d EXCEPT !.active = [longer EXCEPT !.inline = @ \o text]]

(* Lengthened, field by field. *)
LEMMA LongerOf ==
  ASSUME NEW i, NEW s, NEW l, NEW t, NEW st, NEW v, NEW x, NEW o, NEW text, NEW d,
         d = DeduperOf(FieldOf(i, s, l, t), st, v, x, o)
  PROVE  Lengthened(d, text) =
            IF st THEN DeduperOf(FieldOf(i, s, l + Len(text), t), st, v \o text, x, o)
            ELSE DeduperOf(FieldOf(i, s, l + Len(text), t \o text), st, v, x, o)
  <1>1. PICK n, w, u : n = l + Len(text) /\ w = v \o text /\ u = t \o text
    OBVIOUS
  <1>2. d.active = FieldOf(i, s, l, t) /\ d.values = v /\ d.stored = st
    BY DEF DeduperOf
  <1>3. PICK longer : longer = [d.active EXCEPT !.length = @ + Len(text)]
    OBVIOUS
  <1>4. longer = FieldOf(i, s, n, t)
    <2>1. d.active.length = l
      BY <1>2 DEF FieldOf
    <2>2. longer = [d.active EXCEPT !.length = n]
      BY <1>1, <1>3, <2>1
    <2> QED BY <1>2, <2>2 DEF FieldOf
  <1>5. PICK wider : wider = [longer EXCEPT !.inline = @ \o text]
    OBVIOUS
  <1>6. wider = FieldOf(i, s, n, u)
    <2>1. longer.inline = t
      BY <1>4 DEF FieldOf
    <2>2. wider = [longer EXCEPT !.inline = u]
      BY <1>1, <1>5, <2>1
    <2> QED BY <1>4, <2>2 DEF FieldOf
  <1>7. PICK e : e = Lengthened(d, text)
    OBVIOUS
  <1>8. e = IF st THEN [d EXCEPT !.values = w, !.active = longer]
            ELSE [d EXCEPT !.active = wider]
    BY <1>1, <1>2, <1>3, <1>5, <1>7 DEF Lengthened
  <1>9. e = IF st THEN DeduperOf(longer, st, w, x, o) ELSE DeduperOf(wider, st, v, x, o)
    <2>1. CASE st
      <3>1. e = [d EXCEPT !.values = w, !.active = longer]
        BY <1>8, <2>1
      <3>2. e = DeduperOf(longer, st, w, x, o)
        BY <3>1 DEF DeduperOf
      <3> QED BY <2>1, <3>2
    <2>2. CASE ~st
      <3>1. e = [d EXCEPT !.active = wider]
        BY <1>8, <2>2
      <3>2. e = DeduperOf(wider, st, v, x, o)
        BY <3>1 DEF DeduperOf
      <3> QED BY <2>2, <3>2
    <2> QED BY <2>1, <2>2
  <1> QED BY <1>1, <1>4, <1>6, <1>7, <1>9

(* Deduplicators fed twins stay alike when the active field moves to the file, *)
LEMMA TwinPromote ==
  ASSUME NEW a, NEW b, NEW d, NEW e, DedupTwin(d, e, a, b), d.active # NoField
  PROVE  DedupTwin(Promote(d), Promote(e), a, b) /\ Promote(d).active # NoField
  <1> DEFINE v == d.values \o d.active.inline
             n == Len(d.values)
             f == [item |-> d.active.item, start |-> n, length |-> d.active.length,
                   inline |-> <<>>]
             g == [item |-> e.active.item, start |-> n, length |-> d.active.length,
                   inline |-> <<>>]
             p == [active |-> f, stored |-> TRUE, values |-> v, index |-> d.index,
                   output |-> d.output]
             q == [active |-> g, stored |-> TRUE, values |-> v, index |-> e.index,
                   output |-> e.output]
  <1>1. /\ IsActive(d.active) /\ IsActive(e.active) /\ Twin(d.active.item, e.active.item, a, b)
        /\ e.active.start = d.active.start /\ e.active.length = d.active.length
        /\ e.active.inline = d.active.inline
        /\ d.active.length \in Nat /\ IsSeq(d.active.inline) /\ IsSeq(d.values)
    BY DEF DedupTwin, ActiveTwin
  <1>3. Promote(d) = p
    <2> DEFINE c == d.active
    <2>1. d = DeduperOf(FieldOf(c.item, c.start, c.length, c.inline), d.stored, d.values,
                        d.index, d.output)
      BY <1>1 DEF DedupTwin, IsActive, DeduperOf, FieldOf
    <2>2. Promote(d) = DeduperOf(FieldOf(c.item, Len(d.values), c.length, <<>>), Yes,
                                 d.values \o c.inline, d.index, d.output)
      BY ONLY <2>1, PromoteOf
    <2> QED BY <2>2 DEF DeduperOf, FieldOf, Yes
  <1>3a. Promote(e) = q
    <2> DEFINE c == e.active
    <2>1. e = DeduperOf(FieldOf(c.item, c.start, c.length, c.inline), d.stored,
                        d.values, e.index, e.output)
      BY <1>1 DEF DedupTwin, IsActive, DeduperOf, FieldOf
    <2>2. Promote(e) = DeduperOf(FieldOf(c.item, Len(d.values), c.length, <<>>), Yes,
                                 d.values \o c.inline, e.index, e.output)
      BY ONLY <2>1, PromoteOf
    <2> QED BY <1>1, <2>2 DEF DeduperOf, FieldOf, Yes
  <1>4. IsActive(f) /\ IsActive(g)
    BY SomeField
  <1>4a. n \in Nat /\ IsSeq(v) /\ IsSeq(<<>>)
    BY <1>1, SeqIs, ConcatIs, EmptyIs
  <1> HIDE DEF v, n
  <1>5. ActiveTwin(f, g, a, b)
    BY <1>1, <1>4, <1>4a DEF ActiveTwin
  <1>6. DedupTwin(p, q, a, b)
    BY <1>4a, <1>5 DEF DedupTwin
  <1>7. f # NoField
    BY <1>4 DEF IsActive
  <1> QED BY <1>3, <1>3a, <1>6, <1>7

(* when it grows, *)
LEMMA TwinAppendActive ==
  ASSUME NEW a, NEW b, NEW d, NEW e, DedupTwin(d, e, a, b), d.active # NoField, NEW text,
         IsSeq(text)
  PROVE  DedupTwin(AppendActive(d, text), AppendActive(e, text), a, b)
  <1> DEFINE s == ~d.stored /\ Len(d.active.inline) + Len(text) > InlineField
             p == IF s THEN Promote(d) ELSE d
             q == IF s THEN Promote(e) ELSE e
             i == IF p.stored THEN p.active.inline ELSE p.active.inline \o text
             v == IF p.stored THEN p.values \o text ELSE p.values
             n == p.active.length + Len(text)
             f == [item |-> p.active.item, start |-> p.active.start, length |-> n,
                   inline |-> i]
             g == [item |-> q.active.item, start |-> p.active.start, length |-> n,
                   inline |-> i]
             x == [active |-> f, stored |-> p.stored, values |-> v, index |-> p.index,
                   output |-> p.output]
             y == [active |-> g, stored |-> p.stored, values |-> v, index |-> q.index,
                   output |-> q.output]
  <1>1. e.stored = d.stored /\ e.active.inline = d.active.inline
    BY DEF DedupTwin, ActiveTwin
  <1>2. DedupTwin(p, q, a, b) /\ p.active # NoField
    BY TwinPromote
  <1>3. /\ AppendActive(d, text) = Lengthened(p, text)
        /\ AppendActive(e, text) = Lengthened(q, text)
    BY <1>1 DEF AppendActive, Lengthened
  <1> HIDE DEF p, q, s
  <1>4. /\ IsActive(p.active) /\ IsActive(q.active) /\ Twin(p.active.item, q.active.item, a, b)
        /\ q.active.start = p.active.start /\ q.active.length = p.active.length
        /\ q.active.inline = p.active.inline /\ q.stored = p.stored /\ q.values = p.values
        /\ p = [active |-> p.active, stored |-> p.stored, values |-> p.values,
                index |-> p.index, output |-> p.output]
        /\ q = [active |-> q.active, stored |-> p.stored, values |-> p.values,
                index |-> q.index, output |-> q.output]
        /\ p.active.start \in Nat /\ p.active.length \in Nat /\ IsSeq(p.active.inline)
        /\ IsSeq(p.values)
    BY <1>2 DEF DedupTwin, ActiveTwin
  <1>5. AppendActive(d, text) = x
    <2> DEFINE c == p.active
               y1 == DeduperOf(FieldOf(c.item, c.start, c.length + Len(text), c.inline),
                               p.stored, p.values \o text,
                        p.index, p.output)
               y2 == DeduperOf(FieldOf(c.item, c.start, c.length + Len(text), c.inline \o text),
                               p.stored, p.values,
                        p.index, p.output)
    <2>1. p = DeduperOf(FieldOf(c.item, c.start, c.length, c.inline), p.stored, p.values,
                        p.index, p.output)
      BY <1>4 DEF IsActive, DeduperOf, FieldOf
    <2>2. Lengthened(p, text) = IF p.stored THEN y1 ELSE y2
      BY <2>1, LongerOf
    <2>3. CASE p.stored
      <3>1. x = y1
        BY <2>3 DEF DeduperOf, FieldOf
      <3> QED BY <1>3, <2>2, <2>3, <3>1
    <2>4. CASE ~p.stored
      <3>1. x = y2
        BY <2>4 DEF DeduperOf, FieldOf
      <3> QED BY <1>3, <2>2, <2>4, <3>1
    <2> QED BY <2>3, <2>4
  <1>6. AppendActive(e, text) = y
    <2> DEFINE c == q.active
               y1 == DeduperOf(FieldOf(c.item, c.start, c.length + Len(text), c.inline),
                               p.stored, p.values \o text,
                        q.index, q.output)
               y2 == DeduperOf(FieldOf(c.item, c.start, c.length + Len(text), c.inline \o text),
                               p.stored, p.values,
                        q.index, q.output)
    <2>1. q = DeduperOf(FieldOf(c.item, c.start, c.length, c.inline), p.stored,
                        p.values, q.index, q.output)
      BY <1>4 DEF IsActive, DeduperOf, FieldOf
    <2>2. Lengthened(q, text) = IF p.stored THEN y1 ELSE y2
      BY <2>1, LongerOf
    <2>3. CASE p.stored
      <3>1. y = y1
        BY <1>4, <2>3 DEF DeduperOf, FieldOf
      <3> QED BY <1>3, <2>2, <2>3, <3>1
    <2>4. CASE ~p.stored
      <3>1. y = y2
        BY <1>4, <2>4 DEF DeduperOf, FieldOf
      <3> QED BY <1>3, <2>2, <2>4, <3>1
    <2> QED BY <2>3, <2>4
  <1>7. IsActive(f) /\ IsActive(g)
    BY SomeField
  <1>7a. n \in Nat /\ IsSeq(i) /\ IsSeq(v)
    <2>1. IsSeq(p.active.inline \o text) /\ IsSeq(p.values \o text) /\ Len(text) \in Nat
      BY <1>4, SeqIs, ConcatIs
    <2>2. IsSeq(i)
      BY <1>4, <2>1
    <2>3. IsSeq(v)
      BY <1>4, <2>1
    <2> QED BY <1>4, <2>1, <2>2, <2>3
  <1> HIDE DEF i, v, n
  <1>8. ActiveTwin(f, g, a, b)
    BY <1>4, <1>7, <1>7a DEF ActiveTwin
  <1>9. DedupTwin(x, y, a, b)
    BY <1>2, <1>7a, <1>8 DEF DedupTwin
  <1> QED BY <1>5, <1>6, <1>9

(* and when the next field is started. *)
LEMMA TwinStartField ==
  ASSUME NEW a, NEW b, NEW d, NEW e, DedupTwin(d, e, a, b), NEW x, NEW y, Twin(x, y, a, b)
  PROVE  DedupTwin(StartField(d, x), StartField(e, y), a, b)
  <1> DEFINE n == Len(d.values)
             f == [item |-> x, start |-> n, length |-> 0, inline |-> <<>>]
             g == [item |-> y, start |-> n, length |-> 0, inline |-> <<>>]
             p == [active |-> f, stored |-> d.stored, values |-> d.values,
                   index |-> d.index, output |-> d.output]
             q == [active |-> g, stored |-> d.stored, values |-> d.values,
                   index |-> e.index, output |-> e.output]
  <1>1. [d EXCEPT !.active = [item |-> x, start |-> Len(d.values), length |-> 0,
                              inline |-> <<>>]] = p
    BY DEF DedupTwin
  <1>2. [e EXCEPT !.active = [item |-> y, start |-> Len(e.values), length |-> 0,
                              inline |-> <<>>]] = q
    BY DEF DedupTwin
  <1>3. IsActive(f) /\ IsActive(g)
    BY SomeField
  <1>4. StartField(d, x) = AppendActive(p, x.text) /\ StartField(e, y) = AppendActive(q, x.text)
    BY <1>1, <1>2, TwinKey DEF StartField
  <1>4a. n \in Nat /\ IsSeq(<<>>) /\ IsSeq(x.text)
    BY SeqIs, EmptyIs DEF DedupTwin, Twin
  <1> HIDE DEF n
  <1>5. ActiveTwin(f, g, a, b)
    BY <1>3, <1>4a DEF ActiveTwin
  <1>6. DedupTwin(p, q, a, b) /\ p.active # NoField
    BY <1>3, <1>5 DEF DedupTwin, IsActive
  <1> HIDE DEF p, q
  <1> QED BY <1>4, <1>4a, <1>6, TwinAppendActive

(* A field repeats an earlier one in both or in neither. *)
LEMMA TwinRepeats ==
  ASSUME NEW a, NEW b, NEW d, NEW e, DedupTwin(d, e, a, b), d.active # NoField
  PROVE  Repeats(d) <=> Repeats(e)
  <1> DEFINE k == DedupKey(d.active.item)
             l == DedupKey(e.active.item)
  <1>1. /\ e.active.start = d.active.start /\ e.active.length = d.active.length
        /\ e.values = d.values /\ Twin(d.active.item, e.active.item, a, b)
    BY DEF DedupTwin, ActiveTwin
  <1>2. k = KeyWith(k, a) /\ l = KeyWith(k, b)
    BY <1>1, TwinKey
  <1>3. IndexTwin(d.index, e.index, a, b)
    BY DEF DedupTwin
  <1>4. \A s, n : ValueRange(e, s, n) = ValueRange(d, s, n)
    BY <1>1 DEF ValueRange
  <1> HIDE DEF k, l
  <1>5. ASSUME Repeats(d) PROVE Repeats(e)
    <2>1. PICK x \in d.index :
            /\ x.key = k /\ x.length = d.active.length
            /\ ValueRange(d, x.start, x.length)
                  = ValueRange(d, d.active.start, d.active.length)
      BY <1>5 DEF Repeats, k
    <2> DEFINE y == [key |-> KeyWith(x.key, b), start |-> x.start, length |-> x.length]
    <2>2. y \in e.index
      BY <1>3 DEF IndexTwin
    <2>3. y.key = l /\ y.start = x.start /\ y.length = x.length
      BY <1>2, <2>1
    <2> HIDE DEF y
    <2> QED BY <1>1, <1>4, <2>1, <2>2, <2>3 DEF Repeats, l
  <1>6. ASSUME Repeats(e) PROVE Repeats(d)
    <2>1. PICK y \in e.index :
            /\ y.key = l /\ y.length = e.active.length
            /\ ValueRange(e, y.start, y.length)
                  = ValueRange(e, e.active.start, e.active.length)
      BY <1>6 DEF Repeats, l
    <2>2. PICK x \in d.index : y = [key |-> KeyWith(x.key, b), start |-> x.start,
                                    length |-> x.length]
      BY <1>3 DEF IndexTwin
    <2>3. x.key = k
      <3>1. x.key = KeyWith(x.key, a)
        BY <1>3 DEF IndexTwin
      <3>2. KeyWith(x.key, b) = KeyWith(k, b)
        BY <1>2, <2>1, <2>2
      <3> QED BY <1>2, <3>1, <3>2 DEF KeyWith
    <2>4. y.start = x.start /\ y.length = x.length
      BY <2>2
    <2> QED BY <1>1, <1>4, <2>1, <2>3, <2>4 DEF Repeats, k
  <1> QED BY <1>5, <1>6

(* A part of anything is a sequence. *)
LEMMA SubSeqIs ==
  ASSUME NEW s, NEW m \in Int, NEW n \in Int
  PROVE  IsSeq(SubSeq(s, m, n))
  <1> DEFINE S == {s[i] : i \in m..n}
  <1>1. \A i \in m..n : s[i] \in S
    OBVIOUS
  <1> HIDE DEF S
  <1>2. SubSeq(s, m, n) \in Seq(S)
    BY <1>1, SubSeqProperties
  <1> QED BY <1>2, TypedSeq

(* A quotient of naturals is one. *)
LEMMA QuotientIs ==
  ASSUME NEW a \in Nat, NEW b \in Nat \ {0}
  PROVE  a \div b \in Nat
  OBVIOUS

(* A text comes back from the value file in pieces, which are sequences. *)
LEMMA PiecesAre ==
  ASSUME NEW text, IsSeq(text)
  PROVE  /\ IsSeq(Pieces(text))
         /\ \A i \in DOMAIN Pieces(text) : IsSeq(Pieces(text)[i])
  <1> DEFINE n == (Len(text) + FragmentUnits - 1) \div FragmentUnits
             last(i) == IF i * FragmentUnits < Len(text) THEN i * FragmentUnits ELSE Len(text)
             f == [i \in 1..n |-> SubSeq(text, (i - 1) * FragmentUnits + 1, last(i))]
  <1>1. FragmentUnits \in Nat \ {0} /\ Len(text) \in Nat
    BY FragmentAssumption, SeqIs
  <1>2. n \in Nat
    <2>1. Len(text) + FragmentUnits - 1 \in Nat
      BY <1>1
    <2> QED BY <1>1, <2>1, QuotientIs
  <1>3. \A i \in 1..n : (i - 1) * FragmentUnits + 1 \in Int /\ last(i) \in Int
    BY <1>1, <1>2
  <1>4. Pieces(text) = f
    BY DEF Pieces
  <1> HIDE DEF n, last
  <1>5. DOMAIN f = 1..n /\ \A i \in 1..n : IsSeq(f[i])
    BY <1>3, SubSeqIs
  <1>6. f = [i \in 1..n |-> f[i]]
    OBVIOUS
  <1> HIDE DEF f
  <1>7. IsSeq(f)
    BY <1>2, <1>6, TableIs
  <1> QED BY <1>4, <1>5, <1>7

(* The items replayed from the value files are twins. *)
LEMMA TwinReplay ==
  ASSUME NEW a, NEW b, NEW d, NEW e, DedupTwin(d, e, a, b), d.active # NoField
  PROVE  Twins(Replay(d), Replay(e), a, b)
  <1> DEFINE x == d.active.item
             y == e.active.item
             t == ValueRange(d, d.active.start, d.active.length)
             n == Len(Pieces(t))
             f == [i \in 1..n |-> [x EXCEPT !.text = Pieces(t)[i]]]
             g == [i \in 1..n |-> [y EXCEPT !.text = Pieces(t)[i]]]
  <1>1. /\ e.active.start = d.active.start /\ e.active.length = d.active.length
        /\ e.values = d.values /\ Twin(x, y, a, b)
        /\ d.active.start \in Nat /\ d.active.length \in Nat
    BY DEF DedupTwin, ActiveTwin
  <1>2. IsSeq(t) /\ t = ValueRange(e, e.active.start, e.active.length)
    BY <1>1, SubSeqIs DEF ValueRange
  <1> HIDE DEF t
  <1>3. n \in Nat /\ DOMAIN Pieces(t) = 1..n /\ \A i \in 1..n : IsSeq(Pieces(t)[i])
    BY <1>2, PiecesAre, SeqIs
  <1>4. Replay(d) = f /\ Replay(e) = g
    BY <1>2, <1>3 DEF Replay, t
  <1> HIDE DEF n, x, y
  <1>5. ASSUME NEW i \in 1..n PROVE Twin(f[i], g[i], a, b)
    <2>1. PICK p : p = Pieces(t)[i]
      OBVIOUS
    <2>2. PICK v, w : v = [x EXCEPT !.text = p] /\ w = [y EXCEPT !.text = p]
      OBVIOUS
    <2>3. v = ItemWith(v, a) /\ w = ItemWith(v, b) /\ v.text = p
      BY <1>1, <2>2 DEF Twin, ItemWith
    <2>4. f[i] = v /\ g[i] = w
      BY <2>1, <2>2
    <2> QED BY <1>3, <2>1, <2>3, <2>4 DEF Twin
  <1>6. f = [i \in 1..n |-> f[i]] /\ g = [i \in 1..n |-> g[i]]
    OBVIOUS
  <1> HIDE DEF f, g
  <1>7. Twins(f, g, a, b)
    BY <1>3, <1>5, <1>6, TwinsTable
  <1> QED BY <1>4, <1>7

(* Done with a field, whatever its fate. *)
Finished(d, x, o) == DeduperOf(NoField, d.stored, d.values, x, o)

(* Deduplicators fed twins are alike once they are done with a field. *)
LEMMA TwinFinished ==
  ASSUME NEW a, NEW b, NEW d, NEW e, DedupTwin(d, e, a, b), NEW x, NEW y,
         IndexTwin(x, y, a, b), NEW o, NEW p, Twins(o, p, a, b)
  PROVE  DedupTwin(Finished(d, x, o), Finished(e, y, p), a, b)
  BY DEF DedupTwin, Finished, DeduperOf, ActiveTwin

(* Indices of alike fields stay alike with one more field each. *)
LEMMA IndexTwinAdds ==
  ASSUME NEW a, NEW b, NEW I, NEW J, IndexTwin(I, J, a, b), NEW k, NEW l,
         k = KeyWith(k, a), l = KeyWith(k, b), NEW s, NEW n
  PROVE  IndexTwin(I \cup {[key |-> k, start |-> s, length |-> n]},
                   J \cup {[key |-> l, start |-> s, length |-> n]}, a, b)
  <1> DEFINE x == [key |-> k, start |-> s, length |-> n]
             y == [key |-> l, start |-> s, length |-> n]
  <1>1. x.key = k /\ x.start = s /\ x.length = n
    OBVIOUS
  <1>2. y = [key |-> KeyWith(x.key, b), start |-> x.start, length |-> x.length]
    BY <1>1
  <1> HIDE DEF x, y
  <1>3. \A z \in I \cup {x} : /\ z.key = KeyWith(z.key, a)
                              /\ [key |-> KeyWith(z.key, b), start |-> z.start,
                                  length |-> z.length] \in J \cup {y}
    <2>1. \A z \in I : /\ z.key = KeyWith(z.key, a)
                       /\ [key |-> KeyWith(z.key, b), start |-> z.start,
                                  length |-> z.length] \in J
      BY DEF IndexTwin
    <2>2. x.key = KeyWith(x.key, a)
      BY <1>1
    <2> QED BY <1>2, <2>1, <2>2
  <1>4. \A z \in J \cup {y} : \E w \in I \cup {x} :
            z = [key |-> KeyWith(w.key, b), start |-> w.start, length |-> w.length]
    <2>1. \A z \in J : \E w \in I :
            z = [key |-> KeyWith(w.key, b), start |-> w.start, length |-> w.length]
      BY DEF IndexTwin
    <2> QED BY <1>2, <2>1
  <1>5. IndexTwin(I \cup {x}, J \cup {y}, a, b)
    BY ONLY <1>3, <1>4 DEF IndexTwin
  <1> QED BY <1>5 DEF x, y

FinishedOf(d, f, st, x, o) ==
    IF f = NoField THEN d
    ELSE IF ~st THEN Finished(d, x, Append(o, [f.item EXCEPT !.text = f.inline]))
    ELSE IF Repeats(d) THEN Finished(d, x, o)
    ELSE Finished(d, x \cup {[key |-> DedupKey(f.item), start |-> f.start,
                              length |-> f.length]}, o \o Replay(d))

(* FinishActive, case by case. *)
LEMMA FinishActiveIs ==
  ASSUME NEW d, NEW st, NEW v, NEW x, NEW o, NEW f, d = DeduperOf(f, st, v, x, o)
  PROVE  FinishActive(d) = FinishedOf(d, f, st, x, o)
  <1>1. /\ d.active = f /\ d.stored = st /\ d.values = v /\ d.index = x /\ d.output = o
    BY DEF DeduperOf
  <1>2. PICK done : done = [d EXCEPT !.active = NoField]
    OBVIOUS
  <1>3. PICK r : r = [f.item EXCEPT !.text = f.inline]
    OBVIOUS
  <1>4. PICK w, i : w = o \o Replay(d)
                    /\ i = x \cup {[key |-> DedupKey(f.item), start |-> f.start,
                                    length |-> f.length]}
    OBVIOUS
  <1>5. done = DeduperOf(NoField, st, v, x, o)
    BY <1>2 DEF DeduperOf
  <1>6. PICK e : e = FinishActive(d)
    OBVIOUS
  <1>7. CASE f = NoField
    BY <1>1, <1>7 DEF FinishActive, FinishedOf
  <1>8. CASE f # NoField /\ ~st
    <2>1. PICK u : u = [done EXCEPT !.output = Append(o, r)]
      OBVIOUS
    <2>2. e = u
      <3>1. done.output = o
        BY <1>5 DEF DeduperOf
      <3> QED BY <1>1, <1>2, <1>3, <1>6, <1>8, <2>1, <3>1 DEF FinishActive
    <2>3. u = DeduperOf(NoField, st, v, x, Append(o, r))
      BY <1>5, <2>1 DEF DeduperOf
    <2> QED BY <1>1, <1>3, <1>6, <1>8, <2>2, <2>3 DEF Finished, FinishedOf
  <1>9. CASE f # NoField /\ st /\ Repeats(d)
    <2>1. e = done
      BY <1>1, <1>2, <1>6, <1>9 DEF FinishActive
    <2> QED BY <1>1, <1>5, <1>6, <1>9, <2>1 DEF Finished, FinishedOf
  <1>10. CASE f # NoField /\ st /\ ~Repeats(d)
    <2>1. PICK u : u = [done EXCEPT !.output = w, !.index = i]
      OBVIOUS
    <2>2. e = u
      <3>1. done.output = o /\ done.index = x
        BY <1>5 DEF DeduperOf
      <3> QED BY <1>1, <1>2, <1>4, <1>6, <1>10, <2>1, <3>1 DEF FinishActive
    <2>3. u = DeduperOf(NoField, st, v, i, w)
      BY <1>5, <2>1 DEF DeduperOf
    <2> QED BY <1>1, <1>4, <1>6, <1>10, <2>2, <2>3 DEF Finished, FinishedOf
  <1> QED BY <1>7, <1>8, <1>9, <1>10

(* Deduplicators fed twins finish a field alike. *)
LEMMA TwinFinishActive ==
  ASSUME NEW a, NEW b, NEW d, NEW e, DedupTwin(d, e, a, b)
  PROVE  DedupTwin(FinishActive(d), FinishActive(e), a, b)
  <1> DEFINE f == d.active
             g == e.active
             k == DedupKey(f.item)
             l == DedupKey(g.item)
             r == [f.item EXCEPT !.text = f.inline]
             t == [g.item EXCEPT !.text = g.inline]
             x == d.index \cup {[key |-> k, start |-> f.start, length |-> f.length]}
             y == e.index \cup {[key |-> l, start |-> g.start, length |-> g.length]}
  <1>1. /\ d = DeduperOf(f, d.stored, d.values, d.index, d.output)
        /\ e = DeduperOf(g, e.stored, e.values, e.index, e.output)
        /\ e.stored = d.stored /\ ActiveTwin(f, g, a, b)
        /\ IndexTwin(d.index, e.index, a, b) /\ Twins(d.output, e.output, a, b)
    BY DEF DedupTwin, DeduperOf
  <1>2. FinishActive(d) =
            IF f = NoField THEN d
            ELSE IF ~d.stored THEN Finished(d, d.index, Append(d.output, r))
            ELSE IF Repeats(d) THEN Finished(d, d.index, d.output)
            ELSE Finished(d, x, d.output \o Replay(d))
    <2>1. d = DeduperOf(f, d.stored, d.values, d.index, d.output)
      BY <1>1
    <2>2. FinishActive(d) = FinishedOf(d, f, d.stored, d.index, d.output)
      BY ONLY <2>1, FinishActiveIs
    <2> QED BY <2>2 DEF FinishedOf
  <1>3. FinishActive(e) =
            IF g = NoField THEN e
            ELSE IF ~e.stored THEN Finished(e, e.index, Append(e.output, t))
            ELSE IF Repeats(e) THEN Finished(e, e.index, e.output)
            ELSE Finished(e, y, e.output \o Replay(e))
    <2>1. e = DeduperOf(g, e.stored, e.values, e.index, e.output)
      BY <1>1
    <2>2. FinishActive(e) = FinishedOf(e, g, e.stored, e.index, e.output)
      BY ONLY <2>1, FinishActiveIs
    <2> QED BY <2>2 DEF FinishedOf
  <1>4. CASE f = NoField
    <2>1. g = NoField
      BY <1>1, <1>4 DEF ActiveTwin, IsActive
    <2> QED BY <1>2, <1>3, <1>4, <2>1
  <1>5. CASE f # NoField
    <2>1. /\ g # NoField /\ Twin(f.item, g.item, a, b) /\ g.inline = f.inline
          /\ g.start = f.start /\ g.length = f.length /\ IsSeq(f.inline)
      BY <1>1, <1>5 DEF ActiveTwin, IsActive
    <2>2. Repeats(d) <=> Repeats(e)
      BY <1>5, TwinRepeats
    <2>3. DedupTwin(Finished(d, d.index, d.output), Finished(e, e.index, e.output), a, b)
      BY <1>1, TwinFinished
    <2>4. DedupTwin(Finished(d, d.index, Append(d.output, r)),
                    Finished(e, e.index, Append(e.output, t)), a, b)
      <3>1. PICK i, j, w : i = f.item /\ j = g.item /\ w = f.inline
        OBVIOUS
      <3>2. PICK u, v : u = [i EXCEPT !.text = w] /\ v = [j EXCEPT !.text = w]
        OBVIOUS
      <3>3. u = ItemWith(u, a) /\ v = ItemWith(u, b) /\ u.text = w
        BY <2>1, <3>1, <3>2 DEF Twin, ItemWith
      <3>4. Twin(r, t, a, b)
        BY <2>1, <3>1, <3>2, <3>3 DEF Twin
      <3> HIDE DEF r, t
      <3>5. Twins(Append(d.output, r), Append(e.output, t), a, b)
        BY <1>1, <3>4, TwinsAppend
      <3> QED BY <1>1, <3>5, TwinFinished
    <2>5. DedupTwin(Finished(d, x, d.output \o Replay(d)),
                    Finished(e, y, e.output \o Replay(e)), a, b)
      <3>1. k = KeyWith(k, a) /\ l = KeyWith(k, b)
        BY <2>1, TwinKey DEF Twin, ItemWith, DedupKey, KeyWith
      <3>2. IndexTwin(x, y, a, b)
        <4> HIDE DEF k, l
        <4> QED BY <1>1, <2>1, <3>1, IndexTwinAdds
      <3>3. Twins(Replay(d), Replay(e), a, b)
        BY <1>5, TwinReplay
      <3>4. Twins(d.output \o Replay(d), e.output \o Replay(e), a, b)
        BY <1>1, <3>3, TwinsConcat
      <3> HIDE DEF x, y
      <3> QED BY <1>1, <3>2, <3>4, TwinFinished
    <2> HIDE DEF x, y, r, t
    <2> QED BY <1>1, <1>2, <1>3, <1>5, <2>1, <2>2, <2>3, <2>4, <2>5
  <1> QED BY <1>4, <1>5

(* Two keys are equal under one session if and only if they are under the other. *)
LEMMA KeyTwins ==
  ASSUME NEW a, NEW b, NEW k, NEW l, NEW m, NEW n,
         k = KeyWith(k, a), l = KeyWith(k, b), m = KeyWith(m, a), n = KeyWith(m, b)
  PROVE  k = m <=> l = n
  <1>1. k = m => l = n
    OBVIOUS
  <1>2. ASSUME l = n PROVE k = m
    <2>1. KeyWith(k, b) = KeyWith(m, b)
      BY <1>2
    <2>2. k[1] = m[1] /\ k[3] = m[3] /\ k[4] = m[4] /\ k[5] = m[5]
      BY <2>1 DEF KeyWith
    <2>3. KeyWith(k, a) = KeyWith(m, a)
      BY <2>2 DEF KeyWith
    <2> QED BY <2>3
  <1> QED BY <1>1, <1>2

(* An item goes on with the active field in both or in neither. *)
LEMMA TwinSameField ==
  ASSUME NEW a, NEW b, NEW f, NEW g, ActiveTwin(f, g, a, b), NEW x, NEW y, Twin(x, y, a, b)
  PROVE  SameField(f, x) <=> SameField(g, y)
  <1>1. CASE f = NoField
    <2>1. g = NoField
      BY <1>1 DEF ActiveTwin, IsActive
    <2> QED BY <1>1, <2>1 DEF SameField
  <1>2. CASE f # NoField
    <2>1. g # NoField /\ Twin(f.item, g.item, a, b)
      BY <1>2 DEF ActiveTwin, IsActive
    <2>2. /\ DedupKey(x) = KeyWith(DedupKey(x), a) /\ DedupKey(y) = KeyWith(DedupKey(x), b)
          /\ y.path = x.path
      BY TwinKey
    <2>3. /\ DedupKey(f.item) = KeyWith(DedupKey(f.item), a)
          /\ DedupKey(g.item) = KeyWith(DedupKey(f.item), b) /\ g.item.path = f.item.path
      BY <2>1, TwinKey
    <2>4. DedupKey(f.item) = DedupKey(x) <=> DedupKey(g.item) = DedupKey(y)
      BY <2>2, <2>3, KeyTwins
    <2> QED BY <1>2, <2>1, <2>2, <2>3, <2>4 DEF SameField
  <1> QED BY <1>1, <1>2

(* Deduplicators fed one more twin each stay alike. *)
LEMMA TwinPushItem ==
  ASSUME NEW a, NEW b, NEW d, NEW e, DedupTwin(d, e, a, b), NEW x, NEW y, Twin(x, y, a, b)
  PROVE  DedupTwin(PushItem(d, x), PushItem(e, y), a, b)
  <1>1. /\ ActiveTwin(d.active, e.active, a, b) /\ e.stored = d.stored
        /\ (d.active = NoField <=> e.active = NoField)
    BY DEF DedupTwin, ActiveTwin, IsActive
  <1>2. /\ Deduplicated(y) <=> Deduplicated(x)
        /\ SameField(d.active, x) <=> SameField(e.active, y)
        /\ y.text = x.text /\ IsSeq(x.text)
    BY <1>1, TwinKey, TwinSameField DEF Twin
  <1>3. CASE ~Deduplicated(x)
    <2>1. PICK f, g : f = FinishActive(d) /\ g = FinishActive(e)
      OBVIOUS
    <2>2. DedupTwin(f, g, a, b)
      BY <2>1, TwinFinishActive
    <2>3. PICK o, p : o = Append(f.output, x) /\ p = Append(g.output, y)
      OBVIOUS
    <2>4. Twins(o, p, a, b)
      BY <2>2, <2>3, TwinsAppend DEF DedupTwin
    <2>5. PICK u, v : u = [f EXCEPT !.output = o] /\ v = [g EXCEPT !.output = p]
      OBVIOUS
    <2>6. DedupTwin(u, v, a, b)
      <3>1. /\ u = [active |-> f.active, stored |-> f.stored, values |-> f.values,
                    index |-> f.index, output |-> o]
            /\ v = [active |-> g.active, stored |-> f.stored, values |-> f.values,
                    index |-> g.index, output |-> p]
        BY <2>2, <2>5 DEF DedupTwin
      <3> QED BY <2>2, <2>4, <3>1 DEF DedupTwin
    <2>7. PushItem(d, x) = u /\ PushItem(e, y) = v
      BY <1>2, <1>3, <2>1, <2>3, <2>5 DEF PushItem
    <2> QED BY <2>6, <2>7
  <1>4. CASE Deduplicated(x) /\ SameField(d.active, x)
    <2>1. /\ PushItem(d, x) = AppendActive(d, x.text)
          /\ PushItem(e, y) = AppendActive(e, x.text)
      BY <1>2, <1>4 DEF PushItem
    <2>2. d.active # NoField
      BY <1>4 DEF SameField
    <2> QED BY <1>2, <2>1, <2>2, TwinAppendActive
  <1>5. CASE Deduplicated(x) /\ ~SameField(d.active, x)
    <2> DEFINE s == d.active # NoField /\ ~d.stored
               p == IF s THEN Promote(d) ELSE d
               q == IF s THEN Promote(e) ELSE e
    <2>1. /\ PushItem(d, x) = StartField(FinishActive(p), x)
          /\ PushItem(e, y) = StartField(FinishActive(q), y)
      BY <1>1, <1>2, <1>5 DEF PushItem
    <2>2. DedupTwin(p, q, a, b)
      BY TwinPromote
    <2> HIDE DEF p, q
    <2>3. DedupTwin(FinishActive(p), FinishActive(q), a, b)
      BY <2>2, TwinFinishActive
    <2> QED BY <2>1, <2>3, TwinStartField
  <1> QED BY <1>3, <1>4, <1>5

(***************************************************************************)
(* A record's items, one by one.                                           *)
(***************************************************************************)
IsDeduplicating(after, items, n) ==
    after = [i \in 0..n |-> IF i = 0 THEN NewDeduper ELSE PushItem(after[i - 1], items[i])]

(* There is a function that feeds the items one by one. *)
LEMMA DeduplicatingExists ==
  ASSUME NEW items, NEW n \in Nat
  PROVE  \E after : IsDeduplicating(after, items, n)
  <1> DEFINE Is(f, k) == IsDeduplicating(f, items, k)
             S == {k \in Nat : ~(\E f : Is(f, k))}
  <1>1. SUFFICES ASSUME S # {} PROVE FALSE
    OBVIOUS
  <1>2. PICK k \in S : \A m \in S : k <= m
    BY <1>1, Smallest
  <1>3. k # 0
    <2> DEFINE f == [i \in 0..0 |-> NewDeduper]
    <2>1. Is(f, 0)
      BY DEF IsDeduplicating
    <2> QED BY <1>2, <2>1
  <1>4. k - 1 \in Nat /\ k - 1 \notin S
    BY <1>2, <1>3
  <1>5. PICK f : Is(f, k - 1)
    BY <1>4
  <1> DEFINE g == [i \in 0..k |-> IF i = k THEN PushItem(f[k - 1], items[k]) ELSE f[i]]
  <1>6. ASSUME NEW i \in 0..k
        PROVE  g[i] = IF i = 0 THEN NewDeduper ELSE PushItem(g[i - 1], items[i])
    <2>1. CASE i = k
      <3>1. g[k - 1] = f[k - 1] /\ k - 1 \in 0..k
        BY <1>3, <1>4
      <3> QED BY <1>3, <2>1, <3>1
    <2>2. CASE i # k
      <3>1. i \in 0..(k - 1) /\ g[i] = f[i]
        BY <1>3, <2>2
      <3>2. f[i] = IF i = 0 THEN NewDeduper ELSE PushItem(f[i - 1], items[i])
        BY <1>5, <3>1 DEF IsDeduplicating
      <3>3. i # 0 => i - 1 \in 0..k /\ g[i - 1] = f[i - 1]
        BY <1>3, <2>2
      <3> QED BY <3>1, <3>2, <3>3
    <2> QED BY <2>1, <2>2
  <1>7. Is(g, k)
    BY <1>6, Zenon DEF IsDeduplicating
  <1> QED BY <1>2, <1>7

Deduplicating(items) == CHOOSE after : IsDeduplicating(after, items, Len(items))

(* Deduplicate is the end of such a function. *)
LEMMA DeduplicateSteps ==
  ASSUME NEW items, Len(items) \in Nat
  PROVE  /\ Deduplicate(items) = FinishActive(Deduplicating(items)[Len(items)]).output
         /\ IsDeduplicating(Deduplicating(items), items, Len(items))
  <1>1. Deduplicate(items) = FinishActive(Deduplicating(items)[Len(items)]).output
    BY DEF Deduplicate, Deduplicating, IsDeduplicating
  <1>2. \E after : IsDeduplicating(after, items, Len(items))
    BY DeduplicatingExists
  <1> QED BY <1>1, <1>2 DEF Deduplicating

(* Twins are deduplicated into twins. *)
LEMMA TwinDeduplicate ==
  ASSUME NEW a, NEW b, NEW s, NEW t, Twins(s, t, a, b)
  PROVE  Twins(Deduplicate(s), Deduplicate(t), a, b)
  <1> DEFINE n == Len(s)
             f == Deduplicating(s)
             g == Deduplicating(t)
             S == {i \in 0..n : ~DedupTwin(f[i], g[i], a, b)}
  <1>1. n \in Nat /\ Len(t) = n /\ \A i \in 1..n : Twin(s[i], t[i], a, b)
    BY SeqIs DEF Twins
  <1>2. /\ \A i \in 0..n : f[i] = IF i = 0 THEN NewDeduper ELSE PushItem(f[i - 1], s[i])
        /\ Deduplicate(s) = FinishActive(f[n]).output
    BY <1>1, DeduplicateSteps DEF IsDeduplicating
  <1>3. /\ \A i \in 0..n : g[i] = IF i = 0 THEN NewDeduper ELSE PushItem(g[i - 1], t[i])
        /\ Deduplicate(t) = FinishActive(g[n]).output
    BY <1>1, DeduplicateSteps DEF IsDeduplicating
  <1> HIDE DEF f, g, n
  <1>4. S = {}
    <2> SUFFICES ASSUME S # {} PROVE FALSE
      OBVIOUS
    <2>1. PICK i \in S : \A j \in S : i <= j
      <3>1. S \in SUBSET Nat
        BY <1>1
      <3> HIDE DEF S
      <3> QED BY <3>1, Smallest
    <2>2. i # 0
      <3>1. DedupTwin(NewDeduper, NewDeduper, a, b)
        BY TwinsEmpty, EmptyIs DEF DedupTwin, NewDeduper, ActiveTwin, IndexTwin
      <3>2. f[0] = NewDeduper /\ g[0] = NewDeduper
        BY <1>1, <1>2, <1>3
      <3> QED BY <3>1, <3>2
    <2>3. i - 1 \in 0..n /\ i - 1 \notin S /\ i \in 1..n
      BY <1>1, <2>1, <2>2
    <2>4. DedupTwin(f[i - 1], g[i - 1], a, b) /\ Twin(s[i], t[i], a, b)
      BY <1>1, <2>3
    <2>5. f[i] = PushItem(f[i - 1], s[i]) /\ g[i] = PushItem(g[i - 1], t[i])
      BY <1>2, <1>3, <2>2, <2>3
    <2>6. DedupTwin(f[i], g[i], a, b)
      BY <2>4, <2>5, TwinPushItem
    <2> QED BY <2>1, <2>6
  <1>5. DedupTwin(f[n], g[n], a, b)
    BY <1>1, <1>4
  <1>6. DedupTwin(FinishActive(f[n]), FinishActive(g[n]), a, b)
    BY <1>5, TwinFinishActive
  <1> QED BY <1>2, <1>3, <1>6 DEF DedupTwin

(***************************************************************************)
(* Chunks of the same text under two sessions.                             *)
(***************************************************************************)
ChunkTwin(c, d, a, b) == c = ChunkWith(c, a) /\ d = ChunkWith(c, b)
ChunkTwins(s, t, a, b) ==
    /\ IsSeq(s) /\ IsSeq(t) /\ Len(t) = Len(s)
    /\ \A i \in 1..Len(s) : ChunkTwin(s[i], t[i], a, b)

(* Alike chunks are so with one more chunk each. *)
LEMMA ChunksAppend ==
  ASSUME NEW a, NEW b, NEW s, NEW t, ChunkTwins(s, t, a, b), NEW x, NEW y,
         ChunkTwin(x, y, a, b)
  PROVE  ChunkTwins(Append(s, x), Append(t, y), a, b)
  <1> DEFINE u == Append(s, x)
             v == Append(t, y)
             n == Len(s)
  <1>1. n \in Nat /\ Len(t) = n
    BY SeqIs DEF ChunkTwins
  <1>2. IsSeq(u) /\ Len(u) = n + 1 /\ u[n + 1] = x /\ \A i \in 1..n : u[i] = s[i]
    BY AppendIs DEF ChunkTwins
  <1>3. IsSeq(v) /\ Len(v) = n + 1 /\ v[n + 1] = y /\ \A i \in 1..n : v[i] = t[i]
    BY <1>1, AppendIs DEF ChunkTwins
  <1> HIDE DEF u, v
  <1>4. \A i \in 1..n : ChunkTwin(u[i], v[i], a, b)
    BY <1>2, <1>3 DEF ChunkTwins
  <1> HIDE DEF n
  <1>5. \A i \in 1..(n + 1) : i = n + 1 \/ i \in 1..n
    BY <1>1
  <1>6. \A i \in 1..(n + 1) : ChunkTwin(u[i], v[i], a, b)
    BY <1>2, <1>3, <1>4, <1>5
  <1>7. ChunkTwins(u, v, a, b)
    BY <1>2, <1>3, <1>6 DEF ChunkTwins
  <1> QED BY <1>7 DEF u, v

(***************************************************************************)
(* The appender, fed twins.                                                *)
(***************************************************************************)
AppenderOf(f, x, c) == [active |-> f, text |-> x, chunks |-> c]
HeldOf(x) == [item |-> x]
HeldTwin(f, g, a, b) ==
    \/ f = NoField /\ g = NoField
    \/ f = HeldOf(f.item) /\ g = HeldOf(g.item) /\ f # NoField /\ g # NoField
       /\ Twin(f.item, g.item, a, b)
AppenderTwin(p, q, a, b) ==
    /\ p = AppenderOf(p.active, p.text, p.chunks)
    /\ q = AppenderOf(q.active, p.text, q.chunks)
    /\ HeldTwin(p.active, q.active, a, b) /\ ChunkTwins(p.chunks, q.chunks, a, b)
    /\ IsSeq(p.text)
    /\ p.active = NoField => p.text = <<>>

(* FlushCurrent makes a chunk of the text it holds. *)
LEMMA FlushCurrentOf ==
  ASSUME NEW f, NEW x, NEW c, NEW line, x # <<>>
  PROVE  FlushCurrent(AppenderOf(f, x, c), line) =
            AppenderOf(f, <<>>, Append(c, MakeChunk(f.item, x, line)))
  <1>1. PICK p : p = AppenderOf(f, x, c)
    OBVIOUS
  <1>2. p.active = f /\ p.text = x /\ p.chunks = c
    BY <1>1 DEF AppenderOf
  <1>3. PICK d : d = Append(c, MakeChunk(f.item, x, line))
    OBVIOUS
  <1>4. PICK q : q = [p EXCEPT !.text = <<>>, !.chunks = d]
    OBVIOUS
  <1>5. q = AppenderOf(f, <<>>, d)
    BY <1>1, <1>4 DEF AppenderOf
  <1>6. FlushCurrent(p, line) = q
    BY <1>2, <1>3, <1>4 DEF FlushCurrent
  <1> QED BY <1>1, <1>3, <1>5, <1>6

(* Chunks made of twins are alike. *)
LEMMA TwinChunk ==
  ASSUME NEW a, NEW b, NEW x, NEW y, Twin(x, y, a, b), NEW text, NEW line
  PROVE  ChunkTwin(MakeChunk(x, text, line), MakeChunk(y, text, line), a, b)
  BY DEF Twin, ItemWith, ChunkTwin, ChunkWith, MakeChunk

(* Appenders fed twins stay alike when they flush their text, *)
LEMMA TwinFlushCurrent ==
  ASSUME NEW a, NEW b, NEW p, NEW q, AppenderTwin(p, q, a, b), NEW line
  PROVE  /\ AppenderTwin(FlushCurrent(p, line), FlushCurrent(q, line), a, b)
         /\ FlushCurrent(p, line).text = <<>> /\ FlushCurrent(p, line).active = p.active
  <1>1. CASE p.text = <<>>
    <2>1. q.text = <<>>
      BY <1>1 DEF AppenderTwin, AppenderOf
    <2>2. FlushCurrent(p, line) = p /\ FlushCurrent(q, line) = q
      BY <1>1, <2>1 DEF FlushCurrent
    <2> QED BY <1>1, <2>2
  <1>2. CASE p.text # <<>>
    <2>1. PICK f, g, x, c, d : /\ f = p.active /\ g = q.active /\ x = p.text
                               /\ c = p.chunks /\ d = q.chunks
      OBVIOUS
    <2>2. /\ p = AppenderOf(f, x, c) /\ q = AppenderOf(g, x, d) /\ x # <<>>
          /\ HeldTwin(f, g, a, b) /\ ChunkTwins(c, d, a, b) /\ f # NoField
      BY <1>2, <2>1 DEF AppenderTwin
    <2>3. Twin(f.item, g.item, a, b)
      BY <2>2 DEF HeldTwin
    <2>4. PICK u, v : /\ u = Append(c, MakeChunk(f.item, x, line))
                      /\ v = Append(d, MakeChunk(g.item, x, line))
      OBVIOUS
    <2>5. ChunkTwins(u, v, a, b)
      BY <2>2, <2>3, <2>4, TwinChunk, ChunksAppend
    <2>6. /\ FlushCurrent(p, line) = AppenderOf(f, <<>>, u)
          /\ FlushCurrent(q, line) = AppenderOf(g, <<>>, v)
      BY <2>2, <2>4, FlushCurrentOf
    <2>7. AppenderTwin(AppenderOf(f, <<>>, u), AppenderOf(g, <<>>, v), a, b)
      BY <2>2, <2>5, EmptyIs DEF AppenderTwin, AppenderOf
    <2>8. /\ AppenderOf(f, <<>>, u).text = <<>> /\ AppenderOf(f, <<>>, u).active = f
      BY DEF AppenderOf
    <2> QED BY <2>1, <2>6, <2>7, <2>8
  <1> QED BY <1>1, <1>2

(* when they finish a field, *)
LEMMA TwinFinishField ==
  ASSUME NEW a, NEW b, NEW p, NEW q, AppenderTwin(p, q, a, b), NEW line
  PROVE  /\ AppenderTwin(FinishField(p, line), FinishField(q, line), a, b)
         /\ FinishField(p, line).text = <<>>
  <1>1. PICK u, v : u = FlushCurrent(p, line) /\ v = FlushCurrent(q, line)
    OBVIOUS
  <1>2. AppenderTwin(u, v, a, b) /\ u.text = <<>>
    BY <1>1, TwinFlushCurrent
  <1>3. PICK c, d : c = u.chunks /\ d = v.chunks
    OBVIOUS
  <1>4. /\ u = AppenderOf(u.active, <<>>, c) /\ v = AppenderOf(v.active, <<>>, d)
        /\ ChunkTwins(c, d, a, b)
    BY <1>2, <1>3 DEF AppenderTwin
  <1>5. PICK w, z : w = [u EXCEPT !.active = NoField] /\ z = [v EXCEPT !.active = NoField]
    OBVIOUS
  <1>6. w = AppenderOf(NoField, <<>>, c) /\ z = AppenderOf(NoField, <<>>, d)
    BY <1>4, <1>5 DEF AppenderOf
  <1>7. AppenderTwin(w, z, a, b) /\ w.text = <<>>
    BY <1>4, <1>6, EmptyIs DEF AppenderTwin, AppenderOf, HeldTwin
  <1>8. FinishField(p, line) = w /\ FinishField(q, line) = z
    BY <1>1, <1>5 DEF FinishField
  <1> QED BY <1>7, <1>8

(* and when they take one more unit. *)
LEMMA TwinPushUnit ==
  ASSUME NEW a, NEW b, NEW p, NEW q, AppenderTwin(p, q, a, b), p.active # NoField,
         NEW unit, NEW line
  PROVE  /\ AppenderTwin(PushUnit(p, unit, line), PushUnit(q, unit, line), a, b)
         /\ PushUnit(p, unit, line).active # NoField
  <1> DEFINE full == Len(p.text) + 1 > ChunkUnits
             u == IF full THEN FlushCurrent(p, line) ELSE p
             v == IF full THEN FlushCurrent(q, line) ELSE q
  <1>1. AppenderTwin(u, v, a, b) /\ u.active # NoField
    BY TwinFlushCurrent
  <1>2. q.text = p.text
    BY DEF AppenderTwin, AppenderOf
  <1>3. PICK w, z : /\ w = [u EXCEPT !.text = Append(@, unit)]
                    /\ z = [v EXCEPT !.text = Append(@, unit)]
    OBVIOUS
  <1>4. PushUnit(p, unit, line) = w /\ PushUnit(q, unit, line) = z
    BY <1>2, <1>3 DEF PushUnit
  <1> HIDE DEF u, v
  <1>5. PICK f, g, x, c, d : /\ f = u.active /\ g = v.active /\ x = u.text
                             /\ c = u.chunks /\ d = v.chunks
    OBVIOUS
  <1>6. /\ u = AppenderOf(f, x, c) /\ v = AppenderOf(g, x, d)
        /\ HeldTwin(f, g, a, b) /\ ChunkTwins(c, d, a, b) /\ f # NoField /\ IsSeq(x)
    BY <1>1, <1>5 DEF AppenderTwin
  <1>7. PICK t : t = Append(x, unit)
    OBVIOUS
  <1>8. IsSeq(t)
    BY <1>6, <1>7, AppendIs
  <1>9. w = AppenderOf(f, t, c) /\ z = AppenderOf(g, t, d)
    BY <1>3, <1>6, <1>7 DEF AppenderOf
  <1>10. AppenderTwin(w, z, a, b) /\ w.active # NoField
    BY <1>6, <1>8, <1>9 DEF AppenderTwin, AppenderOf
  <1> QED BY <1>4, <1>10

(***************************************************************************)
(* The units of a text, one by one.                                        *)
(***************************************************************************)
IsPushing(after, a, text, line, n) ==
    after = [i \in 0..n |-> IF i = 0 THEN a ELSE PushUnit(after[i - 1], text[i], line)]

(* There is a function that pushes the units one by one. *)
LEMMA PushingExists ==
  ASSUME NEW a, NEW text, NEW line, NEW n \in Nat
  PROVE  \E after : IsPushing(after, a, text, line, n)
  <1> DEFINE Is(f, k) == IsPushing(f, a, text, line, k)
             S == {k \in Nat : ~(\E f : Is(f, k))}
  <1>1. SUFFICES ASSUME S # {} PROVE FALSE
    OBVIOUS
  <1>2. PICK k \in S : \A m \in S : k <= m
    BY <1>1, Smallest
  <1>3. k # 0
    <2> DEFINE f == [i \in 0..0 |-> a]
    <2>1. Is(f, 0)
      BY DEF IsPushing
    <2> QED BY <1>2, <2>1
  <1>4. k - 1 \in Nat /\ k - 1 \notin S
    BY <1>2, <1>3
  <1>5. PICK f : Is(f, k - 1)
    BY <1>4
  <1> DEFINE last == PushUnit(f[k - 1], text[k], line)
             g == [i \in 0..k |-> IF i = k THEN last ELSE f[i]]
  <1>6. ASSUME NEW i \in 0..k
        PROVE  g[i] = IF i = 0 THEN a ELSE PushUnit(g[i - 1], text[i], line)
    <2>1. CASE i = k
      <3>1. g[k - 1] = f[k - 1] /\ k - 1 \in 0..k
        BY <1>3, <1>4
      <3> QED BY <1>3, <2>1, <3>1
    <2>2. CASE i # k
      <3>1. i \in 0..(k - 1) /\ g[i] = f[i]
        BY <1>3, <2>2
      <3>2. f[i] = IF i = 0 THEN a ELSE PushUnit(f[i - 1], text[i], line)
        BY <1>5, <3>1 DEF IsPushing
      <3>3. i # 0 => i - 1 \in 0..k /\ g[i - 1] = f[i - 1]
        BY <1>3, <2>2
      <3> QED BY <3>1, <3>2, <3>3
    <2> QED BY <2>1, <2>2
  <1>7. Is(g, k)
    BY <1>6, Zenon DEF IsPushing
  <1> QED BY <1>2, <1>7

Pushing(a, text, line) == CHOOSE after : IsPushing(after, a, text, line, Len(text))

(* PushUnits is the end of such a function. *)
LEMMA PushUnitsSteps ==
  ASSUME NEW a, NEW text, NEW line, Len(text) \in Nat
  PROVE  /\ PushUnits(a, text, line) = Pushing(a, text, line)[Len(text)]
         /\ IsPushing(Pushing(a, text, line), a, text, line, Len(text))
  <1>1. PushUnits(a, text, line) = Pushing(a, text, line)[Len(text)]
    BY DEF PushUnits, Pushing, IsPushing
  <1>2. \E after : IsPushing(after, a, text, line, Len(text))
    BY PushingExists
  <1> QED BY <1>1, <1>2 DEF Pushing

(* Appenders fed twins stay alike over a text, *)
LEMMA TwinPushUnits ==
  ASSUME NEW a, NEW b, NEW p, NEW q, AppenderTwin(p, q, a, b), p.active # NoField,
         NEW text, IsSeq(text), NEW line
  PROVE  /\ AppenderTwin(PushUnits(p, text, line), PushUnits(q, text, line), a, b)
         /\ PushUnits(p, text, line).active # NoField
  <1> DEFINE n == Len(text)
             f == Pushing(p, text, line)
             g == Pushing(q, text, line)
             Bad(i) == ~(AppenderTwin(f[i], g[i], a, b) /\ f[i].active # NoField)
             S == {i \in 0..n : Bad(i)}
  <1>1. n \in Nat
    BY SeqIs
  <1>2. /\ \A i \in 0..n : f[i] = IF i = 0 THEN p ELSE PushUnit(f[i - 1], text[i], line)
        /\ PushUnits(p, text, line) = f[n]
    BY <1>1, PushUnitsSteps DEF IsPushing
  <1>3. /\ \A i \in 0..n : g[i] = IF i = 0 THEN q ELSE PushUnit(g[i - 1], text[i], line)
        /\ PushUnits(q, text, line) = g[n]
    BY <1>1, PushUnitsSteps DEF IsPushing
  <1> HIDE DEF f, g, n
  <1>4. S = {}
    <2> SUFFICES ASSUME S # {} PROVE FALSE
      OBVIOUS
    <2>1. PICK i \in S : \A j \in S : i <= j
      <3>1. S \in SUBSET Nat
        BY <1>1
      <3> HIDE DEF S
      <3> QED BY <3>1, Smallest
    <2>2. i # 0
      <3>1. f[0] = p /\ g[0] = q
        BY <1>1, <1>2, <1>3
      <3> QED BY <3>1
    <2>3. i - 1 \in 0..n /\ i - 1 \notin S /\ i \in 1..n
      BY <1>1, <2>1, <2>2
    <2>4. AppenderTwin(f[i - 1], g[i - 1], a, b) /\ f[i - 1].active # NoField
      BY <2>3
    <2>5. f[i] = PushUnit(f[i - 1], text[i], line) /\ g[i] = PushUnit(g[i - 1], text[i], line)
      BY <1>2, <1>3, <2>2, <2>3
    <2>6. AppenderTwin(f[i], g[i], a, b) /\ f[i].active # NoField
      BY <2>4, <2>5, TwinPushUnit
    <2> QED BY <2>1, <2>6
  <1>5. AppenderTwin(f[n], g[n], a, b) /\ f[n].active # NoField
    BY <1>1, <1>4
  <1> QED BY <1>2, <1>3, <1>5

(* and over an item. *)
LEMMA TwinPushText ==
  ASSUME NEW a, NEW b, NEW p, NEW q, AppenderTwin(p, q, a, b),
         NEW x, NEW y, Twin(x, y, a, b), NEW line
  PROVE  AppenderTwin(PushText(p, x, line), PushText(q, y, line), a, b)
  <1> DEFINE alone == x.path = <<>>
             starts == alone \/ p.active = NoField \/ p.active.item.path # x.path
             u == IF starts THEN [FinishField(p, line) EXCEPT !.active = [item |-> x]] ELSE p
             v == IF starts THEN [FinishField(q, line) EXCEPT !.active = [item |-> y]] ELSE q
             w == PushUnits(u, x.text, line)
             z == PushUnits(v, x.text, line)
  <1>1. y.path = x.path /\ y.text = x.text /\ IsSeq(x.text)
    BY DEF Twin, ItemWith
  <1>2. starts <=> (alone \/ q.active = NoField \/ q.active.item.path # x.path)
    BY DEF AppenderTwin, HeldTwin, Twin, ItemWith
  <1>3. /\ PushText(p, x, line) = IF alone THEN FinishField(w, line) ELSE w
        /\ PushText(q, y, line) = IF alone THEN FinishField(z, line) ELSE z
    <2> HIDE DEF alone
    <2>1. PushText(p, x, line) = IF alone THEN FinishField(w, line) ELSE w
      BY DEF PushText, alone
    <2>2. PushText(q, y, line) = IF alone THEN FinishField(z, line) ELSE z
      <3> HIDE DEF starts
      <3> QED BY <1>1, <1>2 DEF PushText, alone
    <2> QED BY <2>1, <2>2
  <1>4. AppenderTwin(u, v, a, b) /\ u.active # NoField
    <2>1. CASE starts
      <3>1. PICK c, d : c = FinishField(p, line) /\ d = FinishField(q, line)
        OBVIOUS
      <3>2. AppenderTwin(c, d, a, b) /\ c.text = <<>>
        BY <3>1, TwinFinishField
      <3>3. PICK i, j : i = c.chunks /\ j = d.chunks
        OBVIOUS
      <3>4. /\ c = AppenderOf(c.active, <<>>, i) /\ d = AppenderOf(d.active, <<>>, j)
            /\ ChunkTwins(i, j, a, b)
        BY <3>2, <3>3 DEF AppenderTwin
      <3>5. PICK k, l : /\ k = [c EXCEPT !.active = [item |-> x]]
                        /\ l = [d EXCEPT !.active = [item |-> y]]
        OBVIOUS
      <3>6. k = AppenderOf(HeldOf(x), <<>>, i) /\ l = AppenderOf(HeldOf(y), <<>>, j)
        BY <3>4, <3>5 DEF AppenderOf, HeldOf
      <3>7. HeldTwin(HeldOf(x), HeldOf(y), a, b) /\ HeldOf(x) # NoField
        <4>1. "item" \in DOMAIN HeldOf(x) /\ "item" \in DOMAIN HeldOf(y)
              /\ "item" \notin DOMAIN NoField
          BY DEF HeldOf, NoField
        <4>2. HeldOf(x).item = x /\ HeldOf(y).item = y
          BY DEF HeldOf
        <4> QED BY <4>1, <4>2 DEF HeldTwin
      <3>8. AppenderTwin(k, l, a, b) /\ k.active # NoField
        BY <3>4, <3>6, <3>7, EmptyIs DEF AppenderTwin, AppenderOf
      <3>9. u = k /\ v = l
        BY <2>1, <3>1, <3>5
      <3> HIDE DEF u, v
      <3> QED BY <3>8, <3>9
    <2>2. CASE ~starts
      BY <2>2
    <2> QED BY <2>1, <2>2
  <1> HIDE DEF u, v, alone
  <1>5. AppenderTwin(w, z, a, b)
    BY <1>1, <1>4, TwinPushUnits
  <1> HIDE DEF w, z
  <1>6. AppenderTwin(FinishField(w, line), FinishField(z, line), a, b)
    BY <1>5, TwinFinishField
  <1> QED BY <1>3, <1>5, <1>6

(***************************************************************************)
(* The items of a record, one by one.                                      *)
(***************************************************************************)
IsChunking(after, kept, line, n) ==
    after = [i \in 0..n |-> IF i = 0 THEN NewAppender ELSE PushText(after[i - 1], kept[i], line)]

(* There is a function that appends the items one by one. *)
LEMMA ChunkingExists ==
  ASSUME NEW kept, NEW line, NEW n \in Nat
  PROVE  \E after : IsChunking(after, kept, line, n)
  <1> DEFINE Is(f, k) == IsChunking(f, kept, line, k)
             S == {k \in Nat : ~(\E f : Is(f, k))}
  <1>1. SUFFICES ASSUME S # {} PROVE FALSE
    OBVIOUS
  <1>2. PICK k \in S : \A m \in S : k <= m
    BY <1>1, Smallest
  <1>3. k # 0
    <2> DEFINE f == [i \in 0..0 |-> NewAppender]
    <2>1. Is(f, 0)
      BY DEF IsChunking
    <2> QED BY <1>2, <2>1
  <1>4. k - 1 \in Nat /\ k - 1 \notin S
    BY <1>2, <1>3
  <1>5. PICK f : Is(f, k - 1)
    BY <1>4
  <1> DEFINE last == PushText(f[k - 1], kept[k], line)
             g == [i \in 0..k |-> IF i = k THEN last ELSE f[i]]
  <1>6. ASSUME NEW i \in 0..k
        PROVE  g[i] = IF i = 0 THEN NewAppender ELSE PushText(g[i - 1], kept[i], line)
    <2>1. CASE i = k
      <3>1. g[k - 1] = f[k - 1] /\ k - 1 \in 0..k
        BY <1>3, <1>4
      <3> QED BY <1>3, <2>1, <3>1
    <2>2. CASE i # k
      <3>1. i \in 0..(k - 1) /\ g[i] = f[i]
        BY <1>3, <2>2
      <3>2. f[i] = IF i = 0 THEN NewAppender ELSE PushText(f[i - 1], kept[i], line)
        BY <1>5, <3>1 DEF IsChunking
      <3>3. i # 0 => i - 1 \in 0..k /\ g[i - 1] = f[i - 1]
        BY <1>3, <2>2
      <3> QED BY <3>1, <3>2, <3>3
    <2> QED BY <2>1, <2>2
  <1>7. Is(g, k)
    BY <1>6, Zenon DEF IsChunking
  <1> QED BY <1>2, <1>7

Chunking(kept, line) == CHOOSE after : IsChunking(after, kept, line, Len(kept))

(* Chunked is the end of such a function. *)
LEMMA ChunkedSteps ==
  ASSUME NEW kept, NEW line, Len(kept) \in Nat
  PROVE  /\ Chunked(kept, line) = FinishField(Chunking(kept, line)[Len(kept)], line).chunks
         /\ IsChunking(Chunking(kept, line), kept, line, Len(kept))
  <1>1. Chunked(kept, line) = FinishField(Chunking(kept, line)[Len(kept)], line).chunks
    BY DEF Chunked, Chunking, IsChunking
  <1>2. \E after : IsChunking(after, kept, line, Len(kept))
    BY ChunkingExists
  <1> QED BY <1>1, <1>2 DEF Chunking

(* Twins are cut into alike chunks. *)
LEMMA TwinChunksOf ==
  ASSUME NEW a, NEW b, NEW x, NEW y, Twins(x, y, a, b), NEW line
  PROVE  ChunkTwins(ChunksOf(x, line), ChunksOf(y, line), a, b)
  <1> DEFINE s == Deduplicate(x)
             t == Deduplicate(y)
             n == Len(s)
             f == Chunking(s, line)
             g == Chunking(t, line)
             S == {i \in 0..n : ~AppenderTwin(f[i], g[i], a, b)}
  <1>1. Twins(s, t, a, b)
    BY TwinDeduplicate
  <1> HIDE DEF s, t
  <1>2. n \in Nat /\ Len(t) = n /\ \A i \in 1..n : Twin(s[i], t[i], a, b)
    BY <1>1, SeqIs DEF Twins
  <1>3. /\ \A i \in 0..n : f[i] = IF i = 0 THEN NewAppender ELSE PushText(f[i - 1], s[i], line)
        /\ Chunked(s, line) = FinishField(f[n], line).chunks
    BY <1>2, ChunkedSteps DEF IsChunking
  <1>4. /\ \A i \in 0..n : g[i] = IF i = 0 THEN NewAppender ELSE PushText(g[i - 1], t[i], line)
        /\ Chunked(t, line) = FinishField(g[n], line).chunks
    BY <1>2, ChunkedSteps DEF IsChunking
  <1> HIDE DEF f, g, n
  <1>5. S = {}
    <2> SUFFICES ASSUME S # {} PROVE FALSE
      OBVIOUS
    <2>1. PICK i \in S : \A j \in S : i <= j
      <3>1. S \in SUBSET Nat
        BY <1>2
      <3> HIDE DEF S
      <3> QED BY <3>1, Smallest
    <2>2. i # 0
      <3>1. AppenderTwin(NewAppender, NewAppender, a, b)
        BY EmptyIs DEF AppenderTwin, AppenderOf, NewAppender, HeldTwin, ChunkTwins
      <3>2. f[0] = NewAppender /\ g[0] = NewAppender
        BY <1>2, <1>3, <1>4
      <3> QED BY <3>1, <3>2
    <2>3. i - 1 \in 0..n /\ i - 1 \notin S /\ i \in 1..n
      BY <1>2, <2>1, <2>2
    <2>4. AppenderTwin(f[i - 1], g[i - 1], a, b) /\ Twin(s[i], t[i], a, b)
      BY <1>2, <2>3
    <2>5. f[i] = PushText(f[i - 1], s[i], line) /\ g[i] = PushText(g[i - 1], t[i], line)
      BY <1>3, <1>4, <2>2, <2>3
    <2>6. AppenderTwin(f[i], g[i], a, b)
      BY <2>4, <2>5, TwinPushText
    <2> QED BY <2>1, <2>6
  <1>6. AppenderTwin(f[n], g[n], a, b)
    BY <1>2, <1>5
  <1>7. AppenderTwin(FinishField(f[n], line), FinishField(g[n], line), a, b)
    BY <1>6, TwinFinishField
  <1>8. ChunkTwins(Chunked(s, line), Chunked(t, line), a, b)
    BY <1>3, <1>4, <1>7 DEF AppenderTwin
  <1> QED BY <1>8 DEF ChunksOf, s, t

(***************************************************************************)
(* The fragments among a set.                                              *)
(***************************************************************************)
Texts(f) == IsSeq(f) /\ \A i \in 1..Len(f) : IsSeq(f[i].text)

IsSelecting(after, f, S, n) ==
    after = [i \in 0..n |-> CASE i = 0 -> <<>>
                              [] i > 0 /\ f[i] \in S -> Append(after[i - 1], f[i])
                              [] OTHER -> after[i - 1]]

(* There is a function that selects the fragments one by one. *)
LEMMA SelectingExists ==
  ASSUME NEW f, NEW S, NEW n \in Nat
  PROVE  \E after : IsSelecting(after, f, S, n)
  <1> DEFINE Is(g, k) == IsSelecting(g, f, S, k)
             B == {k \in Nat : ~(\E g : Is(g, k))}
  <1>1. SUFFICES ASSUME B # {} PROVE FALSE
    OBVIOUS
  <1>2. PICK k \in B : \A m \in B : k <= m
    BY <1>1, Smallest
  <1>3. k # 0
    <2> DEFINE g == [i \in 0..0 |-> <<>>]
    <2>1. Is(g, 0)
      BY DEF IsSelecting
    <2> QED BY <1>2, <2>1
  <1>4. k - 1 \in Nat /\ k - 1 \notin B
    BY <1>2, <1>3
  <1>5. PICK g : Is(g, k - 1)
    BY <1>4
  <1> DEFINE last == IF f[k] \in S THEN Append(g[k - 1], f[k]) ELSE g[k - 1]
             h == [i \in 0..k |-> IF i = k THEN last ELSE g[i]]
  <1>6. ASSUME NEW i \in 0..k
        PROVE  h[i] = CASE i = 0 -> <<>>
                        [] i > 0 /\ f[i] \in S -> Append(h[i - 1], f[i])
                        [] OTHER -> h[i - 1]
    <2>1. CASE i = k
      <3>1. h[k - 1] = g[k - 1] /\ k - 1 \in 0..k /\ k > 0
        BY <1>3, <1>4
      <3> QED BY <1>3, <2>1, <3>1
    <2>2. CASE i # k
      <3>1. i \in 0..(k - 1) /\ h[i] = g[i]
        BY <1>3, <2>2
      <3>2. g[i] = CASE i = 0 -> <<>>
                     [] i > 0 /\ f[i] \in S -> Append(g[i - 1], f[i])
                     [] OTHER -> g[i - 1]
        BY <1>5, <3>1 DEF IsSelecting
      <3>3. i # 0 => i - 1 \in 0..k /\ h[i - 1] = g[i - 1] /\ i > 0
        BY <1>3, <2>2
      <3> QED BY <3>1, <3>2, <3>3
    <2> QED BY <2>1, <2>2
  <1>7. Is(h, k)
    BY <1>6, Zenon DEF IsSelecting
  <1> QED BY <1>2, <1>7

Selecting(f, S) == CHOOSE after : IsSelecting(after, f, S, Len(f))

(* Among is the end of such a function. *)
LEMMA AmongSteps ==
  ASSUME NEW f, NEW S, Len(f) \in Nat
  PROVE  /\ Among(f, S) = Selecting(f, S)[Len(f)]
         /\ IsSelecting(Selecting(f, S), f, S, Len(f))
  <1>1. Among(f, S) = Selecting(f, S)[Len(f)]
    BY DEF Among, Selecting, IsSelecting
  <1>2. \E after : IsSelecting(after, f, S, Len(f))
    BY SelectingExists
  <1> QED BY <1>1, <1>2 DEF Selecting

(* Fragments among fragments are fragments. *)
LEMMA AmongTexts ==
  ASSUME NEW f, Texts(f), NEW S
  PROVE  Texts(Among(f, S))
  <1> DEFINE n == Len(f)
             g == Selecting(f, S)
             B == {i \in 0..n : ~Texts(g[i])}
  <1>1. n \in Nat
    BY SeqIs DEF Texts
  <1>2. /\ \A i \in 0..n : g[i] = CASE i = 0 -> <<>>
                                    [] i > 0 /\ f[i] \in S -> Append(g[i - 1], f[i])
                                    [] OTHER -> g[i - 1]
        /\ Among(f, S) = g[n]
    <2>1. Among(f, S) = g[n] /\ IsSelecting(g, f, S, n)
      BY ONLY <1>1, AmongSteps
    <2> HIDE DEF g, n
    <2>2. ASSUME NEW i \in 0..n
          PROVE  g[i] = CASE i = 0 -> <<>>
                          [] i > 0 /\ f[i] \in S -> Append(g[i - 1], f[i])
                          [] OTHER -> g[i - 1]
      BY <2>1, Zenon DEF IsSelecting
    <2> QED BY <2>1, <2>2
  <1>3. \A i \in 1..n : IsSeq(f[i].text)
    BY DEF Texts
  <1> HIDE DEF g, n
  <1>4. B = {}
    <2> SUFFICES ASSUME B # {} PROVE FALSE
      OBVIOUS
    <2>1. PICK i \in B : \A j \in B : i <= j
      <3>1. B \in SUBSET Nat
        BY <1>1
      <3> HIDE DEF B
      <3> QED BY <3>1, Smallest
    <2>2. i # 0
      <3>1. Texts(<<>>)
        BY EmptyIs DEF Texts
      <3> QED BY <1>1, <1>2, <3>1
    <2>3. i - 1 \in 0..n /\ i - 1 \notin B /\ i \in 1..n /\ i > 0
      BY <1>1, <2>1, <2>2
    <2>4. PICK h : h = g[i - 1]
      OBVIOUS
    <2>5. Texts(h)
      BY <2>3, <2>4
    <2>6. g[i] = Append(h, f[i]) \/ g[i] = h
      BY <1>2, <2>2, <2>3, <2>4
    <2>7. Texts(Append(h, f[i]))
      <3> DEFINE u == Append(h, f[i])
                 m == Len(h)
      <3>1. /\ IsSeq(u) /\ Len(u) = m + 1 /\ u[m + 1] = f[i]
            /\ \A j \in 1..m : u[j] = h[j]
        BY <2>5, AppendIs DEF Texts
      <3>2. m \in Nat
        BY <2>5, SeqIs DEF Texts
      <3> HIDE DEF u
      <3>3. \A j \in 1..m : IsSeq(u[j].text)
        BY <2>5, <3>1 DEF Texts
      <3>4. IsSeq(u[m + 1].text)
        BY <1>3, <2>3, <3>1
      <3> HIDE DEF m
      <3>5. \A j \in 1..(m + 1) : j = m + 1 \/ j \in 1..m
        BY <3>2
      <3>6. Texts(u)
        BY <3>1, <3>3, <3>4, <3>5 DEF Texts
      <3> QED BY <3>6 DEF u
    <2>8. Texts(g[i])
      BY <2>5, <2>6, <2>7
    <2> QED BY <2>1, <2>8
  <1>5. Texts(g[n])
    BY <1>1, <1>4
  <1> QED BY <1>2, <1>5

(***************************************************************************)
(* Items under two sessions.                                               *)
(***************************************************************************)
ContextOf(a, e) == [session |-> a, event |-> e]

(* Fragments are emitted as twins under two sessions, *)
LEMMA TwinEmit ==
  ASSUME NEW a, NEW b, NEW e, NEW f, Texts(f), NEW o, NEW r, NEW t
  PROVE  Twins(Emit(f, o, r, t, ContextOf(a, e)), Emit(f, o, r, t, ContextOf(b, e)), a, b)
  <1>1. PICK c : c = Among(f, {x \in Range(f) : ~IsBlank(x.text)})
    OBVIOUS
  <1>2. Texts(c)
    BY <1>1, AmongTexts
  <1>3. PICK n : n = Len(c)
    OBVIOUS
  <1>4. n \in Nat /\ DOMAIN c = 1..n
    BY <1>2, <1>3, SeqIs DEF Texts
  <1> DEFINE u == [i \in 1..n |-> Item(c[i].text, c[i].path, o, r, t, ContextOf(a, e))]
             v == [i \in 1..n |-> Item(c[i].text, c[i].path, o, r, t, ContextOf(b, e))]
  <1>5. /\ Emit(f, o, r, t, ContextOf(a, e)) = u
        /\ Emit(f, o, r, t, ContextOf(b, e)) = v
    BY <1>1, <1>4 DEF Emit
  <1>6. ASSUME NEW i \in 1..n PROVE Twin(u[i], v[i], a, b)
    <2>1. IsSeq(c[i].text)
      BY <1>2, <1>3, <1>6 DEF Texts
    <2>2. /\ u[i] = Item(c[i].text, c[i].path, o, r, t, ContextOf(a, e))
          /\ v[i] = Item(c[i].text, c[i].path, o, r, t, ContextOf(b, e))
      OBVIOUS
    <2> HIDE DEF u, v
    <2> QED BY <2>1, <2>2 DEF Item, ContextOf, Twin, ItemWith
  <1>7. u = [i \in 1..n |-> u[i]] /\ v = [i \in 1..n |-> v[i]]
    OBVIOUS
  <1> HIDE DEF u, v
  <1>8. Twins(u, v, a, b)
    BY <1>4, <1>6, <1>7, TwinsTable
  <1> QED BY <1>5, <1>8

(* and so is the name of a tool. *)
LEMMA TwinEmitName ==
  ASSUME NEW a, NEW b, NEW e, NEW name
  PROVE  Twins(EmitName(name, ContextOf(a, e)), EmitName(name, ContextOf(b, e)), a, b)
  <1>1. CASE name = None
    <2>1. \A c : EmitName(name, c) = <<>>
      BY <1>1 DEF EmitName
    <2> QED BY <2>1, TwinsEmpty
  <1>2. CASE name # None
    <2>1. PICK x, y : /\ x = Item(<<name>>, <<>>, None, "tool", name, ContextOf(a, e))
                      /\ y = Item(<<name>>, <<>>, None, "tool", name, ContextOf(b, e))
      OBVIOUS
    <2>2. Twin(x, y, a, b)
      <3>1. IsSeq(<<name>>)
        <4>1. <<name>> \in Seq({name})
          OBVIOUS
        <4> QED BY <4>1, TypedSeq
      <3> QED BY <2>1, <3>1 DEF Item, ContextOf, Twin, ItemWith
    <2>3. Twins(Append(<<>>, x), Append(<<>>, y), a, b)
      BY <2>2, TwinsAppend, TwinsEmpty
    <2>4. Append(<<>>, x) = <<x>> /\ Append(<<>>, y) = <<y>>
      OBVIOUS
    <2>5. EmitName(name, ContextOf(a, e)) = <<x>> /\ EmitName(name, ContextOf(b, e)) = <<y>>
      BY <1>2, <2>1 DEF EmitName
    <2> QED BY <2>3, <2>4, <2>5
  <1> QED BY <1>1, <1>2

(***************************************************************************)
(* Sequences of sequences of items.                                        *)
(***************************************************************************)
IsFlattening(after, seqs, n) ==
    after = [i \in 1..n |-> IF i = 1 THEN seqs[i] ELSE after[i - 1] \o seqs[i]]

(* There is a function that concatenates sequences one by one. *)
LEMMA FlatteningExists ==
  ASSUME NEW seqs, NEW n \in Nat
  PROVE  \E after : IsFlattening(after, seqs, n)
  <1> DEFINE Is(g, k) == IsFlattening(g, seqs, k)
             B == {k \in Nat : ~(\E g : Is(g, k))}
  <1>1. SUFFICES ASSUME B # {} PROVE FALSE
    OBVIOUS
  <1>2. PICK k \in B : \A m \in B : k <= m
    BY <1>1, Smallest
  <1>3. k # 0
    <2> DEFINE g == [i \in 1..0 |-> seqs[i]]
    <2>1. Is(g, 0)
      BY DEF IsFlattening
    <2> QED BY <1>2, <2>1
  <1>4. k - 1 \in Nat /\ k - 1 \notin B
    BY <1>2, <1>3
  <1>5. PICK g : Is(g, k - 1)
    BY <1>4
  <1> DEFINE last == IF k = 1 THEN seqs[k] ELSE g[k - 1] \o seqs[k]
             h == [i \in 1..k |-> IF i = k THEN last ELSE g[i]]
  <1>6. ASSUME NEW i \in 1..k
        PROVE  h[i] = IF i = 1 THEN seqs[i] ELSE h[i - 1] \o seqs[i]
    <2>1. CASE i = k
      <3>1. k # 1 => h[k - 1] = g[k - 1] /\ k - 1 \in 1..k
        BY <1>3, <1>4
      <3> QED BY <1>3, <2>1, <3>1
    <2>2. CASE i # k
      <3>1. i \in 1..(k - 1) /\ h[i] = g[i]
        BY <1>3, <2>2
      <3>2. g[i] = IF i = 1 THEN seqs[i] ELSE g[i - 1] \o seqs[i]
        BY <1>5, <3>1 DEF IsFlattening
      <3>3. i # 1 => i - 1 \in 1..k /\ h[i - 1] = g[i - 1]
        BY <1>3, <2>2
      <3> QED BY <3>1, <3>2, <3>3
    <2> QED BY <2>1, <2>2
  <1>7. Is(h, k)
    BY <1>6, Zenon DEF IsFlattening
  <1> QED BY <1>2, <1>7

Flattening(seqs) == CHOOSE after : IsFlattening(after, seqs, Len(seqs))

(* FlattenSeq is the end of such a function. *)
LEMMA FlattenSteps ==
  ASSUME NEW seqs, Len(seqs) \in Nat
  PROVE  /\ FlattenSeq(seqs) = IF Len(seqs) = 0 THEN seqs ELSE Flattening(seqs)[Len(seqs)]
         /\ IsFlattening(Flattening(seqs), seqs, Len(seqs))
  <1>1. FlattenSeq(seqs) = IF Len(seqs) = 0 THEN seqs ELSE Flattening(seqs)[Len(seqs)]
    BY DEF FlattenSeq, Flattening, IsFlattening
  <1>2. \E after : IsFlattening(after, seqs, Len(seqs))
    BY FlatteningExists
  <1> QED BY <1>1, <1>2 DEF Flattening

(* Sequences of twins flatten into twins. *)
LEMMA TwinFlatten ==
  ASSUME NEW a, NEW b, NEW n \in Nat, NEW s, NEW t,
         s = [i \in 1..n |-> s[i]], t = [i \in 1..n |-> t[i]],
         \A i \in 1..n : Twins(s[i], t[i], a, b)
  PROVE  Twins(FlattenSeq(s), FlattenSeq(t), a, b)
  <1>1. Len(s) = n /\ Len(t) = n
    BY TableIs
  <1>2. CASE n = 0
    <2>1. s = <<>> /\ t = <<>>
      BY <1>2
    <2>2. FlattenSeq(s) = s /\ FlattenSeq(t) = t
      BY <1>1, <1>2, FlattenSteps
    <2> QED BY <2>1, <2>2, TwinsEmpty
  <1>3. CASE n # 0
    <2> DEFINE g == Flattening(s)
               h == Flattening(t)
               B == {i \in 1..n : ~Twins(g[i], h[i], a, b)}
    <2>1. /\ FlattenSeq(s) = g[n] /\ IsFlattening(g, s, n)
          /\ FlattenSeq(t) = h[n] /\ IsFlattening(h, t, n)
      BY <1>1, <1>3, FlattenSteps
    <2> HIDE DEF g, h
    <2>2. /\ \A i \in 1..n : g[i] = IF i = 1 THEN s[i] ELSE g[i - 1] \o s[i]
          /\ \A i \in 1..n : h[i] = IF i = 1 THEN t[i] ELSE h[i - 1] \o t[i]
      BY <2>1 DEF IsFlattening
    <2>3. B = {}
      <3> SUFFICES ASSUME B # {} PROVE FALSE
        OBVIOUS
      <3>1. PICK i \in B : \A j \in B : i <= j
        <4>1. B \in SUBSET Nat
          OBVIOUS
        <4> HIDE DEF B
        <4> QED BY <4>1, Smallest
      <3>2. i # 1
        <4>1. g[1] = s[1] /\ h[1] = t[1] /\ 1 \in 1..n
          BY <1>3, <2>2
        <4> QED BY <4>1
      <3>3. i - 1 \in 1..n /\ i - 1 \notin B /\ i \in 1..n
        BY <3>1, <3>2
      <3>4. Twins(g[i - 1], h[i - 1], a, b) /\ Twins(s[i], t[i], a, b)
        BY <3>3
      <3>5. g[i] = g[i - 1] \o s[i] /\ h[i] = h[i - 1] \o t[i]
        BY <2>2, <3>2, <3>3
      <3>6. Twins(g[i], h[i], a, b)
        BY <3>4, <3>5, TwinsConcat
      <3> QED BY <3>1, <3>6
    <2>4. Twins(g[n], h[n], a, b)
      BY <1>3, <2>3
    <2> QED BY <2>1, <2>4
  <1> QED BY <1>2, <1>3

(***************************************************************************)
(* A record normalised under two sessions.                                 *)
(***************************************************************************)
OutcomeTwin(u, v, a, b) ==
    /\ u = Outcome3(u.items, u.ids, u.diagnostics)
    /\ v = Outcome3(v.items, u.ids, u.diagnostics)
    /\ Twins(u.items, v.items, a, b)

(* Outcomes of twins are alike. *)
LEMMA TwinOutcome ==
  ASSUME NEW a, NEW b, NEW x, NEW y, Twins(x, y, a, b), NEW ids, NEW n
  PROVE  OutcomeTwin(Outcome3(x, ids, n), Outcome3(y, ids, n), a, b)
  BY DEF OutcomeTwin, Outcome3

(* The items of a Claude fragment are twins under two sessions. *)
LEMMA TwinClaudeItems ==
  ASSUME NEW a, NEW b, NEW e, NEW s, NEW f, NEW ids, NEW x, IsSeq(x.text)
  PROVE  Twins(ClaudeItems(s, f, ids, ContextOf(a, e), x),
               ClaudeItems(s, f, ids, ContextOf(b, e), x), a, b)
  <1>1. PICK c, d : c = ContextOf(a, e) /\ d = ContextOf(b, e)
    OBVIOUS
  <1>2. Texts(<<x>>)
    <2>1. <<x>> \in Seq({x}) /\ Len(<<x>>) = 1 /\ <<x>>[1] = x
      OBVIOUS
    <2>2. IsSeq(<<x>>)
      BY <2>1, TypedSeq
    <2> QED BY <2>1, <2>2 DEF Texts
  <1>3. \A o, r, t : Twins(Emit(<<x>>, o, r, t, c), Emit(<<x>>, o, r, t, d), a, b)
    <2> SUFFICES ASSUME NEW o, NEW r, NEW t
                 PROVE  Twins(Emit(<<x>>, o, r, t, c), Emit(<<x>>, o, r, t, d), a, b)
      OBVIOUS
    <2> QED BY <1>1, <1>2, TwinEmit
  <1>4. Twins(<<>>, <<>>, a, b)
    BY TwinsEmpty
  <1>5. Twins(ClaudeItems(s, f, ids, c, x), ClaudeItems(s, f, ids, d, x), a, b)
    <2> DEFINE keys == KeysOf(x.path)
               block == IF Len(keys) >= 3 /\ Starts(x, <<"message", "content">>)
                        THEN InnermostType(s, x.path) ELSE None
               name == OrDefault(BlockScalar(s, f, "tool_use", "name"))
               result == OrElse(BlockScalar(s, f, "tool_result", "tool_use_id"), s.toolUse)
               isText == (keys = <<"message", "content">> /\ s.role # "tool") \/ block = "text"
               isUse == block = "tool_use" /\ \E i \in DOMAIN keys : keys[i] = "input"
               isResult == /\ block = "tool_result" /\ \E i \in DOMAIN keys : keys[i] = "content"
                           /\ ~OwnResult(ids, result)
               tool == ResultTool(ids, result)
               Of(z) == CASE isText -> Emit(<<x>>, None, s.role, None, z)
                          [] isUse -> Emit(<<x>>, None, "tool", name, z)
                          [] isResult -> Emit(<<x>>, "tool_result", "tool", tool, z)
                          [] OTHER -> <<>>
    <2>1. ClaudeItems(s, f, ids, c, x) = Of(c) /\ ClaudeItems(s, f, ids, d, x) = Of(d)
      BY DEF ClaudeItems
    <2>2. ~(isText /\ isUse) /\ ~(isText /\ isResult) /\ ~(isUse /\ isResult)
      <3>1. keys = <<"message", "content">> => Len(keys) = 2
        OBVIOUS
      <3>2. keys = <<"message", "content">> => block = None
        <4> HIDE DEF keys
        <4> QED BY <3>1
      <3> HIDE DEF keys, block, result
      <3> QED BY <3>2 DEF None
    <2> HIDE DEF isText, isUse, isResult, name, tool
    <2>3. isText => Of(c) = Emit(<<x>>, None, s.role, None, c)
                    /\ Of(d) = Emit(<<x>>, None, s.role, None, d)
      BY <2>2
    <2>4. isUse => Of(c) = Emit(<<x>>, None, "tool", name, c)
                   /\ Of(d) = Emit(<<x>>, None, "tool", name, d)
      BY <2>2
    <2>5. isResult => Of(c) = Emit(<<x>>, "tool_result", "tool", tool, c)
                      /\ Of(d) = Emit(<<x>>, "tool_result", "tool", tool, d)
      BY <2>2
    <2>6. ~isText /\ ~isUse /\ ~isResult => Of(c) = <<>> /\ Of(d) = <<>>
      OBVIOUS
    <2> HIDE DEF Of
    <2>7. Twins(Of(c), Of(d), a, b)
      BY ONLY <1>3, <1>4, <2>3, <2>4, <2>5, <2>6, Zenon
    <2> QED BY <2>1, <2>7
  <1> QED BY <1>1, <1>5

(* Under two sessions a record has the same outcome but for the session: Codex, *)
LEMMA TwinNormalizeCodex ==
  ASSUME NEW a, NEW b, NEW e, NEW s, NEW f, Texts(f), NEW ids
  PROVE  OutcomeTwin(NormalizeCodex(s, f, ids, ContextOf(a, e)),
                     NormalizeCodex(s, f, ids, ContextOf(b, e)), a, b)
  <1>1. PICK c, d : c = ContextOf(a, e) /\ d = ContextOf(b, e)
    OBVIOUS
  <1> DEFINE payload == FieldAt(f, <<"payload", "type">>)
             argument == {x \in Range(f) : \/ Starts(x, <<"payload", "arguments">>)
                                          \/ Starts(x, <<"payload", "input">>)}
             output == {x \in Range(f) : Starts(x, <<"payload", "output">>)}
             text == {x \in Range(f) : CodexText(s, x)}
             isMeta == s.kind \in {"session_meta", "turn_context", None}
             isMessage == s.kind = "response_item" /\ payload = "message"
             isCall == /\ s.kind = "response_item"
                       /\ payload \in {"function_call", "custom_tool_call"}
             isOutput == /\ s.kind = "response_item"
                         /\ payload \in {"function_call_output", "custom_tool_call_output"}
             shown == s.role \in {"user", "assistant"} /\ s.channel # "analysis"
             own == OwnResult(ids, s.call)
             tool == ResultTool(ids, s.call)
             name == OrDefault(s.name)
             called == RegisterCall(ids, s.call, s.name)
             said(z) == IF shown THEN Emit(Among(f, text), None, s.role, None, z) ELSE <<>>
             use(z) == EmitName(s.name, z) \o Emit(Among(f, argument), None, "tool", name, z)
             got(z) == IF own THEN <<>>
                       ELSE Emit(Among(f, output), "tool_result", "tool", tool, z)
             Of(z) == CASE isMeta -> Outcome3(<<>>, ids, 0)
                        [] isMessage -> Outcome3(said(z), ids, 0)
                        [] isCall -> Outcome3(use(z), called, 0)
                        [] isOutput -> Outcome3(got(z), ids, 0)
                        [] OTHER -> Outcome3(<<>>, ids, 1)
  <1>2. NormalizeCodex(s, f, ids, c) = Of(c) /\ NormalizeCodex(s, f, ids, d) = Of(d)
    BY DEF NormalizeCodex
  <1>3. /\ ~(isMeta /\ isMessage) /\ ~(isMeta /\ isCall) /\ ~(isMeta /\ isOutput)
        /\ ~(isMessage /\ isCall) /\ ~(isMessage /\ isOutput) /\ ~(isCall /\ isOutput)
    <2> HIDE DEF payload
    <2> QED BY DEF None
  <1>4. \A S, o, r, t : Twins(Emit(Among(f, S), o, r, t, c), Emit(Among(f, S), o, r, t, d), a, b)
    <2> SUFFICES ASSUME NEW S, NEW o, NEW r, NEW t
                 PROVE  Twins(Emit(Among(f, S), o, r, t, c), Emit(Among(f, S), o, r, t, d), a, b)
      OBVIOUS
    <2>1. Texts(Among(f, S))
      BY AmongTexts
    <2> QED BY <1>1, <2>1, TwinEmit
  <1>5. Twins(<<>>, <<>>, a, b)
    BY TwinsEmpty
  <1> HIDE DEF isMeta, isMessage, isCall, isOutput, shown, own, tool, name, called,
               argument, output, text
  <1>6. Twins(said(c), said(d), a, b)
    <2>1. CASE shown
      <3>1. /\ said(c) = Emit(Among(f, text), None, s.role, None, c)
            /\ said(d) = Emit(Among(f, text), None, s.role, None, d)
        BY <2>1
      <3> QED BY ONLY <1>4, <3>1
    <2>2. CASE ~shown
      <3>1. said(c) = <<>> /\ said(d) = <<>>
        BY <2>2
      <3> QED BY ONLY <1>5, <3>1
    <2> QED BY <2>1, <2>2
  <1>7. Twins(use(c), use(d), a, b)
    <2>1. Twins(EmitName(s.name, c), EmitName(s.name, d), a, b)
      BY <1>1, TwinEmitName
    <2>2. Twins(Emit(Among(f, argument), None, "tool", name, c),
                Emit(Among(f, argument), None, "tool", name, d), a, b)
      BY ONLY <1>4
    <2> QED BY <2>1, <2>2, TwinsConcat
  <1>8. Twins(got(c), got(d), a, b)
    <2>1. CASE ~own
      <3>1. /\ got(c) = Emit(Among(f, output), "tool_result", "tool", tool, c)
            /\ got(d) = Emit(Among(f, output), "tool_result", "tool", tool, d)
        BY <2>1
      <3> QED BY ONLY <1>4, <3>1
    <2>2. CASE own
      <3>1. got(c) = <<>> /\ got(d) = <<>>
        BY <2>2
      <3> QED BY ONLY <1>5, <3>1
    <2> QED BY <2>1, <2>2
  <1> HIDE DEF said, use, got
  <1>9. OutcomeTwin(Of(c), Of(d), a, b)
    <2>1. CASE isMeta
      <3>1. Of(c) = Outcome3(<<>>, ids, 0) /\ Of(d) = Outcome3(<<>>, ids, 0)
        BY <1>3, <2>1
      <3> QED BY ONLY <1>5, <3>1, TwinOutcome
    <2>2. CASE isMessage
      <3>1. Of(c) = Outcome3(said(c), ids, 0) /\ Of(d) = Outcome3(said(d), ids, 0)
        BY <1>3, <2>2
      <3> QED BY ONLY <1>6, <3>1, TwinOutcome
    <2>3. CASE isCall
      <3>1. Of(c) = Outcome3(use(c), called, 0) /\ Of(d) = Outcome3(use(d), called, 0)
        BY <1>3, <2>3
      <3> QED BY ONLY <1>7, <3>1, TwinOutcome
    <2>4. CASE isOutput
      <3>1. Of(c) = Outcome3(got(c), ids, 0) /\ Of(d) = Outcome3(got(d), ids, 0)
        BY <1>3, <2>4
      <3> QED BY ONLY <1>8, <3>1, TwinOutcome
    <2>5. CASE ~isMeta /\ ~isMessage /\ ~isCall /\ ~isOutput
      <3>1. Of(c) = Outcome3(<<>>, ids, 1) /\ Of(d) = Outcome3(<<>>, ids, 1)
        BY <2>5
      <3> QED BY ONLY <1>5, <3>1, TwinOutcome
    <2> QED BY <2>1, <2>2, <2>3, <2>4, <2>5
  <1> QED BY <1>1, <1>2, <1>9

(* Copilot, *)
LEMMA TwinNormalizeCopilot ==
  ASSUME NEW a, NEW b, NEW e, NEW s, NEW f, Texts(f), NEW ids
  PROVE  OutcomeTwin(NormalizeCopilot(s, f, ids, ContextOf(a, e)),
                     NormalizeCopilot(s, f, ids, ContextOf(b, e)), a, b)
  <1>1. PICK c, d : c = ContextOf(a, e) /\ d = ContextOf(b, e)
    OBVIOUS
  <1> DEFINE text == {x \in Range(f) : \/ Starts(x, <<"data", "content">>)
                                      \/ Starts(x, <<"content">>)}
             argument == {x \in Range(f) : \/ Starts(x, <<"data", "arguments">>)
                                          \/ Starts(x, <<"data", "input">>)}
             output == {x \in Range(f) : \/ Starts(x, <<"data", "result", "content">>)
                                        \/ Starts(x, <<"data", "result", "detailedContent">>)
                                        \/ Starts(x, <<"result", "content">>)}
             isMeta == s.kind \in {"session.start", "session.resume", "session.info"}
             isMessage == s.kind \in {"user.message", "assistant.message"}
             isCall == s.kind \in {"tool.execution_start", "tool.start", "tool_use", "tool.call"}
             isOutput == s.kind \in {"tool.execution_complete", "tool.complete", "tool_result",
                                     "tool.result"}
             role == IF s.kind = "user.message" THEN "user" ELSE "assistant"
             own == OwnResult(ids, s.call)
             tool == ResultTool(ids, s.call)
             name == OrDefault(s.name)
             called == RegisterCall(ids, s.call, s.name)
             said(z) == Emit(Among(f, text), None, role, None, z)
             use(z) == EmitName(s.name, z) \o Emit(Among(f, argument), None, "tool", name, z)
             got(z) == IF own THEN <<>>
                       ELSE Emit(Among(f, output), "tool_result", "tool", tool, z)
             Of(z) == CASE isMeta -> Outcome3(<<>>, ids, 0)
                        [] isMessage -> Outcome3(said(z), ids, 0)
                        [] isCall -> Outcome3(use(z), called, 0)
                        [] isOutput -> Outcome3(got(z), ids, 0)
                        [] OTHER -> Outcome3(<<>>, ids, 1)
  <1>2. NormalizeCopilot(s, f, ids, c) = Of(c) /\ NormalizeCopilot(s, f, ids, d) = Of(d)
    BY DEF NormalizeCopilot
  <1>3. /\ ~(isMeta /\ isMessage) /\ ~(isMeta /\ isCall) /\ ~(isMeta /\ isOutput)
        /\ ~(isMessage /\ isCall) /\ ~(isMessage /\ isOutput) /\ ~(isCall /\ isOutput)
    OBVIOUS
  <1>4. \A S, o, r, t : Twins(Emit(Among(f, S), o, r, t, c), Emit(Among(f, S), o, r, t, d), a, b)
    <2> SUFFICES ASSUME NEW S, NEW o, NEW r, NEW t
                 PROVE  Twins(Emit(Among(f, S), o, r, t, c), Emit(Among(f, S), o, r, t, d), a, b)
      OBVIOUS
    <2>1. Texts(Among(f, S))
      BY AmongTexts
    <2> QED BY <1>1, <2>1, TwinEmit
  <1>5. Twins(<<>>, <<>>, a, b)
    BY TwinsEmpty
  <1> HIDE DEF isMeta, isMessage, isCall, isOutput, role, own, tool, name, called,
               argument, output, text
  <1>6. Twins(said(c), said(d), a, b)
    BY ONLY <1>4
  <1>7. Twins(use(c), use(d), a, b)
    <2>1. Twins(EmitName(s.name, c), EmitName(s.name, d), a, b)
      BY <1>1, TwinEmitName
    <2>2. Twins(Emit(Among(f, argument), None, "tool", name, c),
                Emit(Among(f, argument), None, "tool", name, d), a, b)
      BY ONLY <1>4
    <2> QED BY <2>1, <2>2, TwinsConcat
  <1>8. Twins(got(c), got(d), a, b)
    <2>1. CASE ~own
      <3>1. /\ got(c) = Emit(Among(f, output), "tool_result", "tool", tool, c)
            /\ got(d) = Emit(Among(f, output), "tool_result", "tool", tool, d)
        BY <2>1
      <3> QED BY ONLY <1>4, <3>1
    <2>2. CASE own
      <3>1. got(c) = <<>> /\ got(d) = <<>>
        BY <2>2
      <3> QED BY ONLY <1>5, <3>1
    <2> QED BY <2>1, <2>2
  <1> HIDE DEF said, use, got
  <1>9. OutcomeTwin(Of(c), Of(d), a, b)
    <2>1. CASE isMeta
      <3>1. Of(c) = Outcome3(<<>>, ids, 0) /\ Of(d) = Outcome3(<<>>, ids, 0)
        BY <1>3, <2>1
      <3> QED BY ONLY <1>5, <3>1, TwinOutcome
    <2>2. CASE isMessage
      <3>1. Of(c) = Outcome3(said(c), ids, 0) /\ Of(d) = Outcome3(said(d), ids, 0)
        BY <1>3, <2>2
      <3> QED BY ONLY <1>6, <3>1, TwinOutcome
    <2>3. CASE isCall
      <3>1. Of(c) = Outcome3(use(c), called, 0) /\ Of(d) = Outcome3(use(d), called, 0)
        BY <1>3, <2>3
      <3> QED BY ONLY <1>7, <3>1, TwinOutcome
    <2>4. CASE isOutput
      <3>1. Of(c) = Outcome3(got(c), ids, 0) /\ Of(d) = Outcome3(got(d), ids, 0)
        BY <1>3, <2>4
      <3> QED BY ONLY <1>8, <3>1, TwinOutcome
    <2>5. CASE ~isMeta /\ ~isMessage /\ ~isCall /\ ~isOutput
      <3>1. Of(c) = Outcome3(<<>>, ids, 1) /\ Of(d) = Outcome3(<<>>, ids, 1)
        BY <2>5
      <3> QED BY ONLY <1>5, <3>1, TwinOutcome
    <2> QED BY <2>1, <2>2, <2>3, <2>4, <2>5
  <1> QED BY <1>1, <1>2, <1>9

(* and Claude. *)
LEMMA TwinNormalizeClaude ==
  ASSUME NEW a, NEW b, NEW e, NEW s, NEW f, Texts(f), NEW ids
  PROVE  OutcomeTwin(NormalizeClaude(s, f, ids, ContextOf(a, e)),
                     NormalizeClaude(s, f, ids, ContextOf(b, e)), a, b)
  <1>1. PICK c, d : c = ContextOf(a, e) /\ d = ContextOf(b, e)
    OBVIOUS
  <1>2. PICK n : n = Len(f)
    OBVIOUS
  <1>3. n \in Nat /\ DOMAIN f = 1..n
    BY <1>2, SeqIs DEF Texts
  <1> DEFINE called == HasType(s.types, "tool_use")
             name == BlockScalar(s, f, "tool_use", "name")
             id == BlockScalar(s, f, "tool_use", "id")
             isMessage == s.kind \in {"user", "assistant"}
             isOther == s.kind \in {"system", "summary", "progress",
                                    "file-history-snapshot", None}
             parts(z) == [i \in 1..n |-> ClaudeItems(s, f, ids, z, f[i])]
             named(z) == IF called THEN EmitName(name, z) ELSE <<>>
             said(z) == FlattenSeq(parts(z)) \o named(z)
             now == IF called THEN RegisterCall(ids, id, name) ELSE ids
             Of(z) == CASE isMessage -> Outcome3(said(z), now, 0)
                        [] isOther -> Outcome3(<<>>, ids, 0)
                        [] OTHER -> Outcome3(<<>>, ids, 1)
  <1>4. NormalizeClaude(s, f, ids, c) = Of(c) /\ NormalizeClaude(s, f, ids, d) = Of(d)
    BY <1>3 DEF NormalizeClaude
  <1>5. ~(isMessage /\ isOther)
    BY DEF None
  <1>6. Twins(<<>>, <<>>, a, b)
    BY TwinsEmpty
  <1> HIDE DEF called, name, id, isMessage, isOther, now
  <1>7. Twins(FlattenSeq(parts(c)), FlattenSeq(parts(d)), a, b)
    <2>1. ASSUME NEW i \in 1..n PROVE Twins(parts(c)[i], parts(d)[i], a, b)
      <3>1. IsSeq(f[i].text)
        BY <1>2 DEF Texts
      <3>2. PICK x : x = f[i]
        OBVIOUS
      <3>3. Twins(ClaudeItems(s, f, ids, c, x), ClaudeItems(s, f, ids, d, x), a, b)
        BY <1>1, <3>1, <3>2, TwinClaudeItems
      <3> QED BY <3>2, <3>3
    <2>2. /\ parts(c) = [i \in 1..n |-> parts(c)[i]]
          /\ parts(d) = [i \in 1..n |-> parts(d)[i]]
      OBVIOUS
    <2>3. PICK g, h : g = parts(c) /\ h = parts(d)
      OBVIOUS
    <2> HIDE DEF parts
    <2>4. /\ g = [i \in 1..n |-> g[i]] /\ h = [i \in 1..n |-> h[i]]
          /\ \A i \in 1..n : Twins(g[i], h[i], a, b)
      BY <2>1, <2>2, <2>3
    <2>5. Twins(FlattenSeq(g), FlattenSeq(h), a, b)
      BY ONLY <1>3, <2>4, TwinFlatten
    <2> QED BY <2>3, <2>5
  <1> HIDE DEF parts
  <1>8. Twins(named(c), named(d), a, b)
    <2>1. CASE called
      <3>1. named(c) = EmitName(name, c) /\ named(d) = EmitName(name, d)
        BY <2>1
      <3> HIDE DEF named
      <3> QED BY <1>1, <3>1, TwinEmitName
    <2>2. CASE ~called
      <3>1. named(c) = <<>> /\ named(d) = <<>>
        BY <2>2
      <3> QED BY ONLY <1>6, <3>1
    <2> QED BY <2>1, <2>2
  <1> HIDE DEF named
  <1>9. Twins(said(c), said(d), a, b)
    BY <1>7, <1>8, TwinsConcat
  <1> HIDE DEF said
  <1>10. OutcomeTwin(Of(c), Of(d), a, b)
    <2>1. CASE isMessage
      <3>1. Of(c) = Outcome3(said(c), now, 0) /\ Of(d) = Outcome3(said(d), now, 0)
        BY <1>5, <2>1
      <3> QED BY ONLY <1>9, <3>1, TwinOutcome
    <2>2. CASE isOther
      <3>1. Of(c) = Outcome3(<<>>, ids, 0) /\ Of(d) = Outcome3(<<>>, ids, 0)
        BY <1>5, <2>2
      <3> QED BY ONLY <1>6, <3>1, TwinOutcome
    <2>3. CASE ~isMessage /\ ~isOther
      <3>1. Of(c) = Outcome3(<<>>, ids, 1) /\ Of(d) = Outcome3(<<>>, ids, 1)
        BY <2>3
      <3> QED BY ONLY <1>6, <3>1, TwinOutcome
    <2> QED BY <2>1, <2>2, <2>3
  <1> QED BY <1>1, <1>4, <1>10

(* So it has whoever the provider is. *)
LEMMA TwinNormalize ==
  ASSUME NEW provider \in {"codex", "claude", "copilot"}, NEW s, NEW f, Texts(f), NEW ids,
         NEW h, NEW k, NEW a, NEW b,
         a = OrElse(s.session, OrElse(h, "unknown")), b = OrElse(s.session, OrElse(k, "unknown"))
  PROVE  OutcomeTwin(Normalize(provider, s, f, ids, h), Normalize(provider, s, f, ids, k), a, b)
  <1>1. PICK c, d : c = ContextOf(a, s.event) /\ d = ContextOf(b, s.event)
    OBVIOUS
  <1>2. CASE provider = "codex"
    <2>1. /\ Normalize(provider, s, f, ids, h) = NormalizeCodex(s, f, ids, c)
          /\ Normalize(provider, s, f, ids, k) = NormalizeCodex(s, f, ids, d)
      BY <1>1, <1>2 DEF Normalize, ContextOf
    <2> QED BY <1>1, <2>1, TwinNormalizeCodex
  <1>3. CASE provider = "claude"
    <2>1. /\ Normalize(provider, s, f, ids, h) = NormalizeClaude(s, f, ids, c)
          /\ Normalize(provider, s, f, ids, k) = NormalizeClaude(s, f, ids, d)
      BY <1>1, <1>3 DEF Normalize, ContextOf
    <2> QED BY <1>1, <2>1, TwinNormalizeClaude
  <1>4. CASE provider = "copilot"
    <2>1. /\ Normalize(provider, s, f, ids, h) = NormalizeCopilot(s, f, ids, c)
          /\ Normalize(provider, s, f, ids, k) = NormalizeCopilot(s, f, ids, d)
      BY <1>1, <1>4 DEF Normalize, ContextOf
    <2> QED BY <1>1, <2>1, TwinNormalizeCopilot
  <1> QED BY <1>2, <1>3, <1>4

(***************************************************************************)
(* Identifiers: what a set of them answers depends on what it knows, not   *)
(* on which half knows it.                                                 *)
(***************************************************************************)
Known(ids) == ids.local \cup ids.committed
OneValueEach(pairs) == \A x, y \in pairs : x.key = y.key => x = y
IdsOf(l, c, u) == [local |-> l, committed |-> c, updates |-> u]
IdsOk(ids) ==
    /\ ids = IdsOf(ids.local, ids.committed, ids.updates)
    /\ OneValueEach(Known(ids))
    /\ IsSeq(ids.updates) /\ ids.local = {ids.updates[i] : i \in DOMAIN ids.updates}
Pair(key, value) == [key |-> key, value |-> value]
(* From x to u, and from y to v, the same has been learnt. *)
IdsSame(x, y) == IdsOk(x) /\ IdsOk(y) /\ Known(x) = Known(y)
KeepsCommitted(x, u) == u.committed = x.committed

(* InsertId adds a pair that it does not know. *)
LEMMA InsertIdOf ==
  ASSUME NEW x, IdsOk(x), NEW kind, NEW id, NEW value, ~HasId(x, kind, id)
  PROVE  InsertId(x, kind, id, value) =
            IdsOf(x.local \cup {Pair(IdKey(kind, id), value)}, x.committed,
                  Append(x.updates, Pair(IdKey(kind, id), value)))
  <1>1. PICK k : k = IdKey(kind, id)
    OBVIOUS
  <1>2. PICK l, c, u : l = x.local /\ c = x.committed /\ u = x.updates
    OBVIOUS
  <1>3. x = IdsOf(l, c, u)
    BY <1>2 DEF IdsOk
  <1>4. ~HasKey(l, k)
    BY <1>1, <1>2 DEF HasId, HasKey
  <1>5. InsertOrIgnore(l, k, value) = l \cup {Pair(k, value)}
    BY <1>4 DEF InsertOrIgnore, Pair
  <1>6. PICK m, w : m = l \cup {Pair(k, value)} /\ w = Append(u, Pair(k, value))
    OBVIOUS
  <1>7. PICK y : y = [x EXCEPT !.local = m, !.updates = w]
    OBVIOUS
  <1>8. y = IdsOf(m, c, w)
    BY <1>3, <1>7 DEF IdsOf
  <1>9. InsertId(x, kind, id, value) = y
    BY <1>1, <1>2, <1>5, <1>6, <1>7 DEF InsertId, Pair
  <1> QED BY <1>1, <1>2, <1>6, <1>8, <1>9

(* The members of a sequence with one more. *)
LEMMA AppendRange ==
  ASSUME NEW s, IsSeq(s), NEW e
  PROVE  {Append(s, e)[i] : i \in DOMAIN Append(s, e)} = {s[i] : i \in DOMAIN s} \cup {e}
  <1> DEFINE t == Append(s, e)
             n == Len(s)
  <1>1. /\ IsSeq(t) /\ Len(t) = n + 1 /\ t[n + 1] = e
        /\ \A i \in 1..n : t[i] = s[i]
    BY AppendIs
  <1>2. n \in Nat /\ DOMAIN s = 1..n
    BY SeqIs
  <1> HIDE DEF t
  <1>3. DOMAIN t = 1..(n + 1)
    BY <1>1, SeqIs
  <1> HIDE DEF n
  <1>4. \A i \in 1..(n + 1) : i = n + 1 \/ i \in 1..n
    BY <1>2
  <1>5. \A i \in 1..n : i \in 1..(n + 1)
    BY <1>2
  <1>6. n + 1 \in 1..(n + 1)
    BY <1>2
  <1>7. {t[i] : i \in 1..(n + 1)} = {s[i] : i \in 1..n} \cup {e}
    BY <1>1, <1>4, <1>5, <1>6
  <1> QED BY <1>2, <1>3, <1>7 DEF t

(* After InsertId the identifier is known, with the value it had if it had one. *)
LEMMA InsertIdOk ==
  ASSUME NEW x, IdsOk(x), NEW kind, NEW id, NEW value
  PROVE  /\ IdsOk(InsertId(x, kind, id, value))
         /\ KeepsCommitted(x, InsertId(x, kind, id, value))
         /\ Known(InsertId(x, kind, id, value)) =
               IF HasKey(Known(x), IdKey(kind, id)) THEN Known(x)
               ELSE Known(x) \cup {Pair(IdKey(kind, id), value)}
  <1>1. CASE HasId(x, kind, id)
    <2>1. InsertId(x, kind, id, value) = x
      BY <1>1 DEF InsertId
    <2> QED BY <1>1, <2>1 DEF HasId, Known, KeepsCommitted
  <1>2. CASE ~HasId(x, kind, id)
    <2>1. PICK e : e = Pair(IdKey(kind, id), value)
      OBVIOUS
    <2>2. PICK l, c, u : l = x.local /\ c = x.committed /\ u = x.updates
      OBVIOUS
    <2>3. PICK w : w = Append(u, e)
      OBVIOUS
    <2>4. InsertId(x, kind, id, value) = IdsOf(l \cup {e}, c, w)
      BY <1>2, <2>1, <2>2, <2>3, InsertIdOf
    <2>5. IsSeq(u) /\ l = {u[i] : i \in DOMAIN u} /\ OneValueEach(l \cup c)
      BY <2>2 DEF IdsOk, Known
    <2>6. IsSeq(w) /\ l \cup {e} = {w[i] : i \in DOMAIN w}
      BY <2>3, <2>5, AppendIs, AppendRange
    <2>7. ~HasKey(l \cup c, IdKey(kind, id)) /\ Known(x) = l \cup c
      BY <1>2, <2>2 DEF HasId, Known
    <2>8. OneValueEach((l \cup {e}) \cup c)
      <3>1. e.key = IdKey(kind, id)
        BY <2>1 DEF Pair
      <3> QED BY <2>5, <2>7, <3>1 DEF OneValueEach, HasKey
    <2>9. PICK y : y = IdsOf(l \cup {e}, c, w)
      OBVIOUS
    <2>10. y.local = l \cup {e} /\ y.committed = c /\ y.updates = w
      BY <2>9 DEF IdsOf
    <2>11. IdsOk(y)
      BY <2>6, <2>8, <2>9, <2>10 DEF IdsOk, Known
    <2>12. Known(y) = (l \cup c) \cup {e}
      BY <2>10 DEF Known
    <2> QED BY <2>1, <2>2, <2>4, <2>7, <2>9, <2>10, <2>11, <2>12 DEF KeepsCommitted
  <1> QED BY <1>1, <1>2

(* Sets that know the same identifiers still do after InsertId, *)
LEMMA SameInsertId ==
  ASSUME NEW x, NEW y, IdsSame(x, y), NEW kind, NEW id, NEW value
  PROVE  IdsSame(InsertId(x, kind, id, value), InsertId(y, kind, id, value))
  <1> DEFINE u == InsertId(x, kind, id, value)
             v == InsertId(y, kind, id, value)
  <1>1. IdsOk(x) /\ IdsOk(y) /\ Known(y) = Known(x)
    BY DEF IdsSame
  <1>2. IdsOk(u) /\ Known(u) = IF HasKey(Known(x), IdKey(kind, id)) THEN Known(x)
                              ELSE Known(x) \cup {Pair(IdKey(kind, id), value)}
    BY <1>1, InsertIdOk
  <1>3. IdsOk(v) /\ Known(v) = IF HasKey(Known(y), IdKey(kind, id)) THEN Known(y)
                              ELSE Known(y) \cup {Pair(IdKey(kind, id), value)}
    BY <1>1, InsertIdOk
  <1> HIDE DEF u, v
  <1>4. IdsSame(u, v)
    BY <1>1, <1>2, <1>3 DEF IdsSame
  <1> QED BY <1>4 DEF u, v

(* answer alike whether they know one, *)
LEMMA SameHasId ==
  ASSUME NEW x, NEW y, IdsSame(x, y), NEW kind, NEW id
  PROVE  HasId(x, kind, id) <=> HasId(y, kind, id)
  BY DEF IdsSame, HasId, Known

(* IdValue depends on what is known only, *)
LEMMA IdValueIs ==
  ASSUME NEW x, IdsOk(x), NEW kind, NEW id
  PROVE  IdValue(x, kind, id) = IF HasKey(Known(x), IdKey(kind, id))
                                THEN ValueAt(Known(x), IdKey(kind, id)) ELSE None
  <1>1. PICK k : k = IdKey(kind, id)
    OBVIOUS
  <1>2. ASSUME NEW S, S \subseteq Known(x), HasKey(S, k)
        PROVE  ValueAt(S, k) = ValueAt(Known(x), k)
    <2>1. PICK z \in S : z.key = k
      BY <1>2 DEF HasKey
    <2>2. \A w \in Known(x) : w.key = k => w = z
      BY <1>2, <2>1 DEF IdsOk, OneValueEach
    <2>3. (CHOOSE w \in S : w.key = k) = z
      BY <1>2, <2>1, <2>2
    <2>4. (CHOOSE w \in Known(x) : w.key = k) = z
      BY <1>2, <2>1, <2>2
    <2> QED BY <2>3, <2>4 DEF ValueAt
  <1>3. x.local \subseteq Known(x) /\ x.committed \subseteq Known(x)
    BY DEF Known
  <1>4. HasKey(Known(x), k) <=> HasKey(x.local, k) \/ HasKey(x.committed, k)
    BY DEF HasKey, Known
  <1> QED BY <1>1, <1>2, <1>3, <1>4 DEF IdValue

(* and so do the answers about a call of this program's own tools. *)
LEMMA SameAnswers ==
  ASSUME NEW x, NEW y, IdsSame(x, y), NEW call
  PROVE  /\ OwnResult(x, call) <=> OwnResult(y, call)
         /\ ResultTool(x, call) = ResultTool(y, call)
  BY SameHasId, IdValueIs DEF OwnResult, ResultTool, IdsSame

(* x and y have become u and v. *)
IdsGrow(x, y, u, v) == IdsSame(u, v) /\ KeepsCommitted(x, u) /\ KeepsCommitted(y, v)

(* A call is registered alike by sets that know the same. *)
LEMMA SameRegisterCall ==
  ASSUME NEW x, NEW y, IdsSame(x, y), NEW call, NEW name
  PROVE  IdsGrow(x, y, RegisterCall(x, call, name), RegisterCall(y, call, name))
  <1> DEFINE u == InsertId(x, "tool_call", call, OrDefault(name))
             v == InsertId(y, "tool_call", call, OrDefault(name))
             w == InsertId(u, "own_call", call, name)
             z == InsertId(v, "own_call", call, name)
  <1>1. IdsSame(u, v) /\ KeepsCommitted(x, u) /\ KeepsCommitted(y, v)
    BY SameInsertId, InsertIdOk DEF IdsSame
  <1> HIDE DEF u, v
  <1>2. IdsSame(w, z) /\ KeepsCommitted(u, w) /\ KeepsCommitted(v, z)
    BY <1>1, SameInsertId, InsertIdOk DEF IdsSame
  <1>3. /\ RegisterCall(x, call, name) = IF call = None THEN x
                                         ELSE IF name \in OwnTools THEN w ELSE u
        /\ RegisterCall(y, call, name) = IF call = None THEN y
                                         ELSE IF name \in OwnTools THEN z ELSE v
    BY DEF RegisterCall, u, v
  <1> HIDE DEF w, z
  <1>4. CASE call = None
    BY <1>3, <1>4 DEF IdsGrow, KeepsCommitted
  <1>5. CASE call # None /\ name \in OwnTools
    BY <1>1, <1>2, <1>3, <1>5 DEF IdsGrow, KeepsCommitted
  <1>6. CASE call # None /\ name \notin OwnTools
    BY <1>1, <1>3, <1>6 DEF IdsGrow
  <1> QED BY <1>4, <1>5, <1>6

(***************************************************************************)
(* A record normalised under identifiers that answer alike.                *)
(***************************************************************************)
SameOutcome(x, y, u, v) ==
    /\ u = Outcome3(u.items, u.ids, u.diagnostics)
    /\ v = Outcome3(u.items, v.ids, u.diagnostics)
    /\ IdsGrow(x, y, u.ids, v.ids)

(* Outcomes with the same items and diagnostics are the same. *)
LEMMA OutcomesSame ==
  ASSUME NEW x, NEW y, NEW u, NEW v, IdsGrow(x, y, u, v), NEW items, NEW n
  PROVE  SameOutcome(x, y, Outcome3(items, u, n), Outcome3(items, v, n))
  BY DEF SameOutcome, Outcome3

(* Sets that learn nothing still know the same. *)
LEMMA NoGrowth ==
  ASSUME NEW x, NEW y, IdsSame(x, y)
  PROVE  IdsGrow(x, y, x, y)
  BY DEF IdsGrow, KeepsCommitted

(* Identifiers that answer alike give a record the same outcome: Codex, *)
LEMMA SameNormalizeCodex ==
  ASSUME NEW x, NEW y, IdsSame(x, y), NEW s, NEW f, NEW c
  PROVE  SameOutcome(x, y, NormalizeCodex(s, f, x, c), NormalizeCodex(s, f, y, c))
  <1> DEFINE payload == FieldAt(f, <<"payload", "type">>)
             argument == {q \in Range(f) : \/ Starts(q, <<"payload", "arguments">>)
                                          \/ Starts(q, <<"payload", "input">>)}
             output == {q \in Range(f) : Starts(q, <<"payload", "output">>)}
             text == {q \in Range(f) : CodexText(s, q)}
             isMeta == s.kind \in {"session_meta", "turn_context", None}
             isMessage == s.kind = "response_item" /\ payload = "message"
             isCall == /\ s.kind = "response_item"
                       /\ payload \in {"function_call", "custom_tool_call"}
             isOutput == /\ s.kind = "response_item"
                         /\ payload \in {"function_call_output", "custom_tool_call_output"}
             shown == s.role \in {"user", "assistant"} /\ s.channel # "analysis"
             own(z) == OwnResult(z, s.call)
             tool(z) == ResultTool(z, s.call)
             called(z) == RegisterCall(z, s.call, s.name)
             said == IF shown THEN Emit(Among(f, text), None, s.role, None, c) ELSE <<>>
             use == EmitName(s.name, c)
                    \o Emit(Among(f, argument), None, "tool", OrDefault(s.name), c)
             got(z) == IF own(z) THEN <<>>
                       ELSE Emit(Among(f, output), "tool_result", "tool", tool(z), c)
             Of(z) == CASE isMeta -> Outcome3(<<>>, z, 0)
                        [] isMessage -> Outcome3(said, z, 0)
                        [] isCall -> Outcome3(use, called(z), 0)
                        [] isOutput -> Outcome3(got(z), z, 0)
                        [] OTHER -> Outcome3(<<>>, z, 1)
  <1>1. NormalizeCodex(s, f, x, c) = Of(x) /\ NormalizeCodex(s, f, y, c) = Of(y)
    BY DEF NormalizeCodex
  <1>2. /\ ~(isMeta /\ isMessage) /\ ~(isMeta /\ isCall) /\ ~(isMeta /\ isOutput)
        /\ ~(isMessage /\ isCall) /\ ~(isMessage /\ isOutput) /\ ~(isCall /\ isOutput)
    <2> HIDE DEF payload
    <2> QED BY DEF None
  <1>3. IdsGrow(x, y, x, y) /\ IdsGrow(x, y, called(x), called(y))
    BY NoGrowth, SameRegisterCall
  <1>4. got(x) = got(y)
    <2>1. (own(x) <=> own(y)) /\ tool(x) = tool(y)
      BY SameAnswers
    <2> HIDE DEF own, tool, argument, output
    <2>2. CASE own(x)
      BY <2>1, <2>2
    <2>3. CASE ~own(x)
      BY <2>1, <2>3
    <2> QED BY <2>2, <2>3
  <1> HIDE DEF isMeta, isMessage, isCall, isOutput, said, use, got, called
  <1>5. SameOutcome(x, y, Of(x), Of(y))
    <2>1. CASE isMeta
      <3>1. Of(x) = Outcome3(<<>>, x, 0) /\ Of(y) = Outcome3(<<>>, y, 0)
        BY <1>2, <2>1
      <3> QED BY ONLY <1>3, <3>1, OutcomesSame
    <2>2. CASE isMessage
      <3>1. Of(x) = Outcome3(said, x, 0) /\ Of(y) = Outcome3(said, y, 0)
        BY <1>2, <2>2
      <3> QED BY ONLY <1>3, <3>1, OutcomesSame
    <2>3. CASE isCall
      <3>1. Of(x) = Outcome3(use, called(x), 0) /\ Of(y) = Outcome3(use, called(y), 0)
        BY <1>2, <2>3
      <3> QED BY ONLY <1>3, <3>1, OutcomesSame
    <2>4. CASE isOutput
      <3>1. Of(x) = Outcome3(got(x), x, 0) /\ Of(y) = Outcome3(got(x), y, 0)
        BY <1>2, <1>4, <2>4
      <3> QED BY ONLY <1>3, <3>1, OutcomesSame
    <2>5. CASE ~isMeta /\ ~isMessage /\ ~isCall /\ ~isOutput
      <3>1. Of(x) = Outcome3(<<>>, x, 1) /\ Of(y) = Outcome3(<<>>, y, 1)
        BY <2>5
      <3> QED BY ONLY <1>3, <3>1, OutcomesSame
    <2> QED BY <2>1, <2>2, <2>3, <2>4, <2>5
  <1> QED BY <1>1, <1>5

(* Copilot, *)
LEMMA SameNormalizeCopilot ==
  ASSUME NEW x, NEW y, IdsSame(x, y), NEW s, NEW f, NEW c
  PROVE  SameOutcome(x, y, NormalizeCopilot(s, f, x, c), NormalizeCopilot(s, f, y, c))
  <1> DEFINE text == {q \in Range(f) : \/ Starts(q, <<"data", "content">>)
                                      \/ Starts(q, <<"content">>)}
             argument == {q \in Range(f) : \/ Starts(q, <<"data", "arguments">>)
                                          \/ Starts(q, <<"data", "input">>)}
             output == {q \in Range(f) : \/ Starts(q, <<"data", "result", "content">>)
                                        \/ Starts(q, <<"data", "result", "detailedContent">>)
                                        \/ Starts(q, <<"result", "content">>)}
             isMeta == s.kind \in {"session.start", "session.resume", "session.info"}
             isMessage == s.kind \in {"user.message", "assistant.message"}
             isCall == s.kind \in {"tool.execution_start", "tool.start", "tool_use", "tool.call"}
             isOutput == s.kind \in {"tool.execution_complete", "tool.complete", "tool_result",
                                     "tool.result"}
             role == IF s.kind = "user.message" THEN "user" ELSE "assistant"
             own(z) == OwnResult(z, s.call)
             tool(z) == ResultTool(z, s.call)
             called(z) == RegisterCall(z, s.call, s.name)
             said == Emit(Among(f, text), None, role, None, c)
             use == EmitName(s.name, c)
                    \o Emit(Among(f, argument), None, "tool", OrDefault(s.name), c)
             got(z) == IF own(z) THEN <<>>
                       ELSE Emit(Among(f, output), "tool_result", "tool", tool(z), c)
             Of(z) == CASE isMeta -> Outcome3(<<>>, z, 0)
                        [] isMessage -> Outcome3(said, z, 0)
                        [] isCall -> Outcome3(use, called(z), 0)
                        [] isOutput -> Outcome3(got(z), z, 0)
                        [] OTHER -> Outcome3(<<>>, z, 1)
  <1>1. NormalizeCopilot(s, f, x, c) = Of(x) /\ NormalizeCopilot(s, f, y, c) = Of(y)
    BY DEF NormalizeCopilot
  <1>2. /\ ~(isMeta /\ isMessage) /\ ~(isMeta /\ isCall) /\ ~(isMeta /\ isOutput)
        /\ ~(isMessage /\ isCall) /\ ~(isMessage /\ isOutput) /\ ~(isCall /\ isOutput)
    OBVIOUS
  <1>3. IdsGrow(x, y, x, y) /\ IdsGrow(x, y, called(x), called(y))
    BY NoGrowth, SameRegisterCall
  <1>4. got(x) = got(y)
    <2>1. (own(x) <=> own(y)) /\ tool(x) = tool(y)
      BY SameAnswers
    <2> HIDE DEF own, tool, argument, output
    <2>2. CASE own(x)
      BY <2>1, <2>2
    <2>3. CASE ~own(x)
      BY <2>1, <2>3
    <2> QED BY <2>2, <2>3
  <1> HIDE DEF isMeta, isMessage, isCall, isOutput, said, use, got, called
  <1>5. SameOutcome(x, y, Of(x), Of(y))
    <2>1. CASE isMeta
      <3>1. Of(x) = Outcome3(<<>>, x, 0) /\ Of(y) = Outcome3(<<>>, y, 0)
        BY <1>2, <2>1
      <3> QED BY ONLY <1>3, <3>1, OutcomesSame
    <2>2. CASE isMessage
      <3>1. Of(x) = Outcome3(said, x, 0) /\ Of(y) = Outcome3(said, y, 0)
        BY <1>2, <2>2
      <3> QED BY ONLY <1>3, <3>1, OutcomesSame
    <2>3. CASE isCall
      <3>1. Of(x) = Outcome3(use, called(x), 0) /\ Of(y) = Outcome3(use, called(y), 0)
        BY <1>2, <2>3
      <3> QED BY ONLY <1>3, <3>1, OutcomesSame
    <2>4. CASE isOutput
      <3>1. Of(x) = Outcome3(got(x), x, 0) /\ Of(y) = Outcome3(got(x), y, 0)
        BY <1>2, <1>4, <2>4
      <3> QED BY ONLY <1>3, <3>1, OutcomesSame
    <2>5. CASE ~isMeta /\ ~isMessage /\ ~isCall /\ ~isOutput
      <3>1. Of(x) = Outcome3(<<>>, x, 1) /\ Of(y) = Outcome3(<<>>, y, 1)
        BY <2>5
      <3> QED BY ONLY <1>3, <3>1, OutcomesSame
    <2> QED BY <2>1, <2>2, <2>3, <2>4, <2>5
  <1> QED BY <1>1, <1>5

(* the items of a Claude fragment, *)
LEMMA SameClaudeItems ==
  ASSUME NEW x, NEW y, IdsSame(x, y), NEW s, NEW f, NEW c, NEW q
  PROVE  ClaudeItems(s, f, x, c, q) = ClaudeItems(s, f, y, c, q)
  <1>1. \A call : (OwnResult(x, call) <=> OwnResult(y, call))
                  /\ ResultTool(x, call) = ResultTool(y, call)
    BY SameAnswers
  <1> DEFINE keys == KeysOf(q.path)
             block == IF Len(keys) >= 3 /\ Starts(q, <<"message", "content">>)
                      THEN InnermostType(s, q.path) ELSE None
             name == OrDefault(BlockScalar(s, f, "tool_use", "name"))
             result == OrElse(BlockScalar(s, f, "tool_result", "tool_use_id"), s.toolUse)
             isText == (keys = <<"message", "content">> /\ s.role # "tool") \/ block = "text"
             isUse == block = "tool_use" /\ \E i \in DOMAIN keys : keys[i] = "input"
             isBody == block = "tool_result" /\ \E i \in DOMAIN keys : keys[i] = "content"
             own(z) == OwnResult(z, result)
             tool(z) == ResultTool(z, result)
             one == Emit(<<q>>, None, s.role, None, c)
             two == Emit(<<q>>, None, "tool", name, c)
             three(z) == Emit(<<q>>, "tool_result", "tool", tool(z), c)
             Of(z) == CASE isText -> one
                        [] isUse -> two
                        [] isBody /\ ~own(z) -> three(z)
                        [] OTHER -> <<>>
  <1>2. ClaudeItems(s, f, x, c, q) = Of(x) /\ ClaudeItems(s, f, y, c, q) = Of(y)
    BY DEF ClaudeItems
  <1>3. (own(x) <=> own(y)) /\ three(x) = three(y)
    <2>1. (own(x) <=> own(y)) /\ tool(x) = tool(y)
      BY <1>1
    <2> HIDE DEF own, tool
    <2> QED BY <2>1
  <1>4. /\ ~(isText /\ isUse) /\ ~(isText /\ isBody) /\ ~(isUse /\ isBody)
    <2>1. keys = <<"message", "content">> => Len(keys) = 2
      OBVIOUS
    <2>2. keys = <<"message", "content">> => block = None
      <3> HIDE DEF keys
      <3> QED BY <2>1
    <2> HIDE DEF keys, block
    <2> QED BY <2>2 DEF None
  <1> HIDE DEF isText, isUse, isBody, own, one, two, three
  <1>5. Of(x) = Of(y)
    <2>1. CASE isText
      BY <1>4, <2>1
    <2>2. CASE isUse
      BY <1>4, <2>2
    <2>3. CASE isBody /\ ~own(x)
      BY <1>3, <1>4, <2>3
    <2>4. CASE ~isText /\ ~isUse /\ ~(isBody /\ ~own(x))
      BY <1>3, <2>4
    <2> QED BY <2>1, <2>2, <2>3, <2>4
  <1> QED BY <1>2, <1>5

(* and Claude. *)
LEMMA SameNormalizeClaude ==
  ASSUME NEW x, NEW y, IdsSame(x, y), NEW s, NEW f, NEW c
  PROVE  SameOutcome(x, y, NormalizeClaude(s, f, x, c), NormalizeClaude(s, f, y, c))
  <1> DEFINE called == HasType(s.types, "tool_use")
             name == BlockScalar(s, f, "tool_use", "name")
             id == BlockScalar(s, f, "tool_use", "id")
             isMessage == s.kind \in {"user", "assistant"}
             isOther == s.kind \in {"system", "summary", "progress",
                                    "file-history-snapshot", None}
             parts(z) == [i \in DOMAIN f |-> ClaudeItems(s, f, z, c, f[i])]
             named == IF called THEN EmitName(name, c) ELSE <<>>
             said(z) == FlattenSeq(parts(z)) \o named
             now(z) == IF called THEN RegisterCall(z, id, name) ELSE z
             Of(z) == CASE isMessage -> Outcome3(said(z), now(z), 0)
                        [] isOther -> Outcome3(<<>>, z, 0)
                        [] OTHER -> Outcome3(<<>>, z, 1)
  <1>1. NormalizeClaude(s, f, x, c) = Of(x) /\ NormalizeClaude(s, f, y, c) = Of(y)
    BY DEF NormalizeClaude
  <1>2. ~(isMessage /\ isOther)
    BY DEF None
  <1>3. parts(x) = parts(y)
    <2>1. \A i \in DOMAIN f : ClaudeItems(s, f, x, c, f[i]) = ClaudeItems(s, f, y, c, f[i])
      BY SameClaudeItems
    <2> QED BY <2>1
  <1>4. IdsGrow(x, y, x, y) /\ IdsGrow(x, y, now(x), now(y))
    <2>1. /\ IdsGrow(x, y, x, y)
          /\ IdsGrow(x, y, RegisterCall(x, id, name), RegisterCall(y, id, name))
      BY NoGrowth, SameRegisterCall
    <2> HIDE DEF called, id, name
    <2> QED BY <2>1
  <1> HIDE DEF parts, named
  <1>5. said(x) = said(y)
    BY <1>3
  <1> HIDE DEF isMessage, isOther, now, said
  <1>6. SameOutcome(x, y, Of(x), Of(y))
    <2>1. CASE isMessage
      <3>1. Of(x) = Outcome3(said(x), now(x), 0) /\ Of(y) = Outcome3(said(x), now(y), 0)
        BY <1>2, <1>5, <2>1
      <3> QED BY ONLY <1>4, <3>1, OutcomesSame
    <2>2. CASE isOther
      <3>1. Of(x) = Outcome3(<<>>, x, 0) /\ Of(y) = Outcome3(<<>>, y, 0)
        BY <1>2, <2>2
      <3> QED BY ONLY <1>4, <3>1, OutcomesSame
    <2>3. CASE ~isMessage /\ ~isOther
      <3>1. Of(x) = Outcome3(<<>>, x, 1) /\ Of(y) = Outcome3(<<>>, y, 1)
        BY <2>3
      <3> QED BY ONLY <1>4, <3>1, OutcomesSame
    <2> QED BY <2>1, <2>2, <2>3
  <1> QED BY <1>1, <1>6

(* So they do whoever the provider is. *)
LEMMA SameNormalize ==
  ASSUME NEW provider \in {"codex", "claude", "copilot"}, NEW s, NEW f, NEW h,
         NEW x, NEW y, IdsSame(x, y)
  PROVE  SameOutcome(x, y, Normalize(provider, s, f, x, h), Normalize(provider, s, f, y, h))
  <1>1. PICK c : c = ContextOf(OrElse(s.session, OrElse(h, "unknown")), s.event)
    OBVIOUS
  <1>2. CASE provider = "codex"
    <2>1. /\ Normalize(provider, s, f, x, h) = NormalizeCodex(s, f, x, c)
          /\ Normalize(provider, s, f, y, h) = NormalizeCodex(s, f, y, c)
      BY <1>1, <1>2 DEF Normalize, ContextOf
    <2> QED BY <2>1, SameNormalizeCodex
  <1>3. CASE provider = "claude"
    <2>1. /\ Normalize(provider, s, f, x, h) = NormalizeClaude(s, f, x, c)
          /\ Normalize(provider, s, f, y, h) = NormalizeClaude(s, f, y, c)
      BY <1>1, <1>3 DEF Normalize, ContextOf
    <2> QED BY <2>1, SameNormalizeClaude
  <1>4. CASE provider = "copilot"
    <2>1. /\ Normalize(provider, s, f, x, h) = NormalizeCopilot(s, f, x, c)
          /\ Normalize(provider, s, f, y, h) = NormalizeCopilot(s, f, y, c)
      BY <1>1, <1>4 DEF Normalize, ContextOf
    <2> QED BY <2>1, SameNormalizeCopilot
  <1> QED BY <1>2, <1>3, <1>4

(***************************************************************************)
(* Following.                                                              *)
(***************************************************************************)
(* Following is transitive. *)
LEMMA FollowsTransitive ==
  ASSUME NEW s, NEW t, NEW u, Follows(s, t), Follows(t, u)
  PROVE  Follows(s, u)
  <1>1. ASSUME NEW c, NEW d, NEW e, FollowsChunk(c, d), FollowsChunk(d, e)
        PROVE  FollowsChunk(c, e)
    <2>1. /\ c = ChunkWith(d, c.session) /\ d = ChunkWith(e, d.session)
          /\ e = ChunkWith(e, e.session) /\ c.session \in {e.session, "unknown"}
      BY <1>1 DEF FollowsChunk
    <2>2. ChunkWith(ChunkWith(e, d.session), c.session) = ChunkWith(e, c.session)
      BY DEF ChunkWith
    <2> QED BY <2>1, <2>2 DEF FollowsChunk
  <1> QED BY <1>1 DEF Follows

(* What follows piece by piece follows as a whole. *)
LEMMA FollowsConcat ==
  ASSUME NEW s, NEW t, Follows(s, t), NEW p, NEW q, Follows(p, q)
  PROVE  Follows(s \o p, t \o q)
  <1> DEFINE u == s \o p
             v == t \o q
             n == Len(s)
             m == Len(p)
  <1>1. n \in Nat /\ Len(t) = n /\ m \in Nat /\ Len(q) = m
    BY SeqIs DEF Follows
  <1>2. /\ IsSeq(u) /\ Len(u) = n + m /\ \A i \in 1..n : u[i] = s[i]
        /\ \A i \in 1..m : u[n + i] = p[i]
    BY ConcatIs DEF Follows
  <1>3. /\ IsSeq(v) /\ Len(v) = n + m /\ \A i \in 1..n : v[i] = t[i]
        /\ \A i \in 1..m : v[n + i] = q[i]
    <2>0. IsSeq(t) /\ IsSeq(q)
      BY DEF Follows
    <2>1. /\ IsSeq(v) /\ Len(v) = Len(t) + Len(q)
          /\ \A i \in 1..Len(t) : v[i] = t[i]
          /\ \A i \in 1..Len(q) : v[Len(t) + i] = q[i]
      BY ONLY <2>0, ConcatIs
    <2> HIDE DEF v, n, m
    <2> QED BY <1>1, <2>1
  <1> HIDE DEF u, v
  <1>4. \A i \in 1..n : FollowsChunk(u[i], v[i])
    BY <1>2, <1>3 DEF Follows
  <1>5. \A i \in 1..m : FollowsChunk(u[n + i], v[n + i])
    BY <1>2, <1>3 DEF Follows
  <1> HIDE DEF n, m
  <1>6. ASSUME NEW i \in 1..(n + m), i \notin 1..n
        PROVE  \E j \in 1..m : i = n + j
    <2>1. i - n \in 1..m /\ i = n + (i - n)
      BY <1>1, <1>6
    <2> QED BY <2>1
  <1>7. \A i \in 1..(n + m) : FollowsChunk(u[i], v[i])
    BY <1>4, <1>5, <1>6
  <1>8. Follows(u, v)
    BY <1>2, <1>3, <1>7 DEF Follows
  <1> QED BY <1>8 DEF u, v

(* Chunks of an unknown session follow their twins. *)
LEMMA TwinsFollow ==
  ASSUME NEW s, NEW t, NEW a, NEW b, ChunkTwins(s, t, a, b), a \in {b, "unknown"}
  PROVE  Follows(s, t)
  <1>1. ASSUME NEW c, NEW d, ChunkTwin(c, d, a, b)
        PROVE  FollowsChunk(c, d)
    <2>1. c = ChunkWith(c, a) /\ d = ChunkWith(c, b)
      BY <1>1 DEF ChunkTwin
    <2>2. c.session = a /\ d.session = b
      BY <2>1 DEF ChunkWith
    <2>3. /\ ChunkWith(ChunkWith(c, b), a) = ChunkWith(c, a)
          /\ ChunkWith(ChunkWith(c, b), b) = ChunkWith(c, b)
      BY DEF ChunkWith
    <2> QED BY <2>1, <2>2, <2>3 DEF FollowsChunk
  <1> QED BY <1>1 DEF ChunkTwins, Follows

(* A chunk that follows another is the same but for the session. *)
LEMMA FollowsSame ==
  ASSUME NEW c, NEW d, FollowsChunk(c, d)
  PROVE  SameButSession(c, d)
  <1>1. PICK a, b : a = c.session /\ b = d.session
    OBVIOUS
  <1>2. c = ChunkWith(d, a) /\ d = ChunkWith(d, b) /\ a \in {b, "unknown"}
    BY <1>1 DEF FollowsChunk
  <1>3. PICK e : e = [c EXCEPT !.session = b]
    OBVIOUS
  <1>4. e = ChunkWith(d, b)
    BY <1>2, <1>3 DEF ChunkWith
  <1> QED BY <1>1, <1>2, <1>3, <1>4 DEF SameButSession

(***************************************************************************)
(* A record under two passes, of which one may not know the session yet.   *)
(***************************************************************************)
SessionAt(provider, r) ==
    IF Tree[r] = Malformed THEN None ELSE Summary(provider, FragmentsOf(r)).session
RecordOf(provider, r, line, n) ==
    IF Tree[r] = Malformed THEN [n EXCEPT !.diagnostics = @ + 1]
    ELSE NormaliseRecord(provider, FragmentsOf(r), r, line, n)

(* The fragments of a record are fragments. *)
LEMMA CapturedIs ==
  ASSUME NEW r \in DOMAIN Tree
  PROVE  FragmentsOf(r) \in Seq(FragmentSet) /\ Texts(FragmentsOf(r))
  <1>1. PICK f : f = FragmentsOf(r)
    OBVIOUS
  <1>2. f \in Seq(FragmentSet)
    BY <1>1, FragmentTypes DEF FragmentsOf
  <1>3. \A i \in 1..Len(f) : f[i].text \in Seq(STRING)
    <2>1. \A x \in FragmentSet : x.text \in Seq(STRING)
      BY DEF FragmentSet
    <2>2. \A i \in 1..Len(f) : f[i] \in FragmentSet
      BY <1>2
    <2> QED BY <2>1, <2>2
  <1>4. IsSeq(f) /\ \A i \in 1..Len(f) : IsSeq(f[i].text)
    BY <1>2, <1>3, TypedSeq
  <1> QED BY <1>1, <1>2, <1>4 DEF Texts

PassOf(c, i, s, d) == [chunks |-> c, ids |-> i, session |-> s, diagnostics |-> d]

(* n is ahead of m by e diagnostics, and by a session perhaps. *)
Trails(m, n, e) ==
    /\ IsNormalised(m) /\ IsNormalised(n) /\ n.diagnostics = m.diagnostics + e
    /\ IdsSame(m.ids, n.ids) /\ Follows(m.chunks, n.chunks)
    /\ m.session # n.session => m.session = None

(* What a record makes of a pass's session. *)
Learns(provider, r, m, n) ==
    /\ n.session \in {m.session, OrElse(SessionAt(provider, r), m.session)}
    /\ KeepsCommitted(m.ids, n.ids)

(* A malformed record adds a diagnostic to both passes. *)
LEMMA MalformedTrails ==
  ASSUME NEW provider, NEW r, Tree[r] = Malformed, NEW line, NEW e \in Nat, NEW m, NEW n,
         Trails(m, n, e)
  PROVE  /\ Trails(RecordOf(provider, r, line, m), RecordOf(provider, r, line, n), e)
         /\ Learns(provider, r, m, RecordOf(provider, r, line, m))
         /\ Learns(provider, r, n, RecordOf(provider, r, line, n))
         /\ RecordOf(provider, r, line, m).session = RecordOf(provider, r, line, n).session
               <=> m.session = n.session
  <1>1. PICK x, y : x = m.diagnostics + 1 /\ y = n.diagnostics + 1
    OBVIOUS
  <1>2. m.diagnostics \in Nat /\ n.diagnostics \in Nat /\ n.diagnostics = m.diagnostics + e
    BY DEF Trails, IsNormalised
  <1>3. x \in Nat /\ y \in Nat /\ y = x + e
    BY <1>1, <1>2
  <1>4. PICK u, v : u = [m EXCEPT !.diagnostics = x] /\ v = [n EXCEPT !.diagnostics = y]
    OBVIOUS
  <1>5. /\ u = PassOf(m.chunks, m.ids, m.session, x)
        /\ v = PassOf(n.chunks, n.ids, n.session, y)
    BY <1>4 DEF Trails, IsNormalised, PassOf
  <1>6. RecordOf(provider, r, line, m) = u /\ RecordOf(provider, r, line, n) = v
    BY <1>1, <1>4 DEF RecordOf
  <1>7. Trails(u, v, e)
    BY <1>3, <1>5 DEF Trails, IsNormalised, PassOf
  <1>8. u.session = m.session /\ v.session = n.session /\ u.ids = m.ids /\ v.ids = n.ids
    BY <1>5 DEF PassOf
  <1> QED BY <1>6, <1>7, <1>8 DEF Learns, KeepsCommitted

(* A record read under two passes leaves the same but for the session. *)
LEMMA SameChunks ==
  ASSUME NEW provider \in {"codex", "claude", "copilot"}, NEW s, NEW f, Texts(f),
         NEW x, NEW y, IdsSame(x, y), NEW h, NEW k, NEW line,
         h # k => h = None /\ s.session = None
  PROVE  /\ SameOutcome(x, y, Normalize(provider, s, f, x, h),
                        [Normalize(provider, s, f, y, k) EXCEPT
                            !.items = Normalize(provider, s, f, x, h).items])
         /\ Follows(ChunksOf(Normalize(provider, s, f, x, h).items, line),
                    ChunksOf(Normalize(provider, s, f, y, k).items, line))
  <1> DEFINE u == Normalize(provider, s, f, x, h)
             v == Normalize(provider, s, f, y, h)
             w == Normalize(provider, s, f, y, k)
             a == OrElse(s.session, OrElse(h, "unknown"))
             b == OrElse(s.session, OrElse(k, "unknown"))
  <1>1. SameOutcome(x, y, u, v)
    BY SameNormalize
  <1>2. OutcomeTwin(v, w, a, b)
    BY TwinNormalize
  <1>3. a \in {b, "unknown"}
    BY DEF OrElse
  <1> HIDE DEF a, b, u, v, w
  <1>4. /\ u = Outcome3(u.items, u.ids, u.diagnostics)
        /\ v = Outcome3(u.items, v.ids, u.diagnostics) /\ IdsGrow(x, y, u.ids, v.ids)
    BY <1>1 DEF SameOutcome
  <1>5. /\ w = Outcome3(w.items, v.ids, v.diagnostics) /\ Twins(v.items, w.items, a, b)
    BY <1>2 DEF OutcomeTwin
  <1>6. v.items = u.items /\ v.diagnostics = u.diagnostics
    <2>1. \A i, j, d : Outcome3(i, j, d).items = i /\ Outcome3(i, j, d).diagnostics = d
      BY DEF Outcome3
    <2> QED BY <1>4, <2>1
  <1>7. PICK i : i = u.items
    OBVIOUS
  <1>8. PICK z : z = [w EXCEPT !.items = i]
    OBVIOUS
  <1>9. z = Outcome3(i, v.ids, u.diagnostics)
    BY <1>5, <1>6, <1>8 DEF Outcome3
  <1>10. SameOutcome(x, y, u, z)
    BY <1>4, <1>7, <1>9 DEF SameOutcome, Outcome3
  <1>11. Follows(ChunksOf(u.items, line), ChunksOf(w.items, line))
    <2>1. Twins(u.items, w.items, a, b)
      BY <1>5, <1>6
    <2>2. ChunkTwins(ChunksOf(u.items, line), ChunksOf(w.items, line), a, b)
      BY <2>1, TwinChunksOf
    <2> QED BY <1>3, <2>2, TwinsFollow
  <1> QED BY <1>7, <1>8, <1>10, <1>11 DEF u, w

(* The state of a pass after a record that it has not met. *)
Normalised3(s, out, n, line, session) ==
    PassOf(n.chunks \o ChunksOf(out.items, line), out.ids, session,
           n.diagnostics + Reports(s, out))
SeenIds(s, r, n) ==
    IF s.event = None THEN n.ids ELSE InsertId(n.ids, "seen_event", <<s.event, r>>, "")
IsSeen(s, r, n) == s.event # None /\ HasId(n.ids, "seen_event", <<s.event, r>>)

(* NormaliseRecord, in these terms. *)
LEMMA NormaliseRecordIs ==
  ASSUME NEW provider, NEW f, NEW r, NEW line, NEW n, NEW s, s = Summary(provider, f),
         NEW k, k = OrElse(s.session, n.session)
  PROVE  NormaliseRecord(provider, f, r, line, n) =
            IF IsSeen(s, r, n) THEN n
            ELSE Normalised3(s, Normalize(provider, s, f, SeenIds(s, r, n), k), n, line, k)
  BY DEF NormaliseRecord, IsSeen, SeenIds, Normalised3, PassOf

(* A record has been seen under both sets of identifiers or under neither. *)
LEMMA SeenSame ==
  ASSUME NEW s, NEW r, NEW m, NEW n, IdsSame(m.ids, n.ids)
  PROVE  /\ IsSeen(s, r, m) <=> IsSeen(s, r, n)
         /\ IdsGrow(m.ids, n.ids, SeenIds(s, r, m), SeenIds(s, r, n))
  <1>1. IsSeen(s, r, m) <=> IsSeen(s, r, n)
    BY SameHasId DEF IsSeen
  <1>2. CASE s.event = None
    BY <1>1, <1>2, NoGrowth DEF SeenIds
  <1>3. CASE s.event # None
    <2>1. PICK u, v : /\ u = InsertId(m.ids, "seen_event", <<s.event, r>>, "")
                      /\ v = InsertId(n.ids, "seen_event", <<s.event, r>>, "")
      OBVIOUS
    <2>2. IdsSame(u, v)
      BY <2>1, SameInsertId
    <2>3. IdsOk(m.ids) /\ IdsOk(n.ids)
      BY DEF IdsSame
    <2>4. KeepsCommitted(m.ids, u) /\ KeepsCommitted(n.ids, v)
      BY <2>1, <2>3, InsertIdOk
    <2>5. SeenIds(s, r, m) = u /\ SeenIds(s, r, n) = v
      BY <1>3, <2>1 DEF SeenIds
    <2> QED BY <1>1, <2>2, <2>4, <2>5 DEF IdsGrow
  <1> QED BY <1>2, <1>3

(* After a record a pass trails the other as before. *)
LEMMA RecordTrails ==
  ASSUME NEW provider \in {"codex", "claude", "copilot"}, NEW r \in DOMAIN Tree,
         NEW line, NEW e \in Nat, NEW m, NEW n, Trails(m, n, e),
         m.session # n.session => SessionAt(provider, r) = None
  PROVE  /\ Trails(RecordOf(provider, r, line, m), RecordOf(provider, r, line, n), e)
         /\ Learns(provider, r, m, RecordOf(provider, r, line, m))
         /\ Learns(provider, r, n, RecordOf(provider, r, line, n))
         /\ RecordOf(provider, r, line, m).session = RecordOf(provider, r, line, n).session
               <=> m.session = n.session
  <1>1. CASE Tree[r] = Malformed
    BY <1>1, MalformedTrails
  <1>2. CASE Tree[r] # Malformed
    <2>1. PICK f : f = FragmentsOf(r)
      OBVIOUS
    <2>2. PICK s : s = Summary(provider, f)
      OBVIOUS
    <2>3. PICK h, k : h = OrElse(s.session, m.session) /\ k = OrElse(s.session, n.session)
      OBVIOUS
    <2>4. Texts(f) /\ SessionAt(provider, r) = s.session
      BY <1>2, <2>1, <2>2, CapturedIs DEF SessionAt
    <2>5. PICK x, y : x = SeenIds(s, r, m) /\ y = SeenIds(s, r, n)
      OBVIOUS
    <2>6. /\ IsSeen(s, r, m) <=> IsSeen(s, r, n)
          /\ IdsSame(x, y) /\ KeepsCommitted(m.ids, x) /\ KeepsCommitted(n.ids, y)
      BY <2>5, SeenSame DEF Trails, IdsGrow
    <2>7. h # k => h = None /\ s.session = None
      BY <2>3, <2>4 DEF Trails, OrElse
    <2>8. (h = k <=> m.session = n.session) \/ s.session # None
      BY <2>3 DEF OrElse
    <2>9. PICK u, w : /\ u = Normalize(provider, s, f, x, h)
                      /\ w = Normalize(provider, s, f, y, k)
      OBVIOUS
    <2>10. PICK z : z = [w EXCEPT !.items = u.items]
      OBVIOUS
    <2>11. /\ SameOutcome(x, y, u, z)
           /\ Follows(ChunksOf(u.items, line), ChunksOf(w.items, line))
      BY <2>4, <2>6, <2>7, <2>9, <2>10, SameChunks
    <2>12. z.ids = w.ids /\ z.diagnostics = w.diagnostics
      BY <2>10, <2>11
    <2>13. /\ IdsSame(u.ids, w.ids) /\ KeepsCommitted(x, u.ids) /\ KeepsCommitted(y, w.ids)
           /\ w.diagnostics = u.diagnostics
      <3>1. z = Outcome3(u.items, z.ids, u.diagnostics) /\ IdsGrow(x, y, u.ids, z.ids)
        BY <2>11 DEF SameOutcome
      <3>2. z.diagnostics = u.diagnostics
        BY <3>1 DEF Outcome3
      <3> QED BY <2>12, <3>1, <3>2 DEF IdsGrow
    <2>14. /\ RecordOf(provider, r, line, m) =
                  IF IsSeen(s, r, m) THEN m ELSE Normalised3(s, u, m, line, h)
           /\ RecordOf(provider, r, line, n) =
                  IF IsSeen(s, r, n) THEN n ELSE Normalised3(s, w, n, line, k)
      BY <1>2, <2>1, <2>2, <2>3, <2>5, <2>9, NormaliseRecordIs DEF RecordOf
    <2>15. CASE IsSeen(s, r, m)
      BY <2>6, <2>14, <2>15 DEF Learns, KeepsCommitted
    <2>16. CASE ~IsSeen(s, r, m)
      <3>1. PICK a, b : a = Normalised3(s, u, m, line, h) /\ b = Normalised3(s, w, n, line, k)
        OBVIOUS
      <3>2. PICK e1 \in 0..2 : Reports(s, u) = e1 /\ Reports(s, w) = e1
        <4>1. u.diagnostics \in {0, 1}
          BY <2>9, NormalizeDiagnoses
        <4>2. Reports(s, u) \in 0..2
          BY <4>1, ReportsCount
        <4> QED BY <2>13, <4>2 DEF Reports
      <3>3. PICK c, d : /\ c = m.chunks \o ChunksOf(u.items, line)
                        /\ d = n.chunks \o ChunksOf(w.items, line)
        OBVIOUS
      <3>4. Follows(c, d)
        BY <2>11, <3>3, FollowsConcat DEF Trails
      <3>5. PICK x1, y1 : x1 = m.diagnostics + e1 /\ y1 = n.diagnostics + e1
        OBVIOUS
      <3>6. m.diagnostics \in Nat /\ n.diagnostics = m.diagnostics + e
        BY DEF Trails, IsNormalised
      <3>7. x1 \in Nat /\ y1 = x1 + e /\ y1 \in Nat
        BY <3>2, <3>5, <3>6
      <3>8. a = PassOf(c, u.ids, h, x1) /\ b = PassOf(d, w.ids, k, y1)
        BY <3>1, <3>2, <3>3, <3>5 DEF Normalised3
      <3>9. Trails(a, b, e)
        BY <2>7, <2>13, <3>4, <3>7, <3>8 DEF Trails, IsNormalised, PassOf
      <3>10. a.session = h /\ b.session = k /\ a.ids = u.ids /\ b.ids = w.ids
        BY <3>8 DEF PassOf
      <3>11. u.ids.committed = m.ids.committed /\ w.ids.committed = n.ids.committed
        BY <2>6, <2>13 DEF KeepsCommitted
      <3>12. h = k <=> m.session = n.session
        BY <2>3, <2>4 DEF OrElse
      <3>13. /\ RecordOf(provider, r, line, m) = a
             /\ RecordOf(provider, r, line, n) = b
        BY <2>6, <2>14, <2>16, <3>1
      <3>14. Learns(provider, r, m, a) /\ Learns(provider, r, n, b)
        BY <2>3, <2>4, <3>10, <3>11 DEF Learns, KeepsCommitted
      <3> QED BY <3>9, <3>10, <3>12, <3>13, <3>14
    <2> QED BY <2>15, <2>16
  <1> QED BY <1>1, <1>2

(***************************************************************************)
(* What the archive of a read holds.  It is not flushed while the read     *)
(* streams.                                                                *)
(***************************************************************************)
(* A new spool holds nothing. *)
LEMMA NewSpoolUnflushed == Unflushed(NewSpool) /\ Kept(NewSpool) = <<>>
  BY DEF Unflushed, Kept, NewSpool, Archive

(* The length of a spool is that of what it holds. *)
LEMMA UnflushedLen ==
  ASSUME NEW s, Unflushed(s)
  PROVE  Kept(s) \in Seq(FragmentSet) /\ SpoolLen(s) = Len(Kept(s))
  <1>1. /\ s.memory \in Seq(FragmentSet) /\ s.buffered \in Seq(FragmentSet)
        /\ s.onFile \in BOOLEAN
    BY DEF Unflushed, Archive
  <1>2. PICK m, b : m = Len(s.memory) /\ b = Len(s.buffered)
    OBVIOUS
  <1>3. m \in Nat /\ b \in Nat /\ SpoolLen(s) = m + b + 0
    <2>1. Len(s.flushed) = 0
      BY DEF Unflushed
    <2> QED BY <1>1, <1>2, <2>1 DEF SpoolLen
  <1>4. CASE s.onFile
    <2>1. m = 0
      BY <1>2, <1>4 DEF Unflushed
    <2> QED BY <1>1, <1>2, <1>3, <1>4, <2>1 DEF Kept
  <1>5. CASE ~s.onFile
    <2>1. b = 0
      BY <1>2, <1>5 DEF Unflushed
    <2> QED BY <1>1, <1>2, <1>3, <1>5, <2>1 DEF Kept
  <1> QED BY <1>4, <1>5

(* What is written is kept after what was there, in memory or in the buffer. *)
LEMMA WriteKeeps ==
  ASSUME NEW s, Unflushed(s), NEW f \in Seq(FragmentSet)
  PROVE  Unflushed(Write(s, f)) /\ Kept(Write(s, f)) = Kept(s) \o f
  <1> DEFINE a == s.buffered \o f
             b == s.memory \o f
             w == Write(s, f)
  <1>1. /\ s.memory \in Seq(FragmentSet) /\ s.buffered \in Seq(FragmentSet)
        /\ s.onFile \in BOOLEAN /\ s.flushed = <<>>
    BY DEF Unflushed, Archive
  <1>2. w \in Archive
    BY SpoolTypes DEF Unflushed
  <1>3. CASE s.onFile
    <2>1. w = [s EXCEPT !.buffered = a]
      BY <1>3 DEF Write
    <2> HIDE DEF w, a
    <2>2. w.memory = <<>> /\ w.flushed = <<>> /\ w.onFile /\ w.buffered = a
      BY <1>1, <1>3, <2>1 DEF Unflushed, Archive
    <2>3. Unflushed(w) /\ Kept(w) = a /\ Kept(s) = s.buffered
      BY <1>2, <1>3, <2>2 DEF Unflushed, Kept
    <2> QED BY <2>3 DEF w, a
  <1>4. CASE ~s.onFile
    <2>1. w \in {[s EXCEPT !.memory = <<>>, !.buffered = b, !.onFile = TRUE],
                 [s EXCEPT !.memory = b]}
      BY <1>4 DEF Write
    <2> HIDE DEF w, b
    <2>2. w.flushed = <<>> /\ \/ w.onFile /\ w.memory = <<>> /\ w.buffered = b
                              \/ ~w.onFile /\ w.buffered = <<>> /\ w.memory = b
      BY <1>1, <1>4, <2>1 DEF Unflushed, Archive
    <2>3. Unflushed(w) /\ Kept(w) = b /\ Kept(s) = s.memory
      BY <1>2, <1>4, <2>2 DEF Unflushed, Kept
    <2> QED BY <2>3 DEF w, b
  <1> QED BY <1>3, <1>4

(* Once flushed, what was kept is what a reader sees. *)
LEMMA FlushedReads ==
  ASSUME NEW s, Unflushed(s), NEW a \in Nat, NEW b \in Nat, b <= Len(Kept(s))
  PROVE  ReadRange(Flush(s), a, b) = SubSeq(Kept(s), a + 1, b)
  <1>1. /\ s.memory \in Seq(FragmentSet) /\ s.buffered \in Seq(FragmentSet)
        /\ s.onFile \in BOOLEAN /\ s.flushed = <<>>
    BY DEF Unflushed, Archive
  <1>2. PICK c : c = s.flushed \o s.buffered
    OBVIOUS
  <1>3. PICK w : w = [s EXCEPT !.flushed = c, !.buffered = <<>>]
    OBVIOUS
  <1>4. Flush(s) = w
    BY <1>2, <1>3 DEF Flush
  <1>5. c = s.buffered
    BY <1>1, <1>2
  <1>6. w.onFile = s.onFile /\ w.memory = s.memory /\ w.flushed = s.buffered
    BY <1>3, <1>5 DEF Unflushed, Archive
  <1>7. (IF w.onFile THEN w.flushed ELSE w.memory) = Kept(s)
    BY <1>6 DEF Kept
  <1>8. ReadRange(w, a, b) =
            SubSeq(Kept(s), a + 1, IF b <= Len(Kept(s)) THEN b ELSE Len(Kept(s)))
    BY <1>7 DEF ReadRange
  <1> QED BY <1>4, <1>8

(* A longer archive still holds the item of a record. *)
LEMMA HoldsLonger ==
  ASSUME NEW kept \in Seq(FragmentSet), NEW f \in Seq(FragmentSet), NEW item, NEW r, NEW line,
         Holds(kept, item, r, line)
  PROVE  Holds(kept \o f, item, r, line)
  <1>1. Len(kept) \in Nat /\ Len(f) \in Nat /\ Len(kept \o f) = Len(kept) + Len(f)
    OBVIOUS
  <1>2. CASE item.malformed
    BY <1>2 DEF Holds
  <1>3. CASE ~item.malformed
    <2>1. PICK a, b : a = item.start /\ b = item.end
      OBVIOUS
    <2>2. a \in Nat /\ b \in Nat /\ b <= Len(kept)
      BY <1>3, <2>1 DEF Holds
    <2>3. b <= Len(kept \o f)
      BY <1>1, <2>2
    <2>4. SubSeq(kept \o f, a + 1, b) = SubSeq(kept, a + 1, b)
      <3>1. a + 1 \in 1..(Len(kept) + 1) \/ a >= Len(kept)
        BY <1>1, <2>2
      <3>2. CASE a >= Len(kept)
        <4>1. a + 1 > b
          BY <1>1, <2>2, <3>2
        <4> QED BY <2>2, <4>1, SubSeqEmpty
      <3>3. CASE a < Len(kept)
        <4>1. a + 1 \in 1..Len(kept) /\ b \in Nat
          BY <1>1, <2>2, <3>3
        <4> QED BY <1>1, <2>2, <2>3, <4>1
      <3> QED BY <1>1, <2>2, <3>2, <3>3
    <2> QED BY <1>3, <2>1, <2>2, <2>3, <2>4 DEF Holds
  <1> QED BY <1>2, <1>3

(* An archive holds the item of the record just written. *)
LEMMA HoldsNew ==
  ASSUME NEW kept \in Seq(FragmentSet), NEW r, FragmentsOf(r) \in Seq(FragmentSet),
         Tree[r] # Malformed, NEW line, NEW item, NEW start, start = Len(kept), NEW end,
         end = start + Len(FragmentsOf(r)),
         item = [record |-> r, line |-> line, start |-> start, end |-> end,
                 malformed |-> FALSE]
  PROVE  Holds(kept \o FragmentsOf(r), item, r, line)
  <1>1. PICK f : f = FragmentsOf(r)
    OBVIOUS
  <1>2. Len(kept) \in Nat /\ Len(f) \in Nat /\ Len(kept \o f) = Len(kept) + Len(f)
    BY <1>1
  <1>3. SubSeq(kept \o f, Len(kept) + 1, Len(kept) + Len(f)) = f
    BY <1>1, <1>2
  <1>4. /\ item.record = r /\ item.line = line /\ item.malformed = FALSE
        /\ item.start = start /\ item.end = end
    OBVIOUS
  <1>5. start \in Nat /\ end \in Nat /\ end <= Len(kept \o f)
    BY <1>1, <1>2
  <1> QED BY <1>1, <1>3, <1>4, <1>5 DEF Holds

(***************************************************************************)
(* One record of a read.                                                   *)
(***************************************************************************)
Counted(r) ==
    IF Tree[r] = Malformed \/ TruncatedMetadata(Metadata(FragmentsOf(r))) THEN 1 ELSE 0
(* The session the first pass reads off a record. *)
HintAt(provider, r) ==
    IF Tree[r] = Malformed THEN None ELSE Summary(provider, Metadata(FragmentsOf(r))).session
ItemOf(r, line, start, end, malformed) ==
    [record |-> r, line |-> line, start |-> start, end |-> end, malformed |-> malformed]
(* What inspecting a record does to a read that is sound. *)
Inspects(provider, r, read, n) ==
    /\ n.hint = OrElse(read.hint, HintAt(provider, r))
    /\ n.diagnostics = read.diagnostics + Counted(r)

(* A read that has streamed nothing is sound. *)
LEMMA NewReadSound == Sound(NewRead, 0)
  <1>1. NewRead.archive = NewSpool /\ NewRead.prepared = <<>> /\ NewRead.streamed = <<>>
        /\ NewRead.line = 1
    BY DEF NewRead
  <1>2. Len(<<>>) = 0
    OBVIOUS
  <1> QED BY <1>1, <1>2, NewReadType, NewSpoolUnflushed DEF Sound

InspectsTo(provider, r, read, f, start, n) ==
    /\ Tree[r] = Malformed =>
          /\ n.archive = read.archive /\ n.hint = read.hint
          /\ n.diagnostics = read.diagnostics + 1 /\ n.line = read.line + 1
          /\ n.prepared = Append(read.prepared, ItemOf(r, read.line, 0, 0, TRUE))
    /\ Tree[r] # Malformed =>
          /\ n.archive = Write(read.archive, f)
          /\ n.hint = OrElse(read.hint, Summary(provider, Metadata(f)).session)
          /\ n.diagnostics = read.diagnostics
                              + (IF TruncatedMetadata(Metadata(f)) THEN 1 ELSE 0)
          /\ n.line = read.line + 1
          /\ n.prepared = Append(read.prepared,
                                 ItemOf(r, read.line, start, start + Len(f), FALSE))

(* Inspect, field by field. *)
LEMMA InspectIs ==
  ASSUME NEW provider, NEW r, NEW read, IsRead(read), ~read.other, ~read.unknown,
         NEW f, f = FragmentsOf(r), NEW start, start = SpoolLen(read.archive),
         NEW n, n = Inspect(read, provider, r)
  PROVE  InspectsTo(provider, r, read, f, start, n)
  <1> DEFINE d == read.diagnostics + IF TruncatedMetadata(Metadata(f)) THEN 1 ELSE 0
             h == OrElse(read.hint, Summary(provider, Metadata(f)).session)
             bad == ItemOf(r, read.line, 0, 0, TRUE)
             good == ItemOf(r, read.line, start, start + Len(f), FALSE)
             a == Write(read.archive, f)
             m == read.diagnostics + 1
             l == read.line + 1
             t == Append(read.streamed, r)
             x == Append(read.prepared, bad)
             y == Append(read.prepared, good)
  <1>1. (~read.other /\ ~read.unknown) = TRUE
    BY DEF IsRead
  <1>2. Fragments[r][~read.other /\ ~read.unknown] = f
    BY <1>1 DEF FragmentsOf
  <1>3. n = IF Tree[r] = Malformed
            THEN [read EXCEPT !.streamed = t, !.line = l, !.diagnostics = m,
                              !.prepared = x]
            ELSE [read EXCEPT !.streamed = t, !.line = l, !.diagnostics = d, !.hint = h,
                              !.archive = a, !.prepared = y]
    BY <1>2 DEF Inspect, IsRead, ItemOf
  <1> HIDE DEF a, h, d, m, l, t, x, y
  <1>4. CASE Tree[r] = Malformed
    <2>1. /\ n.archive = read.archive /\ n.hint = read.hint /\ n.diagnostics = m
          /\ n.line = l /\ n.prepared = x
      BY <1>3, <1>4 DEF IsRead
    <2> QED BY <1>4, <2>1 DEF m, l, x, bad, InspectsTo
  <1>5. CASE Tree[r] # Malformed
    <2>1. /\ n.archive = a /\ n.hint = h /\ n.diagnostics = d
          /\ n.line = l /\ n.prepared = y
      BY <1>3, <1>5 DEF IsRead
    <2> QED BY <1>5, <2>1 DEF a, h, d, l, y, good, InspectsTo
  <1> QED BY <1>4, <1>5 DEF InspectsTo

(* A sound read is sound with one more record. *)
LEMMA InspectSound ==
  ASSUME NEW provider, NEW r \in DOMAIN Tree, NEW l \in Nat, NEW read, Sound(read, l),
         ~read.other, ~read.unknown
  PROVE  /\ Sound(Inspect(read, provider, r), l)
         /\ Inspects(provider, r, read, Inspect(read, provider, r))
  <1>1. PICK n : n = Inspect(read, provider, r)
    OBVIOUS
  <1>2. PICK f : f = FragmentsOf(r)
    OBVIOUS
  <1>3. PICK start : start = SpoolLen(read.archive)
    OBVIOUS
  <1>4. PICK kept, later : kept = Kept(read.archive) /\ later = Kept(n.archive)
    OBVIOUS
  <1>5. IsRead(read)
    BY DEF Sound
  <1>20. ~read.other /\ ~read.unknown
    OBVIOUS
  <1>21. InspectsTo(provider, r, read, f, start, n)
    BY ONLY <1>1, <1>2, <1>3, <1>5, <1>20, InspectIs
  <1>6. Streams(read, r, n)
    BY <1>1, <1>5, InspectRead
  <1>7. kept \in Seq(FragmentSet) /\ start = Len(kept) /\ f \in Seq(FragmentSet)
    BY <1>2, <1>3, <1>4, UnflushedLen, CapturedIs DEF Sound
  <1> DEFINE k == Len(read.streamed)
  <1>8. /\ k \in Nat /\ Len(n.streamed) = k + 1 /\ n.streamed[k + 1] = r
        /\ \A i \in 1..k : n.streamed[i] = read.streamed[i]
    <2>1. n.streamed = Append(read.streamed, r) /\ read.streamed \in Seq(DOMAIN Tree)
      BY <1>5, <1>6 DEF Streams, IsRead
    <2> QED BY <2>1
  <1>9. IsSeq(read.prepared) /\ Len(read.prepared) = k /\ read.line = l + k + 1
    BY <1>5, TypedSeq DEF Sound, IsRead
  <1>10. PICK item : item = IF Tree[r] = Malformed THEN ItemOf(r, read.line, 0, 0, TRUE)
                            ELSE ItemOf(r, read.line, start, start + Len(f), FALSE)
    OBVIOUS
  <1>11. n.prepared = Append(read.prepared, item) /\ n.line = read.line + 1
    BY <1>10, <1>21 DEF InspectsTo
  <1>12. /\ Len(n.prepared) = k + 1 /\ n.prepared[k + 1] = item
         /\ \A i \in 1..k : n.prepared[i] = read.prepared[i]
    BY <1>9, <1>11, AppendIs
  <1>13. Unflushed(n.archive) /\ (later = kept \/ later = kept \o f)
         /\ Holds(later, item, r, read.line)
    <2>1. CASE Tree[r] = Malformed
      <3>1. n.archive = read.archive /\ item = ItemOf(r, read.line, 0, 0, TRUE)
        BY <1>10, <1>21, <2>1 DEF InspectsTo
      <3> QED BY <1>4, <2>1, <3>1 DEF Sound, Holds, ItemOf
    <2>2. CASE Tree[r] # Malformed
      <3>1. /\ n.archive = Write(read.archive, f)
            /\ item = ItemOf(r, read.line, start, start + Len(f), FALSE)
        BY <1>10, <1>21, <2>2 DEF InspectsTo
      <3>2. Unflushed(n.archive) /\ later = kept \o f
        BY <1>4, <1>7, <3>1, WriteKeeps DEF Sound
      <3>3. PICK end : end = start + Len(f)
        OBVIOUS
      <3>4. Holds(kept \o f, item, r, read.line)
        BY <1>2, <1>7, <2>2, <3>1, <3>3, HoldsNew DEF ItemOf
      <3> QED BY <3>2, <3>4
    <2> QED BY <2>1, <2>2
  <1>14. \A i \in 1..k : Holds(later, n.prepared[i], n.streamed[i], l + i)
    <2> TAKE i \in 1..k
    <2>1. Holds(kept, read.prepared[i], read.streamed[i], l + i)
      BY <1>4 DEF Sound
    <2>2. Holds(kept \o f, read.prepared[i], read.streamed[i], l + i)
      BY <1>7, <2>1, HoldsLonger
    <2> QED BY <1>8, <1>12, <1>13, <2>1, <2>2
  <1>15. Holds(later, n.prepared[k + 1], n.streamed[k + 1], l + (k + 1))
    <2>1. read.line = l + (k + 1)
      BY <1>8, <1>9
    <2> QED BY <1>8, <1>12, <1>13, <2>1
  <1> HIDE DEF k
  <1>16. \A i \in 1..(k + 1) : Holds(later, n.prepared[i], n.streamed[i], l + i)
    <2>1. \A i \in 1..(k + 1) : i \in 1..k \/ i = k + 1
      BY <1>8
    <2> QED BY <1>14, <1>15, <2>1
  <1>17. n.line = l + (k + 1) + 1
    BY <1>8, <1>9, <1>11
  <1>18. Sound(n, l)
    BY <1>4, <1>6, <1>8, <1>12, <1>13, <1>16, <1>17 DEF Sound, Streams
  <1>19. Inspects(provider, r, read, n)
    <2>1. CASE Tree[r] = Malformed
      <3>1. n.hint = read.hint /\ n.diagnostics = read.diagnostics + 1
        BY <1>21, <2>1 DEF InspectsTo
      <3> QED BY <2>1, <3>1 DEF Inspects, Counted, HintAt, OrElse
    <2>2. CASE Tree[r] # Malformed
      <3>1. /\ n.hint = OrElse(read.hint, Summary(provider, Metadata(f)).session)
            /\ n.diagnostics = read.diagnostics
                                + (IF TruncatedMetadata(Metadata(f)) THEN 1 ELSE 0)
        BY <1>21, <2>2 DEF InspectsTo
      <3> QED BY <1>2, <2>2, <3>1 DEF Inspects, Counted, HintAt
    <2> QED BY <2>1, <2>2
  <1> QED BY <1>1, <1>18, <1>19

(* What holds at 0 and is handed on holds up to n: induction, for a set. *)
LEMMA UpTo ==
  ASSUME NEW n \in Nat, NEW S \in SUBSET Nat, 0 \in S,
         \A i \in 0..n : i # n /\ i \in S => i + 1 \in S
  PROVE  0..n \subseteq S
  <1> DEFINE Out == (0..n) \ S
  <1>1. SUFFICES ASSUME Out # {} PROVE FALSE
    OBVIOUS
  <1>2. PICK k \in Out : \A m \in Out : k <= m
    <2>1. Out \in SUBSET Nat
      OBVIOUS
    <2> QED BY <1>1, <2>1, Smallest
  <1>3. k \in 1..n /\ k - 1 \in 0..n /\ k - 1 # n /\ k = (k - 1) + 1
    BY <1>2
  <1>4. k - 1 \in S
    BY <1>2, <1>3
  <1> QED BY <1>2, <1>3, <1>4

(***************************************************************************)
(* What the first pass sees of a record.                                   *)
(***************************************************************************)
(* Where the fragments chosen among the first i of f stand: e keeps their   *)
(* order and leaves none of them out.                                       *)
Stands(h, e, f, S, i) ==
    /\ IsSeq(h)
    /\ \A j \in 1..Len(h) : e[j] \in 1..i /\ f[e[j]] \in S /\ h[j] = f[e[j]]
    /\ \A j, k \in 1..Len(h) : j < k => e[j] < e[k]
    /\ \A q \in 1..i : f[q] \in S => \E j \in 1..Len(h) : e[j] = q

(* One more fragment is chosen, *)
LEMMA StandsMore ==
  ASSUME NEW h, NEW e, NEW f, NEW S, NEW i \in Nat, Stands(h, e, f, S, i), f[i + 1] \in S
  PROVE  \E d : Stands(Append(h, f[i + 1]), d, f, S, i + 1)
  <1> DEFINE n == Len(h)
             g == Append(h, f[i + 1])
             d == [j \in 1..(n + 1) |-> IF j = n + 1 THEN i + 1 ELSE e[j]]
  <1>1. n \in Nat
    BY SeqIs DEF Stands
  <1>2. IsSeq(g) /\ Len(g) = n + 1 /\ g[n + 1] = f[i + 1] /\ \A j \in 1..n : g[j] = h[j]
    BY AppendIs DEF Stands
  <1> HIDE DEF n, g
  <1>3. d[n + 1] = i + 1 /\ \A j \in 1..n : d[j] = e[j]
    BY <1>1
  <1> HIDE DEF d
  <1>4. \A j \in 1..(n + 1) : j = n + 1 \/ j \in 1..n
    BY <1>1
  <1>5. /\ \A j \in 1..n : e[j] \in 1..i /\ f[e[j]] \in S /\ h[j] = f[e[j]]
        /\ \A j, k \in 1..n : j < k => e[j] < e[k]
        /\ \A q \in 1..i : f[q] \in S => \E j \in 1..n : e[j] = q
    BY DEF Stands, n
  <1>6. \A j \in 1..(n + 1) : d[j] \in 1..(i + 1) /\ f[d[j]] \in S /\ g[j] = f[d[j]]
    <2> TAKE j \in 1..(n + 1)
    <2>1. CASE j = n + 1
      BY <1>2, <1>3, <2>1
    <2>2. CASE j \in 1..n
      <3>1. d[j] = e[j] /\ g[j] = h[j] /\ e[j] \in 1..i
        BY <1>2, <1>3, <1>5, <2>2
      <3>2. e[j] \in 1..(i + 1)
        BY <3>1
      <3> QED BY <1>5, <2>2, <3>1, <3>2
    <2> QED BY <1>4, <2>1, <2>2
  <1>7. \A j, k \in 1..(n + 1) : j < k => d[j] < d[k]
    <2> SUFFICES ASSUME NEW j \in 1..(n + 1), NEW k \in 1..(n + 1), j < k PROVE d[j] < d[k]
      OBVIOUS
    <2>1. j \in 1..n /\ d[j] = e[j] /\ e[j] \in 1..i
      BY <1>1, <1>3, <1>5
    <2>2. CASE k = n + 1
      BY <1>3, <2>1, <2>2
    <2>3. CASE k \in 1..n
      BY <1>3, <1>5, <2>1, <2>3
    <2> QED BY <1>4, <2>2, <2>3
  <1>8. \A q \in 1..(i + 1) : f[q] \in S => \E j \in 1..(n + 1) : d[j] = q
    <2> SUFFICES ASSUME NEW q \in 1..(i + 1), f[q] \in S PROVE \E j \in 1..(n + 1) : d[j] = q
      OBVIOUS
    <2>1. n + 1 \in 1..(n + 1) /\ \A j \in 1..n : j \in 1..(n + 1)
      BY <1>1
    <2>2. q = i + 1 \/ q \in 1..i
      OBVIOUS
    <2> QED BY <1>3, <1>5, <2>1, <2>2
  <1>9. Stands(g, d, f, S, i + 1)
    BY <1>2, <1>6, <1>7, <1>8 DEF Stands
  <1> QED BY <1>9 DEF g

(* or it is not. *)
LEMMA StandsOn ==
  ASSUME NEW h, NEW e, NEW f, NEW S, NEW i \in Nat, Stands(h, e, f, S, i), f[i + 1] \notin S
  PROVE  Stands(h, e, f, S, i + 1)
  <1>1. \A q \in 1..(i + 1) : q = i + 1 \/ q \in 1..i
    OBVIOUS
  <1>2. \A q \in 1..i : q \in 1..(i + 1)
    OBVIOUS
  <1> QED BY <1>1, <1>2 DEF Stands

(* So it is with what Among chooses. *)
LEMMA AmongStands ==
  ASSUME NEW f, NEW S, Len(f) \in Nat
  PROVE  \E e : Stands(Among(f, S), e, f, S, Len(f))
  <1> DEFINE n == Len(f)
             g == Selecting(f, S)
             Is(i) == \E e : Stands(g[i], e, f, S, i)
             B == {i \in 0..n : Is(i)}
  <1>1. n \in Nat
    OBVIOUS
  <1>2. Among(f, S) = g[n] /\ IsSelecting(g, f, S, n)
    BY ONLY <1>1, AmongSteps
  <1> HIDE DEF g, n
  <1>3. \A i \in 0..n : g[i] = CASE i = 0 -> <<>>
                                  [] i > 0 /\ f[i] \in S -> Append(g[i - 1], f[i])
                                  [] OTHER -> g[i - 1]
    BY <1>2, Zenon DEF IsSelecting
  <1>4. Is(0)
    <2>1. g[0] = <<>> /\ Len(<<>>) = 0
      BY <1>1, <1>3
    <2>2. PICK e : e = <<>>
      OBVIOUS
    <2>3. Stands(<<>>, e, f, S, 0)
      BY <2>1, EmptyIs DEF Stands
    <2> QED BY <2>1, <2>3
  <1>5. ASSUME NEW i \in 0..n, i # n, Is(i) PROVE Is(i + 1)
    <2>1. i \in Nat /\ i + 1 \in 0..n /\ i + 1 # 0 /\ i + 1 > 0 /\ (i + 1) - 1 = i
      BY <1>1, <1>5
    <2>2. PICK j : j = i + 1
      OBVIOUS
    <2>3. PICK h : h = g[i]
      OBVIOUS
    <2>4. PICK e : Stands(h, e, f, S, i)
      BY <1>5, <2>3
    <2>5. CASE f[j] \in S
      <3>1. g[j] = Append(h, f[j])
        BY <1>3, <2>1, <2>2, <2>3, <2>5
      <3>2. \E d : Stands(Append(h, f[i + 1]), d, f, S, i + 1)
        BY <2>1, <2>2, <2>4, <2>5, StandsMore
      <3> QED BY <2>2, <3>1, <3>2
    <2>6. CASE f[j] \notin S
      <3>1. g[j] = h
        BY <1>3, <2>1, <2>2, <2>3, <2>6
      <3>2. Stands(h, e, f, S, i + 1)
        BY <2>1, <2>2, <2>4, <2>6, StandsOn
      <3> QED BY <2>2, <3>1, <3>2
    <2> QED BY <2>5, <2>6
  <1>6. B \in SUBSET Nat /\ 0 \in B /\ \A i \in 0..n : i # n /\ i \in B => i + 1 \in B
    <2> HIDE DEF Is
    <2>1. \A i \in 0..n : i # n => i + 1 \in 0..n
      BY <1>1
    <2> QED BY <1>1, <1>4, <1>5, <2>1
  <1> HIDE DEF B
  <1>7. 0..n \subseteq B
    BY <1>1, <1>6, UpTo
  <1>8. Is(n)
    BY <1>1, <1>7 DEF B
  <1> QED BY <1>2, <1>8 DEF n

(* The paths that stand before a place are finitely many. *)
LEMMA PathsFinite ==
  ASSUME NEW f, IsSeq(f), NEW i
  PROVE  IsFiniteSet(PathsBefore(f, i))
  <1> DEFINE K == {k \in DOMAIN f : k < i /\ IsBounded(f[k])}
             T == PathsBefore(f, i)
             g == [k \in K |-> f[k].path]
  <1>1. Len(f) \in Nat /\ DOMAIN f = 1..Len(f)
    BY SeqIs
  <1>2. IsFiniteSet(1..Len(f))
    BY <1>1, FS_Interval
  <1>3. IsFiniteSet(K)
    BY <1>1, <1>2, FS_Subset
  <1>4. T = {f[k].path : k \in K}
    BY DEF PathsBefore
  <1> HIDE DEF K, T
  <1>5. g \in Surjection(K, T)
    BY <1>4 DEF Surjection
  <1> QED BY <1>3, <1>5, FS_Surjection DEF T

(* The first place of a set of places. *)
FirstHit(f, P, i) ==
    /\ i \in DOMAIN f /\ f[i].path = P /\ IsBounded(f[i])
    /\ \A j \in DOMAIN f : f[j].path = P /\ IsBounded(f[j]) => i <= j

(* FieldAt, by that place. *)
LEMMA FieldAtIs ==
  ASSUME NEW f, IsSeq(f), NEW P, NEW i, FirstHit(f, P, i)
  PROVE  FieldAt(f, P) = IF Cardinality(PathsBefore(f, i)) >= MaxMetadata THEN None
                         ELSE f[i].text[1]
  <1> DEFINE hits == {k \in DOMAIN f : f[k].path = P /\ IsBounded(f[k])}
             first == CHOOSE k \in hits : \A j \in hits : k <= j
  <1>1. i \in hits /\ \A j \in hits : i <= j
    BY DEF FirstHit
  <1>2. hits \in SUBSET Nat
    BY SeqIs
  <1>3. FieldAt(f, P) = IF hits = {} \/ Cardinality(PathsBefore(f, first)) >= MaxMetadata
                        THEN None ELSE f[first].text[1]
    BY DEF FieldAt
  <1> HIDE DEF hits
  <1>4. first \in hits /\ \A j \in hits : first <= j
    BY <1>1
  <1> HIDE DEF first
  <1>5. first = i
    <2>1. first \in Nat /\ i \in Nat /\ first <= i /\ i <= first
      BY <1>1, <1>2, <1>4
    <2> QED BY <2>1
  <1> QED BY <1>1, <1>3, <1>5

(* A metadata value the second pass keeps, the first one kept. *)
LEMMA MetadataKept ==
  ASSUME NEW f, IsSeq(f), NEW P, MetadataPath(P), FieldAt(f, P) # None
  PROVE  FieldAt(Metadata(f), P) = FieldAt(f, P)
  <1> DEFINE S == {x \in Range(f) : MetadataPath(x.path)}
  <1>1. PICK m, n : m = Metadata(f) /\ n = Len(f)
    OBVIOUS
  <1>2. n \in Nat /\ DOMAIN f = 1..n /\ \A i \in 1..n : f[i] \in S <=> MetadataPath(f[i].path)
    BY <1>1, SeqIs DEF Range
  <1>3. PICK e : Stands(m, e, f, S, n)
    BY <1>1, <1>2, AmongStands DEF Metadata
  <1>4. PICK i : FirstHit(f, P, i)
    <2> DEFINE hits == {k \in DOMAIN f : f[k].path = P /\ IsBounded(f[k])}
    <2>1. hits # {}
      BY DEF FieldAt
    <2>2. hits \in SUBSET Nat
      BY <1>2
    <2>3. PICK k \in hits : \A j \in hits : k <= j
      <3> HIDE DEF hits
      <3> QED BY <2>1, <2>2, Smallest
    <2> QED BY <2>3 DEF FirstHit
  <1> HIDE DEF S
  <1>5. i \in 1..n /\ f[i].path = P /\ IsBounded(f[i]) /\ f[i] \in S
    BY <1>2, <1>4 DEF FirstHit
  <1>6. PICK l : l = Len(m)
    OBVIOUS
  <1>7. l \in Nat /\ IsSeq(m) /\ DOMAIN m = 1..l
    BY <1>3, <1>6, SeqIs DEF Stands
  <1>8. /\ \A j \in 1..l : e[j] \in 1..n /\ m[j] = f[e[j]]
        /\ \A j, k \in 1..l : j < k => e[j] < e[k]
    BY <1>3, <1>6 DEF Stands
  <1>9. PICK j \in 1..l : e[j] = i
    BY <1>3, <1>5, <1>6 DEF Stands
  <1>10. m[j] = f[i]
    BY <1>8, <1>9
  <1>11. FirstHit(m, P, j)
    <2>1. ASSUME NEW k \in 1..l, m[k].path = P, IsBounded(m[k]) PROVE j <= k
      <3>1. e[k] \in 1..n /\ f[e[k]].path = P /\ IsBounded(f[e[k]])
        BY <1>8, <2>1
      <3>2. i <= e[k]
        BY <1>2, <1>4, <3>1 DEF FirstHit
      <3>3. k < j => e[k] < e[j]
        BY <1>8, <1>9
      <3> QED BY <1>5, <1>7, <1>9, <3>1, <3>2, <3>3
    <2> QED BY <1>5, <1>7, <1>9, <1>10, <2>1 DEF FirstHit
  <1>12. PICK a, b : a = PathsBefore(m, j) /\ b = PathsBefore(f, i)
    OBVIOUS
  <1>13. a \subseteq b
    <2> SUFFICES ASSUME NEW x \in a PROVE x \in b
      OBVIOUS
    <2>1. PICK k \in 1..l : k < j /\ IsBounded(m[k]) /\ x = m[k].path
      BY <1>7, <1>12 DEF PathsBefore
    <2>2. e[k] \in 1..n /\ m[k] = f[e[k]] /\ e[k] < i
      BY <1>8, <1>9, <2>1
    <2>3. PICK q : q = e[k]
      OBVIOUS
    <2>4. q \in DOMAIN f /\ q < i /\ IsBounded(f[q]) /\ x = f[q].path
      BY <1>2, <2>1, <2>2, <2>3
    <2> QED BY <1>12, <2>4 DEF PathsBefore
  <1>14. Cardinality(a) <= Cardinality(b) /\ Cardinality(a) \in Nat /\ Cardinality(b) \in Nat
    <2>1. IsFiniteSet(b) /\ IsFiniteSet(a)
      BY <1>7, <1>12, PathsFinite
    <2> QED BY <1>13, <2>1, FS_Subset, FS_CardinalityType
  <1>15. FieldAt(f, P) = IF Cardinality(b) >= MaxMetadata THEN None ELSE f[i].text[1]
    BY <1>4, <1>12, FieldAtIs
  <1>16. FieldAt(m, P) = IF Cardinality(a) >= MaxMetadata THEN None ELSE m[j].text[1]
    BY <1>7, <1>11, <1>12, FieldAtIs
  <1>17. ~(Cardinality(a) >= MaxMetadata)
    BY <1>14, <1>15, RecordsAssumption
  <1> QED BY <1>1, <1>10, <1>15, <1>16, <1>17

(* A record that names its session to the second pass names one to the first. *)
LEMMA HintNamed ==
  ASSUME NEW provider, NEW r \in DOMAIN Tree, HintAt(provider, r) = None
  PROVE  SessionAt(provider, r) = None
  <1> SUFFICES ASSUME SessionAt(provider, r) # None PROVE FALSE
    OBVIOUS
  <1>1. PICK f, m : f = FragmentsOf(r) /\ m = Metadata(f)
    OBVIOUS
  <1>2. PICK k, c : k = FieldAt(f, <<"type">>) /\ c = FieldAt(m, <<"type">>)
    OBVIOUS
  <1>3. SessionId(provider, k, f) # None /\ SessionId(provider, c, m) = None
    BY <1>1, <1>2, Zenon DEF SessionAt, HintAt, Summary
  <1>4. IsSeq(f)
    BY <1>1, CapturedIs DEF Texts
  <1>5. \A P : MetadataPath(P) /\ FieldAt(f, P) # None => FieldAt(m, P) = FieldAt(f, P)
    BY <1>1, <1>4, MetadataKept
  <1>6. /\ MetadataPath(<<"type">>) /\ MetadataPath(<<"session_id">>)
        /\ MetadataPath(<<"sessionId">>) /\ MetadataPath(<<"payload", "session_id">>)
        /\ MetadataPath(<<"payload", "id">>) /\ MetadataPath(<<"data", "sessionId">>)
    BY DEF MetadataPath, VisibleKeys
  <1>7. CASE FieldAt(f, <<"session_id">>) # None
    <2>1. FieldAt(m, <<"session_id">>) # None
      BY <1>5, <1>6, <1>7
    <2> QED BY <1>3, <2>1 DEF SessionId, OrElse
  <1>8. CASE FieldAt(f, <<"sessionId">>) # None
    <2>1. FieldAt(m, <<"sessionId">>) # None
      BY <1>5, <1>6, <1>8
    <2> QED BY <1>3, <2>1 DEF SessionId, OrElse
  <1>9. CASE FieldAt(f, <<"session_id">>) = None /\ FieldAt(f, <<"sessionId">>) = None
    <2>1. FieldAt(m, <<"session_id">>) = None /\ FieldAt(m, <<"sessionId">>) = None
      BY <1>3 DEF SessionId, OrElse
    <2> DEFINE own(kind, g) ==
           CASE provider = "codex" /\ kind = "session_meta" ->
                   OrElse(FieldAt(g, <<"payload", "session_id">>),
                          FieldAt(g, <<"payload", "id">>))
             [] provider = "copilot" /\ kind \in {"session.start", "session.resume"} ->
                   FieldAt(g, <<"data", "sessionId">>)
             [] OTHER -> None
    <2>2. own(k, f) # None /\ own(c, m) = None
      BY <1>3, <1>9, <2>1 DEF SessionId, OrElse
    <2>3. k # None => c = k
      BY <1>2, <1>5, <1>6
    <2>4. k \in {"session_meta", "session.start", "session.resume"}
      BY <2>2
    <2>5. k # None
      BY <2>4 DEF None
    <2>6. PICK a, b, d : /\ a = FieldAt(f, <<"payload", "session_id">>)
                         /\ b = FieldAt(f, <<"payload", "id">>)
                         /\ d = FieldAt(f, <<"data", "sessionId">>)
      OBVIOUS
    <2>7. /\ a # None => FieldAt(m, <<"payload", "session_id">>) = a
          /\ b # None => FieldAt(m, <<"payload", "id">>) = b
          /\ d # None => FieldAt(m, <<"data", "sessionId">>) = d
      BY <1>5, <1>6, <2>6
    <2> QED BY <2>2, <2>3, <2>5, <2>6, <2>7 DEF OrElse
  <1> QED BY <1>7, <1>8, <1>9

(***************************************************************************)
(* The reading of records from the first on.                               *)
(***************************************************************************)
IsInspecting(after, provider, t, n) ==
    after = [i \in 0..n |-> IF i = 0 THEN NewRead ELSE Inspect(after[i - 1], provider, t[i])]

(* There is a function that inspects the records one by one. *)
LEMMA InspectingExists ==
  ASSUME NEW provider, NEW t, NEW n \in Nat
  PROVE  \E after : IsInspecting(after, provider, t, n)
  <1> DEFINE Is(f, k) == IsInspecting(f, provider, t, k)
             S == {k \in Nat : ~(\E f : Is(f, k))}
  <1>1. SUFFICES ASSUME S # {} PROVE FALSE
    OBVIOUS
  <1>2. PICK k \in S : \A m \in S : k <= m
    BY <1>1, Smallest
  <1>3. k # 0
    <2> DEFINE f == [i \in 0..0 |-> NewRead]
    <2>1. Is(f, 0)
      BY DEF IsInspecting
    <2> QED BY <1>2, <2>1
  <1>4. k - 1 \in Nat /\ k - 1 \notin S
    BY <1>2, <1>3
  <1>5. PICK f : Is(f, k - 1)
    BY <1>4
  <1> DEFINE last == Inspect(f[k - 1], provider, t[k])
             g == [i \in 0..k |-> IF i = k THEN last ELSE f[i]]
  <1>6. ASSUME NEW i \in 0..k
        PROVE  g[i] = IF i = 0 THEN NewRead ELSE Inspect(g[i - 1], provider, t[i])
    <2>1. CASE i = k
      <3>1. g[k - 1] = f[k - 1] /\ k - 1 \in 0..k
        BY <1>3, <1>4
      <3> QED BY <1>3, <2>1, <3>1
    <2>2. CASE i # k
      <3>1. i \in 0..(k - 1) /\ g[i] = f[i]
        BY <1>3, <2>2
      <3>2. f[i] = IF i = 0 THEN NewRead ELSE Inspect(f[i - 1], provider, t[i])
        BY <1>5, <3>1 DEF IsInspecting
      <3>3. i # 0 => i - 1 \in 0..k /\ g[i - 1] = f[i - 1]
        BY <1>3, <2>2
      <3> QED BY <3>1, <3>2, <3>3
    <2> QED BY <2>1, <2>2
  <1>7. Is(g, k)
    BY <1>6, Zenon DEF IsInspecting
  <1> QED BY <1>2, <1>7

(* ReadAll is the end of such a function. *)
LEMMA ReadAllSteps ==
  ASSUME NEW provider, NEW t, Len(t) \in Nat
  PROVE  \E f : /\ IsInspecting(f, provider, t, Len(t))
                /\ ReadAll(provider, t) = f[Len(t)]
  <1> DEFINE f == CHOOSE g : IsInspecting(g, provider, t, Len(t))
  <1>1. ReadAll(provider, t) = f[Len(t)]
    BY DEF ReadAll, IsInspecting
  <1>2. IsInspecting(f, provider, t, Len(t))
    BY InspectingExists
  <1> QED BY <1>1, <1>2

(* Each step of it, one record. *)
LEMMA InspectingFirst ==
  ASSUME NEW provider, NEW t, NEW n \in Nat, NEW f, IsInspecting(f, provider, t, n)
  PROVE  f[0] = NewRead
  BY DEF IsInspecting

(* Its later steps. *)
LEMMA InspectingStep ==
  ASSUME NEW provider, NEW t, NEW n \in Nat, NEW f, IsInspecting(f, provider, t, n),
         NEW i \in 0..n, i # n
  PROVE  f[i + 1] = Inspect(f[i], provider, t[i + 1])
  <1>1. i + 1 \in 0..n /\ i + 1 # 0 /\ (i + 1) - 1 = i
    OBVIOUS
  <1> QED BY <1>1 DEF IsInspecting

(* Two readings agree as long as what they read does. *)
LEMMA InspectingAgree ==
  ASSUME NEW provider, NEW t, NEW u, NEW n \in Nat, NEW m \in Nat, n <= m,
         \A i \in 1..n : t[i] = u[i], NEW f, IsInspecting(f, provider, t, n),
         NEW g, IsInspecting(g, provider, u, m)
  PROVE  \A i \in 0..n : f[i] = g[i]
  <1> DEFINE S == {i \in 0..n : f[i] = g[i]}
  <1>1. S \in SUBSET Nat /\ 0 \in S
    <2>1. f[0] = NewRead
      BY InspectingFirst
    <2>2. g[0] = NewRead
      BY InspectingFirst
    <2> QED BY <2>1, <2>2
  <1>2. ASSUME NEW i \in 0..n, i # n, i \in S PROVE i + 1 \in S
    <2>1. i \in 0..m /\ i # m /\ i + 1 \in 0..n /\ i + 1 \in 1..n
      BY <1>2
    <2>2. f[i + 1] = Inspect(f[i], provider, t[i + 1])
      BY <1>2, InspectingStep
    <2>3. g[i + 1] = Inspect(g[i], provider, u[i + 1])
      BY <2>1, InspectingStep
    <2> QED BY <1>2, <2>1, <2>2, <2>3
  <1> HIDE DEF S
  <1>3. 0..n \subseteq S
    BY <1>1, <1>2, UpTo
  <1> QED BY <1>3 DEF S

(* Reading one record more inspects it. *)
LEMMA ReadAllAppend ==
  ASSUME NEW provider, NEW t, IsSeq(t), NEW r
  PROVE  ReadAll(provider, Append(t, r)) = Inspect(ReadAll(provider, t), provider, r)
  <1>1. PICK u : u = Append(t, r)
    OBVIOUS
  <1>2. PICK n : n = Len(t)
    OBVIOUS
  <1>3. n \in Nat /\ Len(u) = n + 1 /\ u[n + 1] = r /\ \A i \in 1..n : u[i] = t[i]
    BY <1>1, <1>2, AppendIs, SeqIs
  <1>4. PICK f : IsInspecting(f, provider, t, n) /\ ReadAll(provider, t) = f[n]
    BY <1>2, <1>3, ReadAllSteps
  <1>5. PICK g : IsInspecting(g, provider, u, n + 1) /\ ReadAll(provider, u) = g[n + 1]
    <2>1. Len(u) \in Nat
      BY <1>3
    <2> QED BY <1>3, <2>1, ReadAllSteps
  <1>6. n + 1 \in Nat /\ n <= n + 1 /\ n \in 0..(n + 1) /\ n \in 0..n /\ n # n + 1
    BY <1>3
  <1>7. f[n] = g[n]
    <2>1. \A i \in 1..n : t[i] = u[i]
      BY <1>3
    <2>2. \A i \in 0..n : f[i] = g[i]
      BY ONLY <1>3, <1>4, <1>5, <1>6, <2>1, InspectingAgree
    <2> QED BY <1>6, <2>2
  <1>8. g[n + 1] = Inspect(g[n], provider, u[n + 1])
    <2>1. PICK m : m = n + 1
      OBVIOUS
    <2>2. IsInspecting(g, provider, u, m) /\ m \in Nat /\ n \in 0..m /\ n # m
      BY <1>5, <1>6, <2>1
    <2> QED BY ONLY <2>2, InspectingStep
  <1> QED BY <1>1, <1>3, <1>4, <1>5, <1>7, <1>8

(* Reading nothing leaves a new read. *)
LEMMA ReadAllEmpty == \A provider : ReadAll(provider, <<>>) = NewRead
  <1> TAKE provider
  <1>1. Len(<<>>) = 0 /\ Len(<<>>) \in Nat
    OBVIOUS
  <1>2. PICK f : IsInspecting(f, provider, <<>>, 0) /\ ReadAll(provider, <<>>) = f[0]
    BY <1>1, ReadAllSteps
  <1> QED BY <1>2, InspectingFirst

(***************************************************************************)
(* What such a reading has found.                                          *)
(***************************************************************************)
ReadsAll(provider, t, n, read) ==
    /\ Sound(read, 0) /\ ~read.other /\ ~read.unknown
    /\ Len(read.streamed) = n /\ \A i \in 1..n : read.streamed[i] = t[i]
    /\ read.hint = None => \A i \in 1..n : SessionAt(provider, t[i]) = None
    /\ read.diagnostics > 0 <=> \E i \in 1..n : Counted(t[i]) = 1

(* Every step of it is a sound read of the records so far, *)
LEMMA InspectingReads ==
  ASSUME NEW provider, NEW t \in Seq(DOMAIN Tree), NEW n \in Nat, n = Len(t), NEW f,
         IsInspecting(f, provider, t, n)
  PROVE  \A i \in 0..n : ReadsAll(provider, t, i, f[i])
  <1> DEFINE S == {i \in 0..n : ReadsAll(provider, t, i, f[i])}
  <1>1. S \in SUBSET Nat
    OBVIOUS
  <1>2. 0 \in S
    <2>0. f[0] = NewRead
      BY InspectingFirst
    <2>1. /\ f[0].other = FALSE /\ f[0].unknown = FALSE /\ f[0].streamed = <<>>
          /\ f[0].diagnostics = 0 /\ f[0] = NewRead
      BY <2>0 DEF NewRead
    <2>2. Len(<<>>) = 0
      OBVIOUS
    <2>3. ReadsAll(provider, t, 0, f[0])
      BY <2>1, <2>2, NewReadSound DEF ReadsAll
    <2> QED BY <2>3
  <1>3. ASSUME NEW i \in 0..n, i # n, i \in S PROVE i + 1 \in S
    <2>1. i + 1 \in 0..n /\ i + 1 \in 1..n
      BY <1>3
    <2>2. PICK r, read, next : r = t[i + 1] /\ read = f[i] /\ next = f[i + 1]
      OBVIOUS
    <2>3. r \in DOMAIN Tree
      BY <2>1, <2>2
    <2>4. next = Inspect(read, provider, r)
      BY <1>3, <2>2, InspectingStep
    <2>5. ReadsAll(provider, t, i, read)
      BY <1>3, <2>2
    <2>6. Sound(next, 0) /\ Inspects(provider, r, read, next) /\ Streams(read, r, next)
      <3>1. Sound(read, 0) /\ ~read.other /\ ~read.unknown /\ IsRead(read)
        BY <2>5 DEF ReadsAll, Sound
      <3>2. Sound(next, 0) /\ Inspects(provider, r, read, next)
        BY <2>3, <2>4, <3>1, InspectSound
      <3>3. Streams(read, r, next)
        BY ONLY <2>3, <2>4, <3>1, InspectRead
      <3> QED BY <3>2, <3>3
    <2>7. ~next.other /\ ~next.unknown
      BY <2>5, <2>6 DEF Streams, ReadsAll
    <2>8. /\ IsSeq(read.streamed) /\ Len(read.streamed) = i
          /\ \A j \in 1..i : read.streamed[j] = t[j]
      BY <2>5, TypedSeq DEF ReadsAll, Sound, IsRead
    <2>9. /\ Len(next.streamed) = i + 1 /\ next.streamed[i + 1] = r
          /\ \A j \in 1..i : next.streamed[j] = read.streamed[j]
      BY <2>6, <2>8, AppendIs DEF Streams
    <2>10. \A j \in 1..(i + 1) : j \in 1..i \/ j = i + 1
      BY <1>3
    <2>11. \A j \in 1..i : j \in 1..(i + 1)
      BY <1>3
    <2>12. i + 1 \in 1..(i + 1)
      BY <1>3
    <2>13. \A j \in 1..(i + 1) : next.streamed[j] = t[j]
      BY <2>2, <2>8, <2>9, <2>10
    <2>14. next.hint = None => \A j \in 1..(i + 1) : SessionAt(provider, t[j]) = None
      <3>1. next.hint = None => read.hint = None /\ SessionAt(provider, r) = None
        BY <2>3, <2>6, HintNamed DEF Inspects, OrElse
      <3> QED BY <2>2, <2>5, <2>10, <3>1 DEF ReadsAll
    <2>15. next.diagnostics > 0 <=> \E j \in 1..(i + 1) : Counted(t[j]) = 1
      <3>1. Counted(r) \in {0, 1} /\ read.diagnostics \in Nat
        BY <2>5 DEF Counted, ReadsAll, Sound, IsRead
      <3>2. next.diagnostics = read.diagnostics + Counted(r)
        BY <2>6 DEF Inspects
      <3>3. next.diagnostics > 0 <=> read.diagnostics > 0 \/ Counted(r) = 1
        BY <3>1, <3>2
      <3>4. read.diagnostics > 0 <=> \E j \in 1..i : Counted(t[j]) = 1
        BY <2>5 DEF ReadsAll
      <3> QED BY <2>2, <2>10, <2>11, <2>12, <3>3, <3>4
    <2>16. ReadsAll(provider, t, i + 1, next)
      BY <2>6, <2>7, <2>9, <2>13, <2>14, <2>15 DEF ReadsAll
    <2> QED BY <2>1, <2>2, <2>16
  <1> HIDE DEF S
  <1>4. 0..n \subseteq S
    BY <1>1, <1>2, <1>3, UpTo
  <1> QED BY <1>4 DEF S

(* and so is ReadAll. *)
LEMMA ReadAllReads ==
  ASSUME NEW provider, NEW t \in Seq(DOMAIN Tree)
  PROVE  ReadsAll(provider, t, Len(t), ReadAll(provider, t)) /\ ReadAll(provider, t).streamed = t
  <1>1. PICK n : n = Len(t)
    OBVIOUS
  <1>2. PICK read : read = ReadAll(provider, t)
    OBVIOUS
  <1>3. n \in Nat /\ n \in 0..n
    BY <1>1
  <1>4. PICK f : IsInspecting(f, provider, t, n) /\ read = f[n]
    BY <1>1, <1>2, <1>3, ReadAllSteps
  <1>5. ReadsAll(provider, t, n, read)
    BY <1>1, <1>3, <1>4, InspectingReads
  <1>6. read.streamed \in Seq(DOMAIN Tree)
    BY <1>5 DEF ReadsAll, Sound, IsRead
  <1>7. read.streamed = t
    BY <1>1, <1>5, <1>6, SeqEqual DEF ReadsAll
  <1> QED BY <1>1, <1>2, <1>5, <1>7

(* Each step adds what its record adds. *)
LEMMA InspectingInspects ==
  ASSUME NEW provider, NEW t \in Seq(DOMAIN Tree), NEW n \in Nat, n = Len(t), NEW f,
         IsInspecting(f, provider, t, n), NEW i \in 0..n, i # n
  PROVE  /\ Inspects(provider, t[i + 1], f[i], f[i + 1])
         /\ f[i].diagnostics \in Nat
  <1>1. i + 1 \in 1..n
    OBVIOUS
  <1>2. PICK r, read, next : r = t[i + 1] /\ read = f[i] /\ next = f[i + 1]
    OBVIOUS
  <1>3. r \in DOMAIN Tree
    BY <1>1, <1>2
  <1>4. next = Inspect(read, provider, r)
    BY <1>2, InspectingStep
  <1>5. ReadsAll(provider, t, i, read)
    BY <1>2, InspectingReads
  <1>6. Sound(read, 0) /\ ~read.other /\ ~read.unknown /\ read.diagnostics \in Nat
    BY <1>5 DEF ReadsAll, Sound, IsRead
  <1>7. Inspects(provider, r, read, next)
    BY <1>3, <1>4, <1>6, InspectSound
  <1> QED BY <1>2, <1>6, <1>7

(* What has been found in two parts has been found in the whole. *)
LEMMA ReadAllConcat ==
  ASSUME NEW provider, NEW a \in Seq(DOMAIN Tree), NEW b \in Seq(DOMAIN Tree)
  PROVE  /\ ReadAll(provider, a \o b).hint
               = OrElse(ReadAll(provider, a).hint, ReadAll(provider, b).hint)
         /\ ReadAll(provider, a \o b).diagnostics
               = ReadAll(provider, a).diagnostics + ReadAll(provider, b).diagnostics
  <1>1. PICK t : t = a \o b
    OBVIOUS
  <1>2. PICK l, n : l = Len(a) /\ n = Len(b)
    OBVIOUS
  <1>3. /\ l \in Nat /\ n \in Nat /\ t \in Seq(DOMAIN Tree) /\ Len(t) = l + n
        /\ \A i \in 1..l : t[i] = a[i]
        /\ \A i \in 1..n : t[l + i] = b[i]
    BY <1>1, <1>2
  <1>4. PICK k : k = l + n
    OBVIOUS
  <1>5. k \in Nat /\ l <= k /\ l \in 0..l /\ l \in 0..k /\ n \in 0..n /\ 0 \in 0..n
    BY <1>3, <1>4
  <1>6. PICK f : IsInspecting(f, provider, t, k) /\ ReadAll(provider, t) = f[k]
    BY <1>3, <1>4, <1>5, ReadAllSteps
  <1>7. PICK g : IsInspecting(g, provider, a, l) /\ ReadAll(provider, a) = g[l]
    BY <1>2, <1>3, ReadAllSteps
  <1>8. PICK h : IsInspecting(h, provider, b, n) /\ ReadAll(provider, b) = h[n]
    BY <1>2, <1>3, ReadAllSteps
  <1>9. f[l] = g[l]
    <2>1. \A i \in 1..l : a[i] = t[i]
      BY <1>3
    <2>2. \A i \in 0..l : g[i] = f[i]
      <3>1. /\ l \in Nat /\ k \in Nat /\ l <= k
            /\ IsInspecting(g, provider, a, l) /\ IsInspecting(f, provider, t, k)
        BY <1>3, <1>5, <1>6, <1>7
      <3> QED BY ONLY <2>1, <3>1, InspectingAgree
    <2> QED BY <1>5, <2>2
  <1>10. PICK q, d : q = g[l].hint /\ d = g[l].diagnostics
    OBVIOUS
  <1>11. d \in Nat
    <2>1. ReadsAll(provider, a, l, g[l])
      BY <1>2, <1>3, <1>5, <1>7, InspectingReads
    <2> QED BY <1>10, <2>1 DEF ReadsAll, Sound, IsRead
  <1> DEFINE Is(i) == /\ f[l + i].hint = OrElse(q, h[i].hint)
                      /\ f[l + i].diagnostics = d + h[i].diagnostics
             S == {i \in 0..n : Is(i)}
  <1>12. S \in SUBSET Nat
    OBVIOUS
  <1>13. 0 \in S
    <2>1. h[0] = NewRead
      BY <1>3, <1>8, InspectingFirst
    <2>2. h[0].hint = None /\ h[0].diagnostics = 0
      BY <2>1 DEF NewRead
    <2>3. l + 0 = l /\ d + 0 = d
      BY <1>3, <1>11
    <2> QED BY <1>5, <1>9, <1>10, <2>2, <2>3 DEF OrElse
  <1>14. ASSUME NEW i \in 0..n, i # n, i \in S PROVE i + 1 \in S
    <2>1. i + 1 \in 0..n /\ i + 1 \in 1..n /\ l + (i + 1) = (l + i) + 1
      BY <1>3, <1>14
    <2>2. PICK j : j = l + i
      OBVIOUS
    <2>3. j \in 0..k /\ j # k
      BY <1>3, <1>4, <1>14, <2>2
    <2>4. PICK r, x, y, u, v : /\ r = b[i + 1] /\ x = f[j] /\ y = f[j + 1]
                               /\ u = h[i] /\ v = h[i + 1]
      OBVIOUS
    <2>5. t[j + 1] = r
      BY <1>3, <2>1, <2>2, <2>4
    <2>6. Inspects(provider, r, x, y)
      <3>1. Inspects(provider, t[j + 1], f[j], f[j + 1])
        BY ONLY <1>3, <1>4, <1>5, <1>6, <2>3, InspectingInspects
      <3> QED BY <2>4, <2>5, <3>1
    <2>7. Inspects(provider, r, u, v) /\ u.diagnostics \in Nat
      <3>1. Inspects(provider, b[i + 1], h[i], h[i + 1]) /\ h[i].diagnostics \in Nat
        BY ONLY b \in Seq(DOMAIN Tree), <1>2, <1>3, <1>8, <1>14, InspectingInspects
      <3> QED BY <2>4, <3>1
    <2>8. x.hint = OrElse(q, u.hint) /\ x.diagnostics = d + u.diagnostics
      BY <1>14, <2>2, <2>4
    <2>9. y.hint = OrElse(q, v.hint)
      BY <2>6, <2>7, <2>8 DEF Inspects, OrElse
    <2>10. y.diagnostics = d + v.diagnostics
      <3>1. Counted(r) \in Nat
        BY DEF Counted
      <3>2. /\ y.diagnostics = x.diagnostics + Counted(r)
            /\ v.diagnostics = u.diagnostics + Counted(r)
        BY <2>6, <2>7 DEF Inspects
      <3> QED BY <1>11, <2>7, <2>8, <3>1, <3>2
    <2>11. f[l + (i + 1)] = y /\ h[i + 1] = v
      BY <2>1, <2>2, <2>4
    <2>12. Is(i + 1)
      BY <2>9, <2>10, <2>11
    <2> QED BY <2>1, <2>12
  <1> HIDE DEF S
  <1>15. 0..n \subseteq S
    BY <1>3, <1>12, <1>13, <1>14, UpTo
  <1>16. Is(n)
    BY <1>5, <1>15 DEF S
  <1> QED BY <1>1, <1>4, <1>6, <1>7, <1>8, <1>10, <1>16

(***************************************************************************)
(* The second pass over records, from the state that others have left.     *)
(***************************************************************************)
IsPass(after, provider, t, l, start, n) ==
    after = [i \in 0..n |->
                IF i = 0 THEN start ELSE RecordOf(provider, t[i], l + i, after[i - 1])]

(* There is a function that normalises the records one by one. *)
LEMMA PassExists ==
  ASSUME NEW provider, NEW t, NEW l, NEW start, NEW n \in Nat
  PROVE  \E after : IsPass(after, provider, t, l, start, n)
  <1> DEFINE Is(f, k) == IsPass(f, provider, t, l, start, k)
             S == {k \in Nat : ~(\E f : Is(f, k))}
  <1>1. SUFFICES ASSUME S # {} PROVE FALSE
    OBVIOUS
  <1>2. PICK k \in S : \A m \in S : k <= m
    BY <1>1, Smallest
  <1>3. k # 0
    <2> DEFINE f == [i \in 0..0 |-> start]
    <2>1. Is(f, 0)
      BY DEF IsPass
    <2> QED BY <1>2, <2>1
  <1>4. k - 1 \in Nat /\ k - 1 \notin S
    BY <1>2, <1>3
  <1>5. PICK f : Is(f, k - 1)
    BY <1>4
  <1> DEFINE last == RecordOf(provider, t[k], l + k, f[k - 1])
             g == [i \in 0..k |-> IF i = k THEN last ELSE f[i]]
  <1>6. ASSUME NEW i \in 0..k
        PROVE  g[i] = IF i = 0 THEN start ELSE RecordOf(provider, t[i], l + i, g[i - 1])
    <2>1. CASE i = k
      <3>1. g[k - 1] = f[k - 1] /\ k - 1 \in 0..k
        BY <1>3, <1>4
      <3> QED BY <1>3, <2>1, <3>1
    <2>2. CASE i # k
      <3>1. i \in 0..(k - 1) /\ g[i] = f[i]
        BY <1>3, <2>2
      <3>2. f[i] = IF i = 0 THEN start ELSE RecordOf(provider, t[i], l + i, f[i - 1])
        BY <1>5, <3>1 DEF IsPass
      <3>3. i # 0 => i - 1 \in 0..k /\ g[i - 1] = f[i - 1]
        BY <1>3, <2>2
      <3> QED BY <3>1, <3>2, <3>3
    <2> QED BY <2>1, <2>2
  <1>7. Is(g, k)
    BY <1>6, Zenon DEF IsPass
  <1> QED BY <1>2, <1>7

(* `n` is where a pass over the records of t ends that starts from m. *)
PassTo(provider, t, l, m, n) ==
    \E f : IsPass(f, provider, t, l, m, Len(t)) /\ n = f[Len(t)]

(* Its start. *)
LEMMA PassFirst ==
  ASSUME NEW provider, NEW t, NEW l, NEW m, NEW n \in Nat, NEW f,
         IsPass(f, provider, t, l, m, n)
  PROVE  f[0] = m
  BY DEF IsPass

(* Its later steps. *)
LEMMA PassStep ==
  ASSUME NEW provider, NEW t, NEW l, NEW m, NEW n \in Nat, NEW f,
         IsPass(f, provider, t, l, m, n), NEW i \in 0..n, i # n
  PROVE  f[i + 1] = RecordOf(provider, t[i + 1], l + (i + 1), f[i])
  <1>1. i + 1 \in 0..n /\ i + 1 # 0 /\ (i + 1) - 1 = i
    OBVIOUS
  <1> QED BY <1>1 DEF IsPass

(* An item that holds a record is normalised as that record. *)
LEMMA ItemNormalises ==
  ASSUME NEW provider, NEW s, Unflushed(s), NEW item, NEW r, NEW line,
         Holds(Kept(s), item, r, line), NEW n
  PROVE  NormaliseItem(provider, Flush(s), item, n) = RecordOf(provider, r, line, n)
  <1>1. CASE item.malformed
    BY <1>1 DEF Holds, NormaliseItem, RecordOf
  <1>2. CASE ~item.malformed
    <2>1. PICK a, b : a = item.start /\ b = item.end
      OBVIOUS
    <2>2. /\ a \in Nat /\ b \in Nat /\ b <= Len(Kept(s))
          /\ SubSeq(Kept(s), a + 1, b) = FragmentsOf(r)
          /\ Tree[r] # Malformed /\ item.record = r /\ item.line = line
      BY <1>2, <2>1 DEF Holds
    <2>3. ReadRange(Flush(s), a, b) = FragmentsOf(r)
      BY <2>2, FlushedReads
    <2> QED BY <1>2, <2>1, <2>2, <2>3 DEF NormaliseItem, RecordOf
  <1> QED BY <1>1, <1>2

(* So the normalisation of a sound read is a pass over its records. *)
LEMMA SoundPass ==
  ASSUME NEW provider, NEW l \in Nat, NEW read, Sound(read, l), NEW start
  PROVE  PassTo(provider, read.streamed, l, start, NormaliseAll(provider, read, start))
  <1> DEFINE n == Len(read.streamed)
             f == Steps(provider, read, start)
  <1>1. n \in Nat /\ Len(read.prepared) = n
    <2>1. read.streamed \in Seq(DOMAIN Tree)
      BY DEF Sound, IsRead
    <2> QED BY <2>1 DEF Sound
  <1>2. /\ NormaliseAll(provider, read, start) = f[n]
        /\ f = [i \in 0..n |-> IF i = 0 THEN start
               ELSE NormaliseItem(provider, Flush(read.archive), read.prepared[i], f[i - 1])]
    BY <1>1, NormaliseSteps DEF IsNormalising
  <1> HIDE DEF f
  <1>3. ASSUME NEW i \in 0..n
        PROVE  f[i] = IF i = 0 THEN start
                      ELSE RecordOf(provider, read.streamed[i], l + i, f[i - 1])
    <2>1. CASE i = 0
      BY <1>2, <2>1
    <2>2. CASE i # 0
      <3>1. i \in 1..n
        BY <1>1, <2>2
      <3>2. f[i] = NormaliseItem(provider, Flush(read.archive), read.prepared[i], f[i - 1])
        BY <1>2, <2>2
      <3>3. Holds(Kept(read.archive), read.prepared[i], read.streamed[i], l + i)
        BY <3>1 DEF Sound
      <3>4. Unflushed(read.archive)
        BY DEF Sound
      <3> QED BY <2>2, <3>2, <3>3, <3>4, ItemNormalises
    <2> QED BY <2>1, <2>2
  <1>4. f = [i \in 0..n |-> f[i]]
    BY <1>2
  <1> HIDE DEF n
  <1>5. f = [i \in 0..n |-> IF i = 0 THEN start
               ELSE RecordOf(provider, read.streamed[i], l + i, f[i - 1])]
    BY <1>3, <1>4, Zenon
  <1>6. IsPass(f, provider, read.streamed, l, start, n)
    BY <1>5 DEF IsPass
  <1> QED BY <1>2, <1>6 DEF PassTo, n

(* A pass over two sequences of records is two passes. *)
LEMMA PassSplits ==
  ASSUME NEW provider, NEW a \in Seq(DOMAIN Tree), NEW b \in Seq(DOMAIN Tree), NEW start,
         NEW n, PassTo(provider, a \o b, 0, start, n)
  PROVE  \E k : PassTo(provider, a, 0, start, k) /\ PassTo(provider, b, Len(a), k, n)
  <1>1. PICK t : t = a \o b
    OBVIOUS
  <1>2. PICK l, m : l = Len(a) /\ m = Len(b)
    OBVIOUS
  <1>3. /\ l \in Nat /\ m \in Nat /\ Len(t) = l + m
        /\ \A i \in 1..l : t[i] = a[i]
        /\ \A i \in 1..m : t[l + i] = b[i]
    BY <1>1, <1>2
  <1>4. PICK f : IsPass(f, provider, t, 0, start, l + m) /\ n = f[l + m]
    BY <1>1, <1>3 DEF PassTo
  <1>5. f[0] = start
    <2>1. 0 \in 0..(l + m)
      BY <1>3
    <2> QED BY <1>4, <2>1 DEF IsPass
  <1>6. \A i \in 1..(l + m) : f[i] = RecordOf(provider, t[i], i, f[i - 1])
    <2>1. \A i \in 1..(l + m) : i \in 0..(l + m) /\ i # 0 /\ 0 + i = i
      BY <1>3
    <2> QED BY <1>4, <2>1 DEF IsPass
  <1> DEFINE g == [i \in 0..l |-> f[i]]
             h == [i \in 0..m |-> f[l + i]]
  <1>7. IsPass(g, provider, a, 0, start, l)
    <2>1. ASSUME NEW i \in 0..l
          PROVE  g[i] = IF i = 0 THEN start ELSE RecordOf(provider, a[i], 0 + i, g[i - 1])
      <3>1. CASE i = 0
        BY <1>3, <1>5, <3>1
      <3>2. CASE i # 0
        <4>1. i \in 1..(l + m) /\ i \in 1..l /\ i - 1 \in 0..l /\ 0 + i = i
          BY <1>3, <3>2
        <4> QED BY <1>3, <1>6, <3>2, <4>1
      <3> QED BY <3>1, <3>2
    <2>2. g = [i \in 0..l |-> g[i]]
      OBVIOUS
    <2> HIDE DEF g
    <2> QED BY <2>1, <2>2, Zenon DEF IsPass
  <1>8. IsPass(h, provider, b, l, f[l], m)
    <2>1. ASSUME NEW i \in 0..m
          PROVE  h[i] = IF i = 0 THEN f[l] ELSE RecordOf(provider, b[i], l + i, h[i - 1])
      <3>1. CASE i = 0
        BY <1>3, <3>1
      <3>2. CASE i # 0
        <4>1. /\ l + i \in 1..(l + m) /\ i \in 1..m /\ i - 1 \in 0..m
              /\ (l + i) - 1 = l + (i - 1)
          BY <1>3, <3>2
        <4>2. h[i] = f[l + i] /\ h[i - 1] = f[(l + i) - 1]
          BY <4>1
        <4>3. f[l + i] = RecordOf(provider, t[l + i], l + i, f[(l + i) - 1])
          BY <1>6, <4>1
        <4> QED BY <1>3, <3>2, <4>1, <4>2, <4>3
      <3> QED BY <3>1, <3>2
    <2>2. h = [i \in 0..m |-> h[i]]
      OBVIOUS
    <2> HIDE DEF h
    <2> QED BY <2>1, <2>2, Zenon DEF IsPass
  <1>9. g[l] = f[l] /\ h[m] = n
    BY <1>3, <1>4
  <1> HIDE DEF g, h
  <1>10. PassTo(provider, a, 0, start, f[l])
    BY <1>2, <1>7, <1>9 DEF PassTo
  <1>11. PassTo(provider, b, l, f[l], n)
    BY <1>2, <1>8, <1>9 DEF PassTo
  <1> QED BY <1>2, <1>10, <1>11

(***************************************************************************)
(* Two passes over the same records, one of which may not know the session *)
(* yet.                                                                    *)
(***************************************************************************)
Unnamed(provider, t) == \A i \in 1..Len(t) : SessionAt(provider, t[i]) = None

(* What a pass over t makes of the state m of one. *)
Passes(provider, t, m, a) ==
    /\ KeepsCommitted(m.ids, a.ids)
    /\ Unnamed(provider, t) => a.session = m.session
    /\ m.session # None => a.session # None

(* Of two passes over the same records one trails the other as it did before them. *)
LEMMA PassTrails ==
  ASSUME NEW provider \in {"codex", "claude", "copilot"}, NEW t \in Seq(DOMAIN Tree),
         NEW l, NEW e \in Nat, NEW m, NEW n, Trails(m, n, e),
         m.session # n.session => Unnamed(provider, t),
         NEW a, PassTo(provider, t, l, m, a), NEW b, PassTo(provider, t, l, n, b)
  PROVE  /\ Trails(a, b, e) /\ (a.session = b.session <=> m.session = n.session)
         /\ Passes(provider, t, m, a) /\ Passes(provider, t, n, b)
  <1>1. PICK k : k = Len(t)
    OBVIOUS
  <1>2. k \in Nat /\ k \in 0..k /\ 0 \in 0..k
    BY <1>1
  <1>3. PICK f : IsPass(f, provider, t, l, m, k) /\ a = f[k]
    BY <1>1 DEF PassTo
  <1>4. PICK g : IsPass(g, provider, t, l, n, k) /\ b = g[k]
    BY <1>1 DEF PassTo
  <1> DEFINE Is(u, v) ==
                /\ Trails(u, v, e) /\ (u.session = v.session <=> m.session = n.session)
                /\ Passes(provider, t, m, u) /\ Passes(provider, t, n, v)
             S == {i \in 0..k : Is(f[i], g[i])}
  <1>5. S \in SUBSET Nat
    OBVIOUS
  <1>6. 0 \in S
    <2>1. f[0] = m
      BY <1>2, <1>3, PassFirst
    <2>2. g[0] = n
      BY <1>2, <1>4, PassFirst
    <2>3. Is(m, n)
      BY DEF Passes, KeepsCommitted
    <2> QED BY <1>2, <2>1, <2>2, <2>3
  <1>7. ASSUME NEW i \in 0..k, i # k, i \in S PROVE i + 1 \in S
    <2>1. i + 1 \in 0..k /\ i + 1 \in 1..k
      BY <1>2, <1>7
    <2>2. PICK r, line : r = t[i + 1] /\ line = l + (i + 1)
      OBVIOUS
    <2>3. PICK x, y : x = f[i] /\ y = g[i]
      OBVIOUS
    <2>4. PICK u, v : u = f[i + 1] /\ v = g[i + 1]
      OBVIOUS
    <2>5. u = RecordOf(provider, r, line, x)
      BY <1>2, <1>3, <1>7, <2>2, <2>3, <2>4, PassStep
    <2>6. v = RecordOf(provider, r, line, y)
      BY <1>2, <1>4, <1>7, <2>2, <2>3, <2>4, PassStep
    <2>7. Is(x, y)
      BY <1>7, <2>3
    <2>8. Unnamed(provider, t) => SessionAt(provider, r) = None
      BY <1>1, <2>1, <2>2 DEF Unnamed
    <2>9. r \in DOMAIN Tree
      BY <1>1, <2>1, <2>2
    <2>10. x.session # y.session => SessionAt(provider, r) = None
      BY <2>7, <2>8
    <2>11. /\ Trails(u, v, e) /\ Learns(provider, r, x, u) /\ Learns(provider, r, y, v)
           /\ (u.session = v.session <=> x.session = y.session)
      BY <2>5, <2>6, <2>7, <2>9, <2>10, RecordTrails
    <2>12. ASSUME NEW p, NEW q, NEW w, Passes(provider, t, w, p), Learns(provider, r, p, q)
           PROVE  Passes(provider, t, w, q)
      BY <2>8, <2>12 DEF Passes, Learns, KeepsCommitted, OrElse
    <2>13. Is(u, v)
      BY <2>7, <2>11, <2>12
    <2> QED BY <2>1, <2>4, <2>13
  <1> HIDE DEF S
  <1>8. 0..k \subseteq S
    BY <1>2, <1>5, <1>6, <1>7, UpTo
  <1>9. Is(f[k], g[k])
    BY <1>2, <1>8 DEF S
  <1> QED BY <1>3, <1>4, <1>9

(***************************************************************************)
(* What is left of a file is as one reading of it would have left it.      *)
(***************************************************************************)
StoredIds(ids) == ids.committed \cup {ids.updates[i] : i \in DOMAIN ids.updates}
Leaves(m, n) ==
    /\ Follows(m.chunks, n.chunks) /\ StoredIds(m.ids) = n.ids.local
    /\ m.diagnostics = n.diagnostics /\ m.session = n.session

NoIds == IdsOf({}, {}, <<>>)
StartOf(read) == PassOf(<<>>, NoIds, read.hint, read.diagnostics)

(* No chunks follow no chunks. *)
LEMMA FollowsEmpty == Follows(<<>>, <<>>)
  <1>1. Len(<<>>) = 0
    OBVIOUS
  <1> QED BY <1>1, EmptyIs DEF Follows

(* The identifiers of a new read know what the store does. *)
LEMMA FreshIds ==
  ASSUME NEW stored, OneValueEach(stored)
  PROVE  IdsOk(IdsOf({}, stored, <<>>)) /\ Known(IdsOf({}, stored, <<>>)) = stored
  <1>1. PICK x : x = IdsOf({}, stored, <<>>)
    OBVIOUS
  <1>2. x.local = {} /\ x.committed = stored /\ x.updates = <<>>
    BY <1>1 DEF IdsOf
  <1>3. {x.updates[i] : i \in DOMAIN x.updates} = {}
    BY <1>2
  <1>4. Known(x) = stored
    BY <1>2 DEF Known
  <1> QED BY <1>1, <1>2, <1>3, <1>4, EmptyIs DEF IdsOk

(* The start of a pass over a whole file. *)
LEMMA StartIs ==
  ASSUME NEW read, read.diagnostics \in Nat
  PROVE  /\ IsNormalised(StartOf(read)) /\ IdsOk(StartOf(read).ids)
         /\ StartOf(read).session = read.hint /\ StartOf(read).chunks = <<>>
         /\ StartOf(read).ids = NoIds /\ StartOf(read).diagnostics = read.diagnostics
  <1>1. IdsOk(NoIds)
    BY FreshIds DEF NoIds, OneValueEach
  <1> QED BY <1>1 DEF StartOf, PassOf, IsNormalised

(* Rebuild is such a pass. *)
LEMMA RebuildIs ==
  ASSUME NEW p, NEW records
  PROVE  Rebuild(p, records) =
            NormaliseAll(Provider[p], ReadAll(Provider[p], records),
                         StartOf(ReadAll(Provider[p], records)))
  BY DEF Rebuild, RebuildOf, StartOf, PassOf, NewIds, NoIds, IdsOf

(* Two reads of the same records, from the first on, leave the same. *)
LEMMA ReadAgain ==
  ASSUME NEW p, Provider[p] \in {"codex", "claude", "copilot"}, NEW read, Sound(read, 0),
         read.hint = ReadAll(Provider[p], read.streamed).hint,
         read.diagnostics = ReadAll(Provider[p], read.streamed).diagnostics
  PROVE  Leaves(NormaliseAll(Provider[p], read, StartOf(read)), Rebuild(p, read.streamed))
  <1>1. PICK provider, t, r : /\ provider = Provider[p] /\ t = read.streamed
                              /\ r = ReadAll(Provider[p], read.streamed)
    OBVIOUS
  <1>2. t \in Seq(DOMAIN Tree) /\ read.diagnostics \in Nat
    BY <1>1 DEF Sound, IsRead
  <1>3. Sound(r, 0) /\ r.streamed = t
    BY <1>1, <1>2, ReadAllReads DEF ReadsAll
  <1>4. PICK s : s = StartOf(read)
    OBVIOUS
  <1>5. s = StartOf(r)
    BY <1>1, <1>4 DEF StartOf
  <1>6. PICK m, n : m = NormaliseAll(provider, read, s) /\ n = Rebuild(p, t)
    OBVIOUS
  <1>7. n = NormaliseAll(provider, r, s)
    BY <1>1, <1>5, <1>6, RebuildIs
  <1>8. PassTo(provider, t, 0, s, m)
    BY <1>1, <1>6, SoundPass
  <1>9. PassTo(provider, t, 0, s, n)
    BY <1>3, <1>7, SoundPass
  <1>10. /\ IsNormalised(s) /\ IdsOk(s.ids) /\ s.chunks = <<>> /\ s.ids = NoIds
    BY <1>2, <1>4, StartIs
  <1>11. Trails(s, s, 0)
    <2>1. s.diagnostics = s.diagnostics + 0
      BY <1>10 DEF IsNormalised
    <2> QED BY <1>10, <2>1, FollowsEmpty DEF Trails, IdsSame
  <1>12. provider \in {"codex", "claude", "copilot"} /\ 0 \in Nat
    BY <1>1
  <1>13. /\ Trails(m, n, 0) /\ m.session = n.session
         /\ Passes(provider, t, s, m) /\ Passes(provider, t, s, n)
    BY <1>2, <1>8, <1>9, <1>11, <1>12, PassTrails
  <1>14. /\ Follows(m.chunks, n.chunks) /\ m.diagnostics = n.diagnostics
         /\ IdsOk(m.ids) /\ IdsOk(n.ids) /\ Known(m.ids) = Known(n.ids)
    <2>1. n.diagnostics = m.diagnostics + 0 /\ m.diagnostics \in Nat
      BY <1>13 DEF Trails, IsNormalised
    <2> QED BY <1>13, <2>1 DEF Trails, IdsSame
  <1>15. m.ids.committed = {} /\ n.ids.committed = {}
    BY <1>10, <1>13 DEF Passes, KeepsCommitted, NoIds, IdsOf
  <1>16. StoredIds(m.ids) = n.ids.local
    BY <1>14, <1>15 DEF StoredIds, IdsOk, Known
  <1>17. Leaves(m, n)
    BY <1>13, <1>14, <1>16 DEF Leaves
  <1> QED BY <1>1, <1>4, <1>6, <1>17

AppendStart(d, read) ==
    PassOf(d.chunks, IdsOf({}, d.ids, <<>>), OrElse(d.session, read.hint),
           d.diagnostics + read.diagnostics)

(* A read that appends leaves what one reading of the whole would leave. *)
LEMMA AppendAgrees ==
  ASSUME NEW p, Provider[p] \in {"codex", "claude", "copilot"}, NEW a \in Seq(DOMAIN Tree),
         NEW d, RebuiltAs(d, Rebuild(p, a)), NEW read, Sound(read, Len(a)),
         read.hint = ReadAll(Provider[p], read.streamed).hint,
         read.diagnostics = ReadAll(Provider[p], read.streamed).diagnostics
  PROVE  Leaves(NormaliseAll(Provider[p], read, AppendStart(d, read)),
                Rebuild(p, a \o read.streamed))
  <1>1. PICK provider, b : provider = Provider[p] /\ b = read.streamed
    OBVIOUS
  <1>2. PICK t : t = a \o b
    OBVIOUS
  <1>3. PICK x, y, z : /\ x = ReadAll(provider, a) /\ y = ReadAll(provider, b)
                       /\ z = ReadAll(provider, t)
    OBVIOUS
  <1>4. b \in Seq(DOMAIN Tree) /\ t \in Seq(DOMAIN Tree) /\ Len(a) \in Nat
    BY <1>1, <1>2 DEF Sound, IsRead
  <1>5. /\ ReadsAll(provider, a, Len(a), x) /\ x.streamed = a
        /\ Sound(z, 0) /\ z.streamed = t /\ Sound(y, 0)
    <2>1. ReadsAll(provider, a, Len(a), x) /\ x.streamed = a
      BY <1>3, ReadAllReads
    <2>2. ReadsAll(provider, t, Len(t), z) /\ z.streamed = t
      BY <1>3, <1>4, ReadAllReads
    <2>3. ReadsAll(provider, b, Len(b), y)
      BY <1>3, <1>4, ReadAllReads
    <2> QED BY <2>1, <2>2, <2>3 DEF ReadsAll
  <1>6. x.diagnostics \in Nat /\ y.diagnostics \in Nat /\ z.diagnostics \in Nat /\ Sound(x, 0)
    BY <1>5 DEF ReadsAll, Sound, IsRead
  <1>7. z.hint = OrElse(x.hint, y.hint) /\ z.diagnostics = x.diagnostics + y.diagnostics
    BY <1>2, <1>3, <1>4, ReadAllConcat
  <1>8. PICK u, s : u = StartOf(x) /\ s = StartOf(z)
    OBVIOUS
  <1>9. PICK v, n, m : /\ v = Rebuild(p, a) /\ n = Rebuild(p, t)
                       /\ m = NormaliseAll(provider, read, AppendStart(d, read))
    OBVIOUS
  <1>10. PassTo(provider, a, 0, u, v)
    <2>1. v = NormaliseAll(provider, x, u)
      BY <1>1, <1>3, <1>8, <1>9, RebuildIs
    <2> QED BY <1>5, <1>6, <2>1, SoundPass
  <1>11. PassTo(provider, t, 0, s, n)
    <2>1. n = NormaliseAll(provider, z, s)
      BY <1>1, <1>3, <1>8, <1>9, RebuildIs
    <2> QED BY <1>5, <2>1, SoundPass
  <1>12. PICK k : PassTo(provider, a, 0, s, k) /\ PassTo(provider, b, Len(a), k, n)
    BY <1>2, <1>4, <1>11, PassSplits
  <1>13. /\ IsNormalised(u) /\ IdsOk(u.ids) /\ u.session = x.hint /\ u.chunks = <<>>
         /\ u.ids = NoIds /\ u.diagnostics = x.diagnostics
    BY <1>6, <1>8, StartIs
  <1>14. /\ IsNormalised(s) /\ IdsOk(s.ids) /\ s.session = z.hint /\ s.chunks = <<>>
         /\ s.ids = NoIds /\ s.diagnostics = z.diagnostics
    BY <1>6, <1>8, StartIs
  <1>15. u.session # s.session => u.session = None
    BY <1>7, <1>13, <1>14 DEF OrElse
  <1>16. Trails(u, s, y.diagnostics)
    BY <1>7, <1>13, <1>14, <1>15, FollowsEmpty DEF Trails, IdsSame
  <1>17. x.hint = None => Unnamed(provider, a)
    BY <1>5 DEF ReadsAll, Unnamed
  <1>18. provider \in {"codex", "claude", "copilot"} /\ 0 \in Nat
    BY <1>1
  <1>19. /\ Trails(v, k, y.diagnostics) /\ (v.session = k.session <=> u.session = s.session)
         /\ Passes(provider, a, u, v) /\ Passes(provider, a, s, k)
    <2>1. u.session # s.session => Unnamed(provider, a)
      BY <1>13, <1>15, <1>17
    <2>2. PassTo(provider, a, 0, s, k)
      BY <1>12
    <2>3. a \in Seq(DOMAIN Tree) /\ y.diagnostics \in Nat
      BY <1>6
    <2> QED BY ONLY <1>10, <1>16, <1>18, <2>1, <2>2, <2>3, PassTrails
  <1>20. v.ids.committed = {} /\ k.ids.committed = {}
    BY <1>13, <1>14, <1>19 DEF Passes, KeepsCommitted, NoIds, IdsOf
  <1>21. PICK w : w = AppendStart(d, read)
    OBVIOUS
  <1>22. PICK h, e : h = OrElse(d.session, read.hint) /\ e = d.diagnostics + read.diagnostics
    OBVIOUS
  <1>23. w = PassOf(d.chunks, IdsOf({}, d.ids, <<>>), h, e)
    BY <1>21, <1>22 DEF AppendStart
  <1>24. /\ w.chunks = d.chunks /\ w.ids = IdsOf({}, d.ids, <<>>) /\ w.session = h
         /\ w.diagnostics = e
    BY <1>23 DEF PassOf
  <1>25. /\ IsNormalised(v) /\ IsNormalised(k) /\ k.diagnostics = v.diagnostics + y.diagnostics
         /\ IdsOk(v.ids) /\ IdsOk(k.ids) /\ Known(v.ids) = Known(k.ids)
         /\ Follows(v.chunks, k.chunks)
    BY <1>19 DEF Trails, IdsSame
  <1>26. e = k.diagnostics /\ e \in Nat
    <2>1. e = v.diagnostics + y.diagnostics
      BY <1>1, <1>3, <1>9, <1>22 DEF RebuiltAs
    <2> QED BY <1>25, <2>1 DEF IsNormalised
  <1>27. d.ids = Known(v.ids)
    BY <1>9, <1>20 DEF RebuiltAs, Known
  <1>28. IdsOk(w.ids) /\ Known(w.ids) = Known(k.ids)
    <2>1. OneValueEach(d.ids)
      BY <1>25, <1>27 DEF IdsOk
    <2> QED BY <1>24, <1>25, <1>27, <2>1, FreshIds
  <1>29. Follows(w.chunks, k.chunks)
    <2>1. Follows(d.chunks, v.chunks)
      BY <1>9 DEF RebuiltAs
    <2> QED BY <1>24, <1>25, <2>1, FollowsTransitive
  <1>30. w.session = k.session
    <2>1. d.session = v.session /\ h = OrElse(v.session, y.hint)
      BY <1>1, <1>3, <1>9, <1>22 DEF RebuiltAs
    <2>2. CASE x.hint = None
      <3>1. v.session = None /\ k.session = y.hint
        BY <1>7, <1>13, <1>14, <1>17, <1>19, <2>2 DEF Passes, OrElse
      <3> QED BY <1>24, <2>1, <3>1 DEF OrElse
    <2>3. CASE x.hint # None
      <3>1. v.session = k.session /\ v.session # None
        BY <1>7, <1>13, <1>14, <1>19, <2>3 DEF Passes, OrElse
      <3> QED BY <1>24, <2>1, <3>1 DEF OrElse
    <2> QED BY <2>2, <2>3
  <1>31. Trails(w, k, 0)
    <2>1. k.diagnostics = w.diagnostics + 0
      BY <1>24, <1>26
    <2>2. IsNormalised(w)
      BY <1>23, <1>24, <1>26 DEF IsNormalised, PassOf
    <2> QED BY <1>25, <1>28, <1>29, <1>30, <2>1, <2>2 DEF Trails, IdsSame
  <1>32. PassTo(provider, b, Len(a), w, m)
    BY <1>1, <1>4, <1>9, <1>21, SoundPass
  <1>33. /\ Trails(m, n, 0) /\ m.session = n.session
         /\ Passes(provider, b, w, m) /\ Passes(provider, b, k, n)
    <2>1. PassTo(provider, b, Len(a), k, n)
      BY <1>12
    <2>2. (m.session = n.session <=> w.session = k.session) /\ Trails(m, n, 0)
          /\ Passes(provider, b, w, m) /\ Passes(provider, b, k, n)
      <3>1. w.session # k.session => Unnamed(provider, b)
        BY <1>30
      <3>2. PICK i, f : i = Len(a) /\ f = 0
        OBVIOUS
      <3>3. /\ PassTo(provider, b, i, w, m) /\ PassTo(provider, b, i, k, n)
            /\ Trails(w, k, f) /\ f \in Nat
        BY <1>31, <1>32, <2>1, <3>2
      <3>4. /\ Trails(m, n, f) /\ (m.session = n.session <=> w.session = k.session)
            /\ Passes(provider, b, w, m) /\ Passes(provider, b, k, n)
        BY ONLY <1>4, <1>18, <3>1, <3>3, PassTrails
      <3> QED BY <3>2, <3>4
    <2> QED BY <1>30, <2>2
  <1>34. /\ Follows(m.chunks, n.chunks) /\ m.diagnostics = n.diagnostics
         /\ IdsOk(m.ids) /\ IdsOk(n.ids) /\ Known(m.ids) = Known(n.ids)
    <2>1. n.diagnostics = m.diagnostics + 0 /\ m.diagnostics \in Nat
      BY <1>33 DEF Trails, IsNormalised
    <2> QED BY <1>33, <2>1 DEF Trails, IdsSame
  <1>35. n.ids.committed = {}
    BY <1>20, <1>33 DEF Passes, KeepsCommitted
  <1>36. StoredIds(m.ids) = n.ids.local
    BY <1>34, <1>35 DEF StoredIds, IdsOk, Known
  <1>37. Leaves(m, n)
    BY <1>33, <1>34, <1>36 DEF Leaves
  <1> QED BY <1>1, <1>2, <1>9, <1>37

(* Most steps neither index nor read. *)
SameStore ==
    \A p \in Path : Present(rows'[p]) => Present(rows[p]) /\ docs'[p] = docs[p]
Quiet ==
    /\ pc' \notin {"commit"} \cup Attempts
    /\ pc' = "publish" => job'.version = NoVersion
    /\ SameStore

(* A step that indexes nothing keeps what the rows promise; *)
LEMMA SameStoreRebuilt ==
  ASSUME RowsRebuilt, SameStore
  PROVE  RowsRebuilt'
  <1>1. ASSUME NEW p \in Path, Present(rows'[p]), NEW d, d = docs'[p]
        PROVE  IndexedSo(p, d)
    BY <1>1 DEF RowsRebuilt, SameStore
  <1> QED BY <1>1 DEF RowsRebuilt

(* one that does not read either keeps the invariant; *)
LEMMA QuietKeeps ==
  ASSUME IndexTrue, Quiet
  PROVE  IndexTrue'
  <1>1. RowsRebuilt'
    BY SameStoreRebuilt DEF IndexTrue, Quiet
  <1>2. CommitRebuilt' /\ ReadsKept'
    BY DEF Quiet, CommitRebuilt, ReadsKept, Attempts
  <1>3. OutcomeCommitted'
    BY DEF Quiet, OutcomeCommitted
  <1> QED BY <1>1, <1>2, <1>3 DEF IndexTrue

(* and so does one that touches neither the worker nor the store. *)
LEMMA UntouchedIndex ==
  ASSUME IndexTrue, UNCHANGED <<pc, job, rows, docs>>
  PROVE  IndexTrue'
  <1>1. RowsRebuilt'
    BY SameStoreRebuilt DEF IndexTrue, SameStore
  <1>2. CommitRebuilt'
    BY DEF IndexTrue, CommitRebuilt
  <1>3. ReadsKept'
    BY DEF IndexTrue, ReadsKept
  <1>4. OutcomeCommitted'
    BY DEF IndexTrue, OutcomeCommitted
  <1> QED BY <1>1, <1>2, <1>3, <1>4 DEF IndexTrue

(* Removing a row indexes nothing. *)
LEMMA RemoveOldSame ==
  ASSUME TypeOK, NEW p \in Path, RemoveOld(p)
  PROVE  SameStore
  <1>1. /\ \A q \in Path \ {p} : rows'[q] = rows[q] /\ docs'[q] = docs[q]
        /\ IF job.existing[p] = NoVersion THEN rows'[p] = rows[p] /\ docs'[p] = docs[p]
                                          ELSE rows'[p] = NoRow
    BY RemoveOldStore
  <1>2. rows'[p] = NoRow => ~Present(rows'[p])
    BY DEF NoRow, Present
  <1> QED BY <1>1, <1>2 DEF SameStore

(* Settling a file indexes nothing and ends its reading, *)
LEMMA SettleQuiet ==
  ASSUME TypeOK, NEW j, IsJob(j), NEW p \in Path, NEW o, Settle(j, p, o)
  PROVE  Quiet
  <1>1. job' = [j EXCEPT !.path = p, !.todo = j.todo \ {p}, !.seen = j.seen \cup {p},
                        !.version = NoVersion, !.outcome = o,
                        !.read = NewRead, !.checkpoint = FALSE, !.attempts = 0]
    BY DEF Settle, IsJob
  <1>2. job'.version = NoVersion
    BY <1>1 DEF IsJob
  <1>3. SameStore
    BY RemoveOldSame DEF Settle
  <1>4. pc' = "publish"
    BY DEF Settle
  <1> QED BY <1>2, <1>3, <1>4 DEF Quiet, Attempts

(* a retry starts it anew, *)
LEMMA RetryQuiet ==
  ASSUME NEW j, RetryWith(j)
  PROVE  Quiet
  BY DEF RetryWith, storeVars, Quiet, SameStore, Attempts

(* a failed attempt does the one or the other, *)
LEMMA AttemptQuiet ==
  ASSUME TypeOK, SInv, pc \in Reading, NEW unstable, AttemptFails(job, unstable)
  PROVE  Quiet
  <1>1. IsJob(job) /\ job.path \in Path
    <2>1. pc \in Scans
      BY DEF Scans
    <2> QED BY <2>1 DEF SInv, OwnScope, TypeOK, IsJob
  <1>2. CASE \E j : RetryWith(j)
    BY <1>2, RetryQuiet
  <1>3. CASE Settle(job, job.path, [Failed EXCEPT !.pending = job.read.tail])
    BY <1>1, <1>3, SettleQuiet
  <1> QED BY <1>2, <1>3 DEF AttemptFails

(* and so does a rejection. *)
LEMMA RejectQuiet ==
  ASSUME TypeOK, SInv, pc \in Reading, NEW j, IsJob(j), j.path = job.path, NEW o, Reject(j, o)
  PROVE  Quiet
  <1>1. j.path \in Path
    <2>1. pc \in Scans
      BY DEF Scans
    <2> QED BY <2>1 DEF SInv, OwnScope, TypeOK, IsJob
  <1>2. CASE RetryWith([j EXCEPT !.checkpoint = FALSE])
    BY <1>2, RetryQuiet
  <1>3. CASE Settle(j, j.path, o)
    BY <1>1, <1>3, SettleQuiet
  <1> QED BY <1>2, <1>3 DEF Reject

(* Invalidating indexes nothing. *)
LEMMA InvalidateQuiet ==
  ASSUME TypeOK, NEW S, rows' = InvalidateIn(S), docs' = docs
  PROVE  SameStore
  <1>1. \A p \in Path : rows'[p].version = rows[p].version
    BY InvalidatedRows
  <1> QED BY <1>1 DEF SameStore, Present

(* The steps of the worker that neither index nor read. *)
LEMMA OtherStepsQuiet ==
  ASSUME TypeOK, SInv,
         \/ WorkerBegin \/ InvalidateScope \/ MarkInvalidated \/ OpenScan
         \/ (\E p \in Path : Discover(Provider[p]) \/ StatFile(p) \/ RemoveUnseen(p))
         \/ DiscoverDone
         \/ ReadFails \/ PublishSource \/ CancelScan \/ FinishRun \/ FailRun \/ Crash
  PROVE  Quiet
  <1>1. UNCHANGED storeVars => SameStore
    BY DEF SameStore, storeVars
  <1>2. CASE WorkerBegin
    BY <1>1, <1>2 DEF WorkerBegin, Quiet, Attempts
  <1>3. CASE InvalidateScope
    BY <1>3, InvalidateQuiet DEF InvalidateScope, Quiet, Attempts
  <1>4. CASE MarkInvalidated
    BY <1>1, <1>4 DEF MarkInvalidated, Quiet, Attempts
  <1>5. CASE OpenScan
    <2>1. rows' = InvalidateIn(InScope) /\ docs' = docs /\ pc' = "discover"
      BY <1>5 DEF OpenScan
    <2> QED BY <2>1, InvalidateQuiet DEF Quiet, Attempts
  <1>6. ASSUME NEW p \in Path, Discover(Provider[p]) PROVE Quiet
    <2>1. UNCHANGED storeVars /\ pc' = "discover"
      BY <1>6 DEF Discover
    <2> QED BY <1>1, <2>1 DEF Quiet, Attempts
  <1>7. CASE DiscoverDone
    BY <1>1, <1>7 DEF DiscoverDone, Quiet, Attempts
  <1>8. ASSUME NEW p \in Path, StatFile(p) PROVE Quiet
    <2>1. IsJob(job)
      BY DEF TypeOK
    <2>2. CASE pc' = "read" /\ UNCHANGED storeVars
      BY <1>1, <2>2 DEF Quiet, Attempts
    <2>3. CASE \E o : Settle(job, p, o)
      BY <2>1, <2>3, SettleQuiet
    <2> QED BY <1>8, <2>2, <2>3 DEF StatFile
  <1>9. ASSUME NEW p \in Path, RemoveUnseen(p) PROVE Quiet
    <2>1. RemoveOld(p)
      BY <1>9 DEF RemoveUnseen, RemoveOld, Unseen
    <2>2. job' = [job EXCEPT !.path = p, !.seen = @ \cup {p}, !.version = NoVersion,
                             !.outcome = NoOutcome] /\ pc' = "publish"
      BY <1>9 DEF RemoveUnseen
    <2>3. job'.version = NoVersion
      BY <2>2 DEF TypeOK, IsJob
    <2> QED BY <2>1, <2>2, <2>3, RemoveOldSame DEF Quiet, Attempts
  <1>10. CASE ReadFails
    <2>1. pc \in Reading /\ AttemptFails(job, FALSE)
      BY <1>10 DEF ReadFails, Reading, Attempts
    <2> QED BY <2>1, AttemptQuiet
  <1>11. CASE PublishSource
    BY <1>1, <1>11 DEF PublishSource, Quiet, Attempts
  <1>12. CASE CancelScan
    BY <1>1, <1>12 DEF CancelScan, Quiet, Attempts
  <1>13. CASE FinishRun
    BY <1>1, <1>13 DEF FinishRun, EndRun, Quiet, Attempts
  <1>14. CASE FailRun
    <2>1. pc' = "idle" /\ docs' = docs
      BY <1>14 DEF FailRun, EndRun
    <2>2. rows' = rows \/ \E S : rows' = InvalidateIn(S)
      BY <1>14 DEF FailRun
    <2>3. SameStore
      BY <1>1, <2>1, <2>2, InvalidateQuiet DEF storeVars
    <2> QED BY <2>1, <2>3 DEF Quiet, Attempts
  <1>15. CASE Crash
    BY <1>1, <1>15 DEF Crash, Quiet, Attempts
  <1> QED BY <1>2, <1>3, <1>4, <1>5, <1>6, <1>7, <1>8, <1>9, <1>10, <1>11, <1>12, <1>13,
             <1>14, <1>15

(***************************************************************************)
(* A read keeps what it streams.                                           *)
(***************************************************************************)
LEMMA FreshKept ==
  ASSUME NEW p, NEW read, IsRead(read), read.streamed = <<>>, read.archive = NewSpool,
         read.prepared = <<>>, read.line = read.from + 1, read.hint = None,
         read.diagnostics = 0
  PROVE  ReadKept(p, read)
  <1>1. ReadAll(Provider[p], <<>>) = NewRead
    BY ReadAllEmpty
  <1>2. NewRead.hint = None /\ NewRead.diagnostics = 0 /\ NewRead.archive = NewSpool
    BY DEF NewRead
  <1>3. Len(read.prepared) = 0 /\ Len(read.streamed) = 0
    OBVIOUS
  <1>4. Sound(read, read.from)
    <2>1. Unflushed(read.archive)
      BY NewSpoolUnflushed
    <2>2. read.from \in Nat
      BY DEF IsRead
    <2>3. read.line = read.from + Len(read.streamed) + 1
      BY <1>3, <2>2
    <2> QED BY <1>3, <2>1, <2>3 DEF Sound
  <1> QED BY <1>1, <1>2, <1>4 DEF ReadKept

(* A read begins with nothing streamed, at the checkpoint if it appends. *)
LEMMA StartReadIndex ==
  ASSUME TypeOK, SInv, IndexTrue, StartRead
  PROVE  IndexTrue'
  <1>1. pc = "read" /\ pc \in Reading /\ pc \in Scans
    BY DEF StartRead, Reading, Scans
  <1>2. CASE ~IsFile(job.path)
    <2>1. AttemptFails(job, FALSE)
      BY <1>2 DEF StartRead
    <2> QED BY <1>1, <2>1, AttemptQuiet, QuietKeeps
  <1>3. CASE IsFile(job.path)
    <2>1. PICK p : p = job.path
      OBVIOUS
    <2>2. p \in Path /\ IsJob(job)
      BY <1>1, <2>1 DEF SInv, OwnScope, TypeOK, IsJob
    <2> DEFINE i == files[p]
               g == registry
               n == docs[p].nextLine
               o == docs[p].offset
               new == [NewRead EXCEPT !.identity = i, !.revision = g]
               appending == [new EXCEPT !.append = TRUE, !.mine = TRUE,
                                        !.line = n, !.from = o]
               read == IF CanAppend(p) THEN appending ELSE new
    <2>3. job' = [job EXCEPT !.read = read] /\ pc' = "stream" /\ UNCHANGED storeVars
      BY <1>3, <2>1 DEF StartRead
    <2>4. /\ new.streamed = <<>> /\ new.archive = NewSpool /\ new.prepared = <<>>
          /\ new.line = 1 /\ new.from = 0 /\ new.hint = None /\ new.diagnostics = 0
      <3> HIDE DEF i, g
      <3> QED BY DEF NewRead
    <2>5. /\ appending.streamed = <<>> /\ appending.archive = NewSpool
          /\ appending.prepared = <<>> /\ appending.line = n /\ appending.from = o
          /\ appending.hint = None /\ appending.diagnostics = 0
      <3> HIDE DEF i, g, n, o
      <3> QED BY DEF NewRead
    <2>6. CanAppend(p) => n = o + 1
      <3>1. CanAppend(p) => Present(rows[p])
        BY <1>1, <2>1 DEF CanAppend, SInv, OwnScope
      <3>2. CanAppend(p) => IndexedSo(p, docs[p])
        BY <2>2, <3>1 DEF IndexTrue, RowsRebuilt
      <3> QED BY <3>2 DEF IndexedSo, RebuiltAs
    <2> HIDE DEF i, g, n, o, new, appending
    <2>7. /\ read.streamed = <<>> /\ read.archive = NewSpool /\ read.prepared = <<>>
          /\ read.line = read.from + 1 /\ read.hint = None /\ read.diagnostics = 0
      BY <2>4, <2>5, <2>6
    <2> HIDE DEF read
    <2>8. job'.read = read /\ job'.path = p
      BY <2>1, <2>2, <2>3 DEF IsJob
    <2>9. IsRead(read)
      <3>1. TypeOK'
        BY StartReadKeeps
      <3> QED BY <2>8, <3>1 DEF TypeOK, IsJob
    <2>10. PICK x : x = read
      OBVIOUS
    <2>11. ReadKept(p, x)
      BY <2>7, <2>9, <2>10, FreshKept
    <2>12. ReadsKept'
      BY <2>3, <2>8, <2>10, <2>11 DEF ReadsKept
    <2>13. RowsRebuilt'
      BY <2>3, SameStoreRebuilt DEF IndexTrue, SameStore, storeVars
    <2>14. CommitRebuilt' /\ OutcomeCommitted'
      BY <2>3 DEF CommitRebuilt, OutcomeCommitted
    <2> QED BY <2>12, <2>13, <2>14 DEF IndexTrue
  <1> QED BY <1>2, <1>3

(* A record more is kept, too. *)
LEMMA InspectKept ==
  ASSUME NEW p, NEW read, IsRead(read), ReadKept(p, read), NEW r \in DOMAIN Tree
  PROVE  ReadKept(p, Inspect(read, Provider[p], r))
  <1>1. PICK provider, n : provider = Provider[p] /\ n = Inspect(read, provider, r)
    OBVIOUS
  <1>2. PICK t, u : t = read.streamed /\ u = Append(t, r)
    OBVIOUS
  <1>3. PICK a, b : a = ReadAll(provider, t) /\ b = ReadAll(provider, u)
    OBVIOUS
  <1>4. Streams(read, r, n)
    BY <1>1, InspectRead
  <1>5. n.streamed = u /\ n.from = read.from /\ n.other = read.other
        /\ n.unknown = read.unknown
    BY <1>2, <1>4 DEF Streams
  <1>6. t \in Seq(DOMAIN Tree) /\ read.from \in Nat
    BY <1>2 DEF IsRead
  <1> SUFFICES ASSUME ~n.other, ~n.unknown
               PROVE  /\ Sound(n, n.from) /\ n.hint = b.hint
                      /\ n.diagnostics = b.diagnostics
    BY <1>1, <1>2, <1>3, <1>5 DEF ReadKept
  <1>7. ~read.other /\ ~read.unknown
    BY <1>5
  <1>8. Sound(read, read.from) /\ read.hint = a.hint /\ read.diagnostics = a.diagnostics
    BY <1>1, <1>2, <1>3, <1>7 DEF ReadKept
  <1>9. Sound(n, read.from) /\ Inspects(provider, r, read, n)
    BY <1>1, <1>6, <1>7, <1>8, InspectSound
  <1>10. Sound(a, 0) /\ ~a.other /\ ~a.unknown
    BY <1>3, <1>6, ReadAllReads DEF ReadsAll
  <1>11. b = Inspect(a, provider, r)
    <2>1. IsSeq(t)
      BY <1>6, TypedSeq
    <2> QED BY <1>2, <1>3, <2>1, ReadAllAppend
  <1>12. Inspects(provider, r, a, b)
    <2>1. 0 \in Nat
      OBVIOUS
    <2> QED BY <1>10, <1>11, <2>1, InspectSound
  <1>13. n.hint = b.hint /\ n.diagnostics = b.diagnostics
    BY <1>8, <1>9, <1>12 DEF Inspects
  <1> QED BY <1>5, <1>9, <1>13

(* Whose a record is does not touch what is kept. *)
LEMMA AlikeKept ==
  ASSUME NEW p, NEW read, ReadKept(p, read), NEW n, IsRead(n),
         n.archive = read.archive, n.prepared = read.prepared, n.streamed = read.streamed,
         n.line = read.line, n.from = read.from, n.hint = read.hint,
         n.diagnostics = read.diagnostics,
         ~n.other /\ ~n.unknown => ~read.other /\ ~read.unknown
  PROVE  ReadKept(p, n)
  <1> SUFFICES ASSUME ~n.other, ~n.unknown PROVE ReadKept(p, n)
    BY DEF ReadKept
  <1>1. /\ Sound(read, read.from)
        /\ read.hint = ReadAll(Provider[p], read.streamed).hint
        /\ read.diagnostics = ReadAll(Provider[p], read.streamed).diagnostics
    BY DEF ReadKept
  <1>2. Sound(n, n.from)
    BY <1>1 DEF Sound
  <1> QED BY <1>1, <1>2 DEF ReadKept

(* Attributing a record does not. *)
LEMMA AttributeKept ==
  ASSUME NEW p, NEW read, IsRead(read), ReadKept(p, read), NEW owner
  PROVE  ReadKept(p, Attribute(read, owner))
  <1> DEFINE m == read.mine \/ owner = Owner
             o == read.other \/ owner \notin {Owner, None}
             u == read.unknown \/ owner = None
  <1>1. PICK n : n = Attribute(read, owner)
    OBVIOUS
  <1>2. n = [read EXCEPT !.saw = TRUE, !.mine = m, !.other = o, !.unknown = u]
    BY <1>1 DEF Attribute, IsRead
  <1>3. IsRead(n)
    BY <1>1, AttributeRead
  <1>4. /\ n.other = (read.other \/ owner \notin {Owner, None})
        /\ n.unknown = (read.unknown \/ owner = None)
    BY <1>1, AttributeRead
  <1>5. ~n.other /\ ~n.unknown => ~read.other /\ ~read.unknown
    BY <1>4
  <1> HIDE DEF m, o, u
  <1>6. /\ n.archive = read.archive /\ n.prepared = read.prepared
        /\ n.streamed = read.streamed /\ n.line = read.line /\ n.from = read.from
        /\ n.hint = read.hint /\ n.diagnostics = read.diagnostics
    BY <1>2 DEF IsRead
  <1> QED BY <1>1, <1>3, <1>5, <1>6, AlikeKept

(* A record is inspected and attributed. *)
LEMMA StreamRecordIndex ==
  ASSUME TypeOK, SInv, IndexTrue, StreamRecord
  PROVE  IndexTrue'
  <1>1. PICK p, r, cwd, read : /\ p = job.path
                               /\ r = OpenFile.records[Position(job.read) + 1]
                               /\ cwd = CwdOf(Provider[p], r)
                               /\ read = Inspect(job.read, Provider[p], r)
    OBVIOUS
  <1>2. PICK owner, owned : owner = CwdOwner(cwd) /\ owned = Attribute(read, owner)
    OBVIOUS
  <1>3. /\ pc = "stream" /\ pc' = "stream" /\ pc \in Attempts /\ UNCHANGED <<rows, docs>>
        /\ IsJob(job) /\ IsRead(job.read)
    BY DEF StreamRecord, Attempts, TypeOK, IsJob, storeVars
  <1>4. r \in DOMAIN Tree
    BY <1>1, <1>3, OpenRecord DEF StreamRecord
  <1>5. PICK old : old = job.read
    OBVIOUS
  <1>6. ReadKept(p, old) /\ IsRead(old)
    BY <1>1, <1>3, <1>5 DEF IndexTrue, ReadsKept
  <1>7. ReadKept(p, read)
    BY <1>1, <1>4, <1>5, <1>6, InspectKept
  <1>8. IsRead(read)
    BY <1>1, <1>4, <1>5, <1>6, InspectRead DEF Streams
  <1>9. ReadKept(p, owned)
    BY <1>2, <1>7, <1>8, AttributeKept
  <1>10. job'.path = p /\ job'.read \in {read, owned}
    <2> DEFINE cache == InsertOrIgnore(job.cache, cwd, owner)
               known == IF Remembers(cwd) THEN registry' ELSE job.registry
    <2>1. job' = IF cwd = None THEN [job EXCEPT !.read = read]
                 ELSE [job EXCEPT !.read = owned, !.cache = cache, !.registry = known]
      BY <1>1, <1>2, <1>3 DEF StreamRecord, IsJob
    <2> HIDE DEF cache, known
    <2> QED BY <1>1, <1>3, <2>1 DEF IsJob
  <1>11. PICK x : x = job'.read
    OBVIOUS
  <1>12. ReadKept(p, x)
    BY <1>7, <1>9, <1>10, <1>11
  <1>13. ReadsKept'
    BY <1>3, <1>10, <1>11, <1>12 DEF ReadsKept
  <1>14. RowsRebuilt'
    BY <1>3, SameStoreRebuilt DEF IndexTrue, SameStore
  <1>15. CommitRebuilt' /\ OutcomeCommitted'
    BY <1>3 DEF CommitRebuilt, OutcomeCommitted
  <1> QED BY <1>13, <1>14, <1>15 DEF IndexTrue

(* At the end of the file a read is verified only if every record was visible. *)
LEMMA StreamEndIndex ==
  ASSUME TypeOK, SInv, IndexTrue, StreamEnd
  PROVE  IndexTrue'
  <1> DEFINE t == OpenFile.tail /\ Position(job.read) = Len(OpenFile.records)
             read == [job.read EXCEPT !.tail = t]
             j == [job EXCEPT !.read = read]
             unowned == ~read.saw /\ ~read.append
             foreign == read.other /\ ~read.mine /\ ~read.unknown
  <1>1. /\ pc = "stream" /\ pc \in Reading /\ pc \in Attempts
        /\ IsRead(job.read) /\ IsJob(job)
    BY DEF StreamEnd, Reading, Attempts, TypeOK, IsJob
  <1>2. t \in BOOLEAN
    BY <1>1, OpenRecord DEF File
  <1>3. \/ \E o : Reject(j, o)
        \/ ~read.other /\ ~read.unknown /\ job' = j /\ pc' = "verify" /\ UNCHANGED storeVars
    <2>1. \/ Reject(j, ExcludedWith(TRUE, read.tail))
          \/ Reject(j, ExcludedWith(read.diagnostics > 0, read.tail))
          \/ ~unowned /\ ~foreign /\ ~(read.other \/ read.unknown \/ ~read.mine)
             /\ job' = j /\ pc' = "verify" /\ UNCHANGED storeVars
      <3> HIDE DEF j, read
      <3> QED BY DEF StreamEnd, t, j, read
    <2> HIDE DEF j, read
    <2> QED BY <2>1
  <1> HIDE DEF t
  <1>4. /\ IsRead(read) /\ read.streamed = job.read.streamed /\ read.from = job.read.from
        /\ read.other = job.read.other /\ read.unknown = job.read.unknown
        /\ read.diagnostics = job.read.diagnostics
    BY <1>1, <1>2, TailRead
  <1>5. /\ read.archive = job.read.archive /\ read.prepared = job.read.prepared
        /\ read.line = job.read.line /\ read.hint = job.read.hint
    BY <1>1 DEF IsRead
  <1> HIDE DEF read
  <1>6. IsJob(j) /\ j.path = job.path /\ j.read = read
    BY <1>1, <1>4 DEF IsJob
  <1> HIDE DEF j
  <1>7. CASE \E o : Reject(j, o)
    BY <1>1, <1>6, <1>7, RejectQuiet, QuietKeeps
  <1>8. CASE /\ ~read.other /\ ~read.unknown
             /\ job' = j /\ pc' = "verify" /\ UNCHANGED storeVars
    <2>1. PICK p, x, y : p = job.path /\ x = job.read /\ y = read
      OBVIOUS
    <2>2. ReadKept(p, x)
      BY <1>1, <2>1 DEF IndexTrue, ReadsKept
    <2>3. ReadKept(p, y)
      BY <1>4, <1>5, <2>1, <2>2, AlikeKept
    <2>4. job'.path = p /\ job'.read = y /\ ~y.other /\ ~y.unknown
      BY <1>6, <1>8, <2>1
    <2>5. ReadsKept'
      BY <1>8, <2>3, <2>4 DEF ReadsKept
    <2>6. RowsRebuilt'
      BY <1>8, SameStoreRebuilt DEF IndexTrue, SameStore, storeVars
    <2>7. CommitRebuilt' /\ OutcomeCommitted'
      BY <1>8 DEF CommitRebuilt, OutcomeCommitted
    <2> QED BY <2>5, <2>6, <2>7 DEF IndexTrue
  <1> QED BY <1>3, <1>7, <1>8

(***************************************************************************)
(* What is verified is what one reading would have left.                   *)
(***************************************************************************)
LEMMA StartAppended ==
  ASSUME NEW p, NEW read, read.append
  PROVE  Normalised(p, read) = NormaliseAll(Provider[p], read, AppendStart(docs[p], read))
  <1>1. NewIds(read.append, docs[p].ids) = IdsOf({}, docs[p].ids, <<>>)
    BY DEF NewIds, IdsOf
  <1> QED BY <1>1 DEF Normalised, AppendStart, PassOf

(* Where a pass starts that does not append. *)
LEMMA StartNormalised ==
  ASSUME NEW p, NEW read, ~read.append, read.diagnostics \in Nat
  PROVE  Normalised(p, read) = NormaliseAll(Provider[p], read, StartOf(read))
  <1>1. NewIds(read.append, NoDocs.ids) = NoIds
    BY DEF NewIds, NoIds, IdsOf
  <1>2. OrElse(NoDocs.session, read.hint) = read.hint /\ NoDocs.chunks = <<>>
    BY DEF NoDocs, OrElse
  <1>3. NoDocs.diagnostics + read.diagnostics = read.diagnostics
    <2>1. NoDocs.diagnostics = 0
      BY DEF NoDocs
    <2> QED BY <2>1
  <1>4. Normalised(p, read) =
           NormaliseAll(Provider[p], read,
              [chunks |-> NoDocs.chunks, ids |-> NewIds(read.append, NoDocs.ids),
               session |-> OrElse(NoDocs.session, read.hint),
               diagnostics |-> NoDocs.diagnostics + read.diagnostics])
    BY DEF Normalised
  <1> QED BY <1>1, <1>2, <1>3, <1>4, Zenon DEF StartOf, PassOf

(* A file is what was indexed of it and what was streamed. *)
LEMMA ContinuedIs ==
  ASSUME NEW S, NEW a \in Seq(S), NEW s \in Seq(S), NEW t \in Seq(S),
         Continues(t, Len(a), s), \A i \in DOMAIN a : t[i] = a[i]
  PROVE  t = a \o s
  <1>1. PICK n, m, k : n = Len(a) /\ m = Len(s) /\ k = Len(t)
    OBVIOUS
  <1>2. PICK u : u = a \o s
    OBVIOUS
  <1>3. /\ n \in Nat /\ m \in Nat /\ k \in Nat /\ DOMAIN t = 1..k /\ DOMAIN a = 1..n
        /\ DOMAIN s = 1..m
    BY <1>1
  <1>4. n + m = k
    BY <1>1 DEF Continues
  <1>5. u \in Seq(S)
    BY <1>2
  <1>6. Len(u) = k
    <2>1. Len(u) = Len(a) + Len(s)
      BY <1>2
    <2> QED BY <1>1, <1>4, <2>1
  <1>7. \A i \in 1..k : t[i] = u[i]
    <2>1. ASSUME NEW i \in 1..k PROVE t[i] = u[i]
      <3>1. CASE i <= n
        <4>1. i \in 1..n
          BY <1>3, <3>1
        <4>2. u[i] = a[i]
          BY <1>1, <1>2, <1>3, <4>1
        <4> QED BY <1>3, <4>1, <4>2
      <3>2. CASE ~(i <= n)
        <4>1. PICK j : j = i - n
          OBVIOUS
        <4>2. j \in DOMAIN s /\ s[j] = t[i]
          BY <1>1, <1>3, <3>2, <4>1 DEF Continues
        <4>3. i = n + j
          BY <1>3, <4>1
        <4>4. j \in 1..m
          BY <1>3, <4>2
        <4>5. u[n + j] = s[j]
          BY <1>1, <1>2, <1>3, <4>4
        <4> QED BY <4>2, <4>3, <4>5
      <3> QED BY <3>1, <3>2
    <2> QED BY <2>1
  <1> QED BY <1>1, <1>2, <1>5, <1>6, <1>7, SeqEqual

(* A verified read leaves what reading the whole file would have left, *)
LEMMA VerifiedLeaves ==
  ASSUME TypeOK, SInv, IndexTrue, pc = "verify", NEW p, p = job.path,
         NEW read, read = job.read, NEW t, t = FileAt(p).records,
         IsFile(p), Unchanged(p, read)
  PROVE  /\ Leaves(Normalised(p, read), Rebuild(p, t))
         /\ read.line = Position(read) + 1
  <1>1. /\ pc \in Attempts /\ pc \in Reading /\ pc \in Scans
    BY DEF Attempts, Reading, Scans
  <1>2. /\ ReadTrue /\ RowsTrue /\ OwnScope /\ p \in Path
        /\ ReadIs(p, read) /\ IsRead(read)
        /\ read.append => job.checkpoint
        /\ job.checkpoint => Present(rows[p])
    BY <1>1 DEF SInv, ReadTrue, OwnScope, TypeOK, IsJob
  <1>3. PICK s, f : s = read.streamed /\ f = read.from
    OBVIOUS
  <1>4. t \in Seq(DOMAIN Tree) /\ s \in Seq(DOMAIN Tree) /\ f \in Nat /\ Len(s) \in Nat
    BY <1>2, <1>3, FileTypes DEF IsRead
  <1>5. /\ Sound(read, f)
        /\ read.hint = ReadAll(Provider[p], s).hint
        /\ read.diagnostics = ReadAll(Provider[p], s).diagnostics
    <2>1. ReadKept(p, read) /\ ~read.other /\ ~read.unknown
      BY <1>1 DEF IndexTrue, ReadsKept
    <2> QED BY <1>3, <2>1 DEF ReadKept
  <1>6. read.append \in BOOLEAN /\ read.diagnostics \in Nat
    BY <1>2 DEF IsRead
  <1>7. Provider[p] \in {"codex", "claude", "copilot"}
    BY <1>2, SessionAssumption
  <1>8. read.line = Position(read) + 1
    BY <1>3, <1>5 DEF Sound, Position
  <1>9. s = SubSeq(t, f + 1, Len(t))
    BY <1>3 DEF Unchanged
  <1>10. CASE read.append
    <2>1. PICK d, a : d = docs[p] /\ a = docs[p].prefix
      OBVIOUS
    <2>2. /\ a \in Seq(DOMAIN Tree) /\ f = Len(a) /\ IsPrefix(a, t) /\ Present(rows[p])
      <3>1. a \in Seq(DOMAIN Tree)
        BY <1>2, <2>1 DEF TypeOK, IsDocs
      <3> QED BY <1>2, <1>3, <1>10, <2>1, <3>1 DEF ReadIs, RowsTrue, Unchanged
    <2>3. Len(a) <= Len(t) /\ \A i \in DOMAIN a : i \in DOMAIN t /\ t[i] = a[i]
      BY <1>4, <2>2, PrefixKept
    <2>4. Continues(t, f, s)
      BY <1>4, <1>9, <2>2, <2>3, SubSeqContinues
    <2>5. t = a \o s
      <3>1. /\ a \in Seq(DOMAIN Tree) /\ s \in Seq(DOMAIN Tree) /\ t \in Seq(DOMAIN Tree)
            /\ Continues(t, Len(a), s) /\ \A i \in DOMAIN a : t[i] = a[i]
        BY <1>4, <2>2, <2>3, <2>4
      <3> QED BY ONLY <3>1, ContinuedIs
    <2>6. RebuiltAs(d, Rebuild(p, a))
      <3>1. IndexedSo(p, d)
        BY <1>2, <2>1, <2>2 DEF IndexTrue, RowsRebuilt
      <3> QED BY <2>1, <3>1 DEF IndexedSo
    <2>7. Leaves(NormaliseAll(Provider[p], read, AppendStart(d, read)),
                 Rebuild(p, a \o read.streamed))
      BY <1>3, <1>5, <1>7, <2>2, <2>6, AppendAgrees
    <2>8. Normalised(p, read) = NormaliseAll(Provider[p], read, AppendStart(d, read))
      <3>1. Normalised(p, read) =
               NormaliseAll(Provider[p], read, AppendStart(docs[p], read))
        BY ONLY <1>10, StartAppended
      <3> QED BY <2>1, <3>1
    <2> QED BY <1>3, <1>8, <2>5, <2>7, <2>8
  <1>11. CASE ~read.append
    <2>1. f = 0
      BY <1>2, <1>3, <1>11 DEF ReadIs
    <2>2. 0 <= Len(t) /\ 0 \in Nat
      BY <1>4
    <2>3. Continues(t, 0, s)
      BY <1>4, <1>9, <2>1, <2>2, SubSeqContinues
    <2>4. t = <<>> \o s
      <3>1. Len(<<>>) = 0 /\ <<>> \in Seq(DOMAIN Tree) /\ DOMAIN <<>> = {}
        OBVIOUS
      <3>2. PICK a : a = <<>>
        OBVIOUS
      <3>3. a \in Seq(DOMAIN Tree) /\ Continues(t, Len(a), s)
            /\ \A i \in DOMAIN a : t[i] = a[i]
        BY <2>3, <3>1, <3>2
      <3>4. t = a \o s
        BY <1>4, <3>3, ContinuedIs
      <3> QED BY <3>2, <3>4
    <2>5. t = s
      BY <1>4, <2>4
    <2>6. Leaves(NormaliseAll(Provider[p], read, StartOf(read)), Rebuild(p, read.streamed))
      BY <1>3, <1>5, <1>7, <2>1, ReadAgain
    <2>7. Normalised(p, read) = NormaliseAll(Provider[p], read, StartOf(read))
      BY <1>6, <1>11, StartNormalised
    <2> QED BY <1>3, <1>8, <2>5, <2>6, <2>7
  <1> QED BY <1>10, <1>11

(* which is what is going to be committed. *)
LEMMA VerifiedNew ==
  ASSUME TypeOK, SInv, IndexTrue, VerifyRead, IsFile(job.path), Unchanged(job.path, job.read),
         NEW p, p = job.path, NEW read, read = job.read
  PROVE  job'.new = DocsOf(p, read, Normalised(p, read))
  <1>1. PICK new, n : new = DocsOf(p, read, n) /\ n = Normalised(p, read)
    OBVIOUS
  <1>2. PICK v, o : /\ v = VersionOf(FileAt(p))
                    /\ o = [known |-> TRUE, version |-> VersionOf(FileAt(p)),
                            errors |-> n.diagnostics > 0, excluded |-> FALSE,
                            pending |-> job.read.tail]
    OBVIOUS
  <1>3. job' = [job EXCEPT !.version = v, !.new = new, !.outcome = o,
                           !.todo = @ \ {p}, !.seen = @ \cup {p},
                           !.read = NewRead, !.checkpoint = FALSE, !.attempts = 0]
    <2>1. ~(~IsFile(p)) /\ ~(IsFile(p) /\ ~Unchanged(p, read))
      OBVIOUS
    <2> QED BY <1>1, <1>2, <2>1 DEF VerifyRead, Verified
  <1>4. job'.new = new
    BY <1>3 DEF TypeOK, IsJob
  <1> QED BY <1>1, <1>4

(* Verification passes the invariant on to the commit. *)
LEMMA VerifyReadIndex ==
  ASSUME TypeOK, SInv, IndexTrue, VerifyRead
  PROVE  IndexTrue'
  <1>1. pc = "verify" /\ pc \in Reading /\ pc \in Attempts
    BY DEF VerifyRead, Reading, Attempts
  <1>2. CASE \E unstable : AttemptFails(job, unstable)
    BY <1>1, <1>2, AttemptQuiet, QuietKeeps
  <1>3. CASE IsFile(job.path) /\ Unchanged(job.path, job.read)
    <2>1. PICK p, read, t : p = job.path /\ read = job.read /\ t = FileAt(job.path).records
      OBVIOUS
    <2>2. PICK n, new, r : /\ n = Normalised(p, read) /\ new = DocsOf(p, read, n)
                           /\ r = Rebuild(p, t)
      OBVIOUS
    <2>3. Verifies(p) /\ pc' = "commit" /\ UNCHANGED storeVars
      BY <1>3, <2>1, VerifyDoes
    <2>4. job'.new = new
      BY <1>3, <2>1, <2>2, VerifiedNew
    <2>5. Leaves(n, r) /\ read.line = Position(read) + 1
      BY <1>1, <1>3, <2>1, <2>2, VerifiedLeaves
    <2>6. /\ new.offset = Len(new.prefix) /\ new.prefix = t /\ job'.path = p
      BY <2>1, <2>3, <2>4 DEF Verifies
    <2>7. /\ new.offset = Position(read) /\ new.nextLine = read.line
          /\ new.chunks = n.chunks /\ new.ids = StoredIds(n.ids)
          /\ new.diagnostics = n.diagnostics /\ new.session = n.session
      BY <2>2 DEF DocsOf, StoredIds
    <2>8. RebuiltAs(new, r)
      BY <2>5, <2>6, <2>7 DEF Leaves, RebuiltAs
    <2>9. IndexedSo(p, new)
      BY <2>2, <2>6, <2>8 DEF IndexedSo
    <2>10. CommitRebuilt'
      BY <2>4, <2>6, <2>9 DEF CommitRebuilt
    <2>11. RowsRebuilt'
      BY <2>3, SameStoreRebuilt DEF IndexTrue, SameStore, storeVars
    <2>12. ReadsKept' /\ OutcomeCommitted'
      BY <2>3 DEF ReadsKept, OutcomeCommitted, Attempts
    <2> QED BY <2>10, <2>11, <2>12 DEF IndexTrue
  <1> QED BY <1>2, <1>3 DEF VerifyRead

(* The commit passes it on to the row. *)
LEMMA CommitSessionIndex ==
  ASSUME TypeOK, SInv, IndexTrue, CommitSession
  PROVE  IndexTrue'
  <1>1. PICK p, v, new : p = job.path /\ v = job.version /\ new = job.new
    OBVIOUS
  <1>2. pc = "commit" /\ pc' = "publish" /\ p \in Path /\ v # NoVersion
    BY <1>1 DEF CommitSession, SInv, CommitTrue, TypeOK, Scans, Reading, Attempts
  <1>3. IndexedSo(p, new)
    BY <1>1, <1>2 DEF IndexTrue, CommitRebuilt
  <1>4. rows' = ReplaceRow(rows, p, v) /\ docs' = [docs EXCEPT ![p] = new]
    BY <1>1 DEF CommitSession
  <1>5. /\ rows'[p] = [version |-> v, eligible |-> TRUE]
        /\ \A q \in Path \ {p} : rows'[q] = rows[q]
    <2>1. rows = [q \in Path |-> rows[q]]
      BY DEF TypeOK
    <2> QED BY <1>2, <1>4, <2>1 DEF ReplaceRow
  <1>6. docs'[p] = new /\ \A q \in Path \ {p} : docs'[q] = docs[q]
    <2>1. docs = [q \in Path |-> docs[q]]
      BY DEF TypeOK
    <2> QED BY <1>2, <1>4, <2>1
  <1>7. RowsRebuilt'
    <2>1. ASSUME NEW q \in Path, Present(rows'[q]), NEW d, d = docs'[q]
          PROVE  IndexedSo(q, d)
      <3>1. CASE q = p
        BY <1>3, <1>6, <2>1, <3>1
      <3>2. CASE q # p
        BY <1>5, <1>6, <2>1, <3>2 DEF IndexTrue, RowsRebuilt
      <3> QED BY <3>1, <3>2
    <2> QED BY <2>1 DEF RowsRebuilt
  <1>8. CommitRebuilt' /\ ReadsKept'
    BY <1>2 DEF CommitRebuilt, ReadsKept, Attempts
  <1>9. OutcomeCommitted'
    <2>1. job'.path = p
      <3>1. job' = [job EXCEPT !.new = NoDocs]
        BY DEF CommitSession
      <3> QED BY <1>1, <3>1 DEF TypeOK, IsJob
    <2>2. Present(rows'[p])
      BY <1>2, <1>5 DEF Present
    <2> QED BY <2>1, <2>2 DEF OutcomeCommitted
  <1> QED BY <1>7, <1>8, <1>9 DEF IndexTrue

(* At first nothing is indexed. *)
LEMMA IndexInitial ==
  ASSUME Init
  PROVE  IndexTrue
  <1>1. pc = "idle" /\ rows = [p \in Path |-> NoRow]
    BY DEF Init
  <1>2. \A p \in Path : ~Present(rows[p])
    BY <1>1 DEF Present, NoRow
  <1> QED BY <1>1, <1>2
          DEF IndexTrue, RowsRebuilt, CommitRebuilt, ReadsKept, OutcomeCommitted, Attempts

(* The environment touches neither the worker nor the store. *)
LEMMA EnvironmentSteps ==
  ASSUME Environment, ~Crash
  PROVE  UNCHANGED <<pc, job, rows, docs>>
  <1>1. ASSUME NEW p \in Path,
               \/ StartRecord(p) \/ (\E r : AppendRecord(p, r)) \/ (\E left : Delete(p, left))
               \/ (\E f : Rewrite(p, f)) \/ (\E f : Replace(p, f))
        PROVE  UNCHANGED <<pc, job, rows, docs>>
    <2>1. UNCHANGED workerVars
      BY <1>1 DEF StartRecord, AppendRecord, Delete, Rewrite, Replace, WriteFile
    <2> QED BY <2>1 DEF workerVars
  <1>2. ASSUME NEW cwd, Register(cwd) PROVE UNCHANGED <<pc, job, rows, docs>>
    BY <1>2 DEF Register, workerVars
  <1>3. ASSUME NEW e, NEW precise, Deliver(e, precise) PROVE UNCHANGED <<pc, job, rows, docs>>
    BY <1>3 DEF Deliver, storeVars
  <1> QED BY <1>1, <1>2, <1>3 DEF Environment

(* Every step keeps the invariant. *)
LEMMA IndexStep ==
  ASSUME TypeOK, SInv, IndexTrue, [Next]_vars
  PROVE  IndexTrue'
  <1>1. CASE UNCHANGED vars
    BY <1>1, UntouchedIndex DEF vars
  <1>2. CASE WorkerStep
    <2>1. CASE WorkerBegin \/ InvalidateScope \/ MarkInvalidated \/ OpenScan \/ DiscoverDone
               \/ ReadFails \/ PublishSource \/ CancelScan \/ FinishRun \/ FailRun
      BY <2>1, OtherStepsQuiet, QuietKeeps
    <2>2. CASE (\E p \in Path : Discover(Provider[p]) \/ StatFile(p) \/ RemoveUnseen(p))
      BY <2>2, OtherStepsQuiet, QuietKeeps
    <2>3. CASE StartRead \/ StreamRecord \/ StreamEnd \/ VerifyRead \/ CommitSession
      BY <2>3, StartReadIndex, StreamRecordIndex, StreamEndIndex, VerifyReadIndex,
         CommitSessionIndex
    <2> QED BY <1>2, <2>1, <2>2, <2>3 DEF WorkerStep
  <1>3. CASE Environment
    <2>1. CASE Crash
      BY <2>1, OtherStepsQuiet, QuietKeeps
    <2>2. CASE ~Crash
      BY <1>3, <2>2, EnvironmentSteps, UntouchedIndex
    <2> QED BY <2>1, <2>2
  <1> QED BY <1>1, <1>2, <1>3 DEF Next

(* What is indexed is, in every state, what one reading of the records before *)
(* its checkpoint would have left, and so is what is about to be committed; *)
(* an archive holds every record that its read has streamed.               *)
THEOREM IndexInductive == Spec => [](TypeOK /\ SInv /\ IndexTrue)
  <1>1. Init => TypeOK /\ SInv /\ IndexTrue
    BY SessionInitial, IndexInitial
  <1>2. (TypeOK /\ SInv /\ IndexTrue) /\ [Next]_vars => (TypeOK /\ SInv /\ IndexTrue)'
    BY SessionStep, IndexStep
  <1> QED BY <1>1, <1>2, PTL DEF Spec

(* What a commit leaves of a file, after however many reads and whatever   *)
(* happened while they ran, is what one read of its indexed version would  *)
(* have left.                                                              *)
THEOREM SessionRebuilt == Spec => []IndexedAsRebuilt
  <1>1. TypeOK /\ SInv /\ IndexTrue => IndexedAsRebuilt
    <2> SUFFICES ASSUME TypeOK, SInv, IndexTrue, NEW p \in Path, Committed(p)
                 PROVE  /\ docs[p].prefix = rows[p].version[1]
                        /\ AsRebuilt(docs[p], Rebuild(p, docs[p].prefix))
      BY DEF IndexedAsRebuilt
    <2>1. Present(rows[p])
      BY DEF Committed, IndexTrue, OutcomeCommitted
    <2>2. docs[p].prefix = rows[p].version[1]
      BY <2>1 DEF SInv, RowsTrue
    <2>3. PICK d, n : d = docs[p] /\ n = Rebuild(p, docs[p].prefix)
      OBVIOUS
    <2>4. RebuiltAs(d, n)
      BY <2>1, <2>3 DEF IndexTrue, RowsRebuilt, IndexedSo
    <2>5. DOMAIN d.chunks = 1..Len(d.chunks) /\ DOMAIN n.chunks = 1..Len(d.chunks)
      BY <2>4, SeqIs DEF RebuiltAs, Follows
    <2>6. \A i \in DOMAIN d.chunks : SameButSession(d.chunks[i], n.chunks[i])
      BY <2>4, <2>5, FollowsSame DEF RebuiltAs, Follows
    <2>7. AsRebuilt(d, n)
      BY <2>4, <2>5, <2>6 DEF AsRebuilt, RebuiltAs
    <2> QED BY <2>2, <2>3, <2>7
  <1> QED BY <1>1, IndexInductive, PTL

(***************************************************************************)
(* What a record reports does not depend on what was met before it.        *)
(***************************************************************************)
(* The diagnostics of a record depend on the record only: Codex, *)
LEMMA CodexReports ==
  ASSUME NEW s, NEW f, NEW x, NEW y, NEW c, NEW d
  PROVE  NormalizeCodex(s, f, x, c).diagnostics = NormalizeCodex(s, f, y, d).diagnostics
  <1> DEFINE payload == FieldAt(f, <<"payload", "type">>)
             isMeta == s.kind \in {"session_meta", "turn_context", None}
             isMessage == s.kind = "response_item" /\ payload = "message"
             isCall == /\ s.kind = "response_item"
                       /\ payload \in {"function_call", "custom_tool_call"}
             isOutput == /\ s.kind = "response_item"
                         /\ payload \in {"function_call_output", "custom_tool_call_output"}
  <1>1. ASSUME NEW z, NEW e
        PROVE  NormalizeCodex(s, f, z, e).diagnostics =
                  IF isMeta \/ isMessage \/ isCall \/ isOutput THEN 0 ELSE 1
    <2> HIDE DEF isMeta, isMessage, isCall, isOutput
    <2> QED BY DEF NormalizeCodex, Outcome3, isMeta, isMessage, isCall, isOutput
  <1> QED BY <1>1

(* Claude, *)
LEMMA ClaudeReports ==
  ASSUME NEW s, NEW f, NEW x, NEW y, NEW c, NEW d
  PROVE  NormalizeClaude(s, f, x, c).diagnostics = NormalizeClaude(s, f, y, d).diagnostics
  BY DEF NormalizeClaude, Outcome3

(* and Copilot. *)
LEMMA CopilotReports ==
  ASSUME NEW s, NEW f, NEW x, NEW y, NEW c, NEW d
  PROVE  NormalizeCopilot(s, f, x, c).diagnostics = NormalizeCopilot(s, f, y, d).diagnostics
  BY DEF NormalizeCopilot, Outcome3

(* So it does whoever the provider is. *)
LEMMA SameReports ==
  ASSUME NEW provider \in {"codex", "claude", "copilot"}, NEW s, NEW f, NEW x, NEW y,
         NEW h, NEW k
  PROVE  Normalize(provider, s, f, x, h).diagnostics =
         Normalize(provider, s, f, y, k).diagnostics
  <1>1. PICK c, d : /\ c = ContextOf(OrElse(s.session, OrElse(h, "unknown")), s.event)
                    /\ d = ContextOf(OrElse(s.session, OrElse(k, "unknown")), s.event)
    OBVIOUS
  <1>2. CASE provider = "codex"
    <2>1. /\ Normalize(provider, s, f, x, h) = NormalizeCodex(s, f, x, c)
          /\ Normalize(provider, s, f, y, k) = NormalizeCodex(s, f, y, d)
      BY <1>1, <1>2 DEF Normalize, ContextOf
    <2> QED BY <2>1, CodexReports
  <1>3. CASE provider = "claude"
    <2>1. /\ Normalize(provider, s, f, x, h) = NormalizeClaude(s, f, x, c)
          /\ Normalize(provider, s, f, y, k) = NormalizeClaude(s, f, y, d)
      BY <1>1, <1>3 DEF Normalize, ContextOf
    <2> QED BY <2>1, ClaudeReports
  <1>4. CASE provider = "copilot"
    <2>1. /\ Normalize(provider, s, f, x, h) = NormalizeCopilot(s, f, x, c)
          /\ Normalize(provider, s, f, y, k) = NormalizeCopilot(s, f, y, d)
      BY <1>1, <1>4 DEF Normalize, ContextOf
    <2> QED BY <2>1, CopilotReports
  <1> QED BY <1>2, <1>3, <1>4

(***************************************************************************)
(* The only identifiers a normalisation learns are those of calls.         *)
(***************************************************************************)
Registers(x, u) == \E call, name : u \in {x, RegisterCall(x, call, name)}

(* Whoever the provider is, a normalisation registers one call or none. *)
LEMMA NormalizeRegisters ==
  ASSUME NEW provider \in {"codex", "claude", "copilot"}, NEW s, NEW f, NEW x, NEW h
  PROVE  Registers(x, Normalize(provider, s, f, x, h).ids)
  <1>1. PICK c : c = ContextOf(OrElse(s.session, OrElse(h, "unknown")), s.event)
    OBVIOUS
  <1>2. CASE provider = "codex"
    <2>1. Normalize(provider, s, f, x, h) = NormalizeCodex(s, f, x, c)
      BY <1>1, <1>2 DEF Normalize, ContextOf
    <2>2. NormalizeCodex(s, f, x, c).ids \in {x, RegisterCall(x, s.call, s.name)}
      BY DEF NormalizeCodex, Outcome3
    <2> QED BY <2>1, <2>2 DEF Registers
  <1>3. CASE provider = "claude"
    <2>1. Normalize(provider, s, f, x, h) = NormalizeClaude(s, f, x, c)
      BY <1>1, <1>3 DEF Normalize, ContextOf
    <2>2. PICK id, name : /\ id = BlockScalar(s, f, "tool_use", "id")
                          /\ name = BlockScalar(s, f, "tool_use", "name")
      OBVIOUS
    <2>3. NormalizeClaude(s, f, x, c).ids \in {x, RegisterCall(x, id, name)}
      BY <2>2 DEF NormalizeClaude, Outcome3
    <2> QED BY <2>1, <2>3 DEF Registers
  <1>4. CASE provider = "copilot"
    <2>1. Normalize(provider, s, f, x, h) = NormalizeCopilot(s, f, x, c)
      BY <1>1, <1>4 DEF Normalize, ContextOf
    <2>2. NormalizeCopilot(s, f, x, c).ids \in {x, RegisterCall(x, s.call, s.name)}
      BY DEF NormalizeCopilot, Outcome3
    <2> QED BY <2>1, <2>2 DEF Registers
  <1> QED BY <1>2, <1>3, <1>4

(* The keys of events that have been met with the record q. *)
MetIn(ids, q) == \E e : HasKey(Known(ids), IdKey("seen_event", <<e, q>>))

(* InsertId meets an event only if it is told so. *)
LEMMA InsertMeets ==
  ASSUME NEW x, IdsOk(x), NEW kind, NEW id, NEW value, NEW q,
         MetIn(InsertId(x, kind, id, value), q)
  PROVE  MetIn(x, q) \/ (kind = "seen_event" /\ \E e : id = <<e, q>>)
  <1>1. PICK u : u = InsertId(x, kind, id, value)
    OBVIOUS
  <1>2. Known(u) = IF HasKey(Known(x), IdKey(kind, id)) THEN Known(x)
                   ELSE Known(x) \cup {Pair(IdKey(kind, id), value)}
    BY <1>1, InsertIdOk
  <1>3. PICK e : HasKey(Known(u), IdKey("seen_event", <<e, q>>))
    BY <1>1 DEF MetIn
  <1>4. PICK z \in Known(u) : z.key = IdKey("seen_event", <<e, q>>)
    BY <1>3 DEF HasKey
  <1>5. CASE z \in Known(x)
    BY <1>4, <1>5 DEF MetIn, HasKey
  <1>6. CASE z \notin Known(x)
    <2>1. z = Pair(IdKey(kind, id), value)
      BY <1>2, <1>4, <1>6
    <2>2. IdKey(kind, id) = IdKey("seen_event", <<e, q>>)
      BY <1>4, <2>1 DEF Pair
    <2>3. kind = "seen_event" /\ id = <<e, q>>
      BY <2>2 DEF IdKey
    <2> QED BY <2>3
  <1> QED BY <1>5, <1>6

(* Registering a call meets none. *)
LEMMA RegisterMeets ==
  ASSUME NEW x, IdsOk(x), NEW u, Registers(x, u), NEW q, MetIn(u, q)
  PROVE  MetIn(x, q)
  <1>1. PICK call, name : u \in {x, RegisterCall(x, call, name)}
    BY DEF Registers
  <1>2. PICK v : v = InsertId(x, "tool_call", call, OrDefault(name))
    OBVIOUS
  <1>3. PICK w : w = InsertId(v, "own_call", call, name)
    OBVIOUS
  <1>4. u \in {x, v, w}
    BY <1>1, <1>2, <1>3 DEF RegisterCall
  <1>5. IdsOk(v) /\ (MetIn(v, q) => MetIn(x, q))
    BY <1>2, InsertIdOk, InsertMeets
  <1>6. MetIn(w, q) => MetIn(v, q)
    BY <1>3, <1>5, InsertMeets
  <1> QED BY <1>4, <1>5, <1>6

(* A record adds to the diagnostics of a second pass. *)
Bad(provider, r) ==
    \/ Tree[r] = Malformed
    \/ LET f == FragmentsOf(r)
           s == Summary(provider, f)
       IN  Reports(s, Normalize(provider, s, f, NewIds(FALSE, {}), None)) > 0

(* What a record adds to a pass: a diagnostic if it is bad, unless it has been met; *)
(* and then it has been.                                                            *)
Advances(provider, r, n, m) ==
    /\ Trails(m, m, 0) /\ n.diagnostics <= m.diagnostics
    /\ m.diagnostics # n.diagnostics => Bad(provider, r)
    /\ Bad(provider, r) => n.diagnostics < m.diagnostics \/ MetIn(n.ids, r)
    /\ \A q : MetIn(m.ids, q) => MetIn(n.ids, q) \/ q = r

(* Every record, malformed, seen before or new, adds just that. *)
LEMMA RecordAdvances ==
  ASSUME NEW provider \in {"codex", "claude", "copilot"}, NEW r \in DOMAIN Tree,
         NEW line, NEW n, Trails(n, n, 0)
  PROVE  Advances(provider, r, n, RecordOf(provider, r, line, n))
  <1>1. PICK m : m = RecordOf(provider, r, line, n)
    OBVIOUS
  <1>2. Trails(m, m, 0)
    <2>1. 0 \in Nat /\ (n.session # n.session => SessionAt(provider, r) = None)
      OBVIOUS
    <2> QED BY <1>1, <2>1, RecordTrails
  <1>3. n.diagnostics \in Nat /\ IdsOk(n.ids)
    BY DEF Trails, IsNormalised, IdsSame
  <1>4. CASE Tree[r] = Malformed
    <2>1. PICK d : d = n.diagnostics + 1
      OBVIOUS
    <2>2. m = [n EXCEPT !.diagnostics = d]
      BY <1>1, <1>4, <2>1 DEF RecordOf
    <2>3. m.diagnostics = d /\ m.ids = n.ids
      BY <2>2 DEF Trails, IsNormalised
    <2>4. n.diagnostics < m.diagnostics
      BY <1>3, <2>1, <2>3
    <2>5. n.diagnostics <= m.diagnostics
      BY <1>3, <2>1, <2>3
    <2>6. Bad(provider, r)
      BY <1>4 DEF Bad
    <2>7. \A q : MetIn(m.ids, q) => MetIn(n.ids, q)
      BY <2>3
    <2>8. Advances(provider, r, n, m)
      BY <1>2, <2>4, <2>5, <2>6, <2>7 DEF Advances
    <2> QED BY <1>1, <2>8
  <1>5. CASE Tree[r] # Malformed
    <2>1. PICK f : f = FragmentsOf(r)
      OBVIOUS
    <2>2. PICK s : s = Summary(provider, f)
      OBVIOUS
    <2>3. PICK k : k = OrElse(s.session, n.session)
      OBVIOUS
    <2>4. PICK x : x = SeenIds(s, r, n)
      OBVIOUS
    <2>5. PICK u : u = Normalize(provider, s, f, x, k)
      OBVIOUS
    <2>6. m = IF IsSeen(s, r, n) THEN n ELSE Normalised3(s, u, n, line, k)
      BY <1>1, <1>5, <2>1, <2>2, <2>3, <2>4, <2>5, NormaliseRecordIs DEF RecordOf
    <2>7. CASE IsSeen(s, r, n)
      <3>1. m = n
        BY <2>6, <2>7
      <3>2. MetIn(n.ids, r)
        BY <2>7 DEF IsSeen, HasId, MetIn, Known
      <3>3. Advances(provider, r, n, n)
        BY <1>2, <1>3, <3>1, <3>2 DEF Advances
      <3> QED BY <1>1, <3>1, <3>3
    <2>8. CASE ~IsSeen(s, r, n)
      <3>1. PICK c, d : /\ c = n.chunks \o ChunksOf(u.items, line)
                        /\ d = n.diagnostics + Reports(s, u)
        OBVIOUS
      <3>2. m = PassOf(c, u.ids, k, d)
        BY <2>6, <2>8, <3>1 DEF Normalised3
      <3>0. PICK e : e = Reports(s, u)
        OBVIOUS
      <3>3. m.ids = u.ids /\ m.diagnostics = n.diagnostics + e
        BY <3>0, <3>1, <3>2 DEF PassOf
      <3>4. e \in 0..2
        <4>1. u.diagnostics \in {0, 1}
          BY <2>5, NormalizeDiagnoses
        <4> QED BY <3>0, <4>1, ReportsCount
      <3>5. Bad(provider, r) <=> e > 0
        <4>0. PICK ids, none : ids = NewIds(FALSE, {}) /\ none = None
          OBVIOUS
        <4>1. PICK z : z = Normalize(provider, s, f, ids, none)
          OBVIOUS
        <4>2. z.diagnostics = u.diagnostics
          BY <2>5, <4>1, SameReports
        <4>3. Bad(provider, r) <=> Reports(s, z) > 0
          BY <1>5, <2>1, <2>2, <4>0, <4>1 DEF Bad
        <4>4. Reports(s, z) = e
          BY <3>0, <4>2 DEF Reports
        <4> QED BY <4>3, <4>4
      <3>6. \A q : MetIn(m.ids, q) => MetIn(n.ids, q) \/ q = r
        <4>1. SUFFICES ASSUME NEW q, MetIn(m.ids, q), q # r PROVE MetIn(n.ids, q)
          OBVIOUS
        <4>2. Registers(x, u.ids)
          BY <2>5, NormalizeRegisters
        <4>3. CASE s.event = None
          <5>1. x = n.ids
            BY <2>4, <4>3 DEF SeenIds
          <5> QED BY <1>3, <3>3, <4>1, <4>2, <5>1, RegisterMeets
        <4>4. CASE s.event # None
          <5>1. PICK id : id = <<s.event, r>>
            OBVIOUS
          <5>2. x = InsertId(n.ids, "seen_event", id, "")
            BY <2>4, <4>4, <5>1 DEF SeenIds
          <5>3. IdsOk(x)
            BY <1>3, <5>2, InsertIdOk
          <5>4. MetIn(x, q)
            BY <3>3, <4>1, <4>2, <5>3, RegisterMeets
          <5>5. MetIn(n.ids, q) \/ \E v : id = <<v, q>>
            BY <1>3, <5>2, <5>4, InsertMeets
          <5> QED BY <4>1, <5>1, <5>5
        <4> QED BY <4>3, <4>4
      <3>7. /\ n.diagnostics <= m.diagnostics
            /\ m.diagnostics # n.diagnostics => e > 0
            /\ e > 0 => n.diagnostics < m.diagnostics
        BY <1>3, <3>3, <3>4
      <3> QED BY <1>1, <1>2, <3>5, <3>6, <3>7 DEF Advances
    <2> QED BY <2>7, <2>8
  <1> QED BY <1>4, <1>5

(* So the diagnostics of a pass tell whether a record of it was bad. *)
Tallies(provider, t, i, start, n) ==
    /\ Trails(n, n, 0)
    /\ n.diagnostics > 0 <=> start.diagnostics > 0 \/ \E j \in 1..i : Bad(provider, t[j])
    /\ \A q : MetIn(n.ids, q) => \E j \in 1..i : t[j] = q

(* One record more is tallied. *)
LEMMA AdvanceTallies ==
  ASSUME NEW provider, NEW t, NEW i \in Nat, NEW k, k = i + 1, NEW start, NEW n, NEW m,
         Tallies(provider, t, i, start, n), Advances(provider, t[k], n, m)
  PROVE  Tallies(provider, t, k, start, m)
  <1>1. n.diagnostics \in Nat /\ m.diagnostics \in Nat
    BY DEF Tallies, Advances, Trails, IsNormalised
  <1>2. \A j : j \in 1..k <=> j \in 1..i \/ j = k
    OBVIOUS
  <1>3. \A q : MetIn(m.ids, q) => \E j \in 1..k : t[j] = q
    BY <1>2 DEF Tallies, Advances
  <1>4. ASSUME m.diagnostics > 0
        PROVE  start.diagnostics > 0 \/ \E j \in 1..k : Bad(provider, t[j])
    <2>1. CASE m.diagnostics = n.diagnostics
      BY <1>2, <1>4, <2>1 DEF Tallies
    <2>2. CASE m.diagnostics # n.diagnostics
      BY <1>2, <2>2 DEF Advances
    <2> QED BY <2>1, <2>2
  <1>5. ASSUME start.diagnostics > 0 \/ \E j \in 1..k : Bad(provider, t[j])
        PROVE  m.diagnostics > 0
    <2>1. CASE n.diagnostics > 0
      BY <1>1, <2>1 DEF Advances
    <2>2. CASE ~(n.diagnostics > 0)
      <3>1. Bad(provider, t[k])
        BY <1>2, <1>5, <2>2 DEF Tallies
      <3>2. ~MetIn(n.ids, t[k])
        BY <2>2, <3>1 DEF Tallies
      <3>3. n.diagnostics < m.diagnostics
        BY <3>1, <3>2 DEF Advances
      <3> QED BY <1>1, <3>3
    <2> QED BY <2>1, <2>2
  <1> QED BY <1>3, <1>4, <1>5 DEF Tallies, Advances

(* A whole pass tallies its records. *)
LEMMA PassTallies ==
  ASSUME NEW provider \in {"codex", "claude", "copilot"}, NEW t \in Seq(DOMAIN Tree),
         NEW l, NEW start, Trails(start, start, 0), \A q : ~MetIn(start.ids, q),
         NEW n, PassTo(provider, t, l, start, n)
  PROVE  Tallies(provider, t, Len(t), start, n)
  <1>1. PICK k : k = Len(t)
    OBVIOUS
  <1>2. k \in Nat /\ k \in 0..k /\ 0 \in 0..k
    BY <1>1
  <1>3. PICK f : IsPass(f, provider, t, l, start, k) /\ n = f[k]
    BY <1>1 DEF PassTo
  <1> DEFINE S == {i \in 0..k : Tallies(provider, t, i, start, f[i])}
  <1>4. S \in SUBSET Nat
    OBVIOUS
  <1>5. 0 \in S
    <2>1. f[0] = start
      BY <1>2, <1>3, PassFirst
    <2>2. Tallies(provider, t, 0, start, start)
      BY DEF Tallies
    <2> QED BY <1>2, <2>1, <2>2
  <1>6. ASSUME NEW i \in 0..k, i # k, i \in S PROVE i + 1 \in S
    <2>1. PICK j : j = i + 1
      OBVIOUS
    <2>2. j \in 0..k /\ j \in 1..k /\ i \in Nat
      BY <1>2, <1>6, <2>1
    <2>3. PICK r, line : r = t[j] /\ line = l + j
      OBVIOUS
    <2>4. PICK x, y : x = f[i] /\ y = f[j]
      OBVIOUS
    <2>5. y = RecordOf(provider, r, line, x)
      BY <1>2, <1>3, <1>6, <2>1, <2>3, <2>4, PassStep
    <2>6. Tallies(provider, t, i, start, x)
      BY <1>6, <2>4
    <2>7. r \in DOMAIN Tree
      BY <1>1, <2>2, <2>3
    <2>8. Trails(x, x, 0)
      BY <2>6 DEF Tallies
    <2>9. Advances(provider, r, x, y)
      BY <2>5, <2>7, <2>8, RecordAdvances
    <2>10. Tallies(provider, t, j, start, y)
      BY <2>1, <2>2, <2>3, <2>6, <2>9, AdvanceTallies
    <2> QED BY <2>1, <2>2, <2>4, <2>10
  <1> HIDE DEF S
  <1>7. 0..k \subseteq S
    BY <1>2, <1>4, <1>5, <1>6, UpTo
  <1> QED BY <1>1, <1>2, <1>3, <1>7 DEF S

(* The first and the second look at a record diagnose it between them. *)
LEMMA DiagnosedIs ==
  ASSUME NEW p, NEW r
  PROVE  Diagnosed(p, r) <=> Counted(r) = 1 \/ Bad(Provider[p], r)
  <1>1. PICK f, s : f = FragmentsOf(r) /\ s = Summary(Provider[p], f)
    OBVIOUS
  <1>2. PICK ids : ids = NewIds(FALSE, {})
    OBVIOUS
  <1>3. PICK d : d = Reports(s, Normalize(Provider[p], s, f, ids, None))
    OBVIOUS
  <1>4. Diagnosed(p, r) <=> Tree[r] = Malformed \/ TruncatedMetadata(Metadata(f)) \/ d > 0
    BY <1>1, <1>2, <1>3 DEF Diagnosed, FragmentsOf
  <1>5. Bad(Provider[p], r) <=> Tree[r] = Malformed \/ d > 0
    BY <1>1, <1>2, <1>3 DEF Bad
  <1>6. Counted(r) = 1 <=> Tree[r] = Malformed \/ TruncatedMetadata(Metadata(f))
    BY <1>1 DEF Counted
  <1> QED BY <1>4, <1>5, <1>6

(* What is rebuilt of a file is diagnosed if and only if a record of it is. *)
LEMMA RebuildDiagnosed ==
  ASSUME NEW p, Provider[p] \in {"codex", "claude", "copilot"}, NEW t \in Seq(DOMAIN Tree)
  PROVE  Rebuild(p, t).diagnostics > 0 <=> \E i \in DOMAIN t : Diagnosed(p, t[i])
  <1>1. PICK provider, k, read : /\ provider = Provider[p] /\ k = Len(t)
                                 /\ read = ReadAll(Provider[p], t)
    OBVIOUS
  <1>2. ReadsAll(provider, t, k, read) /\ read.streamed = t
    BY <1>1, ReadAllReads
  <1>3. Sound(read, 0) /\ (read.diagnostics > 0 <=> \E i \in 1..k : Counted(t[i]) = 1)
    BY <1>2 DEF ReadsAll
  <1>4. PICK s : s = StartOf(read)
    OBVIOUS
  <1>5. read.diagnostics \in Nat
    BY <1>3 DEF Sound, IsRead
  <1>6. /\ IsNormalised(s) /\ IdsOk(s.ids) /\ s.chunks = <<>> /\ s.ids = NoIds
        /\ s.diagnostics = read.diagnostics
    BY <1>4, <1>5, StartIs
  <1>7. s.diagnostics = s.diagnostics + 0
    BY <1>5, <1>6
  <1>8. Trails(s, s, 0)
    BY <1>6, <1>7, FollowsEmpty DEF Trails, IdsSame
  <1>9. \A q : ~MetIn(s.ids, q)
    BY <1>6 DEF MetIn, HasKey, Known, NoIds, IdsOf
  <1>10. PICK n : n = Rebuild(p, t)
    OBVIOUS
  <1>11. n = NormaliseAll(provider, read, s)
    BY <1>1, <1>4, <1>10, RebuildIs
  <1>12. PassTo(provider, t, 0, s, n)
    BY <1>2, <1>3, <1>11, SoundPass
  <1>13. Tallies(provider, t, k, s, n)
    BY <1>1, <1>8, <1>9, <1>12, PassTallies
  <1>14. n.diagnostics > 0 <=> \E i \in 1..k : Counted(t[i]) = 1 \/ Bad(provider, t[i])
    BY <1>3, <1>6, <1>13 DEF Tallies
  <1>15. DOMAIN t = 1..k
    BY <1>1
  <1> QED BY <1>1, <1>10, <1>14, <1>15, DiagnosedIs

(* The ledger of a settled collection describes it file by file: a partial *)
(* last record is pending, a diagnosed one an error, also when an earlier  *)
(* read met it, and a file that is not indexed is excluded or an error.    *)
THEOREM SessionLedgered == Spec => []SettledLedger
  <1>1. TypeOK /\ SInv /\ IndexTrue => SettledLedger
    <2> SUFFICES ASSUME TypeOK, SInv, IndexTrue, Settled, NEW p \in Path
                 PROVE  Described(p)
      BY DEF SettledLedger
    <2>1. PICK o : o = ledger.sources[p]
      OBVIOUS
    <2>2. EntryTrue(p) /\ (rows[p].eligible => RowTrue(p))
      BY SettledHolds
    <2>3. CASE ~rows[p].eligible
      BY <2>2, <2>3 DEF Described, EntryTrue, Tells, Unindexed
    <2>4. CASE rows[p].eligible
      <3>1. /\ rows[p].version = VersionOf(FileAt(p))
            /\ o = IndexedAs(rows[p].version, docs[p].diagnostics)
        BY <2>1, <2>2, <2>4 DEF EntryTrue, Tells, RowTrue, CurrentVersion
      <3>2. Present(rows[p])
        BY <2>4 DEF SInv, RowsTrue
      <3>3. PICK t : t = docs[p].prefix
        OBVIOUS
      <3>4. t = rows[p].version[1]
        BY <3>2, <3>3 DEF SInv, RowsTrue
      <3>5. t = FileAt(p).records /\ rows[p].version[2] = FileAt(p).tail
        BY <3>1, <3>4 DEF VersionOf
      <3>6. t \in Seq(DOMAIN Tree)
        BY <3>3 DEF TypeOK, IsDocs
      <3>7. docs[p].diagnostics = Rebuild(p, t).diagnostics
        BY <3>2, <3>3 DEF IndexTrue, RowsRebuilt, IndexedSo, RebuiltAs
      <3>8. Provider[p] \in {"codex", "claude", "copilot"}
        BY SessionAssumption
      <3>9. docs[p].diagnostics > 0 <=> \E i \in DOMAIN t : Diagnosed(p, t[i])
        BY <3>6, <3>7, <3>8, RebuildDiagnosed
      <3>10. PICK late, bad : /\ late = (docs[p].diagnostics > 0)
                              /\ bad = (\E i \in DOMAIN t : Diagnosed(p, t[i]))
        OBVIOUS
      <3>11. late = bad
        <4>1. late \in BOOLEAN /\ bad \in BOOLEAN
          BY <3>10
        <4>2. late <=> bad
          BY <3>9, <3>10
        <4> QED BY ONLY <4>1, <4>2
      <3>12. o = [known |-> TRUE, version |-> rows[p].version, errors |-> bad,
                  excluded |-> FALSE, pending |-> FileAt(p).tail]
        BY <3>1, <3>5, <3>10, <3>11, Zenon DEF IndexedAs
      <3>13. PICK records : records = FileAt(p).records
        OBVIOUS
      <3>14. bad = (\E i \in DOMAIN records : Diagnosed(p, records[i]))
        BY <3>5, <3>10, <3>13, Zenon
      <3>15. o = [known |-> TRUE, version |-> rows[p].version, excluded |-> FALSE,
                  errors |-> \E i \in DOMAIN records : Diagnosed(p, records[i]),
                  pending |-> FileAt(p).tail]
        <4>1. o = [known |-> TRUE, version |-> rows[p].version, excluded |-> FALSE,
                   errors |-> bad, pending |-> FileAt(p).tail]
          BY <3>12, SMT
        <4> QED BY <3>14, <4>1, Zenon
      <3> QED BY <2>1, <2>4, <3>13, <3>15, Zenon DEF Described
    <2> QED BY <2>3, <2>4
  <1> QED BY <1>1, IndexInductive, PTL

(***************************************************************************)
(* The line of a chunk is that of its record.                              *)
(***************************************************************************)
Lined(c, line) == \A i \in 1..Len(c) : c[i].line = line
Plain(p, a, line) == AppenderTwin(p, p, a, a) /\ Lined(p.chunks, line)

(* What is flushed is under the line, *)
LEMMA PlainFlush ==
  ASSUME NEW a, NEW line, NEW p, Plain(p, a, line)
  PROVE  Plain(FlushCurrent(p, line), a, line)
  <1>1. PICK u : u = FlushCurrent(p, line)
    OBVIOUS
  <1>2. AppenderTwin(u, u, a, a)
    BY <1>1, TwinFlushCurrent DEF Plain
  <1>3. CASE p.text = <<>>
    <2>1. u = p
      BY <1>1, <1>3 DEF FlushCurrent
    <2> QED BY <1>1, <2>1
  <1>4. CASE p.text # <<>>
    <2>1. PICK f, x, c : f = p.active /\ x = p.text /\ c = p.chunks
      OBVIOUS
    <2>2. /\ p = AppenderOf(f, x, c) /\ x # <<>> /\ Lined(c, line) /\ IsSeq(c)
      BY <1>4, <2>1 DEF Plain, AppenderTwin, ChunkTwins
    <2>3. PICK e : e = MakeChunk(f.item, x, line)
      OBVIOUS
    <2>4. PICK d : d = Append(c, e)
      OBVIOUS
    <2>5. u = AppenderOf(f, <<>>, d)
      BY <1>1, <2>2, <2>3, <2>4, FlushCurrentOf
    <2>6. e.line = line
      BY <2>3 DEF MakeChunk
    <2>7. /\ Len(c) \in Nat /\ Len(d) = Len(c) + 1 /\ d[Len(c) + 1] = e
          /\ \A i \in 1..Len(c) : d[i] = c[i]
      BY <2>2, <2>4, AppendIs, SeqIs
    <2>8. \A i \in 1..(Len(c) + 1) : i \in 1..Len(c) \/ i = Len(c) + 1
      BY <2>7
    <2>9. Lined(d, line)
      BY <2>2, <2>6, <2>7, <2>8 DEF Lined
    <2>10. u.chunks = d
      BY <2>5 DEF AppenderOf
    <2> QED BY <1>1, <1>2, <2>9, <2>10 DEF Plain
  <1> QED BY <1>3, <1>4

(* so is what a finished field leaves, *)
LEMMA PlainFinish ==
  ASSUME NEW a, NEW line, NEW p, Plain(p, a, line)
  PROVE  Plain(FinishField(p, line), a, line) /\ FinishField(p, line).text = <<>>
  <1>1. PICK u : u = FlushCurrent(p, line)
    OBVIOUS
  <1>2. Plain(u, a, line)
    BY <1>1, PlainFlush
  <1>3. PICK v : v = [u EXCEPT !.active = NoField]
    OBVIOUS
  <1>4. v.chunks = u.chunks
    BY <1>2, <1>3 DEF Plain, AppenderTwin, AppenderOf
  <1>5. FinishField(p, line) = v
    BY <1>1, <1>3 DEF FinishField
  <1>6. AppenderTwin(v, v, a, a) /\ v.text = <<>>
    BY <1>5, TwinFinishField DEF Plain
  <1> QED BY <1>2, <1>4, <1>5, <1>6 DEF Plain

(* a unit pushed, *)
LEMMA PlainPushUnit ==
  ASSUME NEW a, NEW line, NEW p, Plain(p, a, line), p.active # NoField, NEW unit
  PROVE  Plain(PushUnit(p, unit, line), a, line) /\ PushUnit(p, unit, line).active # NoField
  <1>1. PICK u : u = IF Len(p.text) + 1 > ChunkUnits THEN FlushCurrent(p, line) ELSE p
    OBVIOUS
  <1>2. Plain(u, a, line)
    BY <1>1, PlainFlush
  <1>3. PICK v : v = [u EXCEPT !.text = Append(@, unit)]
    OBVIOUS
  <1>4. v.chunks = u.chunks
    BY <1>2, <1>3 DEF Plain, AppenderTwin, AppenderOf
  <1>5. PushUnit(p, unit, line) = v
    BY <1>1, <1>3 DEF PushUnit
  <1>6. AppenderTwin(v, v, a, a) /\ v.active # NoField
    BY <1>5, TwinPushUnit DEF Plain
  <1> QED BY <1>2, <1>4, <1>5, <1>6 DEF Plain

(* a text, *)
LEMMA PlainPushUnits ==
  ASSUME NEW a, NEW line, NEW p, Plain(p, a, line), p.active # NoField,
         NEW text, IsSeq(text)
  PROVE  Plain(PushUnits(p, text, line), a, line)
  <1>1. PICK n : n = Len(text)
    OBVIOUS
  <1>2. n \in Nat
    BY <1>1, SeqIs
  <1>3. PICK f : f = Pushing(p, text, line)
    OBVIOUS
  <1>4. /\ \A i \in 0..n : f[i] = IF i = 0 THEN p ELSE PushUnit(f[i - 1], text[i], line)
        /\ PushUnits(p, text, line) = f[n]
    BY <1>1, <1>2, <1>3, PushUnitsSteps DEF IsPushing
  <1> DEFINE S == {i \in 0..n : Plain(f[i], a, line) /\ f[i].active # NoField}
  <1>5. S \in SUBSET Nat
    OBVIOUS
  <1>6. 0 \in S
    <2>1. f[0] = p
      BY <1>2, <1>4
    <2> QED BY <1>2, <2>1
  <1>7. ASSUME NEW i \in 0..n, i # n, i \in S PROVE i + 1 \in S
    <2>1. PICK j : j = i + 1
      OBVIOUS
    <2>2. j \in 0..n /\ j # 0 /\ j - 1 = i
      BY <1>2, <1>7, <2>1
    <2>3. f[j] = PushUnit(f[i], text[j], line)
      BY <1>4, <2>2
    <2>4. Plain(f[j], a, line) /\ f[j].active # NoField
      BY <1>7, <2>3, PlainPushUnit
    <2> QED BY <2>1, <2>2, <2>4
  <1> HIDE DEF S
  <1>8. 0..n \subseteq S
    BY <1>2, <1>5, <1>6, <1>7, UpTo
  <1>9. n \in S
    BY <1>2, <1>8
  <1> QED BY <1>4, <1>9 DEF S

(* an item, *)
LEMMA PlainPushText ==
  ASSUME NEW a, NEW line, NEW p, Plain(p, a, line), NEW x, Twin(x, x, a, a)
  PROVE  Plain(PushText(p, x, line), a, line)
  <1>1. PICK t : t = FinishField(p, line)
    OBVIOUS
  <1>2. PICK v : v = [t EXCEPT !.active = [item |-> x]]
    OBVIOUS
  <1>3. Plain(t, a, line) /\ t.text = <<>>
    BY <1>1, PlainFinish
  <1>4. PICK d : d = t.chunks
    OBVIOUS
  <1>5. t = AppenderOf(t.active, <<>>, d) /\ ChunkTwins(d, d, a, a) /\ Lined(d, line)
    BY <1>3, <1>4 DEF Plain, AppenderTwin
  <1>6. v = AppenderOf(HeldOf(x), <<>>, d)
    BY <1>2, <1>5 DEF AppenderOf, HeldOf
  <1>7. HeldTwin(HeldOf(x), HeldOf(x), a, a) /\ HeldOf(x) # NoField
    <2>1. "item" \in DOMAIN HeldOf(x) /\ "item" \notin DOMAIN NoField
      BY DEF HeldOf, NoField
    <2>2. HeldOf(x).item = x
      BY DEF HeldOf
    <2> QED BY <2>1, <2>2 DEF HeldTwin
  <1>8. Plain(v, a, line) /\ v.active # NoField
    BY <1>5, <1>6, <1>7, EmptyIs DEF Plain, AppenderTwin, AppenderOf
  <1>9. PICK b : b = IF x.path = <<>> \/ p.active = NoField \/ p.active.item.path # x.path
                     THEN v ELSE p
    OBVIOUS
  <1>10. Plain(b, a, line) /\ b.active # NoField
    BY <1>8, <1>9
  <1>11. PICK c : c = PushUnits(b, x.text, line)
    OBVIOUS
  <1>12. Plain(c, a, line)
    BY <1>10, <1>11, PlainPushUnits DEF Twin
  <1>13. Plain(FinishField(c, line), a, line)
    BY <1>12, PlainFinish
  <1>14. PushText(p, x, line) = IF x.path = <<>> THEN FinishField(c, line) ELSE c
    BY <1>1, <1>2, <1>9, <1>11 DEF PushText
  <1> QED BY <1>12, <1>13, <1>14

(* and all items of a record. *)
LEMMA ChunksLined ==
  ASSUME NEW a, NEW x, Twins(x, x, a, a), NEW line
  PROVE  IsSeq(ChunksOf(x, line)) /\ Lined(ChunksOf(x, line), line)
  <1>1. PICK s, n : s = Deduplicate(x) /\ n = Len(s)
    OBVIOUS
  <1>2. Twins(s, s, a, a)
    BY <1>1, TwinDeduplicate
  <1>3. n \in Nat /\ \A i \in 1..n : Twin(s[i], s[i], a, a)
    BY <1>1, <1>2, SeqIs DEF Twins
  <1>4. PICK f : f = Chunking(s, line)
    OBVIOUS
  <1>5. /\ \A i \in 0..n : f[i] = IF i = 0 THEN NewAppender ELSE PushText(f[i - 1], s[i], line)
        /\ Chunked(s, line) = FinishField(f[n], line).chunks
    BY <1>1, <1>3, <1>4, ChunkedSteps DEF IsChunking
  <1> DEFINE S == {i \in 0..n : Plain(f[i], a, line)}
  <1>6. S \in SUBSET Nat
    OBVIOUS
  <1>7. 0 \in S
    <2>1. f[0] = NewAppender
      BY <1>3, <1>5
    <2>2. AppenderTwin(NewAppender, NewAppender, a, a)
      BY EmptyIs DEF AppenderTwin, AppenderOf, NewAppender, HeldTwin, ChunkTwins
    <2>3. Lined(NewAppender.chunks, line)
      BY DEF NewAppender, Lined
    <2> QED BY <1>3, <2>1, <2>2, <2>3 DEF Plain
  <1>8. ASSUME NEW i \in 0..n, i # n, i \in S PROVE i + 1 \in S
    <2>1. PICK j : j = i + 1
      OBVIOUS
    <2>2. j \in 0..n /\ j \in 1..n /\ j # 0 /\ j - 1 = i
      BY <1>3, <1>8, <2>1
    <2>3. f[j] = PushText(f[i], s[j], line)
      BY <1>5, <2>2
    <2>4. Plain(f[j], a, line)
      BY <1>3, <1>8, <2>2, <2>3, PlainPushText
    <2> QED BY <2>1, <2>2, <2>4
  <1> HIDE DEF S
  <1>9. 0..n \subseteq S
    BY <1>3, <1>6, <1>7, <1>8, UpTo
  <1>10. Plain(f[n], a, line)
    BY <1>3, <1>9 DEF S
  <1>11. Plain(FinishField(f[n], line), a, line)
    BY <1>10, PlainFinish
  <1>12. ChunksOf(x, line) = FinishField(f[n], line).chunks
    BY <1>1, <1>5 DEF ChunksOf
  <1> QED BY <1>11, <1>12 DEF Plain, AppenderTwin, ChunkTwins

(* No items make no chunks. *)
LEMMA NoItems ==
  ASSUME NEW line
  PROVE  ChunksOf(<<>>, line) = <<>>
  <1>1. Len(<<>>) = 0 /\ 0 \in Nat
    OBVIOUS
  <1>2. PICK f : f = Deduplicating(<<>>)
    OBVIOUS
  <1>3. Deduplicate(<<>>) = FinishActive(f[0]).output /\ f[0] = NewDeduper
    BY <1>1, <1>2, DeduplicateSteps DEF IsDeduplicating
  <1>4. Deduplicate(<<>>) = <<>>
    BY <1>3 DEF FinishActive, NewDeduper
  <1>5. PICK g : g = Chunking(<<>>, line)
    OBVIOUS
  <1>6. Chunked(<<>>, line) = FinishField(g[0], line).chunks /\ g[0] = NewAppender
    BY <1>1, <1>5, ChunkedSteps DEF IsChunking
  <1>7. FlushCurrent(NewAppender, line) = NewAppender
    BY DEF FlushCurrent, NewAppender
  <1>8. FinishField(NewAppender, line).chunks = <<>>
    BY <1>7 DEF FinishField, NewAppender
  <1> QED BY <1>4, <1>6, <1>8 DEF ChunksOf

(***************************************************************************)
(* A call of an own tool is known from when it is normalised, and an       *)
(* answer to a known one makes no items.                                   *)
(***************************************************************************)
(* Nothing flattens into nothing. *)
LEMMA FlattenNothing ==
  ASSUME NEW n \in Nat, NEW s, s = [i \in 1..n |-> s[i]], \A i \in 1..n : s[i] = <<>>
  PROVE  FlattenSeq(s) = <<>>
  <1>1. Len(s) = n
    BY TableIs
  <1>2. CASE n = 0
    <2>1. s = <<>>
      BY <1>2
    <2> QED BY <1>1, <1>2, <2>1, FlattenSteps
  <1>3. CASE n # 0
    <2>1. PICK g : g = Flattening(s)
      OBVIOUS
    <2>2. FlattenSeq(s) = g[n] /\ IsFlattening(g, s, n)
      BY <1>1, <1>3, <2>1, FlattenSteps
    <2>3. \A i \in 1..n : g[i] = IF i = 1 THEN s[i] ELSE g[i - 1] \o s[i]
      BY <2>2 DEF IsFlattening
    <2> DEFINE S == {i \in 0..n : i = 0 \/ g[i] = <<>>}
    <2>4. S \in SUBSET Nat /\ 0 \in S
      OBVIOUS
    <2>5. ASSUME NEW i \in 0..n, i # n, i \in S PROVE i + 1 \in S
      <3>1. PICK j : j = i + 1
        OBVIOUS
      <3>2. j \in 1..n /\ j \in 0..n /\ j - 1 = i /\ s[j] = <<>>
        BY <2>5, <3>1
      <3>3. g[j] = IF j = 1 THEN <<>> ELSE g[i] \o <<>>
        BY <2>3, <3>2
      <3>4. j # 1 => g[i] = <<>>
        BY <2>5, <3>1
      <3>5. <<>> \o <<>> = <<>>
        OBVIOUS
      <3>6. g[j] = <<>>
        BY <3>3, <3>4, <3>5
      <3> QED BY <3>1, <3>2, <3>6
    <2> HIDE DEF S
    <2>6. 0..n \subseteq S
      BY <2>4, <2>5, UpTo
    <2>7. n \in S
      BY <2>6
    <2> QED BY <1>3, <2>2, <2>7 DEF S
  <1> QED BY <1>2, <1>3

(* A fragment of a Claude record that only answers a known call is not shown. *)
LEMMA AnswerUnrouted ==
  ASSUME NEW r, NEW f, f = FragmentsOf(r), NEW s, s = Summary("claude", f),
         NEW call, OnlyAnswers("claude", r, call), NEW ids, OwnResult(ids, call), NEW c,
         NEW i \in DOMAIN f
  PROVE  ClaudeItems(s, f, ids, c, f[i]) = <<>>
  <1>1. PICK x : x = f[i]
    OBVIOUS
  <1>2. PICK keys : keys = KeysOf(x.path)
    OBVIOUS
  <1>3. PICK result : result = OrElse(BlockScalar(s, f, "tool_result", "tool_use_id"), s.toolUse)
    OBVIOUS
  <1>4. PICK block : block = IF Len(keys) >= 3 /\ Starts(x, <<"message", "content">>)
                             THEN InnermostType(s, x.path) ELSE None
    OBVIOUS
  <1>5. /\ result = call
        /\ Starts(x, <<"message", "content">>) => Len(keys) >= 3 /\ block = "tool_result"
    BY <1>1, <1>2, <1>3, <1>4 DEF OnlyAnswers
  <1>6. keys # <<"message", "content">>
    <2> SUFFICES ASSUME keys = <<"message", "content">> PROVE FALSE
      OBVIOUS
    <2>1. Len(keys) = 2
      OBVIOUS
    <2>2. IsPrefix(<<"message", "content">>, keys)
      BY DEF IsPrefix
    <2>3. Starts(x, <<"message", "content">>)
      BY <1>2, <2>2 DEF Starts
    <2> QED BY <1>5, <2>1, <2>3
  <1>7. block \in {"tool_result", None}
    BY <1>4, <1>5
  <1>8. block # "text" /\ block # "tool_use"
    BY <1>7 DEF None
  <1>9. OwnResult(ids, result)
    BY <1>5
  <1> DEFINE shown == (keys = <<"message", "content">> /\ s.role # "tool") \/ block = "text"
             input == block = "tool_use" /\ \E k \in DOMAIN keys : keys[k] = "input"
             answers == /\ block = "tool_result" /\ \E k \in DOMAIN keys : keys[k] = "content"
                        /\ ~OwnResult(ids, result)
             one == Emit(<<x>>, None, s.role, None, c)
             name == OrDefault(BlockScalar(s, f, "tool_use", "name"))
             two == Emit(<<x>>, None, "tool", name, c)
             three == Emit(<<x>>, "tool_result", "tool", ResultTool(ids, result), c)
  <1>10. ClaudeItems(s, f, ids, c, x) = CASE shown -> one [] input -> two [] answers -> three
                                          [] OTHER -> <<>>
    BY <1>2, <1>3, <1>4 DEF ClaudeItems
  <1>11. ~shown /\ ~input /\ ~answers
    BY <1>6, <1>8, <1>9
  <1> HIDE DEF shown, input, answers, name, one, two, three
  <1> QED BY <1>1, <1>10, <1>11

(* So an answer to a known call, and nothing else, makes no items, *)
LEMMA AnswerUnshown ==
  ASSUME NEW provider \in {"codex", "claude", "copilot"}, NEW r \in DOMAIN Tree,
         NEW f, f = FragmentsOf(r), NEW s, s = Summary(provider, f),
         NEW call, OnlyAnswers(provider, r, call), NEW ids, OwnResult(ids, call), NEW h
  PROVE  Normalize(provider, s, f, ids, h).items = <<>>
  <1>1. PICK c : c = ContextOf(OrElse(s.session, OrElse(h, "unknown")), s.event)
    OBVIOUS
  <1>2. CASE provider = "codex"
    <2>1. Normalize(provider, s, f, ids, h) = NormalizeCodex(s, f, ids, c)
      BY <1>1, <1>2 DEF Normalize, ContextOf
    <2>2. PICK payload : payload = FieldAt(f, <<"payload", "type">>)
      OBVIOUS
    <2>3. /\ s.kind = "response_item" /\ s.call = call
          /\ payload \in {"function_call_output", "custom_tool_call_output"}
      BY <1>2, <2>2 DEF OnlyAnswers
    <2>4. OwnResult(ids, s.call)
      BY <2>3
    <2>5. /\ s.kind \notin {"session_meta", "turn_context", None}
          /\ payload # "message" /\ payload \notin {"function_call", "custom_tool_call"}
      BY <2>3 DEF None
    <2>6. NormalizeCodex(s, f, ids, c) = Outcome3(<<>>, ids, 0)
      BY <2>2, <2>3, <2>4, <2>5 DEF NormalizeCodex
    <2> QED BY <2>1, <2>6 DEF Outcome3
  <1>3. CASE provider = "claude"
    <2>1. Normalize(provider, s, f, ids, h) = NormalizeClaude(s, f, ids, c)
      BY <1>1, <1>3 DEF Normalize, ContextOf
    <2>2. ~HasType(s.types, "tool_use")
      BY <1>3 DEF OnlyAnswers
    <2>3. PICK n : n = Len(f)
      OBVIOUS
    <2>4. n \in Nat /\ DOMAIN f = 1..n
      BY <2>3, CapturedIs
    <2>5. PICK t : t = [i \in DOMAIN f |-> ClaudeItems(s, f, ids, c, f[i])]
      OBVIOUS
    <2>6. \A i \in 1..n : t[i] = <<>>
      BY <1>3, <2>4, <2>5, AnswerUnrouted
    <2>7. t = [i \in 1..n |-> t[i]]
      BY <2>4, <2>5
    <2>8. FlattenSeq(t) = <<>>
      BY <2>4, <2>6, <2>7, FlattenNothing
    <2>9. <<>> \o <<>> = <<>>
      OBVIOUS
    <2>10. NormalizeClaude(s, f, ids, c).items \in {FlattenSeq(t) \o <<>>, <<>>}
      BY <2>2, <2>5 DEF NormalizeClaude, Outcome3
    <2> QED BY <2>1, <2>8, <2>9, <2>10
  <1>4. CASE provider = "copilot"
    <2>1. Normalize(provider, s, f, ids, h) = NormalizeCopilot(s, f, ids, c)
      BY <1>1, <1>4 DEF Normalize, ContextOf
    <2>2. /\ s.kind \in {"tool.execution_complete", "tool.complete", "tool_result",
                         "tool.result"}
          /\ s.call = call
      BY <1>4 DEF OnlyAnswers
    <2>3. OwnResult(ids, s.call)
      BY <2>2
    <2>4. /\ s.kind \notin {"session.start", "session.resume", "session.info"}
          /\ s.kind \notin {"user.message", "assistant.message"}
          /\ s.kind \notin {"tool.execution_start", "tool.start", "tool_use", "tool.call"}
      BY <2>2
    <2>5. NormalizeCopilot(s, f, ids, c) = Outcome3(<<>>, ids, 0)
      BY <2>2, <2>3, <2>4 DEF NormalizeCopilot
    <2> QED BY <2>1, <2>5 DEF Outcome3
  <1> QED BY <1>2, <1>3, <1>4

(* and what an insertion, *)
LEMMA InsertGrows ==
  ASSUME NEW x, IdsOk(x), NEW kind, NEW id, NEW value
  PROVE  /\ Known(x) \subseteq Known(InsertId(x, kind, id, value))
         /\ HasId(InsertId(x, kind, id, value), kind, id)
  <1>1. PICK u, k : u = InsertId(x, kind, id, value) /\ k = IdKey(kind, id)
    OBVIOUS
  <1>2. Known(u) = IF HasKey(Known(x), k) THEN Known(x) ELSE Known(x) \cup {Pair(k, value)}
    BY <1>1, InsertIdOk
  <1>3. HasKey(Known(u), k)
    <2>1. Pair(k, value).key = k
      BY DEF Pair
    <2> QED BY <1>2, <2>1 DEF HasKey
  <1> QED BY <1>1, <1>2, <1>3 DEF HasId, Known

(* the registration of a call, *)
LEMMA RegisterGrows ==
  ASSUME NEW x, IdsOk(x), NEW call, NEW name
  PROVE  /\ Known(x) \subseteq Known(RegisterCall(x, call, name))
         /\ call # None /\ name \in OwnTools => OwnResult(RegisterCall(x, call, name), call)
  <1>1. PICK v : v = InsertId(x, "tool_call", call, OrDefault(name))
    OBVIOUS
  <1>2. PICK w : w = InsertId(v, "own_call", call, name)
    OBVIOUS
  <1>3. IdsOk(v) /\ Known(x) \subseteq Known(v)
    BY <1>1, InsertIdOk, InsertGrows
  <1>4. Known(v) \subseteq Known(w) /\ HasId(w, "own_call", call)
    BY <1>2, <1>3, InsertGrows
  <1>5. RegisterCall(x, call, name) = IF call = None THEN x
                                      ELSE IF name \in OwnTools THEN w ELSE v
    BY <1>1, <1>2 DEF RegisterCall
  <1> QED BY <1>3, <1>4, <1>5 DEF OwnResult

(* and a normalisation know of calls is not forgotten; *)
LEMMA NormalizeGrows ==
  ASSUME NEW provider \in {"codex", "claude", "copilot"}, NEW s, NEW f, NEW x, IdsOk(x), NEW h
  PROVE  Known(x) \subseteq Known(Normalize(provider, s, f, x, h).ids)
  <1>1. PICK u : u = Normalize(provider, s, f, x, h).ids
    OBVIOUS
  <1>2. PICK call, name : u \in {x, RegisterCall(x, call, name)}
    BY <1>1, NormalizeRegisters DEF Registers
  <1> QED BY <1>1, <1>2, RegisterGrows

(* and the call of an own tool is known once it is normalised. *)
LEMMA CallRegistered ==
  ASSUME NEW provider \in {"codex", "claude", "copilot"}, NEW r,
         NEW f, f = FragmentsOf(r), NEW s, s = Summary(provider, f),
         NEW call, call # None, CallsOwn(provider, r, call), NEW x, IdsOk(x), NEW h
  PROVE  OwnResult(Normalize(provider, s, f, x, h).ids, call)
  <1>1. PICK c : c = ContextOf(OrElse(s.session, OrElse(h, "unknown")), s.event)
    OBVIOUS
  <1>2. CASE provider = "codex"
    <2>1. Normalize(provider, s, f, x, h) = NormalizeCodex(s, f, x, c)
      BY <1>1, <1>2 DEF Normalize, ContextOf
    <2>2. PICK payload : payload = FieldAt(f, <<"payload", "type">>)
      OBVIOUS
    <2>3. /\ s.kind = "response_item" /\ s.call = call /\ s.name \in OwnTools
          /\ payload \in {"function_call", "custom_tool_call"}
      BY <1>2, <2>2 DEF CallsOwn
    <2>4. s.kind \notin {"session_meta", "turn_context", None} /\ payload # "message"
      BY <2>3 DEF None
    <2>5. NormalizeCodex(s, f, x, c).ids = RegisterCall(x, s.call, s.name)
      BY <2>2, <2>3, <2>4 DEF NormalizeCodex, Outcome3
    <2> QED BY <2>1, <2>3, <2>5, RegisterGrows
  <1>3. CASE provider = "claude"
    <2>1. Normalize(provider, s, f, x, h) = NormalizeClaude(s, f, x, c)
      BY <1>1, <1>3 DEF Normalize, ContextOf
    <2>2. PICK id, name : /\ id = BlockScalar(s, f, "tool_use", "id")
                          /\ name = BlockScalar(s, f, "tool_use", "name")
      OBVIOUS
    <2>3. /\ s.kind \in {"user", "assistant"} /\ HasType(s.types, "tool_use")
          /\ name \in OwnTools /\ id = call
      BY <1>3, <2>2 DEF CallsOwn
    <2>4. PICK t, y : /\ t = FlattenSeq([i \in DOMAIN f |-> ClaudeItems(s, f, x, c, f[i])])
                              \o EmitName(name, c)
                      /\ y = RegisterCall(x, id, name)
      OBVIOUS
    <2>5. NormalizeClaude(s, f, x, c).ids = y
      <3>1. s.kind \notin {"system", "summary", "progress", "file-history-snapshot", None}
        BY <2>3 DEF None
      <3>2. NormalizeClaude(s, f, x, c) = Outcome3(t, y, 0)
        BY <2>2, <2>3, <2>4, <3>1 DEF NormalizeClaude
      <3> QED BY <3>2 DEF Outcome3
    <2> QED BY <2>1, <2>3, <2>4, <2>5, RegisterGrows
  <1>4. CASE provider = "copilot"
    <2>1. Normalize(provider, s, f, x, h) = NormalizeCopilot(s, f, x, c)
      BY <1>1, <1>4 DEF Normalize, ContextOf
    <2>2. /\ s.kind \in {"tool.execution_start", "tool.start", "tool_use", "tool.call"}
          /\ s.call = call /\ s.name \in OwnTools
      BY <1>4 DEF CallsOwn
    <2>3. /\ s.kind \notin {"session.start", "session.resume", "session.info"}
          /\ s.kind \notin {"user.message", "assistant.message"}
      BY <2>2
    <2>4. NormalizeCopilot(s, f, x, c).ids = RegisterCall(x, s.call, s.name)
      BY <2>2, <2>3 DEF NormalizeCopilot, Outcome3
    <2> QED BY <2>1, <2>2, <2>4, RegisterGrows
  <1> QED BY <1>2, <1>3, <1>4

(* What a record leaves of a pass: what was known still is, the calls of own *)
(* tools that it makes unless it has been met, and chunks under its line,    *)
(* none if it only answers a known call.                                     *)
Adds(provider, r, line, n, m, c) ==
    /\ IsSeq(c) /\ Lined(c, line) /\ m.chunks = n.chunks \o c
    /\ \A call : OwnResult(n.ids, call) /\ OnlyAnswers(provider, r, call) => c = <<>>
Shows(provider, r, line, n, m) ==
    /\ Trails(m, m, 0)
    /\ \A call : OwnResult(n.ids, call) => OwnResult(m.ids, call)
    /\ \A q : MetIn(m.ids, q) => MetIn(n.ids, q) \/ q = r
    /\ \A call : call # None /\ CallsOwn(provider, r, call) =>
          MetIn(n.ids, r) \/ OwnResult(m.ids, call)
    /\ \E c : Adds(provider, r, line, n, m, c)

(* A call that is known in one set of identifiers is in one that knows more. *)
LEMMA KnownOwn ==
  ASSUME NEW x, NEW y, Known(x) \subseteq Known(y), NEW call, OwnResult(x, call)
  PROVE  OwnResult(y, call)
  BY DEF OwnResult, HasId, HasKey, Known

(* Nothing added is nothing added. *)
LEMMA AddsNothing ==
  ASSUME NEW provider, NEW r, NEW line, NEW n, NEW m, IsSeq(n.chunks), m.chunks = n.chunks
  PROVE  Adds(provider, r, line, n, m, <<>>)
  <1>1. n.chunks \o <<>> = n.chunks
    BY DEF IsSeq
  <1>2. Lined(<<>>, line)
    BY DEF Lined
  <1> QED BY <1>1, <1>2, EmptyIs DEF Adds

(* Every record leaves just that. *)
LEMMA RecordShows ==
  ASSUME NEW provider \in {"codex", "claude", "copilot"}, NEW r \in DOMAIN Tree,
         NEW line, NEW n, Trails(n, n, 0)
  PROVE  Shows(provider, r, line, n, RecordOf(provider, r, line, n))
  <1>1. PICK m : m = RecordOf(provider, r, line, n)
    OBVIOUS
  <1>2. Advances(provider, r, n, m)
    BY <1>1, RecordAdvances
  <1>3. Trails(m, m, 0) /\ \A q : MetIn(m.ids, q) => MetIn(n.ids, q) \/ q = r
    BY <1>2 DEF Advances
  <1>4. IdsOk(n.ids) /\ IsSeq(n.chunks)
    BY DEF Trails, IdsSame, Follows
  <1>5. CASE Tree[r] = Malformed
    <2>1. PICK d : d = n.diagnostics + 1
      OBVIOUS
    <2>2. m = [n EXCEPT !.diagnostics = d]
      BY <1>1, <1>5, <2>1 DEF RecordOf
    <2>3. m.chunks = n.chunks /\ m.ids = n.ids
      BY <2>2 DEF Trails, IsNormalised
    <2>4. Adds(provider, r, line, n, m, <<>>)
      BY <1>4, <2>3, AddsNothing
    <2>5. \A call : ~CallsOwn(provider, r, call)
      BY <1>5 DEF CallsOwn
    <2>6. Shows(provider, r, line, n, m)
      BY <1>3, <2>3, <2>4, <2>5 DEF Shows
    <2> QED BY <1>1, <2>6
  <1>6. CASE Tree[r] # Malformed
    <2>1. PICK f : f = FragmentsOf(r)
      OBVIOUS
    <2>2. PICK s : s = Summary(provider, f)
      OBVIOUS
    <2>3. PICK k : k = OrElse(s.session, n.session)
      OBVIOUS
    <2>4. PICK x : x = SeenIds(s, r, n)
      OBVIOUS
    <2>5. PICK u : u = Normalize(provider, s, f, x, k)
      OBVIOUS
    <2>6. m = IF IsSeen(s, r, n) THEN n ELSE Normalised3(s, u, n, line, k)
      BY <1>1, <1>6, <2>1, <2>2, <2>3, <2>4, <2>5, NormaliseRecordIs DEF RecordOf
    <2>7. CASE IsSeen(s, r, n)
      <3>1. m = n
        BY <2>6, <2>7
      <3>2. MetIn(n.ids, r)
        BY <2>7 DEF IsSeen, HasId, MetIn, Known
      <3>3. Adds(provider, r, line, n, m, <<>>)
        BY <1>4, <3>1, AddsNothing
      <3>4. Shows(provider, r, line, n, m)
        BY <1>3, <3>1, <3>2, <3>3 DEF Shows
      <3> QED BY <1>1, <3>4
    <2>8. CASE ~IsSeen(s, r, n)
      <3>1. PICK c, d : /\ c = ChunksOf(u.items, line)
                        /\ d = n.diagnostics + Reports(s, u)
        OBVIOUS
      <3>2. m = PassOf(n.chunks \o c, u.ids, k, d)
        BY <2>6, <2>8, <3>1 DEF Normalised3
      <3>3. m.ids = u.ids /\ m.chunks = n.chunks \o c
        BY <3>2 DEF PassOf
      <3>4. IdsOk(x) /\ Known(n.ids) \subseteq Known(x)
        <4>1. CASE s.event = None
          BY <1>4, <2>4, <4>1 DEF SeenIds
        <4>2. CASE s.event # None
          <5>1. PICK e : e = <<s.event, r>>
            OBVIOUS
          <5>2. PICK kind, v : kind = "seen_event" /\ v = ""
            OBVIOUS
          <5>3. x = InsertId(n.ids, kind, e, v)
            BY <2>4, <4>2, <5>1, <5>2 DEF SeenIds
          <5>4. IdsOk(n.ids)
            BY <1>4
          <5>5. IdsOk(x)
            BY ONLY <5>3, <5>4, InsertIdOk
          <5>6. Known(n.ids) \subseteq Known(x)
            BY ONLY <5>3, <5>4, InsertGrows
          <5> QED BY <5>5, <5>6
        <4> QED BY <4>1, <4>2
      <3>5. Known(x) \subseteq Known(u.ids)
        BY <2>5, <3>4, NormalizeGrows
      <3>6. \A call : OwnResult(n.ids, call) => OwnResult(x, call) /\ OwnResult(m.ids, call)
        BY <3>3, <3>4, <3>5, KnownOwn
      <3>7. \A call : call # None /\ CallsOwn(provider, r, call) => OwnResult(m.ids, call)
        <4> SUFFICES ASSUME NEW call, call # None, CallsOwn(provider, r, call)
                     PROVE  OwnResult(m.ids, call)
          OBVIOUS
        <4>1. OwnResult(u.ids, call)
          BY <2>1, <2>2, <2>5, <3>4, CallRegistered
        <4> QED BY <3>3, <4>1
      <3>8. IsSeq(c) /\ Lined(c, line)
        <4>1. PICK a : a = OrElse(s.session, OrElse(k, "unknown"))
          OBVIOUS
        <4>2. OutcomeTwin(u, u, a, a)
          BY <2>1, <2>5, <4>1, CapturedIs, TwinNormalize
        <4>3. Twins(u.items, u.items, a, a)
          BY <4>2 DEF OutcomeTwin
        <4> QED BY <3>1, <4>3, ChunksLined
      <3>9. \A call : OwnResult(n.ids, call) /\ OnlyAnswers(provider, r, call) => c = <<>>
        <4> SUFFICES ASSUME NEW call, OwnResult(n.ids, call), OnlyAnswers(provider, r, call)
                     PROVE  c = <<>>
          OBVIOUS
        <4>1. OwnResult(x, call)
          BY <3>6
        <4>2. u.items = <<>>
          BY <2>1, <2>2, <2>5, <4>1, AnswerUnshown
        <4> QED BY <3>1, <4>2, NoItems
      <3>10. Adds(provider, r, line, n, m, c)
        BY <3>3, <3>8, <3>9 DEF Adds
      <3>11. Shows(provider, r, line, n, m)
        BY <1>3, <3>6, <3>7, <3>10 DEF Shows
      <3> QED BY <1>1, <3>11
    <2> QED BY <2>7, <2>8
  <1> QED BY <1>5, <1>6

(* The place j of a file holds an answer, and nothing else, to a call of an *)
(* own tool that is made before it.                                         *)
Answers(provider, t, j) ==
    \E call : /\ call # None /\ OnlyAnswers(provider, t[j], call)
              /\ \E h \in 1..(j - 1) : CallsOwn(provider, t[h], call)

(* A pass that has come to place i knows the calls of own tools before it,  *)
(* and has made no chunk of an answer to one.                               *)
Excludes(provider, t, i, n) ==
    /\ Trails(n, n, 0)
    /\ \A q : MetIn(n.ids, q) => \E j \in 1..i : t[j] = q
    /\ \A j \in 1..i : \A call : call # None /\ CallsOwn(provider, t[j], call) =>
          OwnResult(n.ids, call)
    /\ \A k \in 1..Len(n.chunks) :
          n.chunks[k].line \in 1..i /\ ~Answers(provider, t, n.chunks[k].line)

(* A place further it is the same. *)
LEMMA ShowsExcludes ==
  ASSUME NEW provider, NEW t, NEW i \in Nat, NEW k, k = i + 1, NEW n, NEW m,
         Excludes(provider, t, i, n), Shows(provider, t[k], k, n, m)
  PROVE  Excludes(provider, t, k, m)
  <1>1. \A j : j \in 1..k <=> j \in 1..i \/ j = k
    OBVIOUS
  <1>2. \A q : MetIn(m.ids, q) => \E j \in 1..k : t[j] = q
    BY <1>1 DEF Excludes, Shows
  <1>3. ASSUME NEW j \in 1..k, NEW call, call # None, CallsOwn(provider, t[j], call)
        PROVE  OwnResult(m.ids, call)
    <2>1. CASE j \in 1..i
      BY <1>3, <2>1 DEF Excludes, Shows
    <2>2. CASE j = k
      <3>1. MetIn(n.ids, t[k]) \/ OwnResult(m.ids, call)
        BY <1>3, <2>2 DEF Shows
      <3>2. ASSUME MetIn(n.ids, t[k]) PROVE OwnResult(m.ids, call)
        <4>1. PICK h \in 1..i : t[h] = t[k]
          BY <3>2 DEF Excludes
        <4>2. CallsOwn(provider, t[h], call)
          BY <1>3, <2>2, <4>1
        <4> QED BY <1>3, <4>2 DEF Excludes, Shows
      <3> QED BY <3>1, <3>2
    <2> QED BY <1>1, <1>3, <2>1, <2>2
  <1>4. PICK c : Adds(provider, t[k], k, n, m, c)
    BY DEF Shows
  <1>5. PICK s : s = n.chunks
    OBVIOUS
  <1>6. IsSeq(s) /\ IsSeq(c) /\ Lined(c, k) /\ m.chunks = s \o c
    BY <1>4, <1>5 DEF Adds, Excludes, Trails, Follows
  <1>7. Len(s) \in Nat /\ Len(c) \in Nat
    BY <1>6, SeqIs
  <1>8. /\ Len(m.chunks) = Len(s) + Len(c)
        /\ \A h \in 1..Len(s) : m.chunks[h] = s[h]
        /\ \A h \in 1..Len(c) : m.chunks[Len(s) + h] = c[h]
    BY <1>6, ConcatIs
  <1>9. ASSUME NEW h \in 1..Len(m.chunks)
        PROVE  m.chunks[h].line \in 1..k /\ ~Answers(provider, t, m.chunks[h].line)
    <2>1. CASE h \in 1..Len(s)
      <3>1. m.chunks[h] = n.chunks[h]
        BY <1>5, <1>8, <2>1
      <3>2. n.chunks[h].line \in 1..i /\ ~Answers(provider, t, n.chunks[h].line)
        BY <1>5, <2>1 DEF Excludes
      <3> QED BY <1>1, <3>1, <3>2
    <2>2. CASE h \notin 1..Len(s)
      <3>1. PICK g : g = h - Len(s)
        OBVIOUS
      <3>2. g \in 1..Len(c) /\ h = Len(s) + g
        BY <1>7, <1>8, <1>9, <2>2, <3>1
      <3>3. m.chunks[h].line = k
        BY <1>6, <1>8, <3>2 DEF Lined
      <3>4. c # <<>>
        BY <3>2
      <3>5. ~Answers(provider, t, k)
        <4> SUFFICES ASSUME NEW call, call # None, OnlyAnswers(provider, t[k], call),
                            NEW j \in 1..(k - 1), CallsOwn(provider, t[j], call)
                     PROVE  FALSE
          BY DEF Answers
        <4>1. j \in 1..i
          OBVIOUS
        <4>2. OwnResult(n.ids, call)
          BY <4>1 DEF Excludes
        <4> QED BY <1>4, <3>4, <4>2 DEF Adds
      <3> QED BY <1>1, <3>3, <3>5
    <2> QED BY <2>1, <2>2
  <1> QED BY <1>2, <1>3, <1>9 DEF Excludes, Shows

(* So it is at the end of a pass. *)
LEMMA PassExcludes ==
  ASSUME NEW provider \in {"codex", "claude", "copilot"}, NEW t \in Seq(DOMAIN Tree),
         NEW start, Trails(start, start, 0), \A q : ~MetIn(start.ids, q), start.chunks = <<>>,
         NEW n, PassTo(provider, t, 0, start, n)
  PROVE  Excludes(provider, t, Len(t), n)
  <1>1. PICK k : k = Len(t)
    OBVIOUS
  <1>2. k \in Nat /\ k \in 0..k /\ 0 \in 0..k
    BY <1>1
  <1>3. PICK l, f : l = 0 /\ IsPass(f, provider, t, l, start, k) /\ n = f[k]
    BY <1>1 DEF PassTo
  <1> DEFINE S == {i \in 0..k : Excludes(provider, t, i, f[i])}
  <1>4. S \in SUBSET Nat
    OBVIOUS
  <1>5. 0 \in S
    <2>1. f[0] = start
      BY <1>2, <1>3, PassFirst
    <2>2. Excludes(provider, t, 0, start)
      BY DEF Excludes
    <2> QED BY <1>2, <2>1, <2>2
  <1>6. ASSUME NEW i \in 0..k, i # k, i \in S PROVE i + 1 \in S
    <2>1. PICK j : j = i + 1
      OBVIOUS
    <2>2. j \in 0..k /\ j \in 1..k /\ i \in Nat
      BY <1>2, <1>6, <2>1
    <2>3. PICK r, line : r = t[j] /\ line = l + j
      OBVIOUS
    <2>4. PICK x, y : x = f[i] /\ y = f[j]
      OBVIOUS
    <2>5. y = RecordOf(provider, r, line, x)
      BY <1>2, <1>3, <1>6, <2>1, <2>3, <2>4, PassStep
    <2>6. Excludes(provider, t, i, x)
      BY <1>6, <2>4
    <2>7. r \in DOMAIN Tree
      BY <1>1, <2>2, <2>3
    <2>8. Trails(x, x, 0)
      BY <2>6 DEF Excludes
    <2>9. Shows(provider, r, j, x, y)
      <3>1. line = j
        BY <1>3, <2>2, <2>3
      <3>2. Shows(provider, r, line, x, y)
        BY <2>5, <2>7, <2>8, RecordShows
      <3> QED BY <3>1, <3>2
    <2>10. Excludes(provider, t, j, y)
      BY <2>1, <2>2, <2>3, <2>6, <2>9, ShowsExcludes
    <2> QED BY <2>1, <2>2, <2>4, <2>10
  <1> HIDE DEF S
  <1>7. 0..k \subseteq S
    BY <1>2, <1>4, <1>5, <1>6, UpTo
  <1> QED BY <1>1, <1>2, <1>3, <1>7 DEF S

(* What is rebuilt of a file has no chunk of an answer to a call of an own tool. *)
LEMMA RebuildExcludes ==
  ASSUME NEW p, Provider[p] \in {"codex", "claude", "copilot"}, NEW t \in Seq(DOMAIN Tree)
  PROVE  Excludes(Provider[p], t, Len(t), Rebuild(p, t))
  <1>1. PICK provider, read : provider = Provider[p] /\ read = ReadAll(Provider[p], t)
    OBVIOUS
  <1>2. ReadsAll(provider, t, Len(t), read) /\ read.streamed = t
    BY <1>1, ReadAllReads
  <1>3. Sound(read, 0)
    BY <1>2 DEF ReadsAll
  <1>4. PICK s : s = StartOf(read)
    OBVIOUS
  <1>5. read.diagnostics \in Nat
    BY <1>3 DEF Sound, IsRead
  <1>6. IsNormalised(s) /\ IdsOk(s.ids) /\ s.chunks = <<>> /\ s.ids = NoIds
    BY <1>4, <1>5, StartIs
  <1>7. s.diagnostics = s.diagnostics + 0
    BY <1>4, <1>5, StartIs
  <1>8. Trails(s, s, 0)
    BY <1>6, <1>7, FollowsEmpty DEF Trails, IdsSame
  <1>9. \A q : ~MetIn(s.ids, q)
    BY <1>6 DEF MetIn, HasKey, Known, NoIds, IdsOf
  <1>10. PICK n : n = Rebuild(p, t)
    OBVIOUS
  <1>11. n = NormaliseAll(provider, read, s)
    BY <1>1, <1>4, <1>10, RebuildIs
  <1>12. PassTo(provider, t, 0, s, n)
    BY <1>2, <1>3, <1>11, SoundPass
  <1>13. Excludes(provider, t, Len(t), n)
    BY <1>1, <1>6, <1>8, <1>9, <1>12, PassExcludes
  <1> QED BY <1>1, <1>10, <1>13

(***************************************************************************)
(* What is indexed are records that the agents write.                      *)
(***************************************************************************)
(* What an agent may write to a file is of its records. *)
LEMMA RecordsOfAre ==
  ASSUME NEW p \in Path
  PROVE  /\ Written[p] \subseteq RecordsOf(p)
         /\ \A f \in Rewritten[p] : Drawn(p, f.records)
         /\ \A f \in Initial : p \in DOMAIN f => Drawn(p, f[p].records)
  <1>1. ASSUME NEW f \in File PROVE Range(f.records) \subseteq DOMAIN Tree
    <2>1. f.records \in Seq(DOMAIN Tree)
      BY <1>1 DEF File
    <2> QED BY <2>1 DEF Range
  <1>2. ASSUME NEW f \in Rewritten[p] PROVE Drawn(p, f.records)
    <2>1. f \in File
      BY <1>2, SessionAssumption
    <2> QED BY <1>1, <1>2, <2>1 DEF Drawn, RecordsOf
  <1>3. ASSUME NEW f \in Initial, p \in DOMAIN f PROVE Drawn(p, f[p].records)
    <2>1. f[p] \in File
      BY <1>3, SessionAssumption
    <2> QED BY <1>1, <1>3, <2>1 DEF Drawn, RecordsOf
  <1>4. Written[p] \subseteq DOMAIN Tree
    BY SessionAssumption
  <1> QED BY <1>2, <1>3, <1>4 DEF RecordsOf

(* At first the files are, and nothing is indexed; *)
LEMMA AuthoredInitial ==
  ASSUME Init
  PROVE  Authored
  <1>1. PICK f \in Initial : content = [p \in Path |-> IF p \in DOMAIN f THEN <<f[p]>> ELSE <<>>]
    BY DEF Init
  <1>2. ASSUME NEW p \in Path, NEW n \in DOMAIN content[p] PROVE Drawn(p, content[p][n].records)
    <2>1. p \in DOMAIN f
      BY <1>1, <1>2
    <2>2. content[p] = <<f[p]>>
      BY <1>1, <2>1
    <2>3. content[p][n] = f[p]
      BY <1>2, <2>2
    <2> QED BY <2>1, <2>3, RecordsOfAre
  <1>3. pc = "idle" /\ \A p \in Path : ~Present(rows[p])
    BY DEF Init, Present, NoRow
  <1> QED BY <1>2, <1>3 DEF Authored, FilesDrawn, RowsDrawn, CommitDrawn

(* one that is written to still is; *)
LEMMA WrittenDrawn ==
  ASSUME TypeOK, FilesDrawn, NEW p \in Path, IsFile(p), NEW f, WriteFile(p, f),
         Drawn(p, f.records)
  PROVE  FilesDrawn'
  <1>1. files[p] \in DOMAIN content[p] /\ content \in [Path -> Seq(File)]
    BY FileTypes DEF TypeOK
  <1>2. content' = [content EXCEPT ![p][files[p]] = f]
    BY DEF WriteFile
  <1>3. \A q \in Path \ {p} : content'[q] = content[q]
    BY <1>1, <1>2
  <1>4. content'[p] = [content[p] EXCEPT ![files[p]] = f]
    BY <1>1, <1>2
  <1>5. /\ DOMAIN content'[p] = DOMAIN content[p] /\ content'[p][files[p]] = f
        /\ \A n \in DOMAIN content[p] : n # files[p] => content'[p][n] = content[p][n]
    BY <1>1, <1>4
  <1>6. ASSUME NEW q \in Path, NEW n \in DOMAIN content'[q]
        PROVE  Drawn(q, content'[q][n].records)
    <2>1. CASE q = p
      BY <1>5, <1>6, <2>1 DEF FilesDrawn
    <2>2. CASE q # p
      BY <1>3, <1>6, <2>2 DEF FilesDrawn
    <2> QED BY <2>1, <2>2
  <1> QED BY <1>6 DEF FilesDrawn

(* so are those that a change of a path leaves. *)
LEMMA ChangesDrawn ==
  ASSUME TypeOK, FilesDrawn, NEW p \in Path,
         \/ Written[p] # {} /\ StartRecord(p)
         \/ \E r \in Written[p] : AppendRecord(p, r)
         \/ Delete(p, Absent) \/ Delete(p, NotFile)
         \/ \E f \in Rewritten[p] : Rewrite(p, f) \/ Replace(p, f)
  PROVE  FilesDrawn'
  <1>1. ASSUME IsFile(p)
        PROVE  FileAt(p).records \in Seq(DOMAIN Tree) /\ Drawn(p, FileAt(p).records)
    BY <1>1, FileTypes DEF FilesDrawn, FileAt
  <1>2. CASE StartRecord(p)
    <2>1. IsFile(p) /\ WriteFile(p, [FileAt(p) EXCEPT !.tail = TRUE])
      BY <1>2 DEF StartRecord
    <2>2. PICK f : f = [FileAt(p) EXCEPT !.tail = TRUE]
      OBVIOUS
    <2>3. f.records = FileAt(p).records
      BY <2>1, <2>2, FileTypes DEF File
    <2> QED BY <1>1, <2>1, <2>2, <2>3, WrittenDrawn
  <1>3. ASSUME NEW r \in Written[p], AppendRecord(p, r) PROVE FilesDrawn'
    <2>1. IsFile(p)
          /\ WriteFile(p, [records |-> Append(FileAt(p).records, r), tail |-> FALSE])
      BY <1>3 DEF AppendRecord
    <2>2. PICK s, t : s = FileAt(p).records /\ t = Append(s, r)
      OBVIOUS
    <2>3. s \in Seq(DOMAIN Tree) /\ Drawn(p, s)
      BY <1>1, <2>1, <2>2
    <2>4. Range(t) = Range(s) \cup {r}
      <3>1. IsSeq(s)
        BY <2>3, TypedSeq
      <3> QED BY <2>2, <3>1, AppendRange DEF Range
    <2>5. Drawn(p, t)
      BY <1>3, <2>3, <2>4, RecordsOfAre DEF Drawn
    <2>6. PICK f : f = [records |-> t, tail |-> FALSE]
      OBVIOUS
    <2> QED BY <2>1, <2>2, <2>5, <2>6, WrittenDrawn
  <1>4. CASE Delete(p, Absent) \/ Delete(p, NotFile)
    <2>1. content' = content
      BY <1>4 DEF Delete
    <2> QED BY <2>1 DEF FilesDrawn
  <1>5. ASSUME NEW f \in Rewritten[p], Rewrite(p, f) PROVE FilesDrawn'
    BY <1>5, RecordsOfAre, WrittenDrawn DEF Rewrite
  <1>6. ASSUME NEW f \in Rewritten[p], Replace(p, f) PROVE FilesDrawn'
    <2>1. content \in [Path -> Seq(File)]
      BY DEF TypeOK
    <2>2. PICK s : s = content[p]
      OBVIOUS
    <2>3. content' = [content EXCEPT ![p] = Append(s, f)]
      BY <1>6, <2>1, <2>2 DEF Replace
    <2>4. content'[p] = Append(s, f) /\ \A q \in Path \ {p} : content'[q] = content[q]
      BY <2>1, <2>3
    <2>5. ASSUME NEW n \in DOMAIN Append(s, f)
          PROVE  Append(s, f)[n] = f \/ (n \in DOMAIN s /\ Append(s, f)[n] = s[n])
      <3>1. s \in Seq(File) /\ f \in File
        BY <1>6, <2>1, <2>2, SessionAssumption
      <3>2. IsSeq(s)
        BY <3>1, TypedSeq
      <3>3. /\ IsSeq(Append(s, f)) /\ Len(Append(s, f)) = Len(s) + 1
            /\ Append(s, f)[Len(s) + 1] = f /\ \A i \in 1..Len(s) : Append(s, f)[i] = s[i]
        BY <3>2, AppendIs
      <3>4. n \in 1..(Len(s) + 1) /\ DOMAIN s = 1..Len(s) /\ Len(s) \in Nat
        BY <2>5, <3>2, <3>3, SeqIs
      <3>5. n = Len(s) + 1 \/ n \in 1..Len(s)
        BY <3>4
      <3> QED BY <3>3, <3>4, <3>5
    <2>6. ASSUME NEW q \in Path, NEW n \in DOMAIN content'[q]
          PROVE  Drawn(q, content'[q][n].records)
      <3>1. CASE q = p
        <4>1. content'[p][n] = f \/ (n \in DOMAIN s /\ content'[p][n] = s[n])
          BY <2>4, <2>5, <2>6, <3>1
        <4> QED BY <1>6, <2>2, <3>1, <4>1, RecordsOfAre DEF FilesDrawn
      <3>2. CASE q # p
        BY <2>4, <2>6, <3>2 DEF FilesDrawn
      <3> QED BY <3>1, <3>2
    <2> QED BY <2>6 DEF FilesDrawn
  <1> QED BY <1>2, <1>3, <1>4, <1>5, <1>6

(* What is verified is the file's, what is committed was verified, and no  *)
(* other step indexes anything.                                            *)
LEMMA WorkerDrawn ==
  ASSUME TypeOK, SInv, Authored, WorkerStep \/ Crash
  PROVE  RowsDrawn' /\ CommitDrawn'
  <1>1. ASSUME SameStore PROVE RowsDrawn'
    BY <1>1 DEF SameStore, Authored, RowsDrawn
  <1>2. CASE Quiet
    BY <1>1, <1>2 DEF Quiet, CommitDrawn
  <1>3. CASE StartRead \/ StreamRecord \/ StreamEnd
    <2>1. pc' # "commit" \/ Quiet
      <3>1. CASE StartRead
        <4>1. pc \in Reading
          BY <3>1 DEF StartRead, Reading
        <4>2. CASE pc' = "stream"
          BY <4>2
        <4>3. CASE AttemptFails(job, FALSE)
          BY <4>1, <4>3, AttemptQuiet
        <4> QED BY <3>1, <4>2, <4>3 DEF StartRead
      <3>2. CASE StreamRecord
        BY <3>2 DEF StreamRecord
      <3>3. CASE StreamEnd
        BY <3>3 DEF StreamEnd, Reject, RetryWith, Settle
      <3> QED BY <1>3, <3>1, <3>2, <3>3
    <2>2. SameStore \/ Quiet
      <3>1. UNCHANGED storeVars => SameStore
        BY DEF SameStore, storeVars
      <3>2. CASE StartRead
        <4>1. pc \in Reading
          BY <3>2 DEF StartRead, Reading
        <4>2. UNCHANGED storeVars \/ AttemptFails(job, FALSE)
          BY <3>2 DEF StartRead
        <4> QED BY <3>1, <4>1, <4>2, AttemptQuiet
      <3>3. CASE StreamRecord
        BY <3>1, <3>3 DEF StreamRecord
      <3>4. CASE StreamEnd
        <4>1. PICK read : read = [job.read EXCEPT
                            !.tail = OpenFile.tail /\ Position(job.read) = Len(OpenFile.records)]
          OBVIOUS
        <4>2. PICK j : j = [job EXCEPT !.read = read]
          OBVIOUS
        <4>3. UNCHANGED storeVars \/ \E o : Reject(j, o)
          BY <3>4, <4>1, <4>2 DEF StreamEnd
        <4>4. ASSUME NEW o, Reject(j, o) PROVE SameStore
          <5>1. CASE UNCHANGED storeVars
            BY <3>1, <5>1
          <5>2. CASE RemoveOld(j.path)
            <6>1. j.path = job.path /\ job.path \in Path
              BY <3>4, <4>2 DEF StreamEnd, TypeOK, IsJob, Scans, Reading, Attempts
            <6> QED BY <5>2, <6>1, RemoveOldSame
          <5> QED BY <4>4, <5>1, <5>2 DEF Reject, RetryWith, Settle
        <4> QED BY <3>1, <4>3, <4>4
      <3> QED BY <1>3, <3>2, <3>3, <3>4
    <2> QED BY <1>1, <1>2, <2>1, <2>2 DEF CommitDrawn
  <1>4. CASE VerifyRead
    <2>1. pc = "verify" /\ pc \in Reading
      BY <1>4 DEF VerifyRead, Reading, Attempts
    <2>2. CASE \E unstable : AttemptFails(job, unstable)
      BY <1>2, <2>1, <2>2, AttemptQuiet
    <2>3. CASE IsFile(job.path) /\ Unchanged(job.path, job.read)
      <3>1. PICK p : p = job.path
        OBVIOUS
      <3>2. p \in Path
        BY <2>1, <3>1 DEF TypeOK, Scans
      <3>3. Verifies(p) /\ UNCHANGED storeVars
        BY <1>4, <2>3, <3>1, VerifyDoes
      <3>4. job'.path = p /\ job'.new.prefix = FileAt(p).records
        BY <3>3 DEF Verifies
      <3>5. Drawn(p, FileAt(p).records)
        <4>1. files[p] \in DOMAIN content[p]
          BY <2>3, <3>1, <3>2, FileTypes
        <4> QED BY <3>2, <4>1 DEF Authored, FilesDrawn, FileAt
      <3>6. CommitDrawn'
        BY <3>4, <3>5 DEF CommitDrawn
      <3>7. SameStore
        BY <3>3 DEF SameStore, storeVars
      <3> QED BY <1>1, <3>6, <3>7
    <2> QED BY <1>4, <2>2, <2>3 DEF VerifyRead
  <1>5. CASE CommitSession
    <2>1. PICK p, v, new : p = job.path /\ v = job.version /\ new = job.new
      OBVIOUS
    <2>2. pc = "commit" /\ pc' = "publish" /\ p \in Path
      BY <1>5, <2>1 DEF CommitSession, TypeOK, Scans, Reading, Attempts
    <2>3. rows' = ReplaceRow(rows, p, v) /\ docs' = [docs EXCEPT ![p] = new]
      BY <1>5, <2>1 DEF CommitSession
    <2>4. \A q \in Path \ {p} : rows'[q] = rows[q] /\ docs'[q] = docs[q]
      <3>1. rows = [q \in Path |-> rows[q]] /\ docs = [q \in Path |-> docs[q]]
        BY DEF TypeOK
      <3> QED BY <2>2, <2>3, <3>1 DEF ReplaceRow
    <2>5. docs'[p] = new
      <3>1. docs = [q \in Path |-> docs[q]]
        BY DEF TypeOK
      <3> QED BY <2>2, <2>3, <3>1
    <2>6. Drawn(p, new.prefix)
      BY <2>1, <2>2 DEF Authored, CommitDrawn
    <2>7. RowsDrawn'
      BY <2>4, <2>5, <2>6 DEF Authored, RowsDrawn
    <2> QED BY <2>2, <2>7 DEF CommitDrawn
  <1>6. Quiet \/ StartRead \/ StreamRecord \/ StreamEnd \/ VerifyRead \/ CommitSession
    BY OtherStepsQuiet DEF WorkerStep
  <1> QED BY <1>2, <1>3, <1>4, <1>5, <1>6

(* No step indexes or writes anything else. *)
LEMMA AuthoredStep ==
  ASSUME TypeOK, SInv, Authored, [Next]_vars
  PROVE  Authored'
  <1>1. ASSUME UNCHANGED content PROVE FilesDrawn'
    BY <1>1 DEF Authored, FilesDrawn
  <1>2. ASSUME UNCHANGED <<pc, job, rows, docs>> PROVE RowsDrawn' /\ CommitDrawn'
    BY <1>2 DEF Authored, RowsDrawn, CommitDrawn
  <1>3. CASE WorkerStep \/ Crash
    <2>1. UNCHANGED content
      BY <1>3 DEF WorkerStep, Crash, WorkerBegin, InvalidateScope, MarkInvalidated, OpenScan,
         Discover, DiscoverDone, StatFile, RemoveUnseen, StartRead, StreamRecord, StreamEnd,
         VerifyRead, ReadFails, CommitSession, PublishSource, CancelScan, FinishRun, FailRun,
         envVars, diskVars
    <2> QED BY <1>1, <1>3, <2>1, WorkerDrawn DEF Authored
  <1>4. CASE Environment /\ ~Crash
    <2>1. RowsDrawn' /\ CommitDrawn'
      BY <1>2, <1>4, EnvironmentSteps
    <2>2. FilesDrawn
      BY DEF Authored
    <2>3. ASSUME NEW p \in Path,
                 \/ Written[p] # {} /\ StartRecord(p)
                 \/ \E r \in Written[p] : AppendRecord(p, r)
                 \/ Rewritten[p] # {} /\ (Delete(p, Absent) \/ Delete(p, NotFile))
                 \/ \E f \in Rewritten[p] : Rewrite(p, f) \/ Replace(p, f)
          PROVE  FilesDrawn'
      BY <2>2, <2>3, ChangesDrawn
    <2>4. ASSUME \/ \E cwd \in Registrable : Register(cwd)
                 \/ \E e \in events, precise \in BOOLEAN : Deliver(e, precise)
          PROVE  FilesDrawn'
      <3>1. UNCHANGED content
        BY <2>4 DEF Register, Deliver, diskVars
      <3> QED BY <1>1, <3>1
    <2>5. FilesDrawn'
      BY <1>4, <2>3, <2>4 DEF Environment
    <2> QED BY <2>1, <2>5 DEF Authored
  <1>5. CASE UNCHANGED vars
    BY <1>1, <1>2, <1>5 DEF vars, Authored
  <1> QED BY <1>3, <1>4, <1>5 DEF Next

(* What is indexed of a file are records that its agent writes, or that were in *)
(* it: no step makes one up or takes one from another file.                    *)
THEOREM IndexAuthored == Spec => [](TypeOK /\ SInv /\ Authored)
  <1>1. Init => TypeOK /\ SInv /\ Authored
    BY SessionInitial, AuthoredInitial
  <1>2. (TypeOK /\ SInv /\ Authored) /\ [Next]_vars => (TypeOK /\ SInv /\ Authored)'
    BY SessionStep, AuthoredStep
  <1> QED BY <1>1, <1>2, PTL DEF Spec

(* No chunk comes from the answer to a call of this program's own tools, by  *)
(* whichever reads call and answer were met: the property OwnResultsExcluded *)
(* for every collection, provided the answers hold nothing else (with a text *)
(* block in one, session_own_results shows the contrary).                    *)
THEOREM SessionOwnResults ==
  ASSUME OwnRecordsRead
  PROVE  Spec => []OwnResultsExcluded
  <1>1. (TypeOK /\ SInv /\ IndexTrue) /\ (TypeOK /\ SInv /\ Authored) => OwnResultsExcluded
    <2> SUFFICES ASSUME TypeOK, SInv, IndexTrue, Authored, NEW p \in Path, Committed(p),
                        NEW i \in DOMAIN docs[p].prefix, OwnAnswer(p, i),
                        NEW k \in DOMAIN docs[p].chunks, docs[p].chunks[k].line = i
                 PROVE  FALSE
      BY DEF OwnResultsExcluded
    <2>1. Present(rows[p])
      BY DEF Committed, IndexTrue, OutcomeCommitted
    <2>2. PICK t, d : t = docs[p].prefix /\ d = docs[p].chunks
      OBVIOUS
    <2>3. PICK n : n = Rebuild(p, t)
      OBVIOUS
    <2>4. Follows(d, n.chunks)
      BY <2>1, <2>2, <2>3 DEF IndexTrue, RowsRebuilt, IndexedSo, RebuiltAs
    <2>5. k \in 1..Len(d) /\ Len(n.chunks) = Len(d)
      BY <2>2, <2>4, SeqIs DEF Follows
    <2>6. n.chunks[k].line = i
      <3>1. FollowsChunk(d[k], n.chunks[k])
        BY <2>4, <2>5 DEF Follows
      <3> QED BY <2>2, <3>1 DEF FollowsChunk, ChunkWith
    <2>7. t \in Seq(DOMAIN Tree)
      BY <2>2 DEF TypeOK, IsDocs
    <2>8. PICK provider : provider = Provider[p]
      OBVIOUS
    <2>9. Excludes(provider, t, Len(t), n)
      BY <2>3, <2>7, <2>8, RebuildExcludes, SessionAssumption
    <2>10. ~Answers(provider, t, i)
      BY <2>5, <2>6, <2>9 DEF Excludes
    <2>11. PICK call : call = AnswerTo[t[i]]
      OBVIOUS
    <2>12. PICK j \in 1..(i - 1) : OwnCallOf[t[j]] = call
      BY <2>2, <2>11 DEF OwnAnswer
    <2>13. call # None
      BY <2>2, <2>11 DEF OwnAnswer
    <2>14. i \in DOMAIN t /\ j \in DOMAIN t
      BY <2>2, <2>7, <2>12
    <2>15. t[i] \in RecordsOf(p) /\ t[j] \in RecordsOf(p)
      BY <2>1, <2>2, <2>14 DEF Authored, RowsDrawn, Drawn, Range
    <2>16. CallsOwn(provider, t[j], call)
      BY <2>8, <2>12, <2>13, <2>15 DEF OwnRecordsRead
    <2>17. call \in OwnCallsOf(p)
      BY <2>12, <2>13, <2>15 DEF OwnCallsOf
    <2>18. OnlyAnswers(provider, t[i], call)
      BY <2>8, <2>11, <2>15, <2>17 DEF OwnRecordsRead
    <2> QED BY <2>10, <2>12, <2>13, <2>16, <2>18 DEF Answers
  <1> QED BY <1>1, IndexInductive, IndexAuthored, PTL

(***************************************************************************)
(* Items into fields, and fields each said once.                           *)
(***************************************************************************)
IsJoining(after, items, n) ==
    after = [i \in 0..n |-> IF i = 0 THEN <<>> ELSE JoinItem(after[i - 1], items[i])]

(* There is a function that joins the items one by one. *)
LEMMA JoiningExists ==
  ASSUME NEW items, NEW n \in Nat
  PROVE  \E after : IsJoining(after, items, n)
  <1> DEFINE Is(f, k) == IsJoining(f, items, k)
             S == {k \in Nat : ~(\E f : Is(f, k))}
  <1>1. SUFFICES ASSUME S # {} PROVE FALSE
    OBVIOUS
  <1>2. PICK k \in S : \A m \in S : k <= m
    BY <1>1, Smallest
  <1>3. k # 0
    <2> DEFINE f == [i \in 0..0 |-> <<>>]
    <2>1. Is(f, 0)
      BY DEF IsJoining
    <2> QED BY <1>2, <2>1
  <1>4. k - 1 \in Nat /\ k - 1 \notin S
    BY <1>2, <1>3
  <1>5. PICK f : Is(f, k - 1)
    BY <1>4
  <1> DEFINE last == JoinItem(f[k - 1], items[k])
             g == [i \in 0..k |-> IF i = k THEN last ELSE f[i]]
  <1>6. ASSUME NEW i \in 0..k
        PROVE  g[i] = IF i = 0 THEN <<>> ELSE JoinItem(g[i - 1], items[i])
    <2>1. CASE i = k
      <3>1. g[k - 1] = f[k - 1] /\ k - 1 \in 0..k
        BY <1>3, <1>4
      <3> QED BY <1>3, <2>1, <3>1
    <2>2. CASE i # k
      <3>1. i \in 0..(k - 1) /\ g[i] = f[i]
        BY <1>3, <2>2
      <3>2. f[i] = IF i = 0 THEN <<>> ELSE JoinItem(f[i - 1], items[i])
        BY <1>5, <3>1 DEF IsJoining
      <3>3. i # 0 => i - 1 \in 0..k /\ g[i - 1] = f[i - 1]
        BY <1>3, <2>2
      <3> QED BY <3>1, <3>2, <3>3
    <2> QED BY <2>1, <2>2
  <1>7. Is(g, k)
    BY <1>6, Zenon DEF IsJoining
  <1> QED BY <1>2, <1>7

(* FieldsOf is the end of such a function, *)
LEMMA JoiningSteps ==
  ASSUME NEW items, Len(items) \in Nat
  PROVE  \E f : IsJoining(f, items, Len(items)) /\ FieldsOf(items) = f[Len(items)]
  <1> DEFINE f == CHOOSE g : IsJoining(g, items, Len(items))
  <1>1. FieldsOf(items) = f[Len(items)]
    BY DEF FieldsOf, IsJoining
  <1>2. IsJoining(f, items, Len(items))
    BY JoiningExists
  <1> QED BY <1>1, <1>2

(* which starts from nothing *)
LEMMA JoiningFirst ==
  ASSUME NEW t, NEW n \in Nat, NEW f, IsJoining(f, t, n)
  PROVE  f[0] = <<>>
  BY DEF IsJoining

(* and takes one more at each step. *)
LEMMA JoiningStep ==
  ASSUME NEW t, NEW n \in Nat, NEW f, IsJoining(f, t, n), NEW i \in 0..n, i # n
  PROVE  f[i + 1] = JoinItem(f[i], t[i + 1])
  <1>1. i + 1 \in 0..n /\ i + 1 # 0 /\ (i + 1) - 1 = i
    OBVIOUS
  <1> QED BY <1>1 DEF IsJoining

IsAdding(after, fields, n) ==
    after = [i \in 0..n |-> IF i = 0 THEN <<>> ELSE AddField(after[i - 1], fields[i])]

(* There is a function that adds the fields one by one. *)
LEMMA AddingExists ==
  ASSUME NEW fields, NEW n \in Nat
  PROVE  \E after : IsAdding(after, fields, n)
  <1> DEFINE Is(f, k) == IsAdding(f, fields, k)
             S == {k \in Nat : ~(\E f : Is(f, k))}
  <1>1. SUFFICES ASSUME S # {} PROVE FALSE
    OBVIOUS
  <1>2. PICK k \in S : \A m \in S : k <= m
    BY <1>1, Smallest
  <1>3. k # 0
    <2> DEFINE f == [i \in 0..0 |-> <<>>]
    <2>1. Is(f, 0)
      BY DEF IsAdding
    <2> QED BY <1>2, <2>1
  <1>4. k - 1 \in Nat /\ k - 1 \notin S
    BY <1>2, <1>3
  <1>5. PICK f : Is(f, k - 1)
    BY <1>4
  <1> DEFINE last == AddField(f[k - 1], fields[k])
             g == [i \in 0..k |-> IF i = k THEN last ELSE f[i]]
  <1>6. ASSUME NEW i \in 0..k
        PROVE  g[i] = IF i = 0 THEN <<>> ELSE AddField(g[i - 1], fields[i])
    <2>1. CASE i = k
      <3>1. g[k - 1] = f[k - 1] /\ k - 1 \in 0..k
        BY <1>3, <1>4
      <3> QED BY <1>3, <2>1, <3>1
    <2>2. CASE i # k
      <3>1. i \in 0..(k - 1) /\ g[i] = f[i]
        BY <1>3, <2>2
      <3>2. f[i] = IF i = 0 THEN <<>> ELSE AddField(f[i - 1], fields[i])
        BY <1>5, <3>1 DEF IsAdding
      <3>3. i # 0 => i - 1 \in 0..k /\ g[i - 1] = f[i - 1]
        BY <1>3, <2>2
      <3> QED BY <3>1, <3>2, <3>3
    <2> QED BY <2>1, <2>2
  <1>7. Is(g, k)
    BY <1>6, Zenon DEF IsAdding
  <1> QED BY <1>2, <1>7

(* Distinct is the end of such a function, *)
LEMMA AddingSteps ==
  ASSUME NEW fields, Len(fields) \in Nat
  PROVE  \E f : IsAdding(f, fields, Len(fields)) /\ Distinct(fields) = f[Len(fields)]
  <1> DEFINE f == CHOOSE g : IsAdding(g, fields, Len(fields))
  <1>1. Distinct(fields) = f[Len(fields)]
    BY DEF Distinct, IsAdding
  <1>2. IsAdding(f, fields, Len(fields))
    BY AddingExists
  <1> QED BY <1>1, <1>2

(* which starts from nothing *)
LEMMA AddingFirst ==
  ASSUME NEW t, NEW n \in Nat, NEW f, IsAdding(f, t, n)
  PROVE  f[0] = <<>>
  BY DEF IsAdding

(* and takes one more at each step. *)
LEMMA AddingStep ==
  ASSUME NEW t, NEW n \in Nat, NEW f, IsAdding(f, t, n), NEW i \in 0..n, i # n
  PROVE  f[i + 1] = AddField(f[i], t[i + 1])
  <1>1. i + 1 \in 0..n /\ i + 1 # 0 /\ (i + 1) - 1 = i
    OBVIOUS
  <1> QED BY <1>1 DEF IsAdding

(* Two joinings agree as long as their items do. *)
LEMMA JoiningAgree ==
  ASSUME NEW t, NEW u, NEW n \in Nat, NEW m \in Nat, n <= m, \A i \in 1..n : t[i] = u[i],
         NEW f, IsJoining(f, t, n), NEW g, IsJoining(g, u, m)
  PROVE  \A i \in 0..n : f[i] = g[i]
  <1> DEFINE S == {i \in 0..n : f[i] = g[i]}
  <1>1. S \in SUBSET Nat /\ 0 \in S
    <2>1. f[0] = <<>>
      BY JoiningFirst
    <2>2. g[0] = <<>>
      BY JoiningFirst
    <2> QED BY <2>1, <2>2
  <1>2. ASSUME NEW i \in 0..n, i # n, i \in S PROVE i + 1 \in S
    <2>1. i \in 0..m /\ i # m /\ i + 1 \in 0..n /\ i + 1 \in 1..n
      BY <1>2
    <2>2. f[i + 1] = JoinItem(f[i], t[i + 1])
      BY <1>2, JoiningStep
    <2>3. g[i + 1] = JoinItem(g[i], u[i + 1])
      BY <2>1, JoiningStep
    <2> QED BY <1>2, <2>1, <2>2, <2>3
  <1> HIDE DEF S
  <1>3. 0..n \subseteq S
    BY <1>1, <1>2, UpTo
  <1> QED BY <1>3 DEF S

(* One item more is joined to the fields of those before it; *)
LEMMA FieldsOfAppend ==
  ASSUME NEW t, IsSeq(t), NEW e
  PROVE  FieldsOf(Append(t, e)) = JoinItem(FieldsOf(t), e)
  <1>1. PICK u, n, m : u = Append(t, e) /\ n = Len(t) /\ m = n + 1
    OBVIOUS
  <1>2. /\ n \in Nat /\ m \in Nat /\ Len(u) = m /\ u[m] = e
        /\ \A i \in 1..n : t[i] = u[i]
    BY <1>1, AppendIs, SeqIs
  <1>3. PICK f : IsJoining(f, t, n) /\ FieldsOf(t) = f[n]
    BY <1>1, <1>2, JoiningSteps
  <1>4. PICK g : IsJoining(g, u, m) /\ FieldsOf(u) = g[m]
    BY <1>2, JoiningSteps
  <1>5. n <= m /\ n \in 0..m /\ n \in 0..n /\ n # m
    BY <1>1, <1>2
  <1>6. f[n] = g[n]
    <2>1. \A i \in 1..n : t[i] = u[i]
      BY <1>2
    <2>2. n \in Nat /\ m \in Nat /\ n <= m
      BY <1>2, <1>5
    <2>3. \A i \in 0..n : f[i] = g[i]
      BY ONLY <1>3, <1>4, <2>1, <2>2, JoiningAgree
    <2> QED BY <1>5, <2>3
  <1>7. g[n + 1] = JoinItem(g[n], u[n + 1])
    <2>1. m \in Nat /\ n \in 0..m /\ n # m
      BY <1>2, <1>5
    <2> QED BY ONLY <1>4, <2>1, JoiningStep
  <1> QED BY <1>1, <1>2, <1>3, <1>4, <1>5, <1>6, <1>7

(* without items there are none. *)
LEMMA FieldsOfNone == FieldsOf(<<>>) = <<>>
  <1>1. Len(<<>>) = 0 /\ Len(<<>>) \in Nat
    OBVIOUS
  <1>2. PICK f : IsJoining(f, <<>>, 0) /\ FieldsOf(<<>>) = f[0]
    BY <1>1, JoiningSteps
  <1> QED BY <1>2, JoiningFirst

(***************************************************************************)
(* A text in pieces.                                                       *)
(***************************************************************************)
PiecesBy(text, c) ==
    [i \in 1..((Len(text) + c - 1) \div c) |->
        SubSeq(text, (i - 1) * c + 1, IF i * c < Len(text) THEN i * c ELSE Len(text))]

(* Pieces and Cut are such pieces, each of its size. *)
LEMMA PiecesBySize ==
  ASSUME NEW text, IsSeq(text)
  PROVE  Pieces(text) = PiecesBy(text, FragmentUnits) /\ Cut(text) = PiecesBy(text, ChunkUnits)
  <1>1. \A a, b \in Int : Min({a, b}) = IF a < b THEN a ELSE b
    BY DEF Min
  <1>2. Len(text) \in Nat /\ ChunkUnits \in Nat
    BY SeqIs, DedupAssumption
  <1>3. PICK n : n = (Len(text) + ChunkUnits - 1) \div ChunkUnits
    OBVIOUS
  <1>4. n \in Int
    BY <1>2, <1>3, DedupAssumption
  <1>5. ASSUME NEW i \in 1..n
        PROVE  Min({i * ChunkUnits, Len(text)})
               = IF i * ChunkUnits < Len(text) THEN i * ChunkUnits ELSE Len(text)
    <2>1. i * ChunkUnits \in Int
      BY <1>2, <1>4
    <2> QED BY <1>1, <1>2, <2>1
  <1>6. Cut(text) = PiecesBy(text, ChunkUnits)
    BY <1>3, <1>5 DEF Cut, PiecesBy
  <1> QED BY <1>6 DEF Pieces, PiecesBy

(* How many: as many as are needed. *)
LEMMA PiecesCount ==
  ASSUME NEW l \in Nat, NEW c \in Nat \ {0}, NEW n, n = (l + c - 1) \div c
  PROVE  /\ n \in Nat /\ l <= n * c /\ (l # 0 => n # 0 /\ (n - 1) * c < l) /\ (l = 0 => n = 0)
         /\ \A m \in Nat : l <= m * c /\ (m # 0 => (m - 1) * c < l) => m = n
  <1>1. PICK a : a = l + c - 1
    OBVIOUS
  <1>2. a \in Nat
    BY <1>1
  <1>3. n \in Nat /\ c * n <= a /\ a < c * n + c
    BY <1>1, <1>2
  <1>4. c * n = n * c /\ (n - 1) * c = n * c - c
    BY <1>3
  <1>5. l <= n * c /\ (l # 0 => n # 0 /\ (n - 1) * c < l) /\ (l = 0 => n = 0)
    BY <1>1, <1>3, <1>4
  <1>6. ASSUME NEW m \in Nat, l <= m * c, m # 0 => (m - 1) * c < l
        PROVE  m = n
    <2>1. CASE m = 0
      BY <1>5, <1>6, <2>1
    <2>2. CASE m # 0
      <3>1. (m - 1) * c = m * c - c /\ c * m = m * c /\ m * c \in Nat
        BY <1>6
      <3>2. c * m <= a /\ a < c * m + c
        BY <1>1, <1>6, <2>2, <3>1
      <3>3. a \div c = m
        BY <1>2, <3>2
      <3> QED BY <1>1, <3>3
    <2> QED BY <2>1, <2>2
  <1> QED BY <1>3, <1>5, <1>6

(* Subsequences, place by place. *)
IsSlice(x, s, m, n) ==
    IsSeq(x) /\ Len(x) = n - m + 1 /\ \A i \in 1..(n - m + 1) : x[i] = s[m + i - 1]

(* A subsequence is a slice. *)
LEMMA SubSeqPlaces ==
  ASSUME NEW s, IsSeq(s), NEW m \in Nat \ {0}, NEW n \in Nat, n <= Len(s), m <= n + 1
  PROVE  IsSlice(SubSeq(s, m, n), s, m, n)
  <1> DEFINE S == {s[i] : i \in DOMAIN s}
  <1>1. s \in Seq(S)
    BY DEF IsSeq
  <1> HIDE DEF S
  <1>2. IsSeq(SubSeq(s, m, n))
    BY SubSeqIs
  <1>3. Len(SubSeq(s, m, n)) = n - m + 1
         /\ \A i \in 1..(n - m + 1) : SubSeq(s, m, n)[i] = s[m + i - 1]
    BY <1>1
  <1> QED BY <1>2, <1>3 DEF IsSlice

(* Sequences with the same places are the same. *)
LEMMA EqualPlaces ==
  \A s, u : IsSeq(s) /\ IsSeq(u) /\ Len(s) = Len(u) /\ (\A i \in 1..Len(s) : s[i] = u[i])
                => s = u
  <1> SUFFICES ASSUME NEW s, IsSeq(s), NEW u, IsSeq(u), Len(s) = Len(u),
                      \A i \in 1..Len(s) : s[i] = u[i]
               PROVE  s = u
    OBVIOUS
  <1> DEFINE S == {s[i] : i \in DOMAIN s} \cup {u[i] : i \in DOMAIN u}
  <1>1. s \in Seq(S) /\ u \in Seq(S)
    BY DEF IsSeq
  <1> HIDE DEF S
  <1>2. s = u
    BY <1>1
  <1> QED BY <1>2

(* The pieces of a text, place by place. *)
InPieces(p, t, l, c, n) ==
    /\ IsSeq(p) /\ Len(p) = n /\ n \in Nat
    /\ \A i \in 1..n : p[i] = SubSeq(t, (i - 1) * c + 1, IF i < n THEN i * c ELSE l)
    /\ \A i \in 1..n : (i - 1) * c \in Nat /\ (i - 1) * c < l
    /\ \A i \in 1..n : i < n => i * c \in Nat /\ i * c < l /\ i * c = (i - 1) * c + c
    /\ (n # 0 => l - (n - 1) * c <= c) /\ (n = 0 <=> l = 0)

(* The pieces of a text are slices of it, all of the size but the last. *)
LEMMA PiecesPlaces ==
  ASSUME NEW t, IsSeq(t), NEW c \in Nat \ {0}, NEW n, n = (Len(t) + c - 1) \div c
  PROVE  InPieces(PiecesBy(t, c), t, Len(t), c, n)
  <1>1. PICK l : l = Len(t)
    OBVIOUS
  <1>2. l \in Nat
    BY <1>1, SeqIs
  <1>3. n \in Nat /\ l <= n * c /\ (l # 0 => n # 0 /\ (n - 1) * c < l) /\ (l = 0 => n = 0)
    <2>1. n = (l + c - 1) \div c /\ c \in Nat \ {0}
      BY <1>1
    <2> QED BY ONLY <1>2, <2>1, PiecesCount
  <1>4. ASSUME NEW i \in 1..n
        PROVE  /\ i * c \in Nat /\ (i - 1) * c \in Nat /\ i * c = (i - 1) * c + c
               /\ i * c <= n * c
    <2>1. i \in Nat /\ i <= n /\ i - 1 \in Nat
      BY <1>3, <1>4
    <2>2. i * c <= n * c
      BY <1>3, <2>1
    <2> QED BY <2>1, <2>2
  <1>5. ASSUME NEW i \in 1..n, i < n PROVE i * c < l
    <2>1. i \in Nat /\ i <= n - 1 /\ n - 1 \in Nat
      BY <1>3, <1>5
    <2>2. i * c <= (n - 1) * c
      BY <2>1
    <2>3. l # 0
      BY <1>3, <1>5
    <2> QED BY <1>2, <1>3, <1>4, <2>1, <2>2, <2>3
  <1>6. ASSUME NEW i \in 1..n, ~(i < n) PROVE i = n /\ ~(i * c < l)
    <2>1. i = n
      BY <1>3, <1>6
    <2> QED BY <1>2, <1>3, <1>4, <2>1
  <1>7. ASSUME NEW i \in 1..n PROVE (i - 1) * c < l
    <2>1. CASE i < n
      BY <1>2, <1>4, <1>5, <2>1
    <2>2. CASE ~(i < n)
      <3>1. i = n /\ l # 0
        BY <1>3, <1>6, <1>7, <2>2
      <3> QED BY <1>3, <3>1
    <2> QED BY <2>1, <2>2
  <1>8. PICK f : f = PiecesBy(t, c)
    OBVIOUS
  <1>9. f = [i \in 1..n |-> SubSeq(t, (i - 1) * c + 1, IF i * c < l THEN i * c ELSE l)]
    BY <1>1, <1>8 DEF PiecesBy
  <1>10. IsSeq(f) /\ Len(f) = n
    <2>1. f = [i \in 1..n |-> f[i]]
      BY <1>9
    <2> QED BY <1>3, <2>1, TableIs
  <1>11. \A i \in 1..n : f[i] = SubSeq(t, (i - 1) * c + 1, IF i < n THEN i * c ELSE l)
    BY <1>5, <1>6, <1>9
  <1>12. n # 0 => l - (n - 1) * c <= c
    <2>1. n # 0 => n * c = (n - 1) * c + c /\ n * c \in Nat
      BY <1>3, <1>4
    <2> QED BY <1>2, <1>3, <2>1
  <1> QED BY <1>1, <1>3, <1>4, <1>5, <1>7, <1>8, <1>10, <1>11, <1>12 DEF InPieces

(* and slices of sequences that agree there. *)
LEMMA SameSlice ==
  ASSUME NEW s, IsSeq(s), NEW u, IsSeq(u), NEW l, Len(s) = l, l <= Len(u),
         \A i \in 1..l : u[i] = s[i],
         NEW m \in Nat \ {0}, NEW n \in Nat, n <= l, m <= n + 1
  PROVE  SubSeq(u, m, n) = SubSeq(s, m, n) /\ IsSlice(SubSeq(u, m, n), s, m, n)
  <1>1. l \in Nat /\ n <= Len(s) /\ n <= Len(u)
    <2>1. Len(s) \in Nat /\ Len(u) \in Nat
      BY SeqIs
    <2> QED BY <2>1
  <1>2. PICK x, y : x = SubSeq(s, m, n) /\ y = SubSeq(u, m, n)
    OBVIOUS
  <1>3. IsSlice(x, s, m, n)
    BY <1>1, <1>2, SubSeqPlaces
  <1>4. IsSlice(y, u, m, n)
    BY <1>1, <1>2, SubSeqPlaces
  <1>5. \A i \in 1..(n - m + 1) : m + i - 1 \in 1..l
    BY <1>1
  <1>6. IsSlice(y, s, m, n)
    BY <1>4, <1>5 DEF IsSlice
  <1>7. y = x
    <2>1. IsSeq(y) /\ IsSeq(x) /\ Len(y) = Len(x) /\ \A i \in 1..Len(y) : y[i] = x[i]
      BY <1>3, <1>6 DEF IsSlice
    <2> QED BY <2>1, EqualPlaces
  <1> QED BY <1>2, <1>6, <1>7

(* A unit alone. *)
LEMMA LastSlice ==
  ASSUME NEW u, IsSeq(u), NEW m \in Nat \ {0}, Len(u) = m
  PROVE  \A e : u[m] = e => SubSeq(u, m, m) = <<e>>
  <1> TAKE e
  <1> HAVE u[m] = e
  <1>1. PICK x, y : x = SubSeq(u, m, m) /\ y = <<e>>
    OBVIOUS
  <1>2. m <= Len(u) /\ m <= m + 1 /\ m - m + 1 = 1 /\ m + 1 - 1 = m /\ m \in Nat
    OBVIOUS
  <1>3. IsSlice(x, u, m, m)
    BY <1>1, <1>2, SubSeqPlaces
  <1>4. IsSeq(x) /\ Len(x) = 1 /\ x[1] = e
    BY <1>2, <1>3 DEF IsSlice
  <1>5. IsSeq(y) /\ Len(y) = 1 /\ y[1] = e
    BY <1>1 DEF IsSeq
  <1>6. x = y
    <2>1. Len(x) = Len(y) /\ \A i \in 1..Len(x) : x[i] = y[i]
      BY <1>4, <1>5
    <2> QED BY <1>4, <1>5, <2>1, EqualPlaces
  <1> QED BY <1>1, <1>6

(* A slice up to the end grows with its sequence. *)
LEMMA SliceGrows ==
  ASSUME NEW t, IsSeq(t), NEW e, NEW l, l = Len(t), NEW x \in Nat \ {0}, x <= l
  PROVE  SubSeq(Append(t, e), x, l + 1) = Append(SubSeq(t, x, l), e)
  <1>1. PICK u, m, k : u = Append(t, e) /\ m = l + 1 /\ k = l - x + 1
    OBVIOUS
  <1>2. /\ l \in Nat /\ m \in Nat /\ IsSeq(u) /\ Len(u) = m /\ u[m] = e
        /\ \A i \in 1..l : u[i] = t[i]
    BY <1>1, AppendIs, SeqIs
  <1>3. k \in Nat /\ k + 1 = m - x + 1 /\ x <= m + 1 /\ x <= l + 1 /\ x + (k + 1) - 1 = m
    BY <1>1, <1>2
  <1>4. PICK y, z, w : y = SubSeq(u, x, m) /\ z = SubSeq(t, x, l) /\ w = Append(z, e)
    OBVIOUS
  <1>5. IsSlice(y, u, x, m)
    BY <1>2, <1>3, <1>4, SubSeqPlaces
  <1>6. IsSlice(z, t, x, l)
    BY <1>1, <1>2, <1>3, <1>4, SubSeqPlaces
  <1>7. IsSeq(z) /\ Len(z) = k /\ \A i \in 1..k : z[i] = t[x + i - 1]
    BY <1>1, <1>6 DEF IsSlice
  <1>8. IsSeq(w) /\ Len(w) = k + 1 /\ w[k + 1] = e /\ \A i \in 1..k : w[i] = z[i]
    BY <1>4, <1>7, AppendIs
  <1>9. IsSeq(y) /\ Len(y) = k + 1 /\ \A i \in 1..(k + 1) : y[i] = u[x + i - 1]
    BY <1>3, <1>5 DEF IsSlice
  <1>10. \A i \in 1..(k + 1) : y[i] = w[i]
    <2> SUFFICES ASSUME NEW i \in 1..(k + 1) PROVE y[i] = w[i]
      OBVIOUS
    <2>1. CASE i = k + 1
      BY <1>2, <1>3, <1>8, <1>9, <2>1
    <2>2. CASE i # k + 1
      <3>1. i \in 1..k /\ x + i - 1 \in 1..l
        BY <1>1, <1>2, <1>3, <2>2
      <3> QED BY <1>2, <1>7, <1>8, <1>9, <3>1
    <2> QED BY <2>1, <2>2
  <1>11. y = w
    BY <1>8, <1>9, <1>10, EqualPlaces
  <1> QED BY <1>1, <1>4, <1>11

(* A text that grows by a unit: the last piece grows, or there is one more.  *)
Grown(p, q, t, c, e, n) ==
    /\ IsSeq(p) /\ IsSeq(q) /\ \A i \in 1..n : IsSeq(p[i])
    /\ (n = 0 <=> t = <<>>)
    /\ \A i \in 1..n : i < n => q[i] = p[i]
    /\ n # 0 => Len(p[n]) \in 1..c
    /\ IF n # 0 /\ Len(p[n]) + 1 <= c THEN Len(q) = n /\ q[n] = Append(p[n], e)
       ELSE Len(q) = n + 1 /\ q[n + 1] = <<e>> /\ (n # 0 => q[n] = p[n])

(* So do its pieces: all but the last are the same. *)
LEMMA PiecesGrow ==
  ASSUME NEW t, IsSeq(t), NEW c \in Nat \ {0}, NEW e, NEW p, p = PiecesBy(t, c),
         NEW q, q = PiecesBy(Append(t, e), c), NEW n, n = Len(p)
  PROVE  Grown(p, q, t, c, e, n)
  <1>1. PICK l, u, m : l = Len(t) /\ u = Append(t, e) /\ m = l + 1
    OBVIOUS
  <1>2. /\ l \in Nat /\ m \in Nat \ {0} /\ IsSeq(u) /\ Len(u) = m /\ u[m] = e
        /\ \A i \in 1..l : u[i] = t[i]
    BY <1>1, AppendIs, SeqIs
  <1>13. (\A i \in 1..l : u[i] = t[i]) /\ Len(t) = l /\ l <= Len(u)
    BY <1>1, <1>2
  <1>14. SubSeq(u, m, m) = <<e>>
    BY ONLY <1>2, LastSlice
  <1>3. PICK a, b : a = (l + c - 1) \div c /\ b = (m + c - 1) \div c
    OBVIOUS
  <1>4. InPieces(p, t, l, c, a)
    <2>1. a = (Len(t) + c - 1) \div c
      BY <1>1, <1>3
    <2> QED BY <1>1, <2>1, PiecesPlaces
  <1>5. InPieces(q, u, m, c, b)
    <2>1. b = (Len(u) + c - 1) \div c
      BY <1>2, <1>3
    <2> QED BY <1>1, <1>2, <2>1, PiecesPlaces
  <1>6. a = n /\ a \in Nat /\ b \in Nat /\ Len(q) = b /\ IsSeq(p) /\ IsSeq(q)
         /\ (a = 0 <=> l = 0)
    BY <1>4, <1>5 DEF InPieces
  <1>7. \A i \in 1..b : q[i] = SubSeq(u, (i - 1) * c + 1, IF i < b THEN i * c ELSE m)
    BY <1>5 DEF InPieces
  <1>8. a = 0 <=> t = <<>>
    <2>1. l = 0 => t = <<>>
      <3>1. IsSeq(<<>>) /\ Len(<<>>) = 0
        BY EmptyIs
      <3>2. l = 0 => Len(t) = Len(<<>>) /\ \A i \in 1..Len(t) : t[i] = <<>>[i]
        BY <1>1, <3>1
      <3>3. PICK o : o = <<>>
        OBVIOUS
      <3>4. l = 0 => t = o
        BY <3>1, <3>2, <3>3, EqualPlaces
      <3> QED BY <3>3, <3>4
    <2>2. t = <<>> => l = 0
      BY <1>1
    <2> QED BY <1>6, <2>1, <2>2
  <1>9. \A k \in Nat : m <= k * c /\ (k # 0 => (k - 1) * c < m) => k = b
    <2> TAKE k \in Nat
    <2> HAVE m <= k * c /\ (k # 0 => (k - 1) * c < m)
    <2>1. m \in Nat /\ c \in Nat \ {0} /\ b = (m + c - 1) \div c
      BY <1>2, <1>3
    <2> QED BY ONLY <2>1, m <= k * c /\ (k # 0 => (k - 1) * c < m), k \in Nat, PiecesCount
  <1>10. ASSUME NEW i \in 1..a
         PROVE  /\ IsSeq(p[i])
                /\ i < a => /\ p[i] = SubSeq(u, (i - 1) * c + 1, i * c)
                            /\ i * c \in Nat /\ (i - 1) * c \in Nat /\ i * c = (i - 1) * c + c
    <2>1. PICK x, y : x = (i - 1) * c + 1 /\ y = IF i < a THEN i * c ELSE l
      OBVIOUS
    <2>2. (i - 1) * c \in Nat /\ (i - 1) * c < l
      BY <1>4 DEF InPieces
    <2>3. i < a => i * c \in Nat /\ i * c < l /\ i * c = (i - 1) * c + c
      BY <1>4 DEF InPieces
    <2>4. p[i] = SubSeq(t, x, y)
      BY <1>4, <2>1 DEF InPieces
    <2>5. x \in Nat \ {0} /\ x <= l
      BY <1>2, <2>1, <2>2
    <2>6. y \in Nat /\ y <= l /\ x <= y + 1
      <3>1. CASE i < a
        <4>1. PICK z : z = (i - 1) * c
          OBVIOUS
        <4>2. y = z + c /\ x = z + 1 /\ z \in Nat /\ y < l
          BY <2>1, <2>2, <2>3, <3>1, <4>1
        <4> QED BY <1>2, <4>2
      <3>2. CASE ~(i < a)
        BY <1>2, <2>1, <2>5, <3>2
      <3> QED BY <3>1, <3>2
    <2>7. l <= Len(u)
      BY <1>1, <1>2
    <2>8. SubSeq(u, x, y) = SubSeq(t, x, y) /\ IsSlice(SubSeq(u, x, y), t, x, y)
      BY ONLY <1>2, <1>13, <2>5, <2>6, IsSeq(t), SameSlice
    <2>9. IsSeq(p[i])
      BY <2>4, <2>8 DEF IsSlice
    <2> QED BY <2>1, <2>2, <2>3, <2>4, <2>8, <2>9
  <1>11. CASE a = 0
    <2>1. l = 0 /\ m = 1
      BY <1>1, <1>6, <1>11
    <2>2. b = 1
      <3>1. PICK k : k = 1
        OBVIOUS
      <3>2. k \in Nat /\ m <= k * c /\ (k # 0 => (k - 1) * c < m)
        BY <2>1, <3>1
      <3> QED BY <1>9, <3>1, <3>2
    <2>3. q[1] = SubSeq(u, 1, 1)
      <3>1. 1 \in 1..b /\ ~(1 < b) /\ (1 - 1) * c + 1 = 1
        BY <2>2
      <3> QED BY <1>7, <2>1, <3>1
    <2>4. q[1] = <<e>>
      BY <1>14, <2>1, <2>3
    <2> QED BY <1>6, <1>8, <1>11, <2>2, <2>4 DEF Grown
  <1>12. CASE a # 0
    <2>1. PICK z : z = (a - 1) * c
      OBVIOUS
    <2>2. a \in 1..a /\ ~(a < a)
      BY <1>6, <1>12
    <2>3. z \in Nat /\ z < l /\ l - z <= c
      BY <1>4, <1>12, <2>1, <2>2 DEF InPieces
    <2>4. PICK x : x = z + 1
      OBVIOUS
    <2>5. x \in Nat \ {0} /\ x <= l /\ l - x + 1 \in 1..c
      BY <1>2, <2>3, <2>4
    <2>6. p[a] = SubSeq(t, x, l)
      BY <1>4, <2>1, <2>2, <2>4 DEF InPieces
    <2>7. IsSlice(SubSeq(t, x, l), t, x, l)
      <3>1. l <= Len(t) /\ x <= l + 1
        BY <1>1, <1>2, <2>5
      <3> QED BY <1>1, <1>2, <2>5, <3>1, SubSeqPlaces
    <2>8. Len(p[a]) = l - x + 1
      BY <2>6, <2>7 DEF IsSlice
    <2>9. a * c = z + c
      <3>1. (a - 1) * c = a * c - c /\ a * c \in Int
        BY <1>6
      <3> QED BY <2>1, <3>1
    <2>10. CASE Len(p[a]) + 1 <= c
      <3>1. b = a
        <4>1. PICK w : w = a * c
          OBVIOUS
        <4>2. m <= w /\ z < m
          BY <1>1, <1>2, <2>3, <2>4, <2>8, <2>9, <2>10, <4>1
        <4> QED BY <1>6, <1>9, <2>1, <4>1, <4>2
      <3>2. ASSUME NEW i \in 1..a, i < a PROVE q[i] = p[i]
        BY <1>7, <1>10, <3>1, <3>2
      <3>3. q[a] = SubSeq(u, x, m)
        BY <1>7, <2>1, <2>2, <2>4, <3>1
      <3>4. SubSeq(u, x, m) = Append(SubSeq(t, x, l), e)
        BY <1>1, <2>5, SliceGrows
      <3>5. q[a] = Append(p[a], e)
        BY <2>6, <3>3, <3>4
      <3>6. Len(p[a]) \in 1..c
        BY <2>5, <2>8
      <3> QED BY <1>6, <1>8, <1>10, <1>12, <2>10, <3>1, <3>2, <3>5, <3>6 DEF Grown
    <2>11. CASE ~(Len(p[a]) + 1 <= c)
      <3>1. l - x + 1 = c
        BY <1>2, <2>5, <2>8, <2>11
      <3>2. a * c = l
        BY <1>2, <2>3, <2>4, <2>9, <3>1
      <3>3. PICK d : d = a + 1
        OBVIOUS
      <3>4. d \in Nat /\ d # 0 /\ d - 1 = a /\ d * c = l + c
        <4>1. (a + 1) * c = a * c + c
          BY <1>6
        <4> QED BY <1>6, <3>2, <3>3, <4>1
      <3>5. b = d
        <4>1. PICK w, v : w = d * c /\ v = (d - 1) * c
          OBVIOUS
        <4>2. w = l + c /\ v = l
          BY <3>2, <3>4, <4>1
        <4>3. m <= w /\ v < m
          BY <1>1, <1>2, <4>2
        <4> QED BY <1>9, <3>4, <4>1, <4>3
      <3>6. ASSUME NEW i \in 1..a PROVE q[i] = p[i]
        <4>1. i \in 1..b /\ i < b
          BY <1>6, <3>3, <3>5
        <4>2. q[i] = SubSeq(u, (i - 1) * c + 1, i * c)
          BY <1>7, <4>1
        <4>3. CASE i < a
          BY <1>10, <4>2, <4>3
        <4>4. CASE ~(i < a)
          <5>1. i = a
            BY <1>6, <4>4
          <5>2. q[a] = SubSeq(u, x, l)
            BY <2>1, <2>4, <3>2, <4>2, <5>1
          <5>3. l <= Len(u) /\ x <= l + 1
            BY <1>1, <1>2, <2>5
          <5>4. SubSeq(u, x, l) = SubSeq(t, x, l) /\ IsSlice(SubSeq(u, x, l), t, x, l)
            BY ONLY <1>2, <1>13, <2>5, <5>3, IsSeq(t), SameSlice
          <5> QED BY <2>6, <5>1, <5>2, <5>4
        <4> QED BY <4>3, <4>4
      <3>7. q[d] = SubSeq(u, m, m)
        <4>1. PICK v : v = (d - 1) * c
          OBVIOUS
        <4>2. v + 1 = m /\ d \in 1..b /\ ~(d < b)
          BY <1>1, <3>2, <3>4, <3>5, <4>1
        <4> QED BY <1>7, <4>1, <4>2
      <3>8. q[d] = <<e>>
        BY <1>14, <3>7
      <3>9. Len(p[a]) \in 1..c
        BY <2>5, <2>8
      <3> QED BY <1>6, <1>8, <1>10, <1>12, <2>2, <2>11, <3>3, <3>5, <3>6, <3>8, <3>9 DEF Grown
    <2> QED BY <2>10, <2>11
  <1> QED BY <1>11, <1>12

(***************************************************************************)
(* Fields into pieces of a chunk's size.                                   *)
(***************************************************************************)
Part(kind, text) == [kind |-> kind, text |-> text]
SaidOf(chunks) == [k \in DOMAIN chunks |-> Part(chunks[k].kind, chunks[k].text)]
CutText(kind, text) == [k \in DOMAIN Cut(text) |-> Part(kind, Cut(text)[k])]
CutsOf(fields) ==
    FlattenSeq([n \in DOMAIN fields |-> CutText(fields[n].kind, fields[n].text)])

(* What is appended to a concatenation is appended to its second part. *)
LEMMA ConcatAppend ==
  ASSUME NEW s, IsSeq(s), NEW t, IsSeq(t), NEW e
  PROVE  s \o Append(t, e) = Append(s \o t, e)
  <1>1. PICK a, b, m, n : m = Len(s) /\ n = Len(t) /\ a = s \o Append(t, e)
         /\ b = Append(s \o t, e)
    OBVIOUS
  <1>2. m \in Nat /\ n \in Nat
    BY <1>1, SeqIs
  <1>3. PICK u, v : u = Append(t, e) /\ v = s \o t
    OBVIOUS
  <1>4. IsSeq(u) /\ Len(u) = n + 1 /\ u[n + 1] = e /\ \A i \in 1..n : u[i] = t[i]
    BY <1>1, <1>3, AppendIs
  <1>5. /\ IsSeq(v) /\ Len(v) = m + n /\ \A i \in 1..m : v[i] = s[i]
        /\ \A i \in 1..n : v[m + i] = t[i]
    BY <1>1, <1>3, ConcatIs
  <1>6. /\ IsSeq(a) /\ Len(a) = m + (n + 1) /\ \A i \in 1..m : a[i] = s[i]
        /\ \A i \in 1..(n + 1) : a[m + i] = u[i]
    BY <1>1, <1>3, <1>4, ConcatIs
  <1>7. /\ IsSeq(b) /\ Len(b) = m + n + 1 /\ b[m + n + 1] = e
        /\ \A i \in 1..(m + n) : b[i] = v[i]
    BY <1>1, <1>3, <1>5, AppendIs
  <1>8. ASSUME NEW i \in 1..Len(a) PROVE a[i] = b[i]
    <2>1. CASE i \in 1..m
      BY <1>2, <1>5, <1>6, <1>7, <2>1
    <2>2. CASE i \notin 1..m
      <3>1. PICK j : j = i - m
        OBVIOUS
      <3>2. j \in 1..(n + 1) /\ i = m + j
        BY <1>2, <1>6, <2>2, <3>1
      <3>3. CASE j = n + 1
        BY <1>2, <1>4, <1>6, <1>7, <3>2, <3>3
      <3>4. CASE j # n + 1
        <4>1. j \in 1..n /\ i \in 1..(m + n)
          BY <1>2, <3>2, <3>4
        <4> QED BY <1>4, <1>5, <1>6, <1>7, <3>2, <4>1
      <3> QED BY <3>3, <3>4
    <2> QED BY <2>1, <2>2
  <1>9. a = b
    <2>1. Len(a) = Len(b)
      BY <1>2, <1>6, <1>7
    <2> QED BY <1>6, <1>7, <1>8, <2>1, EqualPlaces
  <1> QED BY <1>1, <1>9

(* What is appended is the last. *)
LEMMA LastAppended ==
  ASSUME NEW s, IsSeq(s), NEW t, IsSeq(t), NEW d, NEW e, Append(s, d) = Append(t, e)
  PROVE  s = t /\ d = e
  <1>1. PICK a, m, n : m = Len(s) /\ n = Len(t) /\ a = Append(s, d) /\ a = Append(t, e)
    OBVIOUS
  <1>2. m \in Nat /\ n \in Nat
    BY <1>1, SeqIs
  <1>3. Len(a) = m + 1 /\ a[m + 1] = d /\ \A i \in 1..m : a[i] = s[i]
    BY <1>1, AppendIs
  <1>4. Len(a) = n + 1 /\ a[n + 1] = e /\ \A i \in 1..n : a[i] = t[i]
    BY <1>1, AppendIs
  <1>5. m = n
    BY <1>2, <1>3, <1>4
  <1>6. s = t
    <2>1. \A i \in 1..Len(s) : s[i] = t[i]
      BY <1>1, <1>3, <1>4, <1>5
    <2> QED BY <1>1, <1>5, <2>1, EqualPlaces
  <1> QED BY <1>3, <1>4, <1>5, <1>6

(* Anything after nothing, and nothing after anything. *)
LEMMA ConcatNothing ==
  ASSUME NEW s, IsSeq(s)
  PROVE  s \o <<>> = s /\ <<>> \o s = s
  <1> DEFINE S == {s[i] : i \in DOMAIN s}
  <1>1. s \in Seq(S)
    BY DEF IsSeq
  <1> HIDE DEF S
  <1> QED BY <1>1

(* What is said by one chunk more. *)
LEMMA SaidAppend ==
  ASSUME NEW c, IsSeq(c), NEW x
  PROVE  /\ IsSeq(SaidOf(c)) /\ Len(SaidOf(c)) = Len(c)
         /\ SaidOf(Append(c, x)) = Append(SaidOf(c), Part(x.kind, x.text))
  <1>1. PICK n, d, s, t, u : /\ n = Len(c) /\ d = Append(c, x) /\ s = SaidOf(c)
                             /\ t = SaidOf(d) /\ u = Append(s, Part(x.kind, x.text))
    OBVIOUS
  <1>2. n \in Nat /\ DOMAIN c = 1..n
    BY <1>1, SeqIs
  <1>3. IsSeq(d) /\ Len(d) = n + 1 /\ d[n + 1] = x /\ \A i \in 1..n : d[i] = c[i]
    BY <1>1, AppendIs
  <1>4. DOMAIN d = 1..(n + 1)
    BY <1>3, SeqIs
  <1>5. s = [k \in 1..n |-> Part(c[k].kind, c[k].text)]
    BY <1>1, <1>2 DEF SaidOf
  <1>6. t = [k \in 1..(n + 1) |-> Part(d[k].kind, d[k].text)]
    BY <1>1, <1>4 DEF SaidOf
  <1>7. IsSeq(s) /\ Len(s) = n
    <2>1. s = [k \in 1..n |-> s[k]]
      BY <1>5
    <2> QED BY <1>2, <2>1, TableIs
  <1>8. IsSeq(t) /\ Len(t) = n + 1
    <2>1. t = [k \in 1..(n + 1) |-> t[k]] /\ n + 1 \in Nat
      BY <1>2, <1>6
    <2> QED BY <2>1, TableIs
  <1>9. /\ IsSeq(u) /\ Len(u) = n + 1 /\ u[n + 1] = Part(x.kind, x.text)
        /\ \A i \in 1..n : u[i] = s[i]
    BY <1>1, <1>7, AppendIs
  <1>10. ASSUME NEW i \in 1..(n + 1) PROVE t[i] = u[i]
    <2>1. t[i] = Part(d[i].kind, d[i].text)
      BY <1>6
    <2>2. CASE i = n + 1
      BY <1>3, <1>9, <2>1, <2>2
    <2>3. CASE i # n + 1
      <3>1. i \in 1..n
        BY <1>2, <2>3
      <3> QED BY <1>3, <1>5, <1>9, <2>1, <3>1
    <2> QED BY <2>2, <2>3
  <1>11. t = u
    BY <1>8, <1>9, <1>10, EqualPlaces
  <1> QED BY <1>1, <1>7, <1>11

(* The pieces of a text are a sequence. *)
LEMMA CutTextIs ==
  ASSUME NEW kind, NEW text, IsSeq(text)
  PROVE  /\ IsSeq(CutText(kind, text)) /\ Len(CutText(kind, text)) = Len(Cut(text))
         /\ \A i \in 1..Len(Cut(text)) : CutText(kind, text)[i] = Part(kind, Cut(text)[i])
  <1>1. PICK p, n : p = Cut(text) /\ n = Len(p)
    OBVIOUS
  <1>2. IsSeq(p)
    <2>1. p = PiecesBy(text, ChunkUnits)
      BY <1>1, PiecesBySize
    <2>2. PICK m : m = (Len(text) + ChunkUnits - 1) \div ChunkUnits
      OBVIOUS
    <2>3. ChunkUnits \in Nat \ {0}
      BY DedupAssumption
    <2>4. InPieces(PiecesBy(text, ChunkUnits), text, Len(text), ChunkUnits, m)
      BY <2>2, <2>3, PiecesPlaces
    <2> QED BY <2>1, <2>4 DEF InPieces
  <1>3. n \in Nat /\ DOMAIN p = 1..n
    BY <1>1, <1>2, SeqIs
  <1>4. PICK f : f = CutText(kind, text)
    OBVIOUS
  <1>5. f = [k \in 1..n |-> Part(kind, p[k])]
    BY <1>1, <1>3, <1>4 DEF CutText
  <1>6. IsSeq(f) /\ Len(f) = n
    <2>1. f = [k \in 1..n |-> f[k]]
      BY <1>5
    <2> QED BY <1>3, <2>1, TableIs
  <1> QED BY <1>1, <1>4, <1>5, <1>6

(* A text that grows by a unit, cut. *)
CutGrown(kind, c, d, e) ==
    \/ c = <<>> /\ d = <<Part(kind, <<e>>)>>
    \/ \E x, l : /\ IsSeq(x) /\ IsSeq(l) /\ Len(l) \in 1..ChunkUnits
                    /\ c = Append(x, Part(kind, l))
                 /\ IF Len(l) + 1 <= ChunkUnits THEN d = Append(x, Part(kind, Append(l, e)))
                    ELSE d = Append(c, Part(kind, <<e>>))

(* So do the pieces of a field of it. *)
LEMMA CutTextGrows ==
  ASSUME NEW kind, NEW text, IsSeq(text), NEW e
  PROVE  /\ CutGrown(kind, CutText(kind, text), CutText(kind, Append(text, e)), e)
         /\ CutText(kind, text) = <<>> <=> text = <<>>
  <1>1. PICK u, p, q, n, c, d : /\ u = Append(text, e) /\ p = Cut(text) /\ q = Cut(u)
                                /\ n = Len(p) /\ c = CutText(kind, text) /\ d = CutText(kind, u)
    OBVIOUS
  <1>2. IsSeq(u)
    BY <1>1, AppendIs
  <1>3. p = PiecesBy(text, ChunkUnits) /\ q = PiecesBy(Append(text, e), ChunkUnits)
    BY <1>1, <1>2, PiecesBySize
  <1>4. Grown(p, q, text, ChunkUnits, e, n)
    <2>1. ChunkUnits \in Nat \ {0}
      BY DedupAssumption
    <2> QED BY ONLY <1>1, <1>3, <2>1, IsSeq(text), PiecesGrow
  <1>5. IsSeq(c) /\ Len(c) = n /\ \A i \in 1..n : c[i] = Part(kind, p[i])
    BY <1>1, CutTextIs
  <1>6. IsSeq(d) /\ Len(d) = Len(q) /\ \A i \in 1..Len(q) : d[i] = Part(kind, q[i])
    BY <1>1, <1>2, CutTextIs
  <1>7. n \in Nat
    BY <1>5, SeqIs
  <1>8. c = <<>> <=> text = <<>>
    <2>1. n = 0 <=> text = <<>>
      BY <1>4 DEF Grown
    <2>2. PICK o : o = <<>>
      OBVIOUS
    <2>3. IsSeq(o) /\ Len(o) = 0
      BY <2>2, EmptyIs
    <2>4. n = 0 => c = o
      <3>1. n = 0 => Len(c) = Len(o) /\ \A i \in 1..Len(c) : c[i] = o[i]
        BY <1>5, <2>3
      <3> QED BY <1>5, <2>3, <3>1, EqualPlaces
    <2>5. c = o => n = 0
      BY <1>5, <2>3
    <2> QED BY <2>1, <2>2, <2>4, <2>5
  <1>9. CASE n = 0
    <2>1. c = <<>> /\ Len(q) = 1 /\ q[1] = <<e>>
      BY <1>4, <1>8, <1>9 DEF Grown
    <2>2. PICK o : o = <<Part(kind, <<e>>)>>
      OBVIOUS
    <2>3. IsSeq(o) /\ Len(o) = 1 /\ o[1] = Part(kind, <<e>>)
      BY <2>2 DEF IsSeq
    <2>4. d = o
      <3>1. Len(d) = Len(o) /\ \A i \in 1..Len(d) : d[i] = o[i]
        BY <1>6, <2>1, <2>3
      <3> QED BY <1>6, <2>3, <3>1, EqualPlaces
    <2> QED BY <1>1, <1>8, <2>1, <2>2, <2>4 DEF CutGrown
  <1>10. CASE n # 0
    <2>1. PICK l, m : l = p[n] /\ m = n - 1
      OBVIOUS
    <2>2. m \in Nat /\ m + 1 = n /\ n \in 1..n
      BY <1>7, <1>10, <2>1
    <2>3. IsSeq(l) /\ Len(l) \in 1..ChunkUnits
      BY <1>4, <1>10, <2>1, <2>2 DEF Grown
    <2>4. PICK x : x = [i \in 1..m |-> c[i]]
      OBVIOUS
    <2>5. IsSeq(x) /\ Len(x) = m
      <3>1. x = [i \in 1..m |-> x[i]]
        BY <2>4
      <3> QED BY <2>2, <3>1, TableIs
    <2>6. PICK y : y = Append(x, Part(kind, l))
      OBVIOUS
    <2>7. IsSeq(y) /\ Len(y) = n /\ y[n] = Part(kind, l) /\ \A i \in 1..m : y[i] = c[i]
      BY <2>2, <2>4, <2>5, <2>6, AppendIs
    <2>8. c = y
      <3>1. Len(c) = Len(y) /\ \A i \in 1..Len(c) : c[i] = y[i]
        <4> SUFFICES ASSUME NEW i \in 1..n PROVE c[i] = y[i]
          BY <1>5, <2>7
        <4>1. i = n \/ i \in 1..m
          BY <2>2
        <4> QED BY <1>5, <2>1, <2>7, <4>1
      <3> QED BY <1>5, <2>7, <3>1, EqualPlaces
    <2>9. ASSUME NEW i \in 1..m PROVE q[i] = p[i]
      <3>1. i \in 1..n /\ i < n
        BY <2>2
      <3> QED BY <1>4, <3>1 DEF Grown
    <2>10. CASE Len(l) + 1 <= ChunkUnits
      <3>1. Len(q) = n /\ q[n] = Append(l, e)
        BY <1>4, <1>10, <2>1, <2>10 DEF Grown
      <3>2. PICK z : z = Append(x, Part(kind, Append(l, e)))
        OBVIOUS
      <3>3. /\ IsSeq(z) /\ Len(z) = n /\ z[n] = Part(kind, Append(l, e))
            /\ \A i \in 1..m : z[i] = c[i]
        BY <2>2, <2>4, <2>5, <3>2, AppendIs
      <3>4. d = z
        <4>1. Len(d) = Len(z) /\ \A i \in 1..Len(d) : d[i] = z[i]
          <5> SUFFICES ASSUME NEW i \in 1..n PROVE d[i] = z[i]
            BY <1>6, <3>1, <3>3
          <5>1. i = n \/ i \in 1..m
            BY <2>2
          <5>2. d[i] = Part(kind, q[i])
            BY <1>6, <3>1
          <5>3. i \in 1..m => d[i] = c[i]
            BY <1>5, <2>2, <2>9, <5>2
          <5> QED BY <3>1, <3>3, <5>1, <5>2, <5>3
        <4> QED BY <1>6, <3>3, <4>1, EqualPlaces
      <3> QED BY <1>1, <1>8, <2>3, <2>5, <2>6, <2>8, <2>10, <3>2, <3>4 DEF CutGrown
    <2>11. CASE ~(Len(l) + 1 <= ChunkUnits)
      <3>1. Len(q) = n + 1 /\ q[n + 1] = <<e>> /\ q[n] = p[n]
        BY <1>4, <1>10, <2>1, <2>11 DEF Grown
      <3>2. PICK z : z = Append(c, Part(kind, <<e>>))
        OBVIOUS
      <3>3. /\ IsSeq(z) /\ Len(z) = n + 1 /\ z[n + 1] = Part(kind, <<e>>)
            /\ \A i \in 1..n : z[i] = c[i]
        BY <1>5, <3>2, AppendIs
      <3>4. d = z
        <4>1. Len(d) = Len(z) /\ \A i \in 1..Len(d) : d[i] = z[i]
          <5> SUFFICES ASSUME NEW i \in 1..(n + 1) PROVE d[i] = z[i]
            BY <1>6, <3>1, <3>3
          <5>1. i = n + 1 \/ i = n \/ i \in 1..m
            BY <2>2
          <5>2. d[i] = Part(kind, q[i])
            BY <1>6, <3>1
          <5>3. i \in 1..m \/ i = n => d[i] = c[i]
            BY <1>5, <2>2, <2>9, <3>1, <5>2
          <5> QED BY <2>2, <3>1, <3>3, <5>1, <5>2, <5>3
        <4> QED BY <1>6, <3>3, <4>1, EqualPlaces
      <3> QED BY <1>1, <1>8, <2>3, <2>5, <2>6, <2>8, <2>11, <3>2, <3>4 DEF CutGrown
    <2> QED BY <2>10, <2>11
  <1> QED BY <1>9, <1>10

(* One sequence more is flattened after the others. *)
LEMMA FlattenAppend ==
  ASSUME NEW s, IsSeq(s), \A i \in 1..Len(s) : IsSeq(s[i]), NEW x, IsSeq(x)
  PROVE  FlattenSeq(Append(s, x)) = FlattenSeq(s) \o x /\ IsSeq(FlattenSeq(s))
  <1>1. PICK n, t, m : n = Len(s) /\ t = Append(s, x) /\ m = n + 1
    OBVIOUS
  <1>2. n \in Nat /\ m \in Nat /\ Len(t) = m /\ t[m] = x /\ \A i \in 1..n : t[i] = s[i]
    BY <1>1, AppendIs, SeqIs
  <1>3. PICK f, g : f = Flattening(s) /\ g = Flattening(t)
    OBVIOUS
  <1>4. IsFlattening(f, s, n) /\ FlattenSeq(s) = IF n = 0 THEN s ELSE f[n]
    BY <1>1, <1>2, <1>3, FlattenSteps
  <1>5. IsFlattening(g, t, m) /\ FlattenSeq(t) = g[m]
    <2>1. m # 0
      BY <1>1, <1>2
    <2> QED BY <1>2, <1>3, <2>1, FlattenSteps
  <1>6. \A i \in 1..n : f[i] = IF i = 1 THEN s[i] ELSE f[i - 1] \o s[i]
    BY <1>4 DEF IsFlattening
  <1>7. \A i \in 1..m : g[i] = IF i = 1 THEN t[i] ELSE g[i - 1] \o t[i]
    BY <1>5 DEF IsFlattening
  <1> DEFINE S == {i \in 0..n : i # 0 => IsSeq(f[i]) /\ f[i] = g[i]}
  <1>8. S \in SUBSET Nat /\ 0 \in S
    BY <1>2
  <1>9. ASSUME NEW i \in 0..n, i # n, i \in S PROVE i + 1 \in S
    <2>1. PICK j : j = i + 1
      OBVIOUS
    <2>2. j \in 1..n /\ j \in 1..m /\ j - 1 = i /\ t[j] = s[j] /\ IsSeq(s[j])
      BY <1>1, <1>2, <1>9, <2>1
    <2>3. CASE i = 0
      <3>1. j = 1
        BY <2>1, <2>3
      <3> QED BY <1>6, <1>7, <2>1, <2>2, <3>1
    <2>4. CASE i # 0
      <3>1. j # 1 /\ IsSeq(f[i]) /\ f[i] = g[i]
        BY <1>9, <2>1, <2>4
      <3>2. f[j] = f[i] \o s[j] /\ g[j] = g[i] \o s[j]
        BY <1>6, <1>7, <2>2, <3>1
      <3>3. IsSeq(f[i] \o s[j])
        BY <2>2, <3>1, ConcatIs
      <3>4. IsSeq(f[j]) /\ f[j] = g[j]
        BY <2>2, <3>1, <3>2, <3>3
      <3>5. j \in 0..n
        BY <2>2
      <3> QED BY ONLY <2>1, <3>4, <3>5 DEF S
    <2> QED BY <2>3, <2>4
  <1> HIDE DEF S
  <1>10. 0..n \subseteq S
    BY <1>2, <1>8, <1>9, UpTo
  <1>11. CASE n = 0
    <2>1. m = 1 /\ g[1] = x
      BY <1>1, <1>2, <1>7, <1>11
    <2>2. PICK o : o = <<>>
      OBVIOUS
    <2>3. IsSeq(o) /\ Len(o) = 0
      BY <2>2, EmptyIs
    <2>4. s = o
      <3>1. Len(s) = Len(o) /\ \A i \in 1..Len(s) : s[i] = o[i]
        BY <1>1, <1>11, <2>3
      <3> QED BY <2>3, <3>1, EqualPlaces
    <2>5. o \o x = x
      BY <2>2, ConcatNothing
    <2> QED BY <1>1, <1>4, <1>5, <1>11, <2>1, <2>4, <2>5
  <1>12. CASE n # 0
    <2>1. IsSeq(f[n]) /\ f[n] = g[n]
      <3>1. n \in S
        BY <1>2, <1>10
      <3> QED BY <1>12, <3>1 DEF S
    <2>2. g[m] = g[n] \o x
      <3>1. m \in 1..m /\ m # 1 /\ m - 1 = n
        BY <1>1, <1>2, <1>12
      <3> QED BY <1>2, <1>7, <3>1
    <2> QED BY <1>1, <1>4, <1>5, <1>12, <2>1, <2>2
  <1> QED BY <1>11, <1>12

(* Fields whose texts are sequences. *)
Fields(f) == IsSeq(f) /\ \A i \in 1..Len(f) : IsSeq(f[i].text)

(* One field more is cut after the others. *)
LEMMA CutsAppend ==
  ASSUME NEW f, Fields(f), NEW x, IsSeq(x.text)
  PROVE  CutsOf(Append(f, x)) = CutsOf(f) \o CutText(x.kind, x.text) /\ IsSeq(CutsOf(f))
  <1>1. PICK n, g : n = Len(f) /\ g = Append(f, x)
    OBVIOUS
  <1>2. n \in Nat /\ IsSeq(f) /\ DOMAIN f = 1..n
    BY <1>1, SeqIs DEF Fields
  <1>3. IsSeq(g) /\ Len(g) = n + 1 /\ g[n + 1] = x /\ \A i \in 1..n : g[i] = f[i]
    BY <1>1, <1>2, AppendIs
  <1>4. DOMAIN g = 1..(n + 1)
    BY <1>3, SeqIs
  <1>5. PICK s, t, c : /\ s = [i \in 1..n |-> CutText(f[i].kind, f[i].text)]
                       /\ t = [i \in 1..(n + 1) |-> CutText(g[i].kind, g[i].text)]
                       /\ c = CutText(x.kind, x.text)
    OBVIOUS
  <1>6. IsSeq(c)
    BY <1>5, CutTextIs
  <1>7. IsSeq(s) /\ Len(s) = n
    <2>1. s = [i \in 1..n |-> s[i]]
      BY <1>5
    <2> QED BY <1>2, <2>1, TableIs
  <1>8. IsSeq(t) /\ Len(t) = n + 1
    <2>1. t = [i \in 1..(n + 1) |-> t[i]] /\ n + 1 \in Nat
      BY <1>2, <1>5
    <2> QED BY <2>1, TableIs
  <1>9. ASSUME NEW i \in 1..n PROVE IsSeq(s[i])
    <2>1. IsSeq(f[i].text)
      BY <1>1 DEF Fields
    <2>2. s[i] = CutText(f[i].kind, f[i].text)
      BY <1>5
    <2> QED BY <2>1, <2>2, CutTextIs
  <1>10. PICK u : u = Append(s, c)
    OBVIOUS
  <1>11. IsSeq(u) /\ Len(u) = n + 1 /\ u[n + 1] = c /\ \A i \in 1..n : u[i] = s[i]
    BY <1>7, <1>10, AppendIs
  <1>12. t = u
    <2>1. ASSUME NEW i \in 1..(n + 1) PROVE t[i] = u[i]
      <3>1. i = n + 1 \/ i \in 1..n
        BY <1>2
      <3>2. t[i] = CutText(g[i].kind, g[i].text)
        BY <1>5
      <3> QED BY <1>3, <1>5, <1>11, <3>1, <3>2
    <2>2. Len(t) = Len(u) /\ \A i \in 1..Len(t) : t[i] = u[i]
      BY <1>8, <1>11, <2>1
    <2> QED BY <1>8, <1>11, <2>2, EqualPlaces
  <1>13. FlattenSeq(u) = FlattenSeq(s) \o c /\ IsSeq(FlattenSeq(s))
    <2>1. \A i \in 1..Len(s) : IsSeq(s[i])
      BY <1>7, <1>9
    <2> QED BY <1>6, <1>7, <1>10, <2>1, FlattenAppend
  <1>14. CutsOf(f) = FlattenSeq(s)
    BY <1>2, <1>5 DEF CutsOf
  <1>15. CutsOf(g) = FlattenSeq(t)
    BY <1>4, <1>5 DEF CutsOf
  <1> QED BY <1>1, <1>5, <1>12, <1>13, <1>14, <1>15

(* No fields, no pieces. *)
LEMMA CutsOfNone == CutsOf(<<>>) = <<>>
  <1>1. PICK s : s = [i \in DOMAIN <<>> |-> CutText(<<>>[i].kind, <<>>[i].text)]
    OBVIOUS
  <1>2. s = [i \in 1..0 |-> s[i]]
    BY <1>1
  <1>3. IsSeq(s) /\ Len(s) = 0
    BY <1>2, TableIs
  <1>4. PICK o : o = <<>>
    OBVIOUS
  <1>5. IsSeq(o) /\ Len(o) = 0
    BY <1>4, EmptyIs
  <1>6. s = o
    <2>1. Len(s) = Len(o) /\ \A i \in 1..Len(s) : s[i] = o[i]
      BY <1>3, <1>5
    <2> QED BY <1>3, <1>5, <2>1, EqualPlaces
  <1>7. FlattenSeq(s) = s
    BY <1>3, FlattenSteps
  <1> QED BY <1>1, <1>4, <1>6, <1>7 DEF CutsOf
=============================================================================
