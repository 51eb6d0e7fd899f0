------------------------ MODULE ConsolidationProofs ------------------------
(***************************************************************************)
(* Theorems about Consolidation, for any number of vectors, supervisors,   *)
(* deletes and failures, any batch size, thresholds and embeddings: every  *)
(* consolidated vector has exactly one home, a search misses only what a   *)
(* batch moved, a centroid that is no longer active never changes, and one *)
(* from which nothing was deleted is the mean of its members.              *)
(***************************************************************************)
EXTENDS Consolidation, FiniteSetTheorems, SequenceTheorems, TLAPS

(* A sequence, of whatever.                                                *)
IsSeq(s) == \E S : s \in Seq(S)

(* Records by their fields: what a centroid averages is left open.         *)
IsCentroid(k) ==
    /\ k = [sum |-> k.sum, m2 |-> k.m2, count |-> k.count, active |-> k.active, into |-> k.into]
    /\ k.active \in BOOLEAN

IsGraph(g) == g = [cents |-> g.cents, members |-> g.members]

IsTx(x) == x = [claim |-> x.claim, todo |-> x.todo, held |-> x.held,
                pairs |-> x.pairs, graph |-> x.graph]

(* A graph, published or not.                                              *)
GraphOK(g) ==
    /\ IsGraph(g) /\ IsSeq(g.cents)
    /\ \A c \in DOMAIN g.cents : /\ IsCentroid(g.cents[c])
                                 /\ g.cents[c].into \in (DOMAIN g.cents) \union {None}
    /\ g.members \subseteq (DOMAIN g.cents) \X Vecs
    /\ \A m \in g.members : g.cents[m[1]].active
    /\ \A m, n \in g.members : m[2] = n[2] => m = n

(* The vectors that have a home.                                           *)
Homed(g) == {m[2] : m \in g.members}

(* h is g after splits and merges.                                         *)
Extends(g, h) ==
    \A c \in DOMAIN g.cents :
        c \in DOMAIN h.cents /\ (~g.cents[c].active => h.cents[c] = g.cents[c])

EmbRow == [vec : Points, current : BOOLEAN, consolidated : BOOLEAN]

(* The published tables: what is consolidated is what has a home.          *)
Tables ==
    /\ emb \in [Vecs -> EmbRow \union {None}] /\ born \in 0 .. MaxVecs
    /\ \A v \in Live : v <= born
    /\ GraphOK(graph)
    /\ Homed(graph) = {v \in Live : emb[v].consolidated}
    /\ del \in Live \union {None}
    /\ deletes \in 0 .. MaxDeletes /\ fails \in 0 .. MaxFails

SupType == [pc : {"check", "merge", "off"}, cycles : 0 .. MergeEvery - 1]

(* The open transaction of s: its working copy extends the graph by the    *)
(* claimed vectors that are done.                                          *)
TxOK(s) ==
    LET x == tx[s]
    IN  /\ IsTx(x) /\ GraphOK(x.graph) /\ Extends(graph, x.graph)
        /\ x.claim \subseteq {v \in Live : ~emb[v].consolidated} /\ x.todo \subseteq x.claim
        /\ Homed(x.graph) = Homed(graph) \union (x.claim \ x.todo)
        /\ x.pairs \subseteq Active(x.graph) \X Active(x.graph)
        /\ \A p \in x.pairs : p[1] # p[2]
        /\ sup[s].pc = "check" => x.pairs = {}
        /\ sup[s].pc = "merge" => x.claim = {}

(* There is one at most (pg_try_advisory_xact_lock).                       *)
Transactions ==
    /\ sup \in [Sups -> SupType] /\ tx = [s \in Sups |-> tx[s]]
    /\ \A s, t \in Sups : tx[s] # None /\ tx[t] # None => s = t
    /\ \A s \in Sups : tx[s] # None => TxOK(s)

(* A search misses what it can still find in the buffer, or what moved.    *)
SearchOK ==
    search # None =>
        /\ search = [missed |-> search.missed, moved |-> search.moved, done |-> search.done]
        /\ search.missed \subseteq Vecs /\ search.moved \subseteq Vecs
        /\ search.done \in BOOLEAN
        /\ IF search.done THEN search.missed \subseteq search.moved
           ELSE search.missed \ search.moved \subseteq Buffered

----------------------------------------------------------------------------
(* Sequences of anything.                                                  *)

LEMMA SeqAny ==
    ASSUME NEW s, IsSeq(s)
    PROVE  Len(s) \in Nat /\ DOMAIN s = 1 .. Len(s)
BY LenProperties DEF IsSeq

LEMMA FunctionIsSeq ==
    ASSUME NEW n \in Nat, NEW f, f = [k \in 1 .. n |-> f[k]]
    PROVE  IsSeq(f) /\ Len(f) = n
<1>1. f \in [1 .. n -> {f[k] : k \in 1 .. n}]
  OBVIOUS
<1>2. f \in Seq({f[k] : k \in 1 .. n})
  BY <1>1, SeqDef
<1>3. Len(f) \in Nat /\ DOMAIN f = 1 .. Len(f) /\ DOMAIN f = 1 .. n
  BY <1>1, <1>2, LenProperties
<1>4. Len(f) = n
  BY <1>3
<1> QED
  BY <1>2, <1>4, Zenon DEF IsSeq

LEMMA AppendAny ==
    ASSUME NEW s, IsSeq(s), NEW x
    PROVE  /\ IsSeq(Append(s, x)) /\ DOMAIN Append(s, x) = 1 .. Len(s) + 1
           /\ \A k \in 1 .. Len(s) : Append(s, x)[k] = s[k]
           /\ Append(s, x)[Len(s) + 1] = x
<1>1. PICK S : s \in Seq(S)
  BY DEF IsSeq
<1>2. s \in Seq(S \union {x})
  BY <1>1, SeqMonotonic
<1>3. /\ Append(s, x) \in Seq(S \union {x}) /\ Len(Append(s, x)) = Len(s) + 1
      /\ \A k \in 1 .. Len(s) : Append(s, x)[k] = s[k]
      /\ Append(s, x)[Len(s) + 1] = x
  BY <1>2, AppendProperties
<1>4. DOMAIN Append(s, x) = 1 .. Len(s) + 1
  BY <1>3, LenProperties
<1> QED
  BY <1>3, <1>4 DEF IsSeq

LEMMA ExceptAny ==
    ASSUME NEW s, IsSeq(s), NEW c \in DOMAIN s, NEW x
    PROVE  /\ IsSeq([s EXCEPT ![c] = x]) /\ DOMAIN [s EXCEPT ![c] = x] = DOMAIN s
           /\ \A k \in DOMAIN s : [s EXCEPT ![c] = x][k] = IF k = c THEN x ELSE s[k]
<1>1. Len(s) \in Nat /\ DOMAIN s = 1 .. Len(s)
  BY SeqAny
<1> DEFINE f == [s EXCEPT ![c] = x]
<1>2. /\ f = [k \in 1 .. Len(s) |-> f[k]]
      /\ \A k \in DOMAIN s : f[k] = IF k = c THEN x ELSE s[k]
  BY <1>1
<1>3. IsSeq(f)
  <2> HIDE DEF f
  <2> QED
    BY <1>1, <1>2, FunctionIsSeq
<1> QED
  BY <1>1, <1>2, <1>3

LEMMA PairAny ==
    ASSUME NEW s, IsSeq(s), NEW x, NEW y
    PROVE  /\ IsSeq(s \o <<x, y>>) /\ DOMAIN (s \o <<x, y>>) = 1 .. Len(s) + 2
           /\ \A k \in 1 .. Len(s) : (s \o <<x, y>>)[k] = s[k]
           /\ (s \o <<x, y>>)[Len(s) + 1] = x
           /\ (s \o <<x, y>>)[Len(s) + 2] = y
<1>1. PICK S : s \in Seq(S)
  BY DEF IsSeq
<1> DEFINE T == S \union {x, y}
<1>2. s \in Seq(T)
  BY <1>1, SeqMonotonic
<1>3. <<x, y>> \in Seq(T) /\ Len(<<x, y>>) = 2
  OBVIOUS
<1> DEFINE t == s \o <<x, y>>
<1>4. /\ t \in Seq(T) /\ Len(t) = Len(s) + 2
      /\ \A k \in 1 .. Len(s) + 2 : t[k] = IF k <= Len(s) THEN s[k] ELSE <<x, y>>[k - Len(s)]
  BY <1>2, <1>3, ConcatProperties
<1>5. Len(s) \in Nat
  BY SeqAny
<1>6. DOMAIN t = 1 .. Len(s) + 2
  BY <1>4, LenProperties
<1>7. ASSUME NEW k \in 1 .. Len(s) PROVE t[k] = s[k]
  <2>1. k \in 1 .. Len(s) + 2 /\ k <= Len(s)
    BY <1>5
  <2> QED
    BY <1>4, <2>1
<1>8. t[Len(s) + 1] = x /\ t[Len(s) + 2] = y
  <2>1. /\ Len(s) + 1 \in 1 .. Len(s) + 2 /\ ~ (Len(s) + 1 <= Len(s)) /\ Len(s) + 1 - Len(s) = 1
        /\ Len(s) + 2 \in 1 .. Len(s) + 2 /\ ~ (Len(s) + 2 <= Len(s)) /\ Len(s) + 2 - Len(s) = 2
    BY <1>5
  <2>2. t[Len(s) + 1] = <<x, y>>[1] /\ t[Len(s) + 2] = <<x, y>>[2]
    BY <1>4, <2>1
  <2> QED
    BY <2>2
<1> HIDE DEF t
<1>9. IsSeq(t)
  BY <1>4 DEF IsSeq
<1> QED
  BY <1>6, <1>7, <1>8, <1>9 DEF t

----------------------------------------------------------------------------
(* What the operations on a graph keep.                                    *)

(* A fact from kmeans2: whatever it computes, each member goes to one of   *)
(* the two clusters.                                                       *)
LEMMA KMeans2Deals ==
    ASSUME NEW ms, Len(ms) \in Nat, DOMAIN ms = 1 .. Len(ms)
    PROVE  \E first \in SUBSET (DOMAIN ms) :
              /\ KMeans2(ms)[1].ids = Ids(ms, first)
              /\ KMeans2(ms)[2].ids = Ids(ms, (DOMAIN ms) \ first)
<1>1. CASE \A j, k \in DOMAIN ms : Parallel(ms[j].vec, ms[k].vec)
  <2> DEFINE mid == Len(ms) \div 2
  <2>1. KMeans2(ms) = Halves(ms)
    BY <1>1 DEF KMeans2
  <2>2. /\ Halves(ms)[1].ids = Ids(ms, 1 .. mid)
        /\ Halves(ms)[2].ids = Ids(ms, mid + 1 .. Len(ms))
    BY DEF Halves
  <2>3. mid \in Nat /\ mid <= Len(ms)
    OBVIOUS
  <2> HIDE DEF mid
  <2>4. 1 .. mid \subseteq DOMAIN ms /\ (DOMAIN ms) \ (1 .. mid) = mid + 1 .. Len(ms)
    BY <2>3
  <2> QED
    BY <2>1, <2>2, <2>4
<1>2. CASE ~ \A j, k \in DOMAIN ms : Parallel(ms[j].vec, ms[k].vec)
  <2> DEFINE first == (DOMAIN ms) \intersect Lloyd(ms)
             two   == <<Built(ms, first), Built(ms, (DOMAIN ms) \ first)>>
  <2>1. KMeans2(ms) = The({two})
    <3>1. KMeans2(ms) = The({<<Built(ms, f), Built(ms, (DOMAIN ms) \ f)>> : f \in {first}})
      BY <1>2, Zenon DEF KMeans2
    <3>2. {<<Built(ms, f), Built(ms, (DOMAIN ms) \ f)>> : f \in {first}} = {two}
      OBVIOUS
    <3> QED
      BY <3>1, <3>2
  <2>2. The({two}) = two
    <3> HIDE DEF two
    <3> QED
      BY DEF The
  <2>3. \A ks : Built(ms, ks).ids = Ids(ms, ks)
    BY DEF Built
  <2> HIDE DEF first
  <2>4. KMeans2(ms)[1] = Built(ms, first) /\ KMeans2(ms)[2] = Built(ms, (DOMAIN ms) \ first)
    BY <2>1, <2>2
  <2>5. first \in SUBSET (DOMAIN ms)
    BY DEF first
  <2> QED
    BY <2>3, <2>4, <2>5
<1> QED
  BY <1>1, <1>2

LEMMA HomedMore ==
    ASSUME NEW old, NEW new, NEW S, new.members = old.members \union S
    PROVE  Homed(new) = Homed(old) \union {m[2] : m \in S}
BY DEF Homed

LEMMA NewCentroid ==
    ASSUME NEW k PROVE IsCentroid(Centroid(k)) /\ Centroid(k).active /\ Centroid(k).into = None
BY DEF Centroid, IsCentroid

LEMMA CreateFromOK ==
    ASSUME NEW g, GraphOK(g), NEW v \in Vecs \ Homed(g)
    PROVE  /\ GraphOK(CreateFrom(g, v)) /\ Extends(g, CreateFrom(g, v))
           /\ Homed(CreateFrom(g, v)) = Homed(g) \union {v}
<1> DEFINE k == Centroid(Single(emb[v].vec))
           n == Len(g.cents) + 1
           h == CreateFrom(g, v)
<1>1. IsCentroid(k) /\ k.active /\ k.into = None
  BY NewCentroid
<1>2. Len(g.cents) \in Nat /\ DOMAIN g.cents = 1 .. Len(g.cents)
  BY SeqAny DEF GraphOK
<1>3. /\ IsGraph(h) /\ h.cents = Append(g.cents, k) /\ h.members = g.members \union {<<n, v>>}
  BY DEF CreateFrom, IsGraph
<1> HIDE DEF k, h
<1>4. /\ IsSeq(h.cents) /\ DOMAIN h.cents = 1 .. n
      /\ \A c \in DOMAIN g.cents : h.cents[c] = g.cents[c]
      /\ h.cents[n] = k
  BY <1>2, <1>3, AppendAny DEF GraphOK
<1>5. /\ DOMAIN g.cents \subseteq DOMAIN h.cents /\ n \in DOMAIN h.cents
      /\ \A c \in DOMAIN h.cents : c \in DOMAIN g.cents \/ c = n
  BY <1>2, <1>4
<1> HIDE DEF n
<1>6. \A c \in DOMAIN h.cents : /\ IsCentroid(h.cents[c])
                                /\ h.cents[c].into \in (DOMAIN h.cents) \union {None}
  BY <1>1, <1>4, <1>5 DEF GraphOK
<1>7. /\ h.members \subseteq (DOMAIN h.cents) \X Vecs
      /\ \A m \in h.members : h.cents[m[1]].active
      /\ \A m, o \in h.members : m[2] = o[2] => m = o
  <2>1. \A m \in g.members : m[1] \in DOMAIN g.cents /\ m[2] # v
    BY DEF GraphOK, Homed
  <2>2. h.members \subseteq (DOMAIN h.cents) \X Vecs
    BY <1>3, <1>5 DEF GraphOK
  <2>3. \A m \in h.members : h.cents[m[1]].active
    <3>1. \A m \in g.members : h.cents[m[1]].active
      BY <1>4, <2>1 DEF GraphOK
    <3>2. h.cents[<<n, v>>[1]].active
      BY <1>1, <1>4
    <3> QED
      BY <1>3, <3>1, <3>2
  <2>4. \A m, o \in h.members : m[2] = o[2] => m = o
    BY <1>3, <2>1 DEF GraphOK
  <2> QED
    BY <2>2, <2>3, <2>4
<1>8. GraphOK(h)
  BY <1>3, <1>4, <1>6, <1>7 DEF GraphOK
<1>9. Extends(g, h)
  BY <1>4, <1>5 DEF Extends
<1>10. Homed(h) = Homed(g) \union {v}
  <2>1. Homed(h) = Homed(g) \union {m[2] : m \in {<<n, v>>}}
    BY <1>3, HomedMore
  <2> QED
    BY <2>1
<1> QED
  BY <1>8, <1>9, <1>10 DEF h

LEMMA AttachedOK ==
    ASSUME NEW g, GraphOK(g), NEW c \in Active(g), NEW v \in Vecs \ Homed(g)
    PROVE  /\ GraphOK(Attached(g, c, v)) /\ Extends(g, Attached(g, c, v))
           /\ Homed(Attached(g, c, v)) = Homed(g) \union {v}
           /\ c \in Active(Attached(g, c, v))
<1> DEFINE k == Centroid(Welford(g.cents[c], emb[v].vec))
           h == Attached(g, c, v)
<1>1. IsCentroid(k) /\ k.active /\ k.into = None
  BY NewCentroid
<1>2. c \in DOMAIN g.cents /\ g.cents[c].active
  BY DEF Active
<1>3. /\ IsGraph(h) /\ h.cents = [g.cents EXCEPT ![c] = k]
      /\ h.members = g.members \union {<<c, v>>}
  BY DEF Attached, IsGraph
<1> HIDE DEF k, h
<1>4. /\ IsSeq(h.cents) /\ DOMAIN h.cents = DOMAIN g.cents
      /\ \A d \in DOMAIN g.cents : h.cents[d] = IF d = c THEN k ELSE g.cents[d]
  BY <1>2, <1>3, ExceptAny DEF GraphOK
<1>5. \A d \in DOMAIN h.cents : /\ IsCentroid(h.cents[d])
                                /\ h.cents[d].into \in (DOMAIN h.cents) \union {None}
  BY <1>1, <1>4 DEF GraphOK
<1>6. \A m \in g.members : m[1] \in DOMAIN g.cents /\ m[2] # v
  BY DEF GraphOK, Homed
<1>7. h.members \subseteq (DOMAIN h.cents) \X Vecs
  BY <1>2, <1>3, <1>4 DEF GraphOK
<1>8. \A m \in h.members : h.cents[m[1]].active
  BY <1>1, <1>2, <1>3, <1>4, <1>6 DEF GraphOK
<1>9. \A m, o \in h.members : m[2] = o[2] => m = o
  BY <1>3, <1>6 DEF GraphOK
<1>10. GraphOK(h)
  BY <1>3, <1>4, <1>5, <1>7, <1>8, <1>9 DEF GraphOK
<1>11. Extends(g, h)
  BY <1>2, <1>4 DEF Extends
<1>12. Homed(h) = Homed(g) \union {v}
  <2>1. Homed(h) = Homed(g) \union {m[2] : m \in {<<c, v>>}}
    BY <1>3, HomedMore
  <2> QED
    BY <2>1
<1>13. c \in Active(h)
  BY <1>1, <1>2, <1>4 DEF Active
<1> QED
  BY <1>10, <1>11, <1>12, <1>13 DEF h

LEMMA SplitOK ==
    ASSUME NEW g, GraphOK(g), NEW c \in Active(g), NEW two,
           two[1].ids \union two[2].ids = MembersOf(g, c),
           two[1].ids \intersect two[2].ids = {}
    PROVE  /\ GraphOK(Split(g, c, two)) /\ Extends(g, Split(g, c, two))
           /\ Homed(Split(g, c, two)) = Homed(g)
<1> DEFINE n == Len(g.cents)
           a == Centroid(two[1])
           b == Centroid(two[2])
           old == [g.cents EXCEPT ![c].active = FALSE]
           h == Split(g, c, two)
           A == two[1].ids
           B == two[2].ids
<1>1. IsCentroid(a) /\ a.active /\ a.into = None /\ IsCentroid(b) /\ b.active /\ b.into = None
  BY NewCentroid
<1>2. n \in Nat /\ DOMAIN g.cents = 1 .. n
  BY SeqAny DEF GraphOK
<1>3. c \in DOMAIN g.cents /\ g.cents[c].active
  BY DEF Active
<1>4. /\ IsGraph(h) /\ h.cents = old \o <<a, b>>
      /\ h.members = {m \in g.members : m[1] # c} \union {<<n + 1, v>> : v \in A}
                     \union {<<n + 2, v>> : v \in B}
  BY DEF Split, Halved, IsGraph
<1> DEFINE off == [g.cents[c] EXCEPT !.active = FALSE]
<1>5. IsCentroid(off) /\ ~off.active /\ off.into = g.cents[c].into
  <2> DEFINE k == g.cents[c]
  <2>1. IsCentroid(k)
    BY <1>3 DEF GraphOK
  <2>2. off = [k EXCEPT !.active = FALSE]
    OBVIOUS
  <2> HIDE DEF k, off
  <2>3. IsCentroid(off) /\ ~off.active /\ off.into = k.into
    BY <2>1, <2>2 DEF IsCentroid
  <2> QED
    BY <2>3 DEF k
<1>6. /\ IsSeq(old) /\ DOMAIN old = 1 .. n
      /\ \A d \in 1 .. n : old[d] = IF d = c THEN off ELSE g.cents[d]
  <2>1. old = [g.cents EXCEPT ![c] = off]
    OBVIOUS
  <2> HIDE DEF off, old
  <2> QED
    BY <1>2, <1>3, <2>1, ExceptAny DEF GraphOK
<1>7. Len(old) = n
  BY <1>2, <1>6, SeqAny
<1> HIDE DEF a, b, old, off, h, A, B
<1>8. /\ IsSeq(h.cents) /\ DOMAIN h.cents = 1 .. n + 2
      /\ \A d \in 1 .. n : h.cents[d] = IF d = c THEN off ELSE g.cents[d]
      /\ h.cents[n + 1] = a /\ h.cents[n + 2] = b
  BY <1>4, <1>6, <1>7, PairAny
<1> HIDE DEF n
<1>9. /\ 1 .. n \subseteq 1 .. n + 2 /\ n + 1 \in 1 .. n + 2 /\ n + 2 \in 1 .. n + 2
      /\ n + 1 \notin 1 .. n /\ n + 2 \notin 1 .. n /\ n + 1 # n + 2
      /\ \A d \in 1 .. n + 2 : d \in 1 .. n \/ d = n + 1 \/ d = n + 2
  BY <1>2
<1>10. \A d \in DOMAIN h.cents : /\ IsCentroid(h.cents[d])
                                 /\ h.cents[d].into \in (DOMAIN h.cents) \union {None}
  BY <1>1, <1>2, <1>3, <1>5, <1>8, <1>9 DEF GraphOK
<1>11. A \subseteq Vecs /\ B \subseteq Vecs
  BY DEF MembersOf, A, B
<1>12. \A m \in g.members : m = <<m[1], m[2]>> /\ m[1] \in 1 .. n /\ m[2] \in Vecs
  BY <1>2 DEF GraphOK
<1>13. \A v \in A \union B : <<c, v>> \in g.members
  BY DEF A, B, MembersOf
<1>14. \A m \in h.members :
          \/ m \in g.members /\ m[1] # c
          \/ m = <<n + 1, m[2]>> /\ m[1] = n + 1 /\ m[2] \in A
          \/ m = <<n + 2, m[2]>> /\ m[1] = n + 2 /\ m[2] \in B
  BY <1>4
<1>15. h.members \subseteq (DOMAIN h.cents) \X Vecs
  <2> SUFFICES ASSUME NEW m \in h.members PROVE m \in (DOMAIN h.cents) \X Vecs
    OBVIOUS
  <2>1. m = <<m[1], m[2]>> /\ m[1] \in 1 .. n + 2 /\ m[2] \in Vecs
    BY <1>9, <1>11, <1>12, <1>14
  <2> QED
    BY <1>8, <2>1
<1>16. \A m \in h.members : h.cents[m[1]].active
  BY <1>1, <1>8, <1>12, <1>14 DEF GraphOK
<1>17. \A m, o \in h.members : m[2] = o[2] => m = o
  <2> SUFFICES ASSUME NEW m \in h.members, NEW o \in h.members, m[2] = o[2] PROVE m = o
    OBVIOUS
  <2>1. A \intersect B = {}
    BY DEF A, B
  <2>2. ASSUME NEW x \in g.members, x[1] # c PROVE x[2] \notin A \union B
    <3>1. <<c, x[2]>>[1] = c /\ <<c, x[2]>>[2] = x[2]
      OBVIOUS
    <3>2. x[2] \in A \union B => x = <<c, x[2]>>
      BY <1>13, <2>2, <3>1 DEF GraphOK
    <3> QED
      BY <2>2, <3>1, <3>2
  <2>3. CASE m \in g.members /\ o \in g.members
    BY <2>3 DEF GraphOK
  <2> QED
    BY <1>14, <2>1, <2>2, <2>3
<1>18. GraphOK(h)
  BY <1>4, <1>8, <1>10, <1>15, <1>16, <1>17 DEF GraphOK
<1>19. Extends(g, h)
  BY <1>2, <1>3, <1>8, <1>9 DEF Extends
<1>20. Homed(h) = Homed(g)
  <2>1. ASSUME NEW m \in h.members PROVE m[2] \in Homed(g)
    <3>1. CASE m \in g.members
      BY <3>1 DEF Homed
    <3>2. CASE m[2] \in A \union B
      <4>1. <<c, m[2]>> \in g.members /\ <<c, m[2]>>[2] = m[2]
        BY <1>13, <3>2
      <4> QED
        BY <4>1 DEF Homed
    <3> QED
      BY <1>14, <3>1, <3>2
  <2>2. ASSUME NEW m \in g.members PROVE m[2] \in Homed(h)
    <3>1. CASE m[1] # c
      BY <1>4, <3>1 DEF Homed
    <3>2. CASE m[1] = c
      <4>1. m[2] \in A \union B
        BY <1>12, <3>2 DEF A, B, MembersOf
      <4>2. <<n + 1, m[2]>> \in h.members \/ <<n + 2, m[2]>> \in h.members
        BY <1>4, <4>1
      <4>3. <<n + 1, m[2]>>[2] = m[2] /\ <<n + 2, m[2]>>[2] = m[2]
        OBVIOUS
      <4> QED
        BY <4>2, <4>3 DEF Homed
    <3> QED
      BY <3>1, <3>2
  <2> QED
    BY <2>1, <2>2 DEF Homed
<1> QED
  BY <1>18, <1>19, <1>20 DEF h

LEMMA MergeOK ==
    ASSUME NEW g, GraphOK(g), NEW a \in Active(g), NEW b \in Active(g), a # b
    PROVE  /\ GraphOK(Merge(g, a, b)) /\ Extends(g, Merge(g, a, b))
           /\ Homed(Merge(g, a, b)) = Homed(g)
           /\ Active(g) \ {a, b} \subseteq Active(Merge(g, a, b))
<1> DEFINE l == Len(g.cents)
           n == l + 1
           k == Centroid(Combine(g.cents[a], g.cents[b]))
           old == [c \in DOMAIN g.cents |->
                     IF c \in {a, b} THEN [g.cents[c] EXCEPT !.active = FALSE, !.into = n]
                     ELSE g.cents[c]]
           h == Merge(g, a, b)
<1>1. IsCentroid(k) /\ k.active /\ k.into = None
  BY NewCentroid
<1>2. l \in Nat /\ DOMAIN g.cents = 1 .. l
  BY SeqAny DEF GraphOK
<1>3. {a, b} \subseteq DOMAIN g.cents /\ g.cents[a].active /\ g.cents[b].active
  BY DEF Active
<1>4. /\ IsGraph(h) /\ h.cents = Append(old, k)
      /\ h.members = {IF m[1] \in {a, b} THEN <<n, m[2]>> ELSE m : m \in g.members}
  BY DEF Merge, IsGraph
<1>5. ASSUME NEW c \in {a, b}
      PROVE  IsCentroid(old[c]) /\ ~old[c].active /\ old[c].into = n
  <2>1. c \in DOMAIN g.cents /\ IsCentroid(g.cents[c])
    BY <1>3 DEF GraphOK
  <2>2. old[c] = [g.cents[c] EXCEPT !.active = FALSE, !.into = n]
    BY <2>1
  <2> HIDE DEF old, n
  <2> QED
    BY <2>1, <2>2 DEF IsCentroid
<1>6. \A c \in 1 .. l : c \notin {a, b} => old[c] = g.cents[c]
  BY <1>2
<1>7. IsSeq(old) /\ Len(old) = l
  <2>1. old = [c \in 1 .. l |-> old[c]]
    BY <1>2
  <2> HIDE DEF old
  <2> QED
    BY <1>2, <2>1, FunctionIsSeq
<1> HIDE DEF k, old, h
<1>8. /\ IsSeq(h.cents) /\ DOMAIN h.cents = 1 .. n
      /\ \A c \in 1 .. l : h.cents[c] = old[c]
      /\ h.cents[n] = k
  BY <1>4, <1>7, AppendAny
<1>9. /\ 1 .. l \subseteq 1 .. n /\ n \in 1 .. n /\ n \notin 1 .. l
      /\ \A d \in 1 .. n : d \in 1 .. l \/ d = n
  BY <1>2
<1> HIDE DEF n, l
<1>10. \A d \in DOMAIN h.cents : /\ IsCentroid(h.cents[d])
                                 /\ h.cents[d].into \in (DOMAIN h.cents) \union {None}
  BY <1>1, <1>2, <1>3, <1>5, <1>6, <1>8, <1>9 DEF GraphOK
<1>11. \A m \in g.members : m = <<m[1], m[2]>> /\ m[1] \in 1 .. l /\ m[2] \in Vecs
  BY <1>2 DEF GraphOK
<1>12. ASSUME NEW o \in h.members
       PROVE  \E m \in g.members : /\ o[2] = m[2] /\ o = <<o[1], o[2]>>
                                   /\ \/ m[1] \in {a, b} /\ o[1] = n
                                      \/ m[1] \notin {a, b} /\ o = m
  <2>1. PICK m \in g.members : o = IF m[1] \in {a, b} THEN <<n, m[2]>> ELSE m
    BY <1>4
  <2> QED
    BY <1>11, <2>1
<1>13. h.members \subseteq (DOMAIN h.cents) \X Vecs
  <2> SUFFICES ASSUME NEW o \in h.members PROVE o \in (DOMAIN h.cents) \X Vecs
    OBVIOUS
  <2>1. o = <<o[1], o[2]>> /\ o[1] \in 1 .. n /\ o[2] \in Vecs
    BY <1>9, <1>11, <1>12
  <2> QED
    BY <1>8, <2>1
<1>14. \A o \in h.members : h.cents[o[1]].active
  BY <1>1, <1>6, <1>8, <1>11, <1>12 DEF GraphOK
<1>15. \A m, o \in h.members : m[2] = o[2] => m = o
  <2> SUFFICES ASSUME NEW m \in h.members, NEW o \in h.members, m[2] = o[2] PROVE m = o
    OBVIOUS
  <2>1. PICK x \in g.members : /\ m[2] = x[2] /\ m = <<m[1], m[2]>>
                               /\ \/ x[1] \in {a, b} /\ m[1] = n
                                  \/ x[1] \notin {a, b} /\ m = x
    BY <1>12
  <2>2. PICK y \in g.members : /\ o[2] = y[2] /\ o = <<o[1], o[2]>>
                               /\ \/ y[1] \in {a, b} /\ o[1] = n
                                  \/ y[1] \notin {a, b} /\ o = y
    BY <1>12
  <2>3. x = y
    BY <2>1, <2>2 DEF GraphOK
  <2> QED
    BY <2>1, <2>2, <2>3
<1>16. GraphOK(h)
  BY <1>4, <1>8, <1>10, <1>13, <1>14, <1>15 DEF GraphOK
<1>17. Extends(g, h)
  BY <1>2, <1>3, <1>6, <1>8, <1>9 DEF Extends
<1>18. Homed(h) = Homed(g)
  <2>1. ASSUME NEW o \in h.members PROVE o[2] \in Homed(g)
    BY <1>12 DEF Homed
  <2>2. ASSUME NEW m \in g.members PROVE m[2] \in Homed(h)
    <3>1. PICK o \in h.members : o = IF m[1] \in {a, b} THEN <<n, m[2]>> ELSE m
      BY <1>4
    <3>2. o[2] = m[2]
      BY <3>1
    <3> QED
      BY <3>2 DEF Homed
  <2> QED
    BY <2>1, <2>2 DEF Homed
<1>19. Active(g) \ {a, b} \subseteq Active(h)
  BY <1>2, <1>6, <1>8, <1>9 DEF Active
<1> QED
  BY <1>16, <1>17, <1>18, <1>19 DEF h

LEMMA WithoutOK ==
    ASSUME NEW g, GraphOK(g), NEW v
    PROVE  /\ GraphOK(Without(g, v)) /\ Homed(Without(g, v)) = Homed(g) \ {v}
           /\ Without(g, v).cents = g.cents /\ Active(Without(g, v)) = Active(g)
<1> DEFINE h == Without(g, v)
<1>1. IsGraph(h) /\ h.cents = g.cents /\ h.members = {m \in g.members : m[2] # v}
  <2>1. g = [cents |-> g.cents, members |-> g.members]
    BY DEF GraphOK, IsGraph
  <2>2. h = [g EXCEPT !.members = {m \in g.members : m[2] # v}]
    BY Zenon DEF Without
  <2> HIDE DEF h
  <2>3. h = [cents |-> g.cents, members |-> {m \in g.members : m[2] # v}]
    BY <2>1, <2>2
  <2> QED
    BY <2>3 DEF IsGraph
<1> HIDE DEF h
<1>2. GraphOK(h)
  BY <1>1 DEF GraphOK
<1>3. Homed(h) = Homed(g) \ {v}
  BY <1>1 DEF Homed
<1>4. Active(h) = Active(g)
  BY <1>1 DEF Active
<1> QED
  BY <1>1, <1>2, <1>3, <1>4 DEF h

LEMMA ExtendsTransitive ==
    ASSUME NEW f, NEW g, NEW h, Extends(f, g), Extends(g, h)
    PROVE  Extends(f, h)
BY DEF Extends

(* The members of a centroid, in any order, dealt out by kmeans2.          *)
LEMMA MembersDealt ==
    ASSUME NEW S \in SUBSET Vecs, NEW order \in Orders(S),
           NEW two, two = KMeans2([k \in DOMAIN order |->
                                     [id |-> order[k], vec |-> emb[order[k]].vec]])
    PROVE  /\ two[1].ids \union two[2].ids = S
           /\ two[1].ids \intersect two[2].ids = {}
<1> DEFINE n == Cardinality(S)
           ms == [k \in DOMAIN order |-> [id |-> order[k], vec |-> emb[order[k]].vec]]
<1>1. IsFiniteSet(S) /\ n \in Nat
  <2>1. IsFiniteSet(Vecs)
    BY FS_Interval, ConsolidationAssumption DEF Vecs
  <2> QED
    BY <2>1, FS_Subset, FS_CardinalityType
<1>2. order \in [1 .. n -> S] /\ \A j, k \in 1 .. n : order[j] = order[k] => j = k
  BY DEF Orders
<1>3. \A v \in S : \E k \in 1 .. n : order[k] = v
  <2>1. IsFiniteSet(1 .. n) /\ Cardinality(1 .. n) = n
    BY <1>1, FS_Interval
  <2>2. order \in Injection(1 .. n, S)
    BY <1>2 DEF Injection, IsInjective
  <2>3. order \in Surjection(1 .. n, S)
    BY <1>1, <2>1, <2>2, FS_Injection
  <2> QED
    BY <2>3 DEF Surjection
<1>4. Len(ms) = n /\ DOMAIN ms = 1 .. n /\ \A k \in 1 .. n : ms[k].id = order[k]
  <2>1. ms = [k \in 1 .. n |-> ms[k]]
    BY <1>2
  <2>2. \A k \in 1 .. n : ms[k].id = order[k]
    BY <1>2
  <2> HIDE DEF ms
  <2>3. DOMAIN ms = 1 .. n
    BY <2>1
  <2> QED
    BY <1>1, <2>1, <2>2, <2>3, FunctionIsSeq
<1>5. two = KMeans2(ms)
  OBVIOUS
<1> HIDE DEF ms, n
<1>6. PICK first \in SUBSET (DOMAIN ms) :
              /\ KMeans2(ms)[1].ids = Ids(ms, first)
              /\ KMeans2(ms)[2].ids = Ids(ms, (DOMAIN ms) \ first)
  BY <1>1, <1>4, KMeans2Deals
<1>7. /\ two[1].ids = {order[k] : k \in first}
      /\ two[2].ids = {order[k] : k \in (1 .. n) \ first}
  <2>1. first \subseteq 1 .. n
    BY <1>4, <1>6
  <2>2. ASSUME NEW ks \in SUBSET (1 .. n) PROVE Ids(ms, ks) = {order[k] : k \in ks}
    BY <1>4 DEF Ids
  <2>3. (1 .. n) \ first \in SUBSET (1 .. n)
    OBVIOUS
  <2> QED
    BY <1>4, <1>5, <1>6, <2>1, <2>2, <2>3
<1>8. first \subseteq 1 .. n
  BY <1>4, <1>6
<1> QED
  BY <1>2, <1>3, <1>7, <1>8

----------------------------------------------------------------------------
(* The oldest vector of a batch exists.                                    *)

LEMMA LeastElement ==
    ASSUME NEW T, T \subseteq Nat, T # {}
    PROVE  \E x \in T : \A y \in T : x <= y
<1> DEFINE R == {p \in Nat \X Nat : p[1] < p[2]}
<1>1. IsWellFoundedOn(R, Nat)
  BY NatLessThanWellFounded DEF OpToRel
<1> HIDE DEF R
<1>2. PICK x \in T : \A y \in T : ~ (<<y, x>> \in R)
  BY <1>1, WFMin
<1>3. ASSUME NEW y \in T PROVE x <= y
  <2>1. ~ (y < x)
    BY <1>2 DEF R
  <2> QED
    BY <2>1
<1> QED
  BY <1>3

LEMMA Next1InTodo ==
    ASSUME NEW s, tx[s].todo \subseteq Vecs, tx[s].todo # {}
    PROVE  Next1(s) \in tx[s].todo
<1>1. tx[s].todo \subseteq Nat
  BY DEF Vecs
<1>2. \E v \in tx[s].todo : \A w \in tx[s].todo : v <= w
  BY <1>1, LeastElement
<1> QED
  BY <1>2 DEF Next1

----------------------------------------------------------------------------
(* Transactions.                                                           *)

(* An open transaction that a step leaves alone.                           *)
LEMMA TxSame ==
    ASSUME NEW s \in Sups, TxOK(s),
           tx'[s] = tx[s], graph' = graph, sup'[s].pc = sup[s].pc,
           \A v \in Live : v \in tx[s].claim =>
              v \in Live' /\ emb'[v].consolidated = emb[v].consolidated
    PROVE  TxOK(s)'
<1> DEFINE x == tx[s]
<1>1. x.claim \subseteq {v \in Live' : ~emb'[v].consolidated}
  BY DEF TxOK
<1>2. tx'[s] = x /\ (sup[s].pc)' = sup[s].pc
  OBVIOUS
<1> QED
  BY <1>1, <1>2 DEF TxOK

LEMMA TransactionsSame ==
    ASSUME Tables, Transactions, UNCHANGED <<graph, tx>>,
           sup' \in [Sups -> SupType],
           \A s \in Sups : tx[s] # None => sup'[s].pc = sup[s].pc,
           \A v \in Live : v \in Live' /\ emb'[v].consolidated = emb[v].consolidated
    PROVE  Transactions'
<1>1. \A s \in Sups : tx[s] # None => TxOK(s)'
  BY TxSame DEF Transactions
<1> QED
  BY <1>1 DEF Transactions

(* A transaction ends.                                                     *)
LEMMA TransactionsEnd ==
    ASSUME Transactions, NEW s \in Sups, tx[s] # None,
           tx' = [tx EXCEPT ![s] = None], sup' \in [Sups -> SupType]
    PROVE  Transactions'
<1>1. /\ tx = [t \in Sups |-> tx[t]]
      /\ \A t \in Sups : tx[t] # None => t = s
  BY DEF Transactions
<1>2. /\ tx' = [t \in Sups |-> tx'[t]]
      /\ \A t \in Sups : tx'[t] = None
  BY <1>1
<1> QED
  BY <1>2 DEF Transactions

(* A transaction begins.                                                   *)
LEMMA TransactionsBegin ==
    ASSUME Tables, Transactions, LockFree, NEW s \in Sups, NEW claim, NEW pairs,
           Begin(s, claim, pairs), UNCHANGED <<emb, graph, sup>>,
           claim \subseteq Buffered,
           pairs \subseteq Active(graph) \X Active(graph),
           \A p \in pairs : p[1] # p[2],
           sup[s].pc = "check" => pairs = {},
           sup[s].pc = "merge" => claim = {}
    PROVE  Transactions'
<1> DEFINE x == [claim |-> claim, todo |-> claim, held |-> {}, pairs |-> pairs, graph |-> graph]
<1>1. /\ tx = [t \in Sups |-> tx[t]] /\ \A t \in Sups : tx[t] = None
      /\ tx' = [tx EXCEPT ![s] = x]
  BY DEF Transactions, LockFree, Begin
<1>2. /\ x.claim = claim /\ x.todo = claim /\ x.pairs = pairs /\ x.graph = graph /\ IsTx(x)
  BY DEF IsTx
<1> HIDE DEF x
<1>3. /\ tx' = [t \in Sups |-> tx'[t]]
      /\ \A t \in Sups : tx'[t] = IF t = s THEN x ELSE None
  BY <1>1
<1>4. TxOK(s)'
  <2>1. tx'[s] = x /\ graph' = graph /\ (sup[s].pc)' = sup[s].pc /\ Live' = Live
    BY <1>3 DEF Live
  <2>2. x.claim \subseteq {v \in Live' : ~emb'[v].consolidated}
    BY <1>2, <2>1 DEF Buffered, Current
  <2>3. GraphOK(graph) /\ Extends(graph, graph)
    BY DEF Tables, Extends
  <2>4. Homed(x.graph) = Homed(graph) \union (x.claim \ x.todo)
    BY <1>2
  <2> QED
    BY <1>2, <2>1, <2>2, <2>3, <2>4 DEF TxOK
<1>5. sup' \in [Sups -> SupType]
  BY DEF Transactions
<1> QED
  BY <1>3, <1>4, <1>5 DEF Transactions

(* A transaction goes on with a new working copy.                          *)
LEMMA TransactionsGoOn ==
    ASSUME Tables, Transactions, NEW s \in Sups, tx[s] # None, NEW x, IsTx(x),
           tx' = [tx EXCEPT ![s] = x], UNCHANGED <<emb, graph, sup>>,
           GraphOK(x.graph), Extends(tx[s].graph, x.graph),
           x.claim = tx[s].claim, x.todo \subseteq x.claim,
           Homed(x.graph) = Homed(graph) \union (x.claim \ x.todo),
           x.pairs \subseteq tx[s].pairs,
           x.pairs \subseteq Active(x.graph) \X Active(x.graph)
    PROVE  Transactions'
<1>1. /\ tx = [t \in Sups |-> tx[t]] /\ \A t \in Sups : tx[t] # None => t = s
      /\ sup \in [Sups -> SupType] /\ TxOK(s)
  BY DEF Transactions
<1>2. /\ tx' = [t \in Sups |-> tx'[t]]
      /\ \A t \in Sups : tx'[t] = IF t = s THEN x ELSE tx[t]
  BY <1>1
<1>3. TxOK(s)'
  <2>1. tx'[s] = x /\ graph' = graph /\ (sup[s].pc)' = sup[s].pc /\ Live' = Live
    BY <1>2 DEF Live
  <2>2. x.claim \subseteq {v \in Live' : ~emb'[v].consolidated}
    BY <1>1, <2>1 DEF TxOK
  <2>3. Extends(graph, x.graph)
    BY <1>1, ExtendsTransitive DEF TxOK
  <2>4. /\ \A p \in x.pairs : p[1] # p[2]
        /\ sup[s].pc = "check" => x.pairs = {}
        /\ sup[s].pc = "merge" => x.claim = {}
    BY <1>1 DEF TxOK
  <2> QED
    BY <2>1, <2>2, <2>3, <2>4 DEF TxOK
<1> QED
  BY <1>1, <1>2, <1>3 DEF Transactions

(* What Wrote makes of a transaction.                                      *)
LEMMA WroteTx ==
    ASSUME NEW s \in Sups, tx = [t \in Sups |-> tx[t]], IsTx(tx[s]), NEW g, NEW vs, Wrote(s, g, vs)
    PROVE  \E x : /\ tx' = [tx EXCEPT ![s] = x] /\ IsTx(x)
                  /\ x.graph = g /\ x.claim = tx[s].claim /\ x.pairs = tx[s].pairs
                  /\ x.todo = tx[s].todo \ {Next1(s)}
<1> DEFINE y == tx[s]
           x == [y EXCEPT !.graph = g, !.held = @ \union vs, !.todo = @ \ {Next1(s)}]
<1>1. tx' = [tx EXCEPT ![s] = x]
  BY DEF Wrote
<1>2. PICK h, t : h = y.held \union vs /\ t = y.todo \ {Next1(s)}
  OBVIOUS
<1>3. x = [y EXCEPT !.graph = g, !.held = h, !.todo = t] /\ IsTx(y)
  BY <1>2
<1> HIDE DEF x, y
<1>4. IsTx(x) /\ x.graph = g /\ x.claim = y.claim /\ x.pairs = y.pairs /\ x.todo = t
  <2> DEFINE B == {y.todo, t}
             C == {y.held, h}
             D == {y.pairs, y.pairs}
             E == {y.graph, g}
  <2>1. y \in [claim : {y.claim}, todo : {y.todo}, held : {y.held},
              pairs : {y.pairs}, graph : {y.graph}]
    BY <1>3 DEF IsTx
  <2>2. y \in [claim : {y.claim}, todo : B, held : C, pairs : D, graph : E]
    BY <2>1
  <2>3. t \in B /\ h \in C /\ y.pairs \in D /\ g \in E
    OBVIOUS
  <2> HIDE DEF B, C, D, E
  <2>4. /\ x \in [claim : {y.claim}, todo : B, held : C, pairs : D, graph : E]
        /\ x.graph = g /\ x.claim = y.claim /\ x.pairs = y.pairs /\ x.todo = t
    BY <1>3, <2>2, <2>3
  <2> QED
    BY <2>4 DEF IsTx
<1> QED
  BY <1>1, <1>2, <1>4 DEF y

(* The claimed vector that is next has no home yet.                        *)
LEMMA NextIsHomeless ==
    ASSUME Tables, NEW s \in Sups, TxOK(s), tx[s].todo # {}
    PROVE  /\ Next1(s) \in tx[s].todo /\ Next1(s) \in Vecs \ Homed(tx[s].graph)
           /\ Next1(s) \in tx[s].claim
<1>1. tx[s].todo \subseteq tx[s].claim /\ tx[s].claim \subseteq {v \in Live : ~emb[v].consolidated}
  BY DEF TxOK
<1>2. tx[s].claim \subseteq Vecs
  BY <1>1 DEF Live
<1>3. Next1(s) \in tx[s].todo
  BY <1>1, <1>2, Next1InTodo
<1>4. Next1(s) \notin Homed(graph)
  BY <1>1, <1>3 DEF Tables
<1>5. Next1(s) \notin Homed(tx[s].graph)
  BY <1>3, <1>4 DEF TxOK
<1> QED
  BY <1>1, <1>2, <1>3, <1>5

(* One vector of a batch gets a home: in a new centroid, in one that has   *)
(* room, or in a half of one that had not.                                 *)
LEMMA BatchItemStep ==
    ASSUME Tables, Transactions, NEW s \in Sups, BatchItem(s)
    PROVE  Transactions'
<1> DEFINE g == tx[s].graph
           v == Next1(s)
<1>1. /\ sup[s].pc = "check" /\ tx[s] # None /\ tx[s].todo # {}
      /\ UNCHANGED <<emb, graph, sup>>
  BY DEF BatchItem
<1>2. TxOK(s) /\ tx = [t \in Sups |-> tx[t]]
  BY <1>1 DEF Transactions
<1>3. v \in tx[s].todo /\ v \in Vecs \ Homed(g) /\ v \in tx[s].claim
  BY <1>1, <1>2, NextIsHomeless
<1>4. /\ IsTx(tx[s]) /\ GraphOK(g) /\ tx[s].todo \subseteq tx[s].claim
      /\ Homed(g) = Homed(graph) \union (tx[s].claim \ tx[s].todo)
      /\ tx[s].pairs = {}
  BY <1>1, <1>2 DEF TxOK
<1>5. ASSUME NEW h, NEW vs, Wrote(s, h, vs), GraphOK(h), Extends(g, h),
             Homed(h) = Homed(g) \union {v}
      PROVE  Transactions'
  <2>1. PICK x : /\ tx' = [tx EXCEPT ![s] = x] /\ IsTx(x)
                 /\ x.graph = h /\ x.claim = tx[s].claim /\ x.pairs = tx[s].pairs
                 /\ x.todo = tx[s].todo \ {v}
    BY <1>2, <1>4, <1>5, WroteTx
  <2> HIDE DEF v
  <2>2. x.todo \subseteq x.claim /\ Homed(x.graph) = Homed(graph) \union (x.claim \ x.todo)
    BY <1>3, <1>4, <1>5, <2>1
  <2>3. x.pairs \subseteq tx[s].pairs /\ x.pairs \subseteq Active(x.graph) \X Active(x.graph)
    BY <1>4, <2>1
  <2> QED
    BY <1>1, <1>5, <2>1, <2>2, <2>3, TransactionsGoOn
<1>6. CASE Nearest(g, v) = {} /\ Wrote(s, CreateFrom(g, v), {v})
  BY <1>3, <1>4, <1>5, <1>6, CreateFromOK
<1>7. ASSUME NEW c \in Nearest(g, v),
             \/ ~TooLarge(Attached(g, c, v), c) /\ Wrote(s, Attached(g, c, v), {v})
             \/ \E order \in Orders(MembersOf(Attached(g, c, v), c)) :
                  Wrote(s, Split(Attached(g, c, v), c,
                                 KMeans2([k \in DOMAIN order |->
                                   [id |-> order[k], vec |-> emb[order[k]].vec]])),
                        MembersOf(Attached(g, c, v), c))
      PROVE  Transactions'
  <2> DEFINE h == Attached(g, c, v)
  <2>1. c \in Active(g)
    BY DEF Nearest
  <2>2. GraphOK(h) /\ Extends(g, h) /\ Homed(h) = Homed(g) \union {v} /\ c \in Active(h)
    BY <1>3, <1>4, <2>1, AttachedOK
  <2> HIDE DEF h, g, v
  <2>3. CASE Wrote(s, h, {v})
    BY <1>5, <2>2, <2>3
  <2>4. ASSUME NEW order \in Orders(MembersOf(h, c)),
               Wrote(s, Split(h, c, KMeans2([k \in DOMAIN order |->
                                   [id |-> order[k], vec |-> emb[order[k]].vec]])),
                     MembersOf(h, c))
        PROVE  Transactions'
    <3>1. PICK two : two = KMeans2([k \in DOMAIN order |->
                                      [id |-> order[k], vec |-> emb[order[k]].vec]])
      OBVIOUS
    <3>2. MembersOf(h, c) \in SUBSET Vecs
      BY DEF MembersOf
    <3>3. /\ two[1].ids \union two[2].ids = MembersOf(h, c)
          /\ two[1].ids \intersect two[2].ids = {}
      BY <3>1, <3>2, MembersDealt
    <3>4. GraphOK(Split(h, c, two)) /\ Extends(h, Split(h, c, two))
          /\ Homed(Split(h, c, two)) = Homed(h)
      BY <2>2, <3>3, SplitOK
    <3>5. Extends(g, Split(h, c, two))
      BY <2>2, <3>4, ExtendsTransitive
    <3>6. Wrote(s, Split(h, c, two), MembersOf(h, c))
      BY <2>4, <3>1
    <3> QED
      BY <1>5, <2>2, <3>4, <3>5, <3>6
  <2> QED
    BY <1>7, <2>3, <2>4 DEF h
<1> QED
  BY <1>6, <1>7 DEF BatchItem

(* Two centroids become one.                                               *)
LEMMA MergePairStep ==
    ASSUME Tables, Transactions, NEW s \in Sups, NEW p, MergePair(s, p)
    PROVE  Transactions'
<1> DEFINE g == tx[s].graph
           y == tx[s]
           a == p[1]
           b == p[2]
<1>1. /\ sup[s].pc = "merge" /\ tx[s] # None /\ p \in tx[s].pairs
      /\ UNCHANGED <<emb, graph, sup>>
  BY DEF MergePair
<1>2. TxOK(s) /\ tx = [t \in Sups |-> tx[t]]
  BY <1>1 DEF Transactions
<1>3. /\ IsTx(y) /\ GraphOK(g) /\ y.claim = {} /\ y.todo = {}
      /\ Homed(g) = Homed(graph)
      /\ y.pairs \subseteq Active(g) \X Active(g) /\ a # b
  BY <1>1, <1>2 DEF TxOK
<1>4. a \in Active(g) /\ b \in Active(g)
  BY <1>1, <1>3
<1>5. /\ GraphOK(Merge(g, a, b)) /\ Extends(g, Merge(g, a, b))
      /\ Homed(Merge(g, a, b)) = Homed(g)
      /\ Active(g) \ {a, b} \subseteq Active(Merge(g, a, b))
  BY <1>3, <1>4, MergeOK
<1> DEFINE rest == {q \in y.pairs : {q[1], q[2]} \intersect {p[1], p[2]} = {}}
           vs == MembersOf(g, p[1]) \union MembersOf(g, p[2])
           x == [y EXCEPT !.graph = Merge(g, a, b), !.held = @ \union vs,
                          !.pairs = {q \in @ : {q[1], q[2]} \intersect {p[1], p[2]} = {}}]
<1>6. tx' = [tx EXCEPT ![s] = x]
  BY DEF MergePair
<1>7. PICK h, k, r : /\ h = y.held \union vs /\ k = Merge(g, a, b) /\ r = rest
                    /\ x = [y EXCEPT !.graph = k, !.held = h, !.pairs = r]
  OBVIOUS
<1> HIDE DEF x
<1>8. /\ IsTx(x) /\ x.claim = y.claim /\ x.todo = y.todo /\ x.pairs = rest
      /\ x.graph = Merge(g, a, b)
  <2> HIDE DEF rest, vs, y
  <2> DEFINE B == {y.todo, y.todo}
             C == {y.held, h}
             D == {y.pairs, r}
             E == {y.graph, k}
  <2>1. y \in [claim : {y.claim}, todo : {y.todo}, held : {y.held},
              pairs : {y.pairs}, graph : {y.graph}]
    BY <1>3 DEF IsTx
  <2>2. y \in [claim : {y.claim}, todo : B, held : C, pairs : D, graph : E]
    BY <2>1
  <2>3. y.todo \in B /\ h \in C /\ r \in D /\ k \in E
    OBVIOUS
  <2> HIDE DEF B, C, D, E
  <2>4. /\ x \in [claim : {y.claim}, todo : B, held : C, pairs : D, graph : E]
        /\ x.claim = y.claim /\ x.todo = y.todo /\ x.pairs = r /\ x.graph = k
    BY <1>7, <2>2, <2>3
  <2> QED
    BY <1>7, <2>4 DEF IsTx
<1>9. rest \subseteq Active(x.graph) \X Active(x.graph)
  <2> SUFFICES ASSUME NEW q \in rest PROVE q \in Active(x.graph) \X Active(x.graph)
    OBVIOUS
  <2>1. q \in Active(g) \X Active(g) /\ q[1] \notin {a, b} /\ q[2] \notin {a, b}
    BY <1>3
  <2> QED
    BY <1>5, <1>8, <2>1
<1>10. x.pairs \subseteq y.pairs
  BY <1>8
<1>11. x.todo \subseteq x.claim /\ Homed(x.graph) = Homed(graph) \union (x.claim \ x.todo)
  BY <1>3, <1>5, <1>8
<1> QED
  BY <1>1, <1>5, <1>6, <1>8, <1>9, <1>10, <1>11, TransactionsGoOn

----------------------------------------------------------------------------
(* The rows and the searches that read them.                               *)

LEMMA RowsAreRows ==
    ASSUME Tables
    PROVE  /\ \A v \in Live : v \in Vecs /\ v <= born /\ emb[v] \in EmbRow
           /\ \A v \in Vecs : emb[v] \in EmbRow \union {None}
           /\ None \notin EmbRow
BY ConsolidationAssumption DEF Tables, Live, EmbRow

(* A step that leaves the rows, the graph and the search alone.            *)
LEMMA QuietStep ==
    ASSUME Tables, SearchOK, UNCHANGED <<emb, born, graph, search>>,
           del' \in Live \union {None},
           deletes' \in 0 .. MaxDeletes, fails' \in 0 .. MaxFails
    PROVE  Tables' /\ SearchOK'
<1>1. Live' = Live /\ Buffered' = Buffered
  BY DEF Live, Buffered, Current
<1> QED
  BY <1>1 DEF Tables, SearchOK

(* A vector that is no longer current is forgotten by the search.          *)
LEMMA ForgottenOK ==
    ASSUME SearchOK, NEW v, search' = Forgotten(v), Buffered \ {v} \subseteq Buffered'
    PROVE  SearchOK'
<1>1. CASE search = None
  BY <1>1 DEF SearchOK, Forgotten
<1>2. CASE search # None
  <2>1. PICK a, b, d : /\ search = [missed |-> a, moved |-> b, done |-> d]
                       /\ a \subseteq Vecs /\ b \subseteq Vecs /\ d \in BOOLEAN
                       /\ IF d THEN a \subseteq b ELSE a \ b \subseteq Buffered
    <3>1. search = [missed |-> search.missed, moved |-> search.moved, done |-> search.done]
      BY <1>2 DEF SearchOK
    <3> QED
      BY <1>2, <3>1 DEF SearchOK
  <2>2. search' = [missed |-> a \ {v}, moved |-> b \ {v}, done |-> d]
    BY <1>2, <2>1 DEF Forgotten
  <2> QED
    BY <2>1, <2>2 DEF SearchOK
<1> QED
  BY <1>1, <1>2

(* What a batch has moved, a search may have missed.                       *)
LEMMA MovedOK ==
    ASSUME SearchOK, NEW claim, search' = Moved(claim), Buffered \ claim \subseteq Buffered'
    PROVE  SearchOK'
<1>1. CASE search = None
  BY <1>1 DEF SearchOK, Moved
<1>2. CASE search # None
  <2>1. PICK a, b, d : /\ search = [missed |-> a, moved |-> b, done |-> d]
                       /\ a \subseteq Vecs /\ b \subseteq Vecs /\ d \in BOOLEAN
                       /\ IF d THEN a \subseteq b ELSE a \ b \subseteq Buffered
    <3>1. search = [missed |-> search.missed, moved |-> search.moved, done |-> search.done]
      BY <1>2 DEF SearchOK
    <3> QED
      BY <1>2, <3>1 DEF SearchOK
  <2>2. search' = [missed |-> a, moved |-> b \union (claim \intersect a), done |-> d]
    BY <1>2, <2>1 DEF Moved
  <2> QED
    BY <2>1, <2>2 DEF SearchOK
<1> QED
  BY <1>1, <1>2

LEMMA EmbedStep ==
    ASSUME Tables, Transactions, SearchOK, NEW p \in Points, Embed(p)
    PROVE  Tables' /\ Transactions' /\ SearchOK'
<1> DEFINE n == born + 1
           new == [vec |-> p, current |-> TRUE, consolidated |-> FALSE]
<1>1. /\ born' = n /\ n \in Vecs /\ n \in 0 .. MaxVecs /\ n > born
      /\ UNCHANGED <<graph, sup, tx, del, search, deletes, fails>>
  BY ConsolidationAssumption DEF Embed, Tables, Vecs
<1>2. n \notin Live /\ \A v \in Live : v <= born /\ v \in Vecs
  BY <1>1, RowsAreRows DEF Tables
<1>3. emb' = [emb EXCEPT ![n] = new] /\ emb \in [Vecs -> EmbRow \union {None}]
  BY <1>1 DEF Embed, Tables
<1>4. new \in EmbRow /\ new # None /\ new.current /\ ~new.consolidated
  <2>1. new \in EmbRow
    BY DEF EmbRow
  <2> QED
    BY <2>1, RowsAreRows
<1> HIDE DEF new, n
<1>5. /\ emb' \in [Vecs -> EmbRow \union {None}] /\ emb'[n] = new
      /\ \A v \in Vecs : v # n => emb'[v] = emb[v]
  BY <1>1, <1>3, <1>4
<1>6. Live' = Live \union {n} /\ \A v \in Live : emb'[v] = emb[v]
  BY <1>1, <1>2, <1>4, <1>5 DEF Live
<1>7. Buffered \subseteq Buffered'
  BY <1>6 DEF Buffered, Current
<1>8. Tables'
  <2>1. \A v \in Live' : v <= n
    BY <1>1, <1>2, <1>6 DEF Tables, Vecs, n
  <2>2. {v \in Live' : emb'[v].consolidated} = {v \in Live : emb[v].consolidated}
    BY <1>2, <1>4, <1>5, <1>6
  <2> QED
    BY <1>1, <1>5, <1>6, <2>1, <2>2 DEF Tables
<1>9. Transactions'
  BY <1>1, <1>6, TransactionsSame DEF Transactions
<1>10. SearchOK'
  BY <1>1, <1>7 DEF SearchOK
<1> QED
  BY <1>8, <1>9, <1>10

LEMMA OutdateStep ==
    ASSUME Tables, Transactions, SearchOK, NEW v \in Vecs, Outdate(v)
    PROVE  Tables' /\ Transactions' /\ SearchOK'
<1>1. /\ v \in Live /\ search' = Forgotten(v)
      /\ emb' = [emb EXCEPT ![v].current = FALSE] /\ emb \in [Vecs -> EmbRow \union {None}]
      /\ UNCHANGED <<born, graph, sup, tx, del, deletes, fails>>
  BY DEF Outdate, Current, Tables
<1>2. PICK new : new = [emb[v] EXCEPT !.current = FALSE]
  OBVIOUS
<1>3. new \in EmbRow /\ new # None /\ new.consolidated = emb[v].consolidated
  BY <1>1, <1>2, RowsAreRows DEF EmbRow
<1>4. /\ emb' \in [Vecs -> EmbRow \union {None}] /\ emb'[v] = new
      /\ \A w \in Vecs : w # v => emb'[w] = emb[w]
  BY <1>1, <1>2, <1>3
<1>5. Live' = Live /\ \A w \in Live : emb'[w].consolidated = emb[w].consolidated
  BY <1>1, <1>3, <1>4 DEF Live
<1>6. Buffered \ {v} \subseteq Buffered'
  BY <1>4, <1>5 DEF Buffered, Current, Live
<1>7. Tables'
  BY <1>1, <1>4, <1>5 DEF Tables
<1>8. Transactions'
  BY <1>1, <1>5, TransactionsSame DEF Transactions
<1> QED
  BY <1>1, <1>6, <1>7, <1>8, ForgottenOK

(* No row that a delete takes is in a claim.                               *)
LEMMA DeleteFinishStep ==
    ASSUME Tables, Transactions, SearchOK, DeleteFinish
    PROVE  Tables' /\ Transactions' /\ SearchOK'
<1>1. /\ del # None /\ del \notin Claimed /\ search' = Forgotten(del)
      /\ emb' = [emb EXCEPT ![del] = None] /\ emb \in [Vecs -> EmbRow \union {None}]
      /\ graph' = Without(graph, del) /\ del' = None
      /\ UNCHANGED <<born, sup, deletes, fails>>
  BY DEF DeleteFinish, Tables
<1>2. del \in Live /\ del \in Vecs
  BY <1>1 DEF Tables, Live
<1>3. /\ emb' \in [Vecs -> EmbRow \union {None}] /\ emb'[del] = None
      /\ \A v \in Vecs : v # del => emb'[v] = emb[v]
  BY <1>1, <1>2
<1>4. Live' = Live \ {del} /\ \A v \in Live' : emb'[v] = emb[v]
  BY <1>3 DEF Live
<1>5. Buffered \ {del} \subseteq Buffered'
  BY <1>4 DEF Buffered, Current
<1>6. /\ GraphOK(graph') /\ Homed(graph') = Homed(graph) \ {del}
      /\ graph'.cents = graph.cents
  BY <1>1, WithoutOK DEF Tables
<1>7. Tables'
  BY <1>1, <1>3, <1>4, <1>6 DEF Tables
<1>8. Transactions'
  <2>1. tx' = [s \in Sups |-> IF tx[s] = None THEN None
                              ELSE [tx[s] EXCEPT !.graph = Without(tx[s].graph, del)]]
    BY Zenon DEF DeleteFinish
  <2>2. \A s \in Sups : tx'[s] = IF tx[s] = None THEN None
                              ELSE [tx[s] EXCEPT !.graph = Without(tx[s].graph, del)]
    BY <2>1
  <2>3. tx' = [s \in Sups |-> tx'[s]]
    BY <2>1, <2>2, Zenon
  <2>4. \A s \in Sups : tx'[s] # None => tx[s] # None
    BY <2>2
  <2>5. ASSUME NEW s \in Sups, tx[s] # None PROVE TxOK(s)'
    <3> DEFINE y == tx[s]
    <3>1. PICK h : h = Without(y.graph, del)
      OBVIOUS
    <3>2. PICK x : x = tx'[s]
      OBVIOUS
    <3>3. x = [y EXCEPT !.graph = h] /\ TxOK(s)
      BY <2>2, <2>5, <3>1, <3>2 DEF Transactions
    <3>4. /\ GraphOK(h) /\ Homed(h) = Homed(y.graph) \ {del}
          /\ h.cents = y.graph.cents /\ Active(h) = Active(y.graph)
      BY <3>1, <3>3, WithoutOK DEF TxOK
    <3>5. /\ IsTx(x) /\ x.graph = h /\ x.claim = y.claim /\ x.todo = y.todo
          /\ x.pairs = y.pairs
      <4>1. y = [claim |-> y.claim, todo |-> y.todo, held |-> y.held,
                 pairs |-> y.pairs, graph |-> y.graph]
        BY <3>3 DEF TxOK, IsTx
      <4> HIDE DEF y
      <4>2. x = [claim |-> y.claim, todo |-> y.todo, held |-> y.held,
                 pairs |-> y.pairs, graph |-> h]
        BY <3>3, <4>1
      <4> QED
        BY <4>2 DEF IsTx
    <3>6. del \notin y.claim
      BY <1>1, <2>5 DEF Claimed
    <3>7. x.claim \subseteq {v \in Live' : ~emb'[v].consolidated}
      BY <1>4, <3>3, <3>5, <3>6 DEF TxOK
    <3>8. Extends(graph', h)
      BY <1>6, <3>3, <3>4 DEF TxOK, Extends
    <3>9. Homed(h) = Homed(graph') \union (x.claim \ x.todo)
      BY <1>6, <3>3, <3>4, <3>5, <3>6 DEF TxOK
    <3>10. /\ x.pairs \subseteq Active(h) \X Active(h) /\ \A p \in x.pairs : p[1] # p[2]
           /\ x.todo \subseteq x.claim
           /\ sup[s].pc = "check" => x.pairs = {}
           /\ sup[s].pc = "merge" => x.claim = {}
      BY <3>3, <3>4, <3>5 DEF TxOK
    <3>11. (sup[s].pc)' = sup[s].pc /\ (tx[s])' = x
      BY <1>1, <3>2
    <3> QED
      BY <3>4, <3>5, <3>7, <3>8, <3>9, <3>10, <3>11 DEF TxOK
  <2> QED
    BY <1>1, <2>3, <2>4, <2>5 DEF Transactions
<1> QED
  BY <1>1, <1>5, <1>7, <1>8, ForgottenOK

LEMMA CycledType ==
    ASSUME NEW u \in SupType PROVE Cycled(u) \in SupType
<1>1. u.cycles \in 0 .. MergeEvery - 1 /\ MergeEvery \in Nat \ {0}
  BY ConsolidationAssumption DEF SupType
<1> QED
  BY <1>1 DEF Cycled, SupType

(* A batch that commits gives a home to what it claimed, and to nothing    *)
(* else.                                                                   *)
LEMMA BatchCommitStep ==
    ASSUME Tables, Transactions, SearchOK, NEW s \in Sups, BatchCommit(s)
    PROVE  Tables' /\ Transactions' /\ SearchOK' /\ Extends(graph, graph')
<1> DEFINE x == tx[s]
<1>1. /\ x # None /\ x.todo = {}
      /\ emb' = [v \in Vecs |-> IF v \in x.claim
                                THEN [emb[v] EXCEPT !.consolidated = TRUE] ELSE emb[v]]
      /\ graph' = x.graph /\ search' = Moved(x.claim)
      /\ tx' = [tx EXCEPT ![s] = None] /\ sup' = [sup EXCEPT ![s] = Cycled(sup[s])]
      /\ UNCHANGED <<born, del, deletes, fails>>
  BY DEF BatchCommit
<1>2. /\ GraphOK(x.graph) /\ Extends(graph, x.graph)
      /\ x.claim \subseteq {v \in Live : ~emb[v].consolidated}
      /\ Homed(x.graph) = Homed(graph) \union x.claim
  BY <1>1 DEF Transactions, TxOK
<1>3. PICK claim : claim = x.claim
  OBVIOUS
<1>4. /\ \A v \in Vecs \ claim : emb'[v] = emb[v]
      /\ \A v \in claim : emb'[v] = [emb[v] EXCEPT !.consolidated = TRUE]
      /\ claim \subseteq Live /\ claim \subseteq Vecs
  BY <1>1, <1>2, <1>3 DEF Live
<1>5. \A v \in claim : emb'[v] \in EmbRow /\ emb'[v].consolidated
  BY <1>4, RowsAreRows DEF EmbRow
<1>6. \A v \in Vecs : emb'[v] \in EmbRow \union {None}
  BY <1>4, <1>5, RowsAreRows
<1>7. emb' \in [Vecs -> EmbRow \union {None}]
  <2>1. emb' = [v \in Vecs |-> emb'[v]]
    BY <1>1
  <2> QED
    BY <1>6, <2>1
<1>8. Live' = Live
  BY <1>4, <1>5, RowsAreRows DEF Live
<1>9. {v \in Live' : emb'[v].consolidated} = {v \in Live : emb[v].consolidated} \union claim
  BY <1>4, <1>5, <1>8, RowsAreRows
<1>10. Tables'
  BY <1>1, <1>2, <1>3, <1>7, <1>8, <1>9 DEF Tables
<1>11. sup' \in [Sups -> SupType]
  BY <1>1, CycledType DEF Transactions
<1>12. Transactions'
  BY <1>1, <1>11, TransactionsEnd
<1>13. Buffered \ claim \subseteq Buffered'
  BY <1>4, <1>8, RowsAreRows DEF Buffered, Current
<1> QED
  BY <1>1, <1>2, <1>3, <1>10, <1>12, <1>13, MovedOK

(* A merge that commits moves vectors among their homes.                   *)
LEMMA MergeCommitStep ==
    ASSUME Tables, Transactions, SearchOK, NEW s \in Sups, MergeCommit(s)
    PROVE  Tables' /\ Transactions' /\ SearchOK' /\ Extends(graph, graph')
<1>1. /\ tx[s] # None /\ sup[s].pc = "merge"
      /\ graph' = tx[s].graph /\ tx' = [tx EXCEPT ![s] = None]
      /\ sup' = [sup EXCEPT ![s].pc = "check"]
      /\ UNCHANGED <<emb, born, del, search, deletes, fails>>
  BY DEF MergeCommit
<1>2. /\ GraphOK(tx[s].graph) /\ Extends(graph, tx[s].graph)
      /\ Homed(tx[s].graph) = Homed(graph)
  BY <1>1 DEF Transactions, TxOK
<1>3. Live' = Live /\ Buffered' = Buffered
  BY <1>1 DEF Live, Buffered, Current
<1>4. Tables'
  BY <1>1, <1>2, <1>3 DEF Tables
<1>5. sup' \in [Sups -> SupType]
  BY <1>1 DEF Transactions, SupType
<1>6. Transactions'
  BY <1>1, <1>5, TransactionsEnd
<1>7. SearchOK'
  BY <1>1, <1>3 DEF SearchOK
<1> QED
  BY <1>1, <1>2, <1>4, <1>6, <1>7

(* The first statement of a search misses only what is in the buffer: what *)
(* is consolidated has its home in an active centroid.                     *)
LEMMA SearchCentroidsStep ==
    ASSUME Tables, SearchCentroids
    PROVE  SearchOK'
<1> DEFINE M == {v \in Current : \A c \in Active(graph) : <<c, v>> \notin graph.members}
<1>1. search' = [missed |-> M, moved |-> {}, done |-> FALSE] /\ UNCHANGED emb
  BY DEF SearchCentroids
<1>2. ASSUME NEW v \in M PROVE v \in Buffered
  <2>1. v \in Live /\ v \in Current
    BY DEF Current
  <2>2. v \notin Homed(graph)
    <3> SUFFICES ASSUME NEW m \in graph.members, m[2] = v PROVE FALSE
      BY DEF Homed
    <3>1. m = <<m[1], v>> /\ m[1] \in Active(graph)
      BY DEF Tables, GraphOK, Active
    <3> QED
      BY <3>1
  <2> QED
    BY <2>1, <2>2 DEF Tables, Buffered
<1>3. M \subseteq Vecs
  BY DEF Current, Live
<1>4. Buffered' = Buffered
  BY <1>1 DEF Buffered, Current, Live
<1> HIDE DEF M
<1> QED
  BY <1>1, <1>2, <1>3, <1>4 DEF SearchOK

LEMMA SearchBufferStep ==
    ASSUME SearchOK, SearchBuffer
    PROVE  SearchOK'
<1>1. PICK a, b, d : /\ search = [missed |-> a, moved |-> b, done |-> d]
                     /\ a \subseteq Vecs /\ b \subseteq Vecs /\ a \ b \subseteq Buffered
  <2>1. /\ search # None /\ ~search.done
        /\ search = [missed |-> search.missed, moved |-> search.moved, done |-> search.done]
    BY DEF SearchBuffer, SearchOK
  <2> QED
    BY <2>1 DEF SearchOK
<1>2. search' = [missed |-> a \ Buffered, moved |-> b, done |-> TRUE]
  BY <1>1 DEF SearchBuffer
<1> QED
  BY <1>1, <1>2 DEF SearchOK

----------------------------------------------------------------------------
(* The inductive invariant.                                                *)

(* The tables are sound, the one open transaction will leave them so, and  *)
(* the search under way has missed only what it can still find or what a   *)
(* batch has moved.                                                        *)
Consolidated == Tables /\ Transactions /\ SearchOK

LEMMA ConsolidatedInitially ==
    ASSUME Init PROVE Consolidated
<1>1. Live = {}
  BY DEF Init, Live
<1>2. GraphOK(graph) /\ Homed(graph) = {}
  <2>1. graph = [cents |-> <<>>, members |-> {}]
    BY DEF Init
  <2>2. graph.cents = <<>> /\ graph.members = {} /\ IsGraph(graph)
    BY <2>1 DEF IsGraph
  <2>3. IsSeq(graph.cents) /\ DOMAIN graph.cents = {}
    BY <2>2, EmptySeq DEF IsSeq
  <2> QED
    BY <2>2, <2>3 DEF GraphOK, Homed
<1>3. Tables
  BY <1>1, <1>2, ConsolidationAssumption DEF Init, Tables
<1>4. Transactions
  <2>1. IdleSup \in SupType
    BY ConsolidationAssumption DEF IdleSup, SupType
  <2> QED
    BY <2>1 DEF Init, Transactions
<1> QED
  BY <1>3, <1>4 DEF Init, SearchOK, Consolidated

(* What a supervisor does short of a commit.                               *)
LEMMA SupStepQuiet ==
    ASSUME Tables, Transactions, NEW s \in Sups,
           \/ LockedOut(s) \/ BatchBegin(s) \/ BatchItem(s) \/ MergeBegin(s)
           \/ (\E p \in Active(graph) \X Active(graph) : MergePair(s, p))
           \/ ForeignKeyFails(s) \/ LoadFails(s) \/ TxFails(s)
    PROVE  /\ UNCHANGED <<emb, born, graph, search, del, deletes>>
           /\ fails' \in 0 .. MaxFails /\ Transactions'
<1>1. fails \in 0 .. MaxFails /\ MaxFails \in Nat
  BY ConsolidationAssumption DEF Tables
<1>2. sup \in [Sups -> SupType]
  BY DEF Transactions
<1>3. CASE LockedOut(s)
  <2>1. /\ UNCHANGED <<emb, born, graph, tx, search, del, deletes, fails>> /\ tx[s] = None
        /\ \/ sup' = [sup EXCEPT ![s] = Cycled(sup[s])]
           \/ sup' = [sup EXCEPT ![s].pc = "check"]
    BY <1>3 DEF LockedOut
  <2>2. Cycled(sup[s]) \in SupType
    BY <1>2, CycledType
  <2>3. sup' \in [Sups -> SupType] /\ \A t \in Sups : t # s => sup'[t] = sup[t]
    <3>1. CASE sup' = [sup EXCEPT ![s] = Cycled(sup[s])]
      BY <1>2, <2>2, <3>1
    <3>2. CASE sup' = [sup EXCEPT ![s].pc = "check"]
      BY <1>2, <3>2 DEF SupType
    <3> QED
      BY <2>1, <3>1, <3>2
  <2>4. Transactions'
    BY <2>1, <2>3, TransactionsSame DEF Live
  <2> QED
    BY <1>1, <2>1, <2>4
<1>4. CASE LoadFails(s)
  <2>1. /\ UNCHANGED <<emb, born, graph, tx, search, del, deletes>> /\ tx[s] = None
        /\ sup' = [sup EXCEPT ![s].pc = "off"] /\ fails' = fails + 1 /\ fails < MaxFails
    BY <1>4 DEF LoadFails
  <2>2. sup' \in [Sups -> SupType] /\ \A t \in Sups : t # s => sup'[t] = sup[t]
    BY <1>2, <2>1 DEF SupType
  <2>3. Transactions'
    BY <2>1, <2>2, TransactionsSame DEF Live
  <2>4. fails' \in 0 .. MaxFails
    BY <1>1, <2>1
  <2> QED
    BY <2>1, <2>3, <2>4
<1>5. CASE BatchBegin(s)
  <2>1. /\ UNCHANGED <<emb, born, graph, sup, search, del, deletes, fails>>
        /\ sup[s].pc = "check" /\ LockFree /\ Begin(s, Oldest(Buffered), {})
    BY <1>5 DEF BatchBegin
  <2>2. Oldest(Buffered) \subseteq Buffered
    BY DEF Oldest
  <2>3. Transactions'
    BY <2>1, <2>2, TransactionsBegin
  <2> QED
    BY <1>1, <2>1, <2>3
<1>6. CASE BatchItem(s)
  BY <1>1, <1>6, BatchItemStep DEF BatchItem
<1>7. CASE MergeBegin(s)
  <2> DEFINE pairs == {p \in Active(graph) \X Active(graph) : p[1] < p[2] /\
                         Within(graph.cents[p[1]].sum, graph.cents[p[2]].sum, MergeCos)}
  <2>1. /\ UNCHANGED <<emb, born, graph, sup, search, del, deletes, fails>>
        /\ sup[s].pc = "merge" /\ LockFree /\ Begin(s, {}, pairs)
    BY <1>7 DEF MergeBegin
  <2>2. Active(graph) \subseteq Nat
    <3>1. Len(graph.cents) \in Nat /\ DOMAIN graph.cents = 1 .. Len(graph.cents)
      BY SeqAny DEF Tables, GraphOK
    <3> QED
      BY <3>1 DEF Active
  <2>3. pairs \subseteq Active(graph) \X Active(graph) /\ \A p \in pairs : p[1] # p[2]
    BY <2>2
  <2> HIDE DEF pairs
  <2>4. Transactions'
    BY <2>1, <2>3, TransactionsBegin
  <2> QED
    BY <1>1, <2>1, <2>4
<1>8. ASSUME NEW p, MergePair(s, p)
      PROVE  /\ UNCHANGED <<emb, born, graph, search, del, deletes, fails>> /\ Transactions'
  BY <1>8, MergePairStep DEF MergePair
<1>9. CASE ForeignKeyFails(s) \/ TxFails(s)
  <2>1. /\ UNCHANGED <<emb, born, graph, search, del, deletes>>
        /\ tx' = [tx EXCEPT ![s] = None] /\ sup' = [sup EXCEPT ![s].pc = "check"]
    BY <1>9 DEF ForeignKeyFails, TxFails, RolledBack
  <2>2. tx[s] # None
    BY <1>9 DEF ForeignKeyFails, TxFails, Waits
  <2>3. sup' \in [Sups -> SupType]
    BY <1>2, <2>1 DEF SupType
  <2>4. fails' \in 0 .. MaxFails
    BY <1>1, <1>9 DEF ForeignKeyFails, TxFails
  <2> QED
    BY <2>1, <2>2, <2>3, <2>4, TransactionsEnd
<1> QED
  BY <1>1, <1>3, <1>4, <1>5, <1>6, <1>7, <1>8, <1>9

(* Every step keeps the invariant, and keeps what became of a centroid.    *)
LEMMA ConsolidatedStep ==
    ASSUME Consolidated, [Next]_vars
    PROVE  Consolidated' /\ Extends(graph, graph')
<1>1. Tables /\ Transactions /\ SearchOK
  BY DEF Consolidated
<1>2. UNCHANGED graph => Extends(graph, graph')
  BY DEF Extends
<1>3. deletes \in 0 .. MaxDeletes /\ fails \in 0 .. MaxFails /\ del \in Live \union {None}
  BY <1>1 DEF Tables
<1>4. ASSUME NEW p \in Points, Embed(p) PROVE Consolidated' /\ UNCHANGED graph
  BY <1>1, <1>4, EmbedStep DEF Consolidated, Embed
<1>5. ASSUME NEW v \in Vecs, Outdate(v) PROVE Consolidated' /\ UNCHANGED graph
  BY <1>1, <1>5, OutdateStep DEF Consolidated, Outdate
<1>6. ASSUME NEW v \in Vecs, DeleteBegin(v) PROVE Consolidated' /\ UNCHANGED graph
  <2>1. /\ v \in Live /\ del' = v /\ deletes < MaxDeletes /\ deletes' = deletes + 1
        /\ UNCHANGED <<emb, born, graph, sup, tx, search, fails>>
    BY <1>6 DEF DeleteBegin
  <2>2. deletes' \in 0 .. MaxDeletes
    BY <1>3, <2>1, ConsolidationAssumption
  <2>3. Tables' /\ SearchOK'
    BY <1>1, <1>3, <2>1, <2>2, QuietStep
  <2>4. Transactions'
    BY <1>1, <2>1, TransactionsSame DEF Live, Transactions
  <2> QED
    BY <2>1, <2>3, <2>4 DEF Consolidated
<1>7. CASE DeleteFinish
  <2>1. graph'.cents = graph.cents
    BY <1>1, <1>7, WithoutOK DEF DeleteFinish, Tables
  <2>2. Extends(graph, graph')
    BY <2>1 DEF Extends
  <2> QED
    BY <1>1, <1>7, <2>2, DeleteFinishStep DEF Consolidated
<1>8. CASE DeleteAborted
  <2>1. del' = None /\ UNCHANGED <<emb, born, graph, sup, tx, search, deletes, fails>>
    BY <1>8 DEF DeleteAborted
  <2>2. Tables' /\ SearchOK'
    BY <1>1, <1>3, <2>1, QuietStep
  <2>3. Transactions'
    BY <1>1, <2>1, TransactionsSame DEF Live, Transactions
  <2> QED
    BY <1>2, <2>1, <2>2, <2>3 DEF Consolidated
<1>9. CASE SearchStep
  <2>1. UNCHANGED <<emb, born, graph, sup, tx, del, deletes, fails>>
    BY <1>9 DEF SearchStep, SearchCentroids, SearchBuffer, SearchEnd
  <2>2. SearchOK'
    <3>1. CASE SearchEnd
      BY <3>1 DEF SearchEnd, SearchOK
    <3> QED
      BY <1>1, <1>9, <3>1, SearchCentroidsStep, SearchBufferStep DEF SearchStep
  <2>3. Live' = Live
    BY <2>1 DEF Live
  <2>4. Tables'
    BY <1>1, <2>1, <2>3 DEF Tables
  <2>5. Transactions'
    BY <1>1, <2>1, <2>3, TransactionsSame DEF Transactions
  <2> QED
    BY <1>2, <2>1, <2>2, <2>4, <2>5 DEF Consolidated
<1>10. ASSUME NEW s \in Sups,
              \/ LockedOut(s) \/ BatchBegin(s) \/ BatchItem(s) \/ MergeBegin(s)
              \/ (\E p \in Active(graph) \X Active(graph) : MergePair(s, p))
              \/ ForeignKeyFails(s) \/ LoadFails(s) \/ TxFails(s)
       PROVE  Consolidated' /\ UNCHANGED graph
  <2>1. /\ UNCHANGED <<emb, born, graph, search, del, deletes>>
        /\ fails' \in 0 .. MaxFails /\ Transactions'
    BY <1>1, <1>10, SupStepQuiet
  <2>2. Tables' /\ SearchOK'
    BY <1>1, <1>3, <2>1, QuietStep
  <2> QED
    BY <2>1, <2>2 DEF Consolidated
<1>11. ASSUME NEW s \in Sups, BatchCommit(s) \/ MergeCommit(s)
       PROVE  Consolidated' /\ Extends(graph, graph')
  BY <1>1, <1>11, BatchCommitStep, MergeCommitStep DEF Consolidated
<1>12. CASE UNCHANGED vars
  <2>1. UNCHANGED <<emb, born, graph, sup, tx, del, search, deletes, fails>>
    BY <1>12 DEF vars
  <2>2. Tables' /\ SearchOK'
    BY <1>1, <1>3, <2>1, QuietStep
  <2>3. Transactions'
    BY <1>1, <2>1, TransactionsSame DEF Live, Transactions
  <2> QED
    BY <1>2, <2>1, <2>2, <2>3 DEF Consolidated
<1> QED
  BY <1>2, <1>4, <1>5, <1>6, <1>7, <1>8, <1>9, <1>10, <1>11, <1>12 DEF Next, SupStep

(* Tables, open transaction and search, whatever interleaves.              *)
THEOREM ConsolidationInvariant == Spec => []Consolidated
<1>1. Init => Consolidated
  BY ConsolidatedInitially
<1>2. Consolidated /\ [Next]_vars => Consolidated'
  BY ConsolidatedStep
<1> QED
  BY <1>1, <1>2, PTL DEF Spec

----------------------------------------------------------------------------
(* What the runs check.                                                    *)

LEMMA TypesHold ==
    ASSUME Consolidated PROVE ConsolidationTypeOK
<1>1. Tables /\ Transactions /\ SearchOK
  BY DEF Consolidated
<1>2. ASSUME NEW v \in Vecs, emb[v] # None
      PROVE  /\ v <= born /\ emb[v].vec \in Points
             /\ {emb[v].current, emb[v].consolidated} \subseteq BOOLEAN
  BY <1>1, <1>2, RowsAreRows DEF Live, EmbRow
<1>3. graph.members \subseteq (DOMAIN graph.cents) \X Live
  <2> SUFFICES ASSUME NEW m \in graph.members
               PROVE  m \in (DOMAIN graph.cents) \X Live
    OBVIOUS
  <2>1. m \in (DOMAIN graph.cents) \X Vecs /\ m[2] \in Homed(graph)
    BY <1>1 DEF Tables, GraphOK, Homed
  <2>2. m[2] \in Live
    BY <1>1, <2>1 DEF Tables
  <2> QED
    BY <2>1, <2>2
<1>4. \A c \in DOMAIN graph.cents : graph.cents[c].into \in (DOMAIN graph.cents) \union {None}
  BY <1>1 DEF Tables, GraphOK
<1>5. ASSUME NEW s \in Sups
      PROVE  /\ sup[s].pc \in {"check", "merge", "off"} /\ sup[s].cycles \in 0 .. MergeEvery - 1
             /\ tx[s] # None => tx[s].claim \subseteq Live
  BY <1>1 DEF Transactions, SupType, TxOK
<1>6. search # None => search.missed \union search.moved \subseteq Vecs
  BY <1>1 DEF SearchOK
<1> QED
  BY <1>1, <1>2, <1>3, <1>4, <1>5, <1>6 DEF ConsolidationTypeOK, Tables

LEMMA HomesAreOne ==
    ASSUME Consolidated PROVE OneHome
<1>1. Tables
  BY DEF Consolidated
<1>2. \A m \in graph.members : graph.cents[m[1]].active
  BY <1>1 DEF Tables, GraphOK
<1>3. ASSUME NEW v \in Live
      PROVE  Cardinality({c \in Active(graph) : <<c, v>> \in graph.members})
               = IF emb[v].consolidated THEN 1 ELSE 0
  <2> DEFINE homes == {c \in Active(graph) : <<c, v>> \in graph.members}
  <2>1. emb[v].consolidated <=> v \in Homed(graph)
    BY <1>1 DEF Tables
  <2>2. CASE v \in Homed(graph)
    <3>1. PICK m \in graph.members : m[2] = v
      BY <2>2 DEF Homed
    <3>2. m = <<m[1], v>> /\ m[1] \in DOMAIN graph.cents
      BY <1>1, <3>1 DEF Tables, GraphOK
    <3>3. m[1] \in homes
      BY <1>2, <3>1, <3>2 DEF Active
    <3>4. ASSUME NEW c \in homes PROVE c = m[1]
      <4>1. <<c, v>> \in graph.members /\ <<c, v>>[2] = m[2] /\ <<c, v>>[1] = c
        BY <3>1
      <4>2. <<c, v>> = m
        BY <1>1, <4>1 DEF Tables, GraphOK
      <4> QED
        BY <4>1, <4>2
    <3>5. homes = {m[1]}
      BY <3>3, <3>4
    <3> HIDE DEF homes
    <3>6. Cardinality(homes) = 1
      BY <3>5, FS_Singleton
    <3> QED
      BY <2>1, <2>2, <3>6 DEF homes
  <2>3. CASE v \notin Homed(graph)
    <3>1. homes = {}
      <4> SUFFICES ASSUME NEW c \in homes PROVE FALSE
        OBVIOUS
      <4>1. <<c, v>> \in graph.members /\ <<c, v>>[2] = v
        OBVIOUS
      <4> QED
        BY <2>3, <4>1 DEF Homed
    <3> HIDE DEF homes
    <3>2. Cardinality(homes) = 0
      BY <3>1, FS_EmptySet
    <3> QED
      BY <2>1, <2>3, <3>2 DEF homes
  <2> QED
    BY <2>2, <2>3
<1> QED
  BY <1>2, <1>3, TypesHold DEF OneHome

(* A vector is in the buffer or in exactly one active centroid (OneHome),  *)
(* with any number of daemons on the database: consolidate_batch,          *)
(* split_centroid and merge_centroids under pg_try_advisory_xact_lock.     *)
THEOREM OneHomeAlways == Spec => []OneHome
BY ConsolidationInvariant, HomesAreOne, PTL

(* A search misses a vector only when a batch commits between its two      *)
(* statements (MissedOnlyWhenMoved, search_by_concept).                    *)
THEOREM MissedOnlyWhenMovedAlways == Spec => []MissedOnlyWhenMoved
<1>1. Consolidated => MissedOnlyWhenMoved
  BY DEF Consolidated, SearchOK, MissedOnlyWhenMoved
<1> QED
  BY <1>1, ConsolidationInvariant, PTL

(* No step deletes a centroid, and none changes one that is no longer      *)
(* active (NeverReactivated): the working copy that a commit publishes was *)
(* taken from the graph it replaces.                                       *)
THEOREM NoneIsReactivated == Spec => NeverReactivated
<1>1. Consolidated /\ [Next]_vars =>
        [\A c \in DOMAIN graph.cents :
           /\ c \in DOMAIN graph'.cents
           /\ ~graph.cents[c].active => graph'.cents[c] = graph.cents[c]]_vars
  BY ConsolidatedStep DEF Extends
<1> QED
  BY <1>1, ConsolidationInvariant, PTL DEF Spec, NeverReactivated

(* Sums over a finite set, as the fold computes them: whatever element it  *)
(* takes out first.                                                        *)
Pick(s) == CHOOSE x \in s : TRUE

SumsIn(g, F, D) ==
    g = [s \in D |-> IF s = {} THEN 0 ELSE F[Pick(s)] + g[s \ {Pick(s)}]]

(* g is the sum of F over each subset of S.                                *)
SumsUp(g, F, S) == SumsIn(g, F, SUBSET S)

Sum(F, S) == (CHOOSE g : SumsUp(g, F, S))[S]

LEMMA PickIn ==
    ASSUME NEW s, s # {} PROVE Pick(s) \in s
BY DEF Pick

LEMMA SmallerSet ==
    ASSUME NEW s, IsFiniteSet(s), NEW x \in s
    PROVE  /\ IsFiniteSet(s \ {x})
           /\ Cardinality(s) \in Nat /\ Cardinality(s \ {x}) \in Nat
           /\ Cardinality(s) = Cardinality(s \ {x}) + 1
<1>1. Cardinality(s) \in Nat
  BY FS_CardinalityType
<1>2. IsFiniteSet(s \ {x}) /\ Cardinality(s \ {x}) = Cardinality(s) - 1
  BY FS_RemoveElement
<1>3. Cardinality(s \ {x}) \in Nat
  BY <1>2, FS_CardinalityType
<1> QED
  BY <1>1, <1>2, <1>3

LEMMA SumExists ==
    ASSUME NEW F, NEW S, IsFiniteSet(S)
    PROVE  \E g : SumsUp(g, F, S)
<1> DEFINE Upto(n) == {s \in SUBSET S : Cardinality(s) <= n}
           Bad == {n \in Nat : ~ \E g : SumsIn(g, F, Upto(n))}
<1>1. Bad = {}
  <2> SUFFICES ASSUME Bad # {} PROVE FALSE
    OBVIOUS
  <2>1. PICK n \in Bad : \A m \in Bad : n <= m
    <3>1. Bad \subseteq Nat
      OBVIOUS
    <3> HIDE DEF Bad
    <3> QED
      BY <3>1, LeastElement
  <2>2. CASE n = 0
    <3> DEFINE g == [s \in Upto(0) |-> 0]
    <3>1. \A s \in Upto(0) : s = {}
      BY FS_Subset, FS_EmptySet, FS_CardinalityType
    <3>2. SumsIn(g, F, Upto(0))
      BY <3>1, Zenon DEF SumsIn
    <3> QED
      BY <2>2, <3>2
  <2>3. CASE n # 0
    <3>1. n - 1 \in Nat /\ n - 1 \notin Bad
      <4>1. n \in Nat
        BY <2>1
      <4>2. n - 1 \in Nat /\ ~ (n <= n - 1)
        BY <2>3, <4>1
      <4> HIDE DEF Bad
      <4> QED
        BY <2>1, <4>2
    <3>2. PICK g : SumsIn(g, F, Upto(n - 1))
      BY <3>1
    <3> DEFINE h == [s \in Upto(n) |-> IF s = {} THEN 0 ELSE F[Pick(s)] + g[s \ {Pick(s)}]]
    <3>3. ASSUME NEW s \in Upto(n), s # {}
          PROVE  s \ {Pick(s)} \in Upto(n - 1) /\ s \ {Pick(s)} \in Upto(n)
      <4>1. s \in SUBSET S /\ Pick(s) \in s /\ Cardinality(s) <= n /\ IsFiniteSet(s)
        BY <3>3, PickIn, FS_Subset
      <4> DEFINE x == Pick(s)
      <4>2. x \in s
        BY <4>1
      <4> HIDE DEF x
      <4>3. /\ s \ {x} \in SUBSET S
            /\ Cardinality(s) \in Nat /\ Cardinality(s \ {x}) \in Nat
            /\ Cardinality(s) = Cardinality(s \ {x}) + 1
        BY <4>1, <4>2, SmallerSet
      <4> QED
        BY <3>1, <4>1, <4>3 DEF x
    <3>4. ASSUME NEW s \in Upto(n - 1) PROVE s \in Upto(n) /\ g[s] = h[s]
      <4>1. s \in Upto(n)
        BY <3>1, FS_Subset, FS_CardinalityType
      <4> QED
        BY <3>2, <4>1 DEF SumsIn
    <3>5. SumsIn(h, F, Upto(n))
      <4>1. \A s \in Upto(n) : s # {} => g[s \ {Pick(s)}] = h[s \ {Pick(s)}]
        BY <3>3, <3>4
      <4> HIDE DEF Upto
      <4>2. h = [s \in Upto(n) |-> IF s = {} THEN 0 ELSE F[Pick(s)] + h[s \ {Pick(s)}]]
        BY <4>1, Zenon
      <4> QED
        BY <4>2, Zenon DEF SumsIn
    <3> QED
      BY <3>5
  <2> QED
    BY <2>2, <2>3
<1>2. Cardinality(S) \in Nat
  BY FS_CardinalityType
<1>3. Upto(Cardinality(S)) = SUBSET S
  BY FS_Subset
<1>4. PICK g : SumsIn(g, F, Upto(Cardinality(S)))
  BY <1>1, <1>2
<1> HIDE DEF Upto
<1> QED
  BY <1>3, <1>4 DEF SumsUp

(* The set a sum is computed in makes no difference.                       *)
LEMMA SumUnique ==
    ASSUME NEW F, NEW S, NEW T, NEW g, NEW h,
           IsFiniteSet(S), SumsUp(g, F, S), SumsUp(h, F, T)
    PROVE  \A s \in SUBSET S : s \subseteq T => g[s] = h[s]
<1> DEFINE Bad == {s \in SUBSET S : s \subseteq T /\ g[s] # h[s]}
           Sizes == {Cardinality(s) : s \in Bad}
<1> SUFFICES ASSUME Bad # {} PROVE FALSE
  OBVIOUS
<1>1. Sizes \subseteq Nat /\ Sizes # {}
  <2>1. \A s \in Bad : IsFiniteSet(s)
    BY FS_Subset
  <2>2. \A s \in Bad : Cardinality(s) \in Nat
    BY <2>1, FS_CardinalityType
  <2> HIDE DEF Bad
  <2> QED
    BY <2>2
<1>2. PICK n \in Sizes : \A m \in Sizes : n <= m
  <2> HIDE DEF Sizes
  <2> QED
    BY <1>1, LeastElement
<1>3. PICK s \in Bad : \A r \in Bad : Cardinality(s) <= Cardinality(r)
  BY <1>2
<1>4. s \in SUBSET S /\ s \in SUBSET T /\ g[s] # h[s] /\ IsFiniteSet(s)
  BY FS_Subset
<1>5. s # {}
  BY <1>4 DEF SumsUp, SumsIn
<1>6. PICK x : x = Pick(s)
  OBVIOUS
<1>7. x \in s /\ g[s] = F[x] + g[s \ {x}] /\ h[s] = F[x] + h[s \ {x}]
  BY <1>4, <1>5, <1>6, PickIn DEF SumsUp, SumsIn
<1>8. g[s \ {x}] = h[s \ {x}]
  <2>1. /\ Cardinality(s) \in Nat /\ Cardinality(s \ {x}) \in Nat
        /\ Cardinality(s) = Cardinality(s \ {x}) + 1
    BY <1>4, <1>7, SmallerSet
  <2>2. ~ (Cardinality(s) <= Cardinality(s \ {x}))
    BY <2>1
  <2>3. s \ {x} \notin Bad
    BY <1>3, <2>2
  <2> QED
    BY <1>4, <2>3
<1> QED
  BY <1>4, <1>7, <1>8

LEMMA SumIs ==
    ASSUME NEW F, NEW S, NEW g, IsFiniteSet(S), SumsUp(g, F, S)
    PROVE  \A s \in SUBSET S : Sum(F, s) = g[s]
<1> SUFFICES ASSUME NEW s \in SUBSET S PROVE Sum(F, s) = g[s]
  OBVIOUS
<1>1. IsFiniteSet(s)
  BY FS_Subset
<1> DEFINE h == CHOOSE f : SumsUp(f, F, s)
<1>2. SumsUp(h, F, s)
  BY <1>1, SumExists
<1> HIDE DEF h
<1>3. h[s] = g[s]
  BY <1>1, <1>2, SumUnique
<1> QED
  BY <1>3, Zenon DEF Sum, h

(* SumFunctionOnSet computes it.                                           *)
LEMMA FoldIsSum ==
    ASSUME NEW F, NEW S, IsFiniteSet(S)
    PROVE  SumFunctionOnSet(F, S) = Sum(F, S)
<1> DEFINE Fits(k) == k = [s \in SUBSET S |->
              IF s = {} THEN 0 ELSE F[CHOOSE x \in s : TRUE] + k[s \ {CHOOSE x \in s : TRUE}]]
<1>1. SumFunctionOnSet(F, S) = (CHOOSE k : Fits(k))[S]
  BY DEF SumFunctionOnSet, FoldFunctionOnSet, MapThenFoldSet
<1>2. ASSUME NEW k PROVE SumsUp(k, F, S) <=> Fits(k)
  BY Zenon DEF SumsUp, SumsIn, Pick
<1>3. PICK g : SumsUp(g, F, S)
  BY SumExists
<1>4. Fits(CHOOSE k : Fits(k))
  <2>1. Fits(g)
    BY <1>2, <1>3
  <2> HIDE DEF Fits
  <2>2. \E k : Fits(k)
    BY <2>1
  <2> QED
    BY <2>2, Zenon
<1> DEFINE f == CHOOSE k : Fits(k)
<1>5. Sum(F, S) = f[S]
  <2>1. SumsUp(f, F, S)
    BY <1>2, <1>4
  <2> HIDE DEF f
  <2> QED
    BY <2>1, SumIs
<1> QED
  BY <1>1, <1>5

LEMMA SumEmpty ==
    ASSUME NEW F PROVE Sum(F, {}) = 0
<1>1. IsFiniteSet({})
  BY FS_EmptySet
<1>2. PICK g : SumsUp(g, F, {})
  BY <1>1, SumExists
<1>3. Sum(F, {}) = g[{}]
  BY <1>1, <1>2, SumIs
<1> QED
  BY <1>2, <1>3 DEF SumsUp, SumsIn

LEMMA SumPick ==
    ASSUME NEW F, NEW S, IsFiniteSet(S), S # {}
    PROVE  Sum(F, S) = F[Pick(S)] + Sum(F, S \ {Pick(S)})
<1>1. PICK g : SumsUp(g, F, S)
  BY SumExists
<1>2. \A s \in SUBSET S : Sum(F, s) = g[s]
  BY <1>1, SumIs
<1>3. g[S] = F[Pick(S)] + g[S \ {Pick(S)}]
  BY <1>1 DEF SumsUp, SumsIn
<1> QED
  BY <1>2, <1>3

(* A sum depends on the elements alone.                                    *)
LEMMA SumSame ==
    ASSUME NEW F, NEW G, NEW S, IsFiniteSet(S), \A x \in S : F[x] = G[x]
    PROVE  Sum(F, S) = Sum(G, S)
<1>1. PICK g : SumsUp(g, F, S)
  BY SumExists
<1>2. SumsUp(g, G, S)
  <2>1. \A s \in SUBSET S : s # {} => F[Pick(s)] = G[Pick(s)]
    BY PickIn
  <2> QED
    BY <1>1, <2>1 DEF SumsUp, SumsIn
<1>3. Sum(F, S) = g[S] /\ Sum(G, S) = g[S]
  BY <1>1, <1>2, SumIs
<1> QED
  BY <1>3

(* Any element may be taken out first.                                     *)
LEMMA SumAdd ==
    ASSUME NEW F, NEW S, IsFiniteSet(S), \A x \in S : F[x] \in Nat
    PROVE  /\ Sum(F, S) \in Nat
           /\ \A x \in S : Sum(F, S) = F[x] + Sum(F, S \ {x})
<1> DEFINE Good(s) == /\ Sum(F, s) \in Nat
                      /\ \A x \in s : Sum(F, s) = F[x] + Sum(F, s \ {x})
           Bad == {s \in SUBSET S : ~Good(s)}
           Sizes == {Cardinality(s) : s \in Bad}
<1> SUFFICES ASSUME Bad # {} PROVE FALSE
  OBVIOUS
<1>1. Sizes \subseteq Nat /\ Sizes # {}
  <2>1. \A s \in Bad : IsFiniteSet(s)
    BY FS_Subset
  <2>2. \A s \in Bad : Cardinality(s) \in Nat
    BY <2>1, FS_CardinalityType
  <2> HIDE DEF Bad
  <2> QED
    BY <2>2
<1>2. PICK n \in Sizes : \A m \in Sizes : n <= m
  <2> HIDE DEF Sizes
  <2> QED
    BY <1>1, LeastElement
<1>3. PICK s \in Bad : \A r \in Bad : Cardinality(s) <= Cardinality(r)
  BY <1>2
<1>4. s \in SUBSET S /\ ~Good(s) /\ IsFiniteSet(s)
  BY FS_Subset
<1>5. s # {}
  BY <1>4, SumEmpty
<1>6. ASSUME NEW x \in s PROVE Good(s \ {x})
  <2>1. /\ Cardinality(s) \in Nat /\ Cardinality(s \ {x}) \in Nat
        /\ Cardinality(s) = Cardinality(s \ {x}) + 1
    BY <1>4, SmallerSet
  <2>2. ~ (Cardinality(s) <= Cardinality(s \ {x}))
    BY <2>1
  <2>3. s \ {x} \notin Bad
    BY <1>3, <2>2
  <2> QED
    BY <1>4, <2>3
<1>7. PICK y : y = Pick(s)
  OBVIOUS
<1>8. y \in s /\ y \in S /\ F[y] \in Nat /\ Sum(F, s) = F[y] + Sum(F, s \ {y})
  BY <1>4, <1>5, <1>7, PickIn, SumPick
<1>9. Sum(F, s) \in Nat
  BY <1>6, <1>8
<1>10. ASSUME NEW x \in s, x # y PROVE Sum(F, s) = F[x] + Sum(F, s \ {x})
  <2>1. x \in s \ {y} /\ y \in s \ {x} /\ F[x] \in Nat
    BY <1>4, <1>8, <1>10
  <2>2. Sum(F, s \ {y}) = F[x] + Sum(F, (s \ {y}) \ {x})
    BY <1>6, <1>8, <2>1
  <2>3. Sum(F, s \ {x}) = F[y] + Sum(F, (s \ {x}) \ {y})
    BY <1>6, <2>1
  <2>4. (s \ {y}) \ {x} = (s \ {x}) \ {y}
    OBVIOUS
  <2>5. Sum(F, s \ {x}) \in Nat /\ Sum(F, s \ {y}) \in Nat
    BY <1>6, <1>8
  <2>7. PICK r : r = Sum(F, (s \ {y}) \ {x})
    OBVIOUS
  <2>8. r \in Nat
    <3>0. IsFiniteSet(s) /\ IsFiniteSet(s \ {y}) /\ y \in s /\ x \in s \ {y}
      BY <1>4, <1>8, <2>1, FS_Subset
    <3>1. (s \ {y}) \ {x} \in SUBSET S
      BY <1>4
    <3>2. Cardinality((s \ {y}) \ {x}) + 2 = Cardinality(s) /\ Cardinality((s \ {y}) \ {x}) \in Nat
      <4>1. Cardinality(s) = Cardinality(s \ {y}) + 1
        BY <3>0, SmallerSet
      <4>2. /\ Cardinality((s \ {y}) \ {x}) \in Nat
            /\ Cardinality(s \ {y}) = Cardinality((s \ {y}) \ {x}) + 1
        BY <3>0, SmallerSet
      <4> QED
        BY <4>1, <4>2
    <3>3. ~ (Cardinality(s) <= Cardinality((s \ {y}) \ {x}))
      BY <3>2
    <3>4. (s \ {y}) \ {x} \notin Bad
      BY <1>3, <3>3
    <3> QED
      BY <2>7, <3>1, <3>4
  <2> QED
    BY <1>8, <2>1, <2>2, <2>3, <2>4, <2>7, <2>8
<1> QED
  BY <1>4, <1>8, <1>9, <1>10

LEMMA SumUnion ==
    ASSUME NEW F, NEW S, NEW T, IsFiniteSet(S), IsFiniteSet(T), S \intersect T = {},
           \A x \in S \union T : F[x] \in Nat
    PROVE  Sum(F, S \union T) = Sum(F, S) + Sum(F, T)
<1> DEFINE Bad == {s \in SUBSET S : Sum(F, s \union T) # Sum(F, s) + Sum(F, T)}
           Sizes == {Cardinality(s) : s \in Bad}
<1> SUFFICES ASSUME Bad # {} PROVE FALSE
  OBVIOUS
<1>1. Sizes \subseteq Nat /\ Sizes # {}
  <2>1. \A s \in Bad : IsFiniteSet(s)
    BY FS_Subset
  <2>2. \A s \in Bad : Cardinality(s) \in Nat
    BY <2>1, FS_CardinalityType
  <2> HIDE DEF Bad
  <2> QED
    BY <2>2
<1>2. PICK n \in Sizes : \A m \in Sizes : n <= m
  <2> HIDE DEF Sizes
  <2> QED
    BY <1>1, LeastElement
<1>3. PICK s \in Bad : \A r \in Bad : Cardinality(s) <= Cardinality(r)
  BY <1>2
<1>4. s \in SUBSET S /\ IsFiniteSet(s) /\ Sum(F, s \union T) # Sum(F, s) + Sum(F, T)
  BY FS_Subset
<1>5. Sum(F, T) \in Nat
  BY SumAdd
<1>6. s # {}
  <2> SUFFICES ASSUME s = {} PROVE FALSE
    OBVIOUS
  <2>1. s \union T = T /\ Sum(F, s) = 0
    BY SumEmpty
  <2> QED
    BY <1>4, <1>5, <2>1
<1>7. PICK x : x \in s
  BY <1>6
<1>8. IsFiniteSet(s \union T) /\ \A y \in s \union T : F[y] \in Nat
  BY <1>4, FS_Union
<1>9. Sum(F, s) = F[x] + Sum(F, s \ {x}) /\ Sum(F, s \union T) = F[x] + Sum(F, (s \union T) \ {x})
  <2>1. Sum(F, s) = F[x] + Sum(F, s \ {x})
    BY <1>4, <1>7, <1>8, SumAdd
  <2>2. x \in s \union T
    BY <1>7
  <2>3. Sum(F, s \union T) = F[x] + Sum(F, (s \union T) \ {x})
    BY <1>8, <2>2, SumAdd
  <2> QED
    BY <2>1, <2>3
<1>10. (s \union T) \ {x} = (s \ {x}) \union T
  BY <1>4, <1>7
<1>11. Sum(F, (s \ {x}) \union T) = Sum(F, s \ {x}) + Sum(F, T)
  <2>1. /\ Cardinality(s) \in Nat /\ Cardinality(s \ {x}) \in Nat
        /\ Cardinality(s) = Cardinality(s \ {x}) + 1
    BY <1>4, <1>7, SmallerSet
  <2>2. ~ (Cardinality(s) <= Cardinality(s \ {x}))
    BY <2>1
  <2>3. s \ {x} \notin Bad /\ s \ {x} \in SUBSET S
    BY <1>3, <1>4, <2>2
  <2> QED
    BY <2>3
<1>12. Sum(F, s \ {x}) \in Nat /\ F[x] \in Nat
  <2>1. IsFiniteSet(s \ {x}) /\ \A y \in s \ {x} : F[y] \in Nat
    BY <1>4, <1>7, <1>8, SmallerSet
  <2> QED
    BY <1>7, <1>8, <2>1, SumAdd
<1>13. PICK p, q, r : p = F[x] /\ q = Sum(F, s \ {x}) /\ r = Sum(F, T)
  OBVIOUS
<1>14. Sum(F, s) = p + q /\ Sum(F, s \union T) = p + (q + r)
  BY <1>9, <1>10, <1>11, <1>13
<1> QED
  BY <1>4, <1>5, <1>12, <1>13, <1>14

LEMMA SumConst ==
    ASSUME NEW F, NEW S, IsFiniteSet(S), NEW x \in Nat, \A y \in S : F[y] = x
    PROVE  Sum(F, S) = Cardinality(S) * x
<1> DEFINE Bad == {s \in SUBSET S : Sum(F, s) # Cardinality(s) * x}
           Sizes == {Cardinality(s) : s \in Bad}
<1> SUFFICES ASSUME Bad # {} PROVE FALSE
  OBVIOUS
<1>1. Sizes \subseteq Nat /\ Sizes # {}
  <2>1. \A s \in Bad : IsFiniteSet(s)
    BY FS_Subset
  <2>2. \A s \in Bad : Cardinality(s) \in Nat
    BY <2>1, FS_CardinalityType
  <2> HIDE DEF Bad
  <2> QED
    BY <2>2
<1>2. PICK n \in Sizes : \A m \in Sizes : n <= m
  <2> HIDE DEF Sizes
  <2> QED
    BY <1>1, LeastElement
<1>3. PICK s \in Bad : \A r \in Bad : Cardinality(s) <= Cardinality(r)
  BY <1>2
<1>4. s \in SUBSET S /\ IsFiniteSet(s) /\ Sum(F, s) # Cardinality(s) * x
  BY FS_Subset
<1>5. s # {}
  <2> SUFFICES ASSUME s = {} PROVE FALSE
    OBVIOUS
  <2>1. Cardinality(s) = 0 /\ Sum(F, s) = 0
    BY SumEmpty, FS_EmptySet
  <2> QED
    BY <1>4, <2>1
<1>6. PICK y : y \in s
  BY <1>5
<1>7. /\ Cardinality(s) \in Nat /\ Cardinality(s \ {y}) \in Nat
      /\ Cardinality(s) = Cardinality(s \ {y}) + 1
  BY <1>4, <1>6, SmallerSet
<1>8. Sum(F, s \ {y}) = Cardinality(s \ {y}) * x
  <2>1. ~ (Cardinality(s) <= Cardinality(s \ {y}))
    BY <1>7
  <2>2. s \ {y} \notin Bad /\ s \ {y} \in SUBSET S
    BY <1>3, <1>4, <2>1
  <2> QED
    BY <2>2
<1>9. Sum(F, s) = x + Sum(F, s \ {y})
  <2>1. \A z \in s : F[z] \in Nat
    BY <1>4
  <2>2. F[y] = x
    BY <1>4, <1>6
  <2> QED
    BY <1>4, <1>6, <2>1, <2>2, SumAdd
<1>10. PICK c, d : c = Cardinality(s) /\ d = Cardinality(s \ {y})
  OBVIOUS
<1> QED
  BY <1>4, <1>7, <1>8, <1>9, <1>10

----------------------------------------------------------------------------
(* The divisions are exact: Scale is a multiple of what divides it.        *)

LEMMA DivExact ==
    ASSUME NEW q \in Nat \ {0}, NEW k \in Int
    PROVE  (q * k) \div q = k
<1> DEFINE d == (q * k) \div q
<1>1. d \in Int /\ q * d <= q * k /\ q * k < q * (d + 1)
  OBVIOUS
<1> HIDE DEF d
<1>2. d <= k
  BY <1>1
<1>3. k < d + 1
  BY <1>1
<1> QED
  BY <1>1, <1>2, <1>3 DEF d

LEMMA DivNat ==
    ASSUME NEW a \in Nat, NEW q \in Nat \ {0}
    PROVE  a \div q \in Nat
<1> DEFINE d == a \div q
<1>1. d \in Int /\ a < q * (d + 1)
  OBVIOUS
<1> HIDE DEF d
<1>2. 0 < d + 1
  BY <1>1
<1> QED
  BY <1>1, <1>2 DEF d

(* Adding a vector to a mean (welford_update), a sum of squares at a time. *)
LEMMA WelfordIdentity ==
    ASSUME NEW w \in Int, NEW n \in Nat \ {0}, NEW m \in Int, NEW q \in Int,
           NEW a \in Int, NEW b \in Int, NEW x \in Int, NEW y \in Int,
           m * n = (n * (n + 1)) * w * (n * q - (a * a + b * b))
    PROVE  (m + w * ((n * x - a) * (n * x - a) + (n * y - b) * (n * y - b))) * (n + 1)
           = (n * (n + 1)) * w * ((n + 1) * (q + (x * x + y * y))
                                  - ((a + x) * (a + x) + (b + y) * (b + y)))
  OBVIOUS

(* Adding two means (combine_centroids).                                   *)
LEMMA CombineIdentity ==
    ASSUME NEW w \in Int, NEW n \in Nat \ {0}, NEW m \in Nat \ {0}, NEW k \in Int, NEW l \in Int,
           NEW q \in Int, NEW r \in Int,
           NEW a \in Int, NEW b \in Int, NEW x \in Int, NEW y \in Int,
           k * n = (n * m * (n + m)) * w * (n * q - (a * a + b * b)),
           l * m = (n * m * (n + m)) * w * (m * r - (x * x + y * y))
    PROVE  (k + l + w * ((m * a - n * x) * (m * a - n * x) + (m * b - n * y) * (m * b - n * y)))
             * (n + m)
           = (n * m * (n + m)) * w * ((n + m) * (q + r)
                                      - ((a + x) * (a + x) + (b + y) * (b + y)))
  OBVIOUS

----------------------------------------------------------------------------
(* Means.                                                                  *)

Coord(x, i) == IF i = 1 THEN x[1] ELSE IF i = 2 THEN x[2] ELSE Sq(x)

(* The sums of the coordinates of f[x], and of the squares, for x in S.    *)
Total(f, i, S) == Sum([x \in S |-> Coord(f[x], i)], S)

(* The points f[x], x in S.                                                *)
IsPoints(f, S) == IsFiniteSet(S) /\ \A x \in S : f[x] \in Nat \X Nat

LEMMA CoordType ==
    ASSUME NEW x \in Nat \X Nat, NEW i PROVE Coord(x, i) \in Nat
<1>1. x[1] \in Nat /\ x[2] \in Nat
  OBVIOUS
<1>2. Sq(x) \in Nat
  BY <1>1 DEF Sq, Dot
<1> QED
  BY <1>1, <1>2 DEF Coord

LEMMA TotalType ==
    ASSUME NEW f, NEW S, IsPoints(f, S), NEW i
    PROVE  Total(f, i, S) \in Nat
<1> DEFINE F == [x \in S |-> Coord(f[x], i)]
<1>1. \A x \in S : F[x] \in Nat
  BY CoordType DEF IsPoints
<1> HIDE DEF F
<1>2. Sum(F, S) \in Nat
  BY <1>1, SumAdd DEF IsPoints
<1> QED
  BY <1>2 DEF Total, F

LEMMA TotalSame ==
    ASSUME NEW f, NEW g, NEW S, IsFiniteSet(S), \A x \in S : f[x] = g[x], NEW i
    PROVE  Total(f, i, S) = Total(g, i, S)
<1>1. [x \in S |-> Coord(f[x], i)] = [x \in S |-> Coord(g[x], i)]
  OBVIOUS
<1> QED
  BY <1>1, Zenon DEF Total

LEMMA TotalUnion ==
    ASSUME NEW f, NEW S, NEW T, S \intersect T = {},
           IsPoints(f, S), IsPoints(f, T), NEW i
    PROVE  Total(f, i, S \union T) = Total(f, i, S) + Total(f, i, T)
<1> DEFINE F == [x \in S \union T |-> Coord(f[x], i)]
           G == [x \in S |-> Coord(f[x], i)]
           H == [x \in T |-> Coord(f[x], i)]
<1>1. \A x \in S \union T : F[x] \in Nat
  BY CoordType DEF IsPoints
<1>2. \A x \in S : F[x] = G[x]
  OBVIOUS
<1>3. \A x \in T : F[x] = H[x]
  OBVIOUS
<1>4. Total(f, i, S \union T) = Sum(F, S \union T) /\ Total(f, i, S) = Sum(G, S)
      /\ Total(f, i, T) = Sum(H, T)
  BY Zenon DEF Total
<1> HIDE DEF F, G, H
<1>5. Sum(F, S \union T) = Sum(F, S) + Sum(F, T)
  BY <1>1, SumUnion DEF IsPoints
<1>6. Sum(F, S) = Sum(G, S) /\ Sum(F, T) = Sum(H, T)
  BY <1>2, <1>3, SumSame DEF IsPoints
<1> QED
  BY <1>4, <1>5, <1>6

LEMMA TotalConst ==
    ASSUME NEW f, NEW S, IsFiniteSet(S), NEW x \in Nat \X Nat, \A y \in S : f[y] = x, NEW i
    PROVE  Total(f, i, S) = Cardinality(S) * Coord(x, i)
<1> DEFINE F == [y \in S |-> Coord(f[y], i)]
<1>1. \A y \in S : F[y] = Coord(x, i)
  OBVIOUS
<1>2. Total(f, i, S) = Sum(F, S)
  BY Zenon DEF Total
<1> HIDE DEF F
<1>3. Coord(x, i) \in Nat
  BY CoordType
<1> QED
  BY <1>1, <1>2, <1>3, SumConst

LEMMA TotalOne ==
    ASSUME NEW f, NEW v, f[v] \in Nat \X Nat, NEW i
    PROVE  Total(f, i, {v}) = Coord(f[v], i)
<1>1. IsFiniteSet({v}) /\ Cardinality({v}) = 1
  BY FS_Singleton
<1>2. \A y \in {v} : f[y] = f[v]
  OBVIOUS
<1>3. Total(f, i, {v}) = 1 * Coord(f[v], i)
  <2> DEFINE x == f[v]
             one == {v}
  <2>1. x \in Nat \X Nat /\ IsFiniteSet(one) /\ (\A y \in one : f[y] = x) /\ Cardinality(one) = 1
    BY <1>1, <1>2
  <2> HIDE DEF x, one
  <2>2. Total(f, i, one) = 1 * Coord(x, i)
    BY <2>1, TotalConst
  <2> QED
    BY <2>2 DEF x, one
<1> QED
  BY <1>3, CoordType

(* A mean in these sums.                                                   *)
LEMMA MeanIs ==
    ASSUME NEW k, NEW f, NEW S, IsFiniteSet(S)
    PROVE  IsMeanOf(k, f, S) <=>
             /\ k.count = Cardinality(S)
             /\ k.sum = <<Total(f, 1, S), Total(f, 2, S)>>
             /\ k.m2 * k.count = Scale * (k.count * Total(f, 3, S) - Sq(k.sum))
<1>1. SumFunctionOnSet([x \in S |-> f[x][1]], S) = Total(f, 1, S)
  <2>1. [x \in S |-> f[x][1]] = [x \in S |-> Coord(f[x], 1)]
    BY DEF Coord
  <2> QED
    BY <2>1, FoldIsSum, Zenon DEF Total
<1>2. SumFunctionOnSet([x \in S |-> f[x][2]], S) = Total(f, 2, S)
  <2>1. [x \in S |-> f[x][2]] = [x \in S |-> Coord(f[x], 2)]
    BY DEF Coord
  <2> QED
    BY <2>1, FoldIsSum, Zenon DEF Total
<1>3. SumFunctionOnSet([x \in S |-> Sq(f[x])], S) = Total(f, 3, S)
  <2>1. [x \in S |-> Sq(f[x])] = [x \in S |-> Coord(f[x], 3)]
    BY DEF Coord
  <2> QED
    BY <2>1, FoldIsSum, Zenon DEF Total
<1>4. SumOf(f, S) = <<Total(f, 1, S), Total(f, 2, S)>>
  BY <1>1, <1>2, Zenon DEF SumOf
<1> QED
  BY <1>3, <1>4 DEF IsMeanOf

(* The numbers of a cluster.                                               *)
Numbers(k) == k.count \in Nat \ {0} /\ k.m2 \in Nat /\ k.sum \in Nat \X Nat

LEMMA SingleIsMean ==
    ASSUME NEW f, NEW v, f[v] \in Nat \X Nat
    PROVE  Numbers(Single(f[v])) /\ IsMeanOf(Single(f[v]), f, {v})
<1> DEFINE x == f[v]
           k == Single(x)
<1>1. IsFiniteSet({v}) /\ Cardinality({v}) = 1
  BY FS_Singleton
<1>2. x \in Nat \X Nat /\ k.sum = x /\ k.m2 = 0 /\ k.count = 1
  BY DEF Single
<1>3. Total(f, 1, {v}) = x[1] /\ Total(f, 2, {v}) = x[2] /\ Total(f, 3, {v}) = Sq(x)
  <2>1. Coord(x, 1) = x[1] /\ Coord(x, 2) = x[2] /\ Coord(x, 3) = Sq(x)
    BY DEF Coord
  <2>2. /\ Total(f, 1, {v}) = Coord(f[v], 1) /\ Total(f, 2, {v}) = Coord(f[v], 2)
        /\ Total(f, 3, {v}) = Coord(f[v], 3)
    BY TotalOne
  <2> QED
    BY <2>1, <2>2
<1> HIDE DEF x, k
<1>4. Sq(x) \in Nat
  BY <1>2 DEF Sq, Dot
<1>5. k.sum = <<Total(f, 1, {v}), Total(f, 2, {v})>>
  BY <1>2, <1>3
<1>6. k.m2 * k.count = Scale * (k.count * Total(f, 3, {v}) - Sq(k.sum))
  <2>1. Scale \in Nat
    BY KMeansAssumption
  <2> QED
    BY <1>2, <1>3, <1>4, <2>1
<1>7. IsMeanOf(k, f, {v})
  BY <1>1, <1>2, <1>5, <1>6, MeanIs
<1>8. Numbers(k)
  BY <1>2 DEF Numbers
<1> QED
  BY <1>7, <1>8 DEF k, x

LEMMA WelfordNumbers ==
    ASSUME NEW c, Numbers(c), NEW x \in Nat \X Nat
    PROVE  Numbers(Welford(c, x)) /\ Welford(c, x).count = c.count + 1
<1> DEFINE n == c.count
           d == Minus(Times(n, x), c.sum)
           k == Welford(c, x)
<1>1. /\ n \in Nat \ {0} /\ c.m2 \in Nat /\ c.sum[1] \in Nat /\ c.sum[2] \in Nat
      /\ x[1] \in Nat /\ x[2] \in Nat /\ Scale \in Nat
  BY KMeansAssumption DEF Numbers
<1>2. Sq(d) \in Nat
  <2>1. d = <<n * x[1] + (-1) * c.sum[1], n * x[2] + (-1) * c.sum[2]>>
    BY DEF Minus, Times, Plus
  <2>2. d[1] \in Int /\ d[2] \in Int
    BY <1>1, <2>1
  <2> HIDE DEF d
  <2>3. \A z \in Int : z * z \in Nat
    OBVIOUS
  <2> QED
    BY <2>2, <2>3 DEF Sq, Dot
<1>3. /\ k.sum = <<c.sum[1] + x[1], c.sum[2] + x[2]>>
      /\ k.m2 = c.m2 + (Scale * Sq(d)) \div (n * (n + 1))
      /\ k.count = n + 1
  BY DEF Welford, Plus
<1> HIDE DEF d, k, n
<1>4. Scale * Sq(d) \in Nat /\ n * (n + 1) \in Nat \ {0}
  BY <1>1, <1>2
<1>5. (Scale * Sq(d)) \div (n * (n + 1)) \in Nat
  BY <1>4, DivNat
<1>6. k.m2 \in Nat /\ k.count \in Nat \ {0} /\ k.sum \in Nat \X Nat
  BY <1>1, <1>3, <1>5
<1> QED
  BY <1>3, <1>6 DEF Numbers, k, n

LEMMA CombineNumbers ==
    ASSUME NEW a, Numbers(a), NEW b, Numbers(b)
    PROVE  Numbers(Combine(a, b)) /\ Combine(a, b).count = a.count + b.count
<1> DEFINE n == a.count
           m == b.count
           d == Minus(Times(m, a.sum), Times(n, b.sum))
           k == Combine(a, b)
<1>1. /\ n \in Nat \ {0} /\ a.m2 \in Nat /\ a.sum[1] \in Nat /\ a.sum[2] \in Nat
      /\ m \in Nat \ {0} /\ b.m2 \in Nat /\ b.sum[1] \in Nat /\ b.sum[2] \in Nat
      /\ Scale \in Nat
  BY KMeansAssumption DEF Numbers
<1>2. Sq(d) \in Nat
  <2>1. d = <<m * a.sum[1] + (-1) * (n * b.sum[1]), m * a.sum[2] + (-1) * (n * b.sum[2])>>
    BY DEF Minus, Times, Plus
  <2>2. d[1] \in Int /\ d[2] \in Int
    BY <1>1, <2>1
  <2> HIDE DEF d
  <2>3. \A z \in Int : z * z \in Nat
    OBVIOUS
  <2> QED
    BY <2>2, <2>3 DEF Sq, Dot
<1>3. /\ k.sum = <<a.sum[1] + b.sum[1], a.sum[2] + b.sum[2]>>
      /\ k.m2 = a.m2 + b.m2 + (Scale * Sq(d)) \div (n * m * (n + m))
      /\ k.count = n + m
  BY DEF Combine, Plus
<1> HIDE DEF d, k, n, m
<1>4. Scale * Sq(d) \in Nat /\ n * m * (n + m) \in Nat \ {0}
  <2>1. n * m \in Nat \ {0} /\ n + m \in Nat \ {0}
    BY <1>1
  <2>2. \A y, z \in Nat \ {0} : y * z \in Nat \ {0}
    OBVIOUS
  <2> QED
    BY <1>1, <1>2, <2>1, <2>2
<1>5. (Scale * Sq(d)) \div (n * m * (n + m)) \in Nat
  BY <1>4, DivNat
<1>6. k.m2 \in Nat /\ k.count \in Nat \ {0} /\ k.sum \in Nat \X Nat
  BY <1>1, <1>3, <1>5
<1> QED
  BY <1>3, <1>6 DEF Numbers, k, n, m

LEMMA CardinalityApart ==
    ASSUME NEW S, NEW T, S \intersect T = {}, IsFiniteSet(S), IsFiniteSet(T)
    PROVE  /\ IsFiniteSet(S \union T)
           /\ Cardinality(S \union T) = Cardinality(S) + Cardinality(T)
<1>1. IsFiniteSet(S \union T)
      /\ Cardinality(S \union T) = Cardinality(S) + Cardinality(T) - Cardinality(S \intersect T)
  BY FS_Union
<1>2. Cardinality(S \intersect T) = 0 /\ Cardinality(S) \in Nat /\ Cardinality(T) \in Nat
  BY FS_EmptySet, FS_CardinalityType
<1> QED
  BY <1>1, <1>2

(* welford_update: a vector is added to a mean.                            *)
LEMMA WelfordIsMean ==
    ASSUME NEW f, NEW S, NEW c, Numbers(c), IsMeanOf(c, f, S), IsPoints(f, S),
           NEW v, v \notin S, f[v] \in Nat \X Nat,
           NEW w \in Int, Scale = (c.count * (c.count + 1)) * w
    PROVE  IsMeanOf(Welford(c, f[v]), f, S \union {v})
<1>1. PICK n, m, a, b, x, y, q :
        /\ n = c.count /\ m = c.m2 /\ a = c.sum[1] /\ b = c.sum[2]
        /\ x = f[v][1] /\ y = f[v][2] /\ q = Total(f, 3, S)
  OBVIOUS
<1>2. /\ n \in Nat \ {0} /\ m \in Int /\ q \in Int
      /\ a \in Int /\ b \in Int /\ x \in Int /\ y \in Int
  BY <1>1, TotalType DEF Numbers
<1>3. IsFiniteSet(S) /\ IsFiniteSet(S \union {v}) /\ IsFiniteSet({v})
      /\ Cardinality(S \union {v}) = Cardinality(S) + 1
  BY FS_AddElement, FS_Singleton DEF IsPoints
<1>4. n = Cardinality(S) /\ a = Total(f, 1, S) /\ b = Total(f, 2, S)
      /\ m * n = Scale * (n * q - (a * a + b * b))
  <2>1. /\ c.count = Cardinality(S) /\ c.sum = <<Total(f, 1, S), Total(f, 2, S)>>
        /\ c.m2 * c.count = Scale * (c.count * Total(f, 3, S) - Sq(c.sum))
    BY <1>3, MeanIs
  <2> QED
    BY <1>1, <2>1 DEF Sq, Dot
<1>5. \A i : Total(f, i, S \union {v}) = Total(f, i, S) + Coord(f[v], i)
  <2> DEFINE one == {v}
  <2>1. IsPoints(f, one) /\ S \intersect one = {}
    BY <1>3 DEF IsPoints
  <2>2. \A i : Total(f, i, one) = Coord(f[v], i)
    BY TotalOne
  <2> HIDE DEF one
  <2>3. \A i : Total(f, i, S \union one) = Total(f, i, S) + Total(f, i, one)
    BY <2>1, TotalUnion
  <2> QED
    BY <2>2, <2>3 DEF one
<1>6. /\ Total(f, 1, S \union {v}) = a + x /\ Total(f, 2, S \union {v}) = b + y
      /\ Total(f, 3, S \union {v}) = q + (x * x + y * y)
  <2>1. /\ Coord(f[v], 1) = x /\ Coord(f[v], 2) = y /\ Coord(f[v], 3) = x * x + y * y
    BY <1>1 DEF Coord, Sq, Dot
  <2> QED
    BY <1>1, <1>4, <1>5, <2>1
<1> DEFINE k == Welford(c, f[v])
           e == (n * x - a) * (n * x - a) + (n * y - b) * (n * y - b)
<1>7. k.sum = <<a + x, b + y>> /\ k.count = n + 1 /\ k.m2 = m + (Scale * e) \div (n * (n + 1))
  <2>1. Sq(Minus(Times(n, f[v]), c.sum)) = e
    <3>1. Minus(Times(n, f[v]), c.sum) = <<n * x + (-1) * a, n * y + (-1) * b>>
      BY <1>1 DEF Minus, Times, Plus
    <3>2. n * x + (-1) * a = n * x - a /\ n * y + (-1) * b = n * y - b
      BY <1>2
    <3> QED
      BY <3>1, <3>2 DEF Sq, Dot
  <2> HIDE DEF e
  <2> QED
    BY <1>1, <2>1 DEF Welford, Plus
<1>8. e \in Int
  BY <1>2
<1> HIDE DEF k
<1>9. (Scale * e) \div (n * (n + 1)) = w * e
  <2> HIDE DEF e
  <2>1. n * (n + 1) \in Nat \ {0} /\ w * e \in Int
    BY <1>2, <1>8
  <2>2. Scale * e = (n * (n + 1)) * (w * e)
    <3>1. \A p, r, t \in Int : (p * r) * t = p * (r * t)
      OBVIOUS
    <3> QED
      BY <1>1, <1>8, <2>1, <3>1
  <2> QED
    BY <2>1, <2>2, DivExact
<1>10. (m + w * e) * (n + 1)
       = (n * (n + 1)) * w * ((n + 1) * (q + (x * x + y * y))
                              - ((a + x) * (a + x) + (b + y) * (b + y)))
  <2>1. m * n = (n * (n + 1)) * w * (n * q - (a * a + b * b))
    BY <1>1, <1>4
  <2> QED
    BY <1>2, <2>1, WelfordIdentity
<1>11. k.m2 * k.count
       = Scale * (k.count * Total(f, 3, S \union {v}) - Sq(k.sum))
  <2>1. Sq(k.sum) = (a + x) * (a + x) + (b + y) * (b + y)
    BY <1>7 DEF Sq, Dot
  <2>2. Scale = (n * (n + 1)) * w
    BY <1>1
  <2> HIDE DEF e
  <2> QED
    BY <1>6, <1>7, <1>9, <1>10, <2>1, <2>2
<1>12. k.count = Cardinality(S \union {v})
       /\ k.sum = <<Total(f, 1, S \union {v}), Total(f, 2, S \union {v})>>
  BY <1>3, <1>4, <1>6, <1>7
<1>13. IsMeanOf(k, f, S \union {v})
  BY <1>3, <1>11, <1>12, MeanIs
<1> QED
  BY <1>13 DEF k

(* combine_centroids: two means of sets apart become the mean of both.     *)
LEMMA CombineIsMean ==
    ASSUME NEW f, NEW S, NEW T, S \intersect T = {}, IsPoints(f, S), IsPoints(f, T),
           NEW c, Numbers(c), IsMeanOf(c, f, S), NEW d, Numbers(d), IsMeanOf(d, f, T),
           NEW w \in Int, Scale = (c.count * d.count * (c.count + d.count)) * w
    PROVE  IsMeanOf(Combine(c, d), f, S \union T)
<1>1. PICK n, m, k, l, a, b, x, y, q, r :
        /\ n = c.count /\ k = c.m2 /\ a = c.sum[1] /\ b = c.sum[2]
        /\ m = d.count /\ l = d.m2 /\ x = d.sum[1] /\ y = d.sum[2]
        /\ q = Total(f, 3, S) /\ r = Total(f, 3, T)
  OBVIOUS
<1>2. /\ n \in Nat \ {0} /\ k \in Int /\ q \in Int /\ a \in Int /\ b \in Int
      /\ m \in Nat \ {0} /\ l \in Int /\ r \in Int /\ x \in Int /\ y \in Int
  BY <1>1, TotalType DEF Numbers
<1>3. IsFiniteSet(S) /\ IsFiniteSet(T) /\ IsFiniteSet(S \union T)
      /\ Cardinality(S \union T) = Cardinality(S) + Cardinality(T)
  BY CardinalityApart DEF IsPoints
<1>4. n = Cardinality(S) /\ a = Total(f, 1, S) /\ b = Total(f, 2, S)
      /\ k * n = Scale * (n * q - (a * a + b * b))
  <2>1. /\ c.count = Cardinality(S) /\ c.sum = <<Total(f, 1, S), Total(f, 2, S)>>
        /\ c.m2 * c.count = Scale * (c.count * Total(f, 3, S) - Sq(c.sum))
    BY <1>3, MeanIs
  <2> QED
    BY <1>1, <2>1 DEF Sq, Dot
<1>5. m = Cardinality(T) /\ x = Total(f, 1, T) /\ y = Total(f, 2, T)
      /\ l * m = Scale * (m * r - (x * x + y * y))
  <2>1. /\ d.count = Cardinality(T) /\ d.sum = <<Total(f, 1, T), Total(f, 2, T)>>
        /\ d.m2 * d.count = Scale * (d.count * Total(f, 3, T) - Sq(d.sum))
    BY <1>3, MeanIs
  <2> QED
    BY <1>1, <2>1 DEF Sq, Dot
<1>6. /\ Total(f, 1, S \union T) = a + x /\ Total(f, 2, S \union T) = b + y
      /\ Total(f, 3, S \union T) = q + r
  BY <1>1, <1>4, <1>5, TotalUnion
<1> DEFINE j == Combine(c, d)
           e == (m * a - n * x) * (m * a - n * x) + (m * b - n * y) * (m * b - n * y)
<1>7. /\ j.sum = <<a + x, b + y>> /\ j.count = n + m
      /\ j.m2 = k + l + (Scale * e) \div (n * m * (n + m))
  <2>1. Sq(Minus(Times(m, c.sum), Times(n, d.sum))) = e
    <3>1. Minus(Times(m, c.sum), Times(n, d.sum))
            = <<m * a + (-1) * (n * x), m * b + (-1) * (n * y)>>
      BY <1>1 DEF Minus, Times, Plus
    <3>2. m * a + (-1) * (n * x) = m * a - n * x /\ m * b + (-1) * (n * y) = m * b - n * y
      BY <1>2
    <3> QED
      BY <3>1, <3>2 DEF Sq, Dot
  <2> HIDE DEF e
  <2> QED
    BY <1>1, <2>1 DEF Combine, Plus
<1>8. e \in Int
  BY <1>2
<1> HIDE DEF j
<1>9. (Scale * e) \div (n * m * (n + m)) = w * e
  <2> HIDE DEF e
  <2>1. n * m * (n + m) \in Nat \ {0} /\ w * e \in Int
    <3>1. n * m \in Nat \ {0} /\ n + m \in Nat \ {0} /\ w * e \in Int
      BY <1>2, <1>8
    <3>2. \A z, t \in Nat \ {0} : z * t \in Nat \ {0}
      OBVIOUS
    <3> QED
      BY <3>1, <3>2
  <2>2. Scale * e = (n * m * (n + m)) * (w * e)
    <3>1. \A p, z, t \in Int : (p * z) * t = p * (z * t)
      OBVIOUS
    <3> QED
      BY <1>1, <1>8, <2>1, <3>1
  <2> QED
    BY <2>1, <2>2, DivExact
<1>10. (k + l + w * e) * (n + m)
       = (n * m * (n + m)) * w * ((n + m) * (q + r) - ((a + x) * (a + x) + (b + y) * (b + y)))
  <2>1. /\ k * n = (n * m * (n + m)) * w * (n * q - (a * a + b * b))
        /\ l * m = (n * m * (n + m)) * w * (m * r - (x * x + y * y))
    BY <1>1, <1>4, <1>5
  <2> QED
    BY <1>2, <2>1, CombineIdentity
<1>11. j.m2 * j.count = Scale * (j.count * Total(f, 3, S \union T) - Sq(j.sum))
  <2>1. Sq(j.sum) = (a + x) * (a + x) + (b + y) * (b + y)
    BY <1>7 DEF Sq, Dot
  <2>2. Scale = (n * m * (n + m)) * w
    BY <1>1
  <2> HIDE DEF e
  <2> QED
    BY <1>6, <1>7, <1>9, <1>10, <2>1, <2>2
<1>12. /\ j.count = Cardinality(S \union T)
       /\ j.sum = <<Total(f, 1, S \union T), Total(f, 2, S \union T)>>
  BY <1>3, <1>4, <1>5, <1>6, <1>7
<1>13. IsMeanOf(j, f, S \union T)
  BY <1>3, <1>11, <1>12, MeanIs
<1> QED
  BY <1>13 DEF j

(* Copies of one vector (kmeans2, when all its members coincide).          *)
LEMMA CopiesAreMean ==
    ASSUME NEW f, NEW S, IsFiniteSet(S), S # {}, NEW x \in Nat \X Nat, \A v \in S : f[v] = x,
           NEW k, k.count = Cardinality(S), k.sum = Times(Cardinality(S), x), k.m2 = 0
    PROVE  Numbers(k) /\ IsMeanOf(k, f, S)
<1>1. PICK n, a, b : n = Cardinality(S) /\ a = x[1] /\ b = x[2]
  OBVIOUS
<1>2. n \in Nat \ {0} /\ a \in Nat /\ b \in Nat /\ Scale \in Nat
  BY <1>1, FS_CardinalityType, FS_EmptySet, KMeansAssumption
<1>3. k.count = n /\ k.sum = <<n * a, n * b>> /\ k.m2 = 0
  BY <1>1 DEF Times
<1>4. /\ Total(f, 1, S) = n * a /\ Total(f, 2, S) = n * b
      /\ Total(f, 3, S) = n * (a * a + b * b)
  <2>1. Coord(x, 1) = a /\ Coord(x, 2) = b /\ Coord(x, 3) = a * a + b * b
    BY <1>1 DEF Coord, Sq, Dot
  <2>2. \A i : Total(f, i, S) = n * Coord(x, i)
    BY <1>1, TotalConst
  <2> QED
    BY <2>1, <2>2
<1>5. k.m2 * k.count = Scale * (k.count * Total(f, 3, S) - Sq(k.sum))
  <2>1. Sq(k.sum) = (n * a) * (n * a) + (n * b) * (n * b)
    BY <1>3 DEF Sq, Dot
  <2>2. n * (n * (a * a + b * b)) - ((n * a) * (n * a) + (n * b) * (n * b)) = 0
    BY <1>2
  <2> QED
    BY <1>2, <1>3, <1>4, <2>1, <2>2
<1>6. IsMeanOf(k, f, S)
  BY <1>1, <1>3, <1>4, <1>5, MeanIs
<1>7. Numbers(k)
  BY <1>2, <1>3 DEF Numbers
<1> QED
  BY <1>6, <1>7

----------------------------------------------------------------------------
(* kmeans2 ends with two clusters, neither of them empty.                  *)

(* Recursive functions over 0 .. N whose values stay in X exist ...        *)
Recursion(f, x, G, N) ==
    f = [n \in 0 .. N |-> IF n = 0 THEN x ELSE G[n][f[n - 1]]]

LEMMA RecursionStays ==
    ASSUME NEW X, NEW x \in X, NEW N \in Nat, NEW G, \A n \in 1 .. N, y \in X : G[n][y] \in X,
           NEW f, Recursion(f, x, G, N)
    PROVE  \A n \in 0 .. N : f[n] \in X
<1> DEFINE Bad == {n \in 0 .. N : f[n] \notin X}
<1> SUFFICES ASSUME Bad # {} PROVE FALSE
  OBVIOUS
<1>1. PICK n \in Bad : \A m \in Bad : n <= m
  <2>1. Bad \subseteq Nat
    OBVIOUS
  <2> HIDE DEF Bad
  <2> QED
    BY <2>1, LeastElement
<1>2. n \in 0 .. N /\ f[n] \notin X
  OBVIOUS
<1>3. f[n] = IF n = 0 THEN x ELSE G[n][f[n - 1]]
  BY <1>2 DEF Recursion
<1>4. n # 0
  BY <1>2, <1>3
<1>5. n \in 1 .. N /\ n - 1 \in 0 .. N /\ ~ (n <= n - 1)
  BY <1>2, <1>4
<1>6. f[n - 1] \in X
  BY <1>1, <1>5
<1> QED
  BY <1>2, <1>3, <1>4, <1>5, <1>6

(* ... by the shortest that would not.                                     *)
LEMMA RecursionExists ==
    ASSUME NEW X, NEW x \in X, NEW N \in Nat, NEW G, \A n \in 1 .. N, y \in X : G[n][y] \in X
    PROVE  \E f : Recursion(f, x, G, N)
<1> DEFINE Bad == {n \in 0 .. N : ~ \E f : Recursion(f, x, G, n)}
<1>1. Bad = {}
  <2> SUFFICES ASSUME Bad # {} PROVE FALSE
    OBVIOUS
  <2>1. PICK n \in Bad : \A m \in Bad : n <= m
    <3>1. Bad \subseteq Nat
      OBVIOUS
    <3> HIDE DEF Bad
    <3> QED
      BY <3>1, LeastElement
  <2>2. n \in 0 .. N /\ ~ \E f : Recursion(f, x, G, n)
    OBVIOUS
  <2>3. n # 0
    <3> DEFINE f == [m \in 0 .. 0 |-> x]
    <3>1. \A m \in 0 .. 0 : m = 0
      OBVIOUS
    <3>2. f = [m \in 0 .. 0 |-> IF m = 0 THEN x ELSE G[m][f[m - 1]]]
      BY <3>1
    <3>3. Recursion(f, x, G, 0)
      BY <3>2, Zenon DEF Recursion
    <3> QED
      BY <2>2, <3>3
  <2>4. n - 1 \in 0 .. N /\ ~ (n <= n - 1) /\ n \in 1 .. N
    BY <2>2, <2>3
  <2>5. n - 1 \notin Bad
    <3> HIDE DEF Bad
    <3> QED
      BY <2>1, <2>4
  <2>6. PICK f : Recursion(f, x, G, n - 1)
    BY <2>4, <2>5
  <2> DEFINE g == [m \in 0 .. n |-> IF m = n THEN G[n][f[n - 1]] ELSE f[m]]
  <2>7. \A m \in 0 .. n : g[m] = IF m = 0 THEN x ELSE G[m][g[m - 1]]
    <3> SUFFICES ASSUME NEW m \in 0 .. n PROVE g[m] = IF m = 0 THEN x ELSE G[m][g[m - 1]]
      OBVIOUS
    <3>1. CASE m = n
      <4>1. n - 1 \in 0 .. n /\ n - 1 # n
        BY <2>4
      <4> QED
        BY <2>3, <3>1, <4>1
    <3>2. CASE m # n
      <4>1. m \in 0 .. n - 1 /\ (m # 0 => m - 1 \in 0 .. n /\ m - 1 # n)
        BY <2>4, <3>2
      <4>2. f[m] = IF m = 0 THEN x ELSE G[m][f[m - 1]]
        BY <2>6, <4>1 DEF Recursion
      <4> QED
        BY <3>2, <4>1, <4>2
    <3> QED
      BY <3>1, <3>2
  <2>8. g = [m \in 0 .. n |-> g[m]]
    OBVIOUS
  <2> HIDE DEF g
  <2>9. Recursion(g, x, G, n)
    BY <2>7, <2>8, Zenon DEF Recursion
  <2> QED
    BY <2>2, <2>9
<1>2. N \in 0 .. N
  OBVIOUS
<1> QED
  BY <1>1, <1>2

(* Which of two ratios is less, or comes first in the order R.             *)
LEMMA RatioTransitive ==
    ASSUME NEW a \in Nat, NEW b \in Nat, NEW c \in Nat,
           NEW p \in Nat \ {0}, NEW q \in Nat \ {0}, NEW r \in Nat \ {0},
           b * p >= a * q, c * q >= b * r
    PROVE  c * p >= a * r /\ (a * r >= c * p => a * q >= b * p /\ b * r >= c * q)
<1>1. \A x, y \in Nat, z \in Nat \ {0} : (x >= y => x * z >= y * z) /\ (x * z >= y * z => x >= y)
  OBVIOUS
<1>2. a * q \in Nat /\ b * p \in Nat /\ b * r \in Nat /\ c * q \in Nat /\ c * p \in Nat /\ a * r \in Nat
  OBVIOUS
<1>3. (c * q) * p >= (b * r) * p /\ (b * p) * r >= (a * q) * r
  BY <1>1, <1>2
<1>4. (c * q) * p = (c * p) * q /\ (b * r) * p = (b * p) * r /\ (a * q) * r = (a * r) * q
  OBVIOUS
<1>5. (c * p) * q >= (a * r) * q
  BY <1>2, <1>3, <1>4
<1>6. c * p >= a * r
  BY <1>1, <1>2, <1>5
<1>7. ASSUME a * r >= c * p PROVE a * q >= b * p /\ b * r >= c * q
  <2>1. (a * r) * q >= (c * p) * q
    BY <1>1, <1>2, <1>7
  <2>2. (a * q) * r >= (b * p) * r /\ (b * r) * p >= (c * q) * p
    BY <1>2, <1>3, <1>4, <2>1
  <2> QED
    BY <1>1, <1>2, <2>2
<1> QED
  BY <1>6, <1>7

AreRatios(A, B, T) == \A x \in T : A[x] \in Nat /\ B[x] \in Nat \ {0}

IsOrder(R, T) ==
    /\ \A x, y \in T : x # y => <<x, y>> \in R \/ <<y, x>> \in R
    /\ \A x, y, z \in T : <<x, y>> \in R /\ <<y, z>> \in R => <<x, z>> \in R

LEMMA LeastRatio ==
    ASSUME NEW T, IsFiniteSet(T), T # {}, NEW A, NEW B, AreRatios(A, B, T),
           NEW R, IsOrder(R, T)
    PROVE  \E k \in T : \A j \in T \ {k} :
              /\ A[j] * B[k] >= A[k] * B[j]
              /\ A[k] * B[j] >= A[j] * B[k] => <<k, j>> \in R
<1> DEFINE Before(k, j) == /\ A[j] * B[k] >= A[k] * B[j]
                           /\ A[k] * B[j] >= A[j] * B[k] => <<k, j>> \in R
           Bad == {s \in SUBSET T : s # {} /\ ~ \E k \in s : \A j \in s \ {k} : Before(k, j)}
           Sizes == {Cardinality(s) : s \in Bad}
<1>1. ASSUME NEW x \in T, NEW y \in T, x # y PROVE Before(x, y) \/ Before(y, x)
  <2>1. A[x] * B[y] \in Nat /\ A[y] * B[x] \in Nat
    BY DEF AreRatios
  <2> QED
    BY <1>1, <2>1 DEF IsOrder
<1>2. ASSUME NEW x \in T, NEW y \in T, NEW z \in T, Before(x, y), Before(y, z)
      PROVE  Before(x, z)
  <2>1. PICK a, b, c, p, q, r : /\ a = A[x] /\ b = A[y] /\ c = A[z]
                                /\ p = B[x] /\ q = B[y] /\ r = B[z]
    OBVIOUS
  <2>2. /\ a \in Nat /\ b \in Nat /\ c \in Nat
        /\ p \in Nat \ {0} /\ q \in Nat \ {0} /\ r \in Nat \ {0}
    BY <2>1 DEF AreRatios
  <2>3. b * p >= a * q /\ c * q >= b * r
    BY <1>2, <2>1
  <2>4. c * p >= a * r /\ (a * r >= c * p => a * q >= b * p /\ b * r >= c * q)
    BY <2>2, <2>3, RatioTransitive
  <2> QED
    BY <1>2, <2>1, <2>4 DEF IsOrder
<1> HIDE DEF Before
<1>3. Bad = {}
  <2> SUFFICES ASSUME Bad # {} PROVE FALSE
    OBVIOUS
  <2>1. Sizes \subseteq Nat /\ Sizes # {}
    <3>1. \A s \in Bad : IsFiniteSet(s)
      BY FS_Subset
    <3>2. \A s \in Bad : Cardinality(s) \in Nat
      BY <3>1, FS_CardinalityType
    <3> HIDE DEF Bad
    <3> QED
      BY <3>2
  <2>2. PICK n \in Sizes : \A m \in Sizes : n <= m
    <3> HIDE DEF Sizes
    <3> QED
      BY <2>1, LeastElement
  <2>3. PICK s \in Bad : \A r \in Bad : Cardinality(s) <= Cardinality(r)
    <3> HIDE DEF Bad
    <3> QED
      BY <2>2
  <2>4. /\ s \in SUBSET T /\ s # {} /\ IsFiniteSet(s)
        /\ ~ \E k \in s : \A j \in s \ {k} : Before(k, j)
    BY FS_Subset
  <2>5. PICK x : x \in s
    BY <2>4
  <2>6. s \ {x} # {}
    BY <2>4, <2>5
  <2>7. s \ {x} \notin Bad
    <3>1. /\ Cardinality(s) \in Nat /\ Cardinality(s \ {x}) \in Nat
          /\ Cardinality(s) = Cardinality(s \ {x}) + 1
      BY <2>4, <2>5, SmallerSet
    <3>2. ~ (Cardinality(s) <= Cardinality(s \ {x}))
      BY <3>1
    <3> HIDE DEF Bad
    <3> QED
      BY <2>3, <3>2
  <2>8. PICK k \in s \ {x} : \A j \in (s \ {x}) \ {k} : Before(k, j)
    BY <2>4, <2>6, <2>7
  <2>9. CASE Before(k, x)
    BY <2>4, <2>8, <2>9
  <2>10. CASE Before(x, k)
    <3>1. \A j \in s \ {x} : Before(x, j)
      BY <1>2, <2>4, <2>5, <2>8, <2>10
    <3> QED
      BY <2>4, <2>5, <3>1
  <2> QED
    BY <1>1, <2>4, <2>5, <2>8, <2>9, <2>10
<1>4. T \in SUBSET T
  OBVIOUS
<1>5. \E k \in T : \A j \in T \ {k} : Before(k, j)
  BY <1>3, <1>4
<1> QED
  BY <1>5 DEF Before

----------------------------------------------------------------------------
(* The members of a centroid as kmeans2 reads them: f is the point of each.*)
IsMembers(ms, f) ==
    /\ Len(ms) \in Nat /\ DOMAIN ms = 1 .. Len(ms)
    /\ \A k \in DOMAIN ms : ms[k].vec \in Points /\ f[ms[k].id] = ms[k].vec
    /\ \A j, k \in DOMAIN ms : ms[j].id = ms[k].id => j = k

LEMMA PointNumbers ==
    ASSUME NEW x \in Points
    PROVE  /\ x \in Nat \X Nat /\ x[1] \in Nat /\ x[2] \in Nat /\ Sq(x) \in Nat \ {0}
<1>1. x \in Nat \X Nat /\ x # <<0, 0>>
  BY KMeansAssumption
<1>2. x[1] \in Nat /\ x[2] \in Nat /\ x = <<x[1], x[2]>>
  BY <1>1
<1>3. x[1] # 0 \/ x[2] # 0
  BY <1>1, <1>2
<1>4. PICK a, b : a = x[1] /\ b = x[2]
  OBVIOUS
<1>5. a * a + b * b \in Nat \ {0}
  <2>1. a \in Nat /\ b \in Nat /\ (a # 0 \/ b # 0)
    BY <1>2, <1>3, <1>4
  <2>2. \A c \in Nat : c * c \in Nat /\ (c # 0 => c * c # 0)
    OBVIOUS
  <2> QED
    BY <2>1, <2>2
<1> QED
  BY <1>1, <1>2, <1>4, <1>5 DEF Sq, Dot

LEMMA DotType ==
    ASSUME NEW x \in Nat \X Nat, NEW y \in Nat \X Nat
    PROVE  Dot(x, y) \in Nat /\ Dot(x, y) * Dot(x, y) \in Nat
<1>1. Dot(x, y) \in Nat
  BY DEF Dot
<1> QED
  BY <1>1

LEMMA FarthestFromIn ==
    ASSUME NEW ms, NEW f, IsMembers(ms, f), DOMAIN ms # {}, NEW m \in Nat \X Nat
    PROVE  FarthestFrom(ms, m) \in DOMAIN ms
<1> DEFINE T == DOMAIN ms
           A == [k \in T |-> Dot(m, ms[k].vec) * Dot(m, ms[k].vec)]
           B == [k \in T |-> Sq(ms[k].vec)]
           R == {p \in T \X T : p[1] < p[2]}
<1>1. IsFiniteSet(T) /\ T \subseteq Nat
  BY FS_Interval DEF IsMembers
<1>2. \A k \in T : A[k] \in Nat /\ B[k] \in Nat \ {0}
  BY PointNumbers, DotType DEF IsMembers
<1>3. /\ \A x, y \in T : x # y => <<x, y>> \in R \/ <<y, x>> \in R
      /\ \A x, y, z \in T : <<x, y>> \in R /\ <<y, z>> \in R => <<x, z>> \in R
  BY <1>1
<1>4. \E k \in T : \A j \in T \ {k} : /\ A[j] * B[k] >= A[k] * B[j]
                                      /\ A[k] * B[j] >= A[j] * B[k] => <<k, j>> \in R
  <2>1. T # {} /\ IsFiniteSet(T)
    BY <1>1
  <2> HIDE DEF A, B, R, T
  <2>2. AreRatios(A, B, T) /\ IsOrder(R, T)
    BY <1>2, <1>3 DEF AreRatios, IsOrder
  <2> QED
    BY <2>1, <2>2, LeastRatio
<1>5. \A j, k \in T : NotFarther(m, ms[j].vec, ms[k].vec) <=> A[j] * B[k] >= A[k] * B[j]
  BY DEF NotFarther
<1>6. \A j, k \in T : <<k, j>> \in R => k < j
  OBVIOUS
<1> HIDE DEF A, B, R
<1>7. \E k \in T : \A j \in T \ {k} :
        NotFarther(m, ms[j].vec, ms[k].vec)
        /\ (NotFarther(m, ms[k].vec, ms[j].vec) => k < j)
  BY <1>4, <1>5, <1>6
<1> QED
  BY <1>7, Zenon DEF FarthestFrom

LEMMA FarthestPairIn ==
    ASSUME NEW ms, NEW f, IsMembers(ms, f), Len(ms) > 1
    PROVE  FarthestPair(ms) \in (DOMAIN ms) \X (DOMAIN ms)
<1> DEFINE D == DOMAIN ms
           T == {p \in D \X D : p[1] < p[2]}
           A == [p \in T |-> Dot(ms[p[1]].vec, ms[p[2]].vec) * Dot(ms[p[1]].vec, ms[p[2]].vec)]
           B == [p \in T |-> Sq(ms[p[1]].vec) * Sq(ms[p[2]].vec)]
           Before(p, q) == p[1] < q[1] \/ (p[1] = q[1] /\ p[2] < q[2])
           R == {r \in T \X T : Before(r[1], r[2])}
           vecs(p) == <<ms[p[1]].vec, ms[p[2]].vec>>
<1>1. IsFiniteSet(D) /\ D \subseteq Nat /\ 1 \in D /\ 2 \in D
  BY FS_Interval DEF IsMembers
<1>2. IsFiniteSet(T) /\ T # {}
  <2>1. IsFiniteSet(D \X D)
    BY <1>1, FS_Product
  <2>2. T \in SUBSET (D \X D)
    OBVIOUS
  <2>3. <<1, 2>> \in T
    BY <1>1
  <2> HIDE DEF D, T
  <2> QED
    BY <2>1, <2>2, <2>3, FS_Subset
<1>3. \A p \in T : p[1] \in D /\ p[2] \in D /\ p[1] \in Nat /\ p[2] \in Nat /\ p = <<p[1], p[2]>>
  BY <1>1
<1>4. \A p \in T : A[p] \in Nat /\ B[p] \in Nat \ {0}
  <2> SUFFICES ASSUME NEW p \in T PROVE A[p] \in Nat /\ B[p] \in Nat \ {0}
    OBVIOUS
  <2>1. ms[p[1]].vec \in Points /\ ms[p[2]].vec \in Points
    BY <1>3 DEF IsMembers
  <2>2. Sq(ms[p[1]].vec) \in Nat \ {0} /\ Sq(ms[p[2]].vec) \in Nat \ {0} /\ A[p] \in Nat
    BY <2>1, PointNumbers, DotType
  <2>3. \A x, y \in Nat \ {0} : x * y \in Nat \ {0}
    OBVIOUS
  <2> QED
    BY <2>2, <2>3
<1>5. \A p, q \in T : <<p, q>> \in R <=> Before(p, q)
  OBVIOUS
<1>6. \A p, q \in T : NotFartherPair(vecs(p), vecs(q)) <=> A[p] * B[q] >= A[q] * B[p]
  <2> SUFFICES ASSUME NEW p \in T, NEW q \in T
               PROVE  NotFartherPair(vecs(p), vecs(q)) <=> A[p] * B[q] >= A[q] * B[p]
    OBVIOUS
  <2>1. ms[p[1]].vec \in Points /\ ms[p[2]].vec \in Points
        /\ ms[q[1]].vec \in Points /\ ms[q[2]].vec \in Points
    BY <1>3 DEF IsMembers
  <2>2. PICK a, b, x, y, z, w :
          /\ a = Dot(ms[p[1]].vec, ms[p[2]].vec) /\ b = Dot(ms[q[1]].vec, ms[q[2]].vec)
          /\ x = Sq(ms[p[1]].vec) /\ y = Sq(ms[p[2]].vec)
          /\ z = Sq(ms[q[1]].vec) /\ w = Sq(ms[q[2]].vec)
    OBVIOUS
  <2>3. a \in Nat /\ b \in Nat /\ x \in Nat /\ y \in Nat /\ z \in Nat /\ w \in Nat
    BY <2>1, <2>2, PointNumbers, DotType
  <2>4. NotFartherPair(vecs(p), vecs(q)) <=> a * a * z * w >= b * b * x * y
    BY <2>2 DEF NotFartherPair
  <2>5. A[p] = a * a /\ B[q] = z * w /\ A[q] = b * b /\ B[p] = x * y
    BY <2>2
  <2>6. a * a * z * w = (a * a) * (z * w) /\ b * b * x * y = (b * b) * (x * y)
    BY <2>3
  <2> QED
    BY <2>4, <2>5, <2>6
<1>7. \A p, q \in T : p # q => Before(p, q) \/ Before(q, p)
  BY <1>3
<1>8. \A p, q, r \in T : Before(p, q) /\ Before(q, r) => Before(p, r)
  BY <1>3
<1> HIDE DEF A, B, R, T, Before, vecs
<1>9. /\ \A p, q \in T : p # q => <<p, q>> \in R \/ <<q, p>> \in R
      /\ \A p, q, r \in T : <<p, q>> \in R /\ <<q, r>> \in R => <<p, r>> \in R
  BY <1>5, <1>7, <1>8
<1>10. \E k \in T : \A j \in T \ {k} : /\ A[j] * B[k] >= A[k] * B[j]
                                       /\ A[k] * B[j] >= A[j] * B[k] => <<k, j>> \in R
  <2>1. AreRatios(A, B, T) /\ IsOrder(R, T)
    BY <1>4, <1>9 DEF AreRatios, IsOrder
  <2> QED
    BY <1>2, <2>1, LeastRatio
<1>11. \E p \in T : \A q \in T \ {p} : /\ NotFartherPair(vecs(q), vecs(p))
                                       /\ NotFartherPair(vecs(p), vecs(q)) => Before(p, q)
  BY <1>5, <1>6, <1>10
<1>12. FarthestPair(ms) \in T
  BY <1>11, Zenon DEF FarthestPair, T, Before, vecs
<1> QED
  BY <1>12 DEF T

----------------------------------------------------------------------------
(* Lloyd's iterations.                                                     *)

LEMMA SumOfType ==
    ASSUME NEW f, NEW S, IsPoints(f, S)
    PROVE  SumOf(f, S) \in Nat \X Nat
<1>1. IsFiniteSet(S) /\ Total(f, 1, S) \in Nat /\ Total(f, 2, S) \in Nat
  BY TotalType DEF IsPoints
<1>2. SumFunctionOnSet([x \in S |-> f[x][1]], S) = Total(f, 1, S)
  <2>1. [x \in S |-> f[x][1]] = [x \in S |-> Coord(f[x], 1)]
    BY DEF Coord
  <2> QED
    BY <1>1, <2>1, FoldIsSum, Zenon DEF Total
<1>3. SumFunctionOnSet([x \in S |-> f[x][2]], S) = Total(f, 2, S)
  <2>1. [x \in S |-> f[x][2]] = [x \in S |-> Coord(f[x], 2)]
    BY DEF Coord
  <2> QED
    BY <1>1, <2>1, FoldIsSum, Zenon DEF Total
<1> QED
  BY <1>1, <1>2, <1>3 DEF SumOf

(* A first cluster that leaves something to the second.                    *)
Proper(S, T) == S \in SUBSET T /\ S # {} /\ S # T

(* What the iterations go through.                                         *)
Iterations(ms) ==
    {x \in [first : SUBSET (DOMAIN ms), done : BOOLEAN, mean : (Nat \X Nat) \X (Nat \X Nat)] :
        Proper(x.first, DOMAIN ms) \/ ~x.done}

LEMMA IteratedProper ==
    ASSUME NEW ms, NEW f, IsMembers(ms, f), Len(ms) > 1, NEW x \in Iterations(ms)
    PROVE  Iterated(ms, x) \in Iterations(ms) /\ Proper(Iterated(ms, x).first, DOMAIN ms)
<1> DEFINE D == DOMAIN ms
           vecs  == [k \in D |-> ms[k].vec]
           near  == {k \in D : NotFarther(ms[k].vec, x.mean[1], x.mean[2])}
           first == IF near = {} THEN {FarthestFrom(ms, x.mean[2])}
                    ELSE IF near = D THEN near \ {FarthestFrom(ms, x.mean[1])}
                    ELSE near
           same  == near = x.first /\ first = near
           next  == [first |-> first, done |-> FALSE,
                     mean  |-> <<SumOf(vecs, first), SumOf(vecs, D \ first)>>]
<1>1. Iterated(ms, x) = IF x.done \/ same THEN [x EXCEPT !.done = TRUE] ELSE next
  BY Zenon DEF Iterated
<1>2. /\ x = [first |-> x.first, done |-> x.done, mean |-> x.mean]
      /\ x.first \in SUBSET D /\ x.done \in BOOLEAN
      /\ x.mean[1] \in Nat \X Nat /\ x.mean[2] \in Nat \X Nat
      /\ x.mean \in (Nat \X Nat) \X (Nat \X Nat)
      /\ Proper(x.first, D) \/ ~x.done
  BY DEF Iterations
<1>3. IsFiniteSet(D) /\ 1 \in D /\ 2 \in D
  BY FS_Interval DEF IsMembers
<1>4. FarthestFrom(ms, x.mean[1]) \in D /\ FarthestFrom(ms, x.mean[2]) \in D
  BY <1>2, <1>3, FarthestFromIn
<1>5. Proper(first, D)
  <2>1. CASE near = {}
    BY <1>3, <1>4, <2>1 DEF Proper
  <2>2. CASE near = D
    BY <1>3, <1>4, <2>2 DEF Proper
  <2>3. CASE near # {} /\ near # D
    BY <2>3 DEF Proper
  <2> QED
    BY <2>1, <2>2, <2>3
<1>6. SumOf(vecs, first) \in Nat \X Nat /\ SumOf(vecs, D \ first) \in Nat \X Nat
  <2>1. \A k \in D : vecs[k] \in Nat \X Nat
    BY KMeansAssumption DEF IsMembers
  <2>2. first \in SUBSET D /\ D \ first \in SUBSET D
    BY <1>5 DEF Proper
  <2> HIDE DEF first, vecs, D
  <2>3. IsPoints(vecs, first) /\ IsPoints(vecs, D \ first)
    BY <1>3, <2>1, <2>2, FS_Subset DEF IsPoints
  <2> QED
    BY <2>3, SumOfType
<1> HIDE DEF first, vecs, near
<1>7. CASE x.done \/ same
  <2>1. Proper(x.first, D)
    BY <1>2, <1>5, <1>7
  <2>2. Iterated(ms, x) = [first |-> x.first, done |-> TRUE, mean |-> x.mean]
    BY <1>1, <1>2, <1>7
  <2> HIDE DEF same
  <2> QED
    BY <1>2, <2>1, <2>2 DEF Iterations
<1>8. CASE ~(x.done \/ same)
  <2>1. Iterated(ms, x) = next
    BY <1>1, <1>8
  <2> HIDE DEF same
  <2>2. next.first = first /\ next.done = FALSE /\ first \in SUBSET D
        /\ next.mean \in (Nat \X Nat) \X (Nat \X Nat)
    BY <1>5, <1>6 DEF Proper
  <2> QED
    BY <1>5, <2>1, <2>2 DEF Iterations
<1> QED
  BY <1>7, <1>8

LEMMA LloydProper ==
    ASSUME NEW ms, NEW f, IsMembers(ms, f), Len(ms) > 1
    PROVE  Proper(Lloyd(ms), DOMAIN ms)
<1> DEFINE p == FarthestPair(ms)
           x == [first |-> DOMAIN ms, done |-> FALSE,
                 mean  |-> <<ms[p[1]].vec, ms[p[2]].vec>>]
           X == Iterations(ms)
           G == [n \in 1 .. MaxIter |-> [y \in X |-> Iterated(ms, y)]]
           Fits(u) == u = [n \in 0 .. MaxIter |->
                             IF n = 0 THEN [first |-> DOMAIN ms, done |-> FALSE,
                                            mean  |-> <<ms[p[1]].vec, ms[p[2]].vec>>]
                             ELSE The({Iterated(ms, y) : y \in {u[n - 1]}})]
           it == CHOOSE u : Fits(u)
<1>1. Lloyd(ms) = it[MaxIter].first
  BY DEF Lloyd
<1>2. MaxIter \in Nat /\ MaxIter # 0 /\ MaxIter \in 0 .. MaxIter /\ MaxIter \in 1 .. MaxIter
  BY KMeansAssumption
<1>3. x \in X
  <2>1. p \in (DOMAIN ms) \X (DOMAIN ms)
    BY FarthestPairIn
  <2> HIDE DEF p
  <2>2. ms[p[1]].vec \in Nat \X Nat /\ ms[p[2]].vec \in Nat \X Nat
    BY <2>1, KMeansAssumption DEF IsMembers
  <2> QED
    BY <2>2 DEF Iterations
<1>4. \A n \in 1 .. MaxIter : \A y \in X : G[n][y] = Iterated(ms, y) /\ G[n][y] \in X
  BY IteratedProper
<1>5. \A e : The({Iterated(ms, y) : y \in {e}}) = Iterated(ms, e)
  <2>1. ASSUME NEW e PROVE The({Iterated(ms, y) : y \in {e}}) = Iterated(ms, e)
    <3>1. {Iterated(ms, y) : y \in {e}} = {Iterated(ms, e)}
      OBVIOUS
    <3> QED
      BY <3>1, Zenon DEF The
  <2> QED
    BY <2>1
<1> HIDE DEF x, X, G
<1>6. ASSUME NEW u, Fits(u) \/ Recursion(u, x, G, MaxIter) PROVE u[0] = x
  <2>1. 0 \in 0 .. MaxIter
    BY <1>2
  <2>2. CASE Fits(u)
    BY <2>1, <2>2 DEF x
  <2>3. CASE Recursion(u, x, G, MaxIter)
    BY <2>1, <2>3 DEF Recursion
  <2> QED
    BY <1>6, <2>2, <2>3
<1>7. PICK u : Recursion(u, x, G, MaxIter)
  BY <1>2, <1>3, <1>4, RecursionExists
<1>8. \A n \in 0 .. MaxIter : u[n] \in X
  BY <1>2, <1>3, <1>4, <1>7, RecursionStays
<1>9. Fits(u)
  <2>1. u = [n \in 0 .. MaxIter |-> IF n = 0 THEN x ELSE G[n][u[n - 1]]]
    BY <1>7, Zenon DEF Recursion
  <2>2. \A n \in 0 .. MaxIter : n # 0 =>
          G[n][u[n - 1]] = The({Iterated(ms, y) : y \in {u[n - 1]}})
    <3> SUFFICES ASSUME NEW n \in 0 .. MaxIter, n # 0
                 PROVE  G[n][u[n - 1]] = The({Iterated(ms, y) : y \in {u[n - 1]}})
      OBVIOUS
    <3>1. n \in 1 .. MaxIter /\ n - 1 \in 0 .. MaxIter
      BY <1>2
    <3>2. G[n][u[n - 1]] = Iterated(ms, u[n - 1])
      BY <1>4, <1>8, <3>1
    <3> QED
      BY <1>5, <3>2
  <2>3. u = [n \in 0 .. MaxIter |-> IF n = 0 THEN x
                                    ELSE The({Iterated(ms, y) : y \in {u[n - 1]}})]
    BY <2>1, <2>2
  <2> QED
    BY <2>3, Zenon DEF x
<1>10. Fits(it)
  <2> HIDE DEF Fits
  <2> QED
    BY <1>9, Zenon
<1> HIDE DEF it
<1>11. \A n \in 0 .. MaxIter : it[n] \in X
  <2> DEFINE Bad == {n \in 0 .. MaxIter : it[n] \notin X}
  <2> SUFFICES ASSUME Bad # {} PROVE FALSE
    OBVIOUS
  <2>1. PICK n \in Bad : \A m \in Bad : n <= m
    <3>1. Bad \subseteq Nat
      OBVIOUS
    <3> HIDE DEF Bad
    <3> QED
      BY <3>1, LeastElement
  <2>2. n \in 0 .. MaxIter /\ it[n] \notin X
    OBVIOUS
  <2>3. n # 0
    BY <1>3, <1>6, <1>10, <2>2
  <2>4. n - 1 \in 0 .. MaxIter /\ ~ (n <= n - 1)
    BY <1>2, <2>2, <2>3
  <2>5. it[n - 1] \in X
    BY <2>1, <2>4
  <2>6. it[n] = Iterated(ms, it[n - 1])
    BY <1>5, <1>10, <2>2, <2>3
  <2> QED
    BY <2>2, <2>5, <2>6, IteratedProper DEF X
<1>12. it[MaxIter] = Iterated(ms, it[MaxIter - 1]) /\ it[MaxIter - 1] \in X
  <2>1. MaxIter - 1 \in 0 .. MaxIter
    BY <1>2
  <2> QED
    BY <1>2, <1>5, <1>10, <1>11, <2>1
<1> QED
  BY <1>1, <1>12, IteratedProper DEF X

----------------------------------------------------------------------------
(* The metrics that build_cluster computes member by member.               *)

Empty == [sum |-> <<0, 0>>, m2 |-> 0, count |-> 0]

BuiltUpTo(u, ms, ks) ==
    u = [n \in 0 .. Len(ms) |->
           IF n = 0 THEN [sum |-> <<0, 0>>, m2 |-> 0, count |-> 0]
           ELSE IF n \notin ks THEN u[n - 1]
           ELSE IF u[n - 1].count = 0 THEN Single(ms[n].vec)
           ELSE Welford(u[n - 1], ms[n].vec)]

LEMMA BuiltIs ==
    ASSUME NEW ms, NEW f, IsMembers(ms, f), NEW ks
    PROVE  \E u : /\ BuiltUpTo(u, ms, ks)
                  /\ Built(ms, ks) = [sum |-> u[Len(ms)].sum, m2 |-> u[Len(ms)].m2,
                                      count |-> u[Len(ms)].count, ids |-> Ids(ms, ks)]
<1> DEFINE N == Len(ms)
           X == [sum : Nat \X Nat, m2 : Nat, count : Nat]
           G == [n \in 1 .. N |-> [y \in X |->
                   IF n \notin ks THEN y
                   ELSE IF y.count = 0 THEN Single(ms[n].vec) ELSE Welford(y, ms[n].vec)]]
<1>1. N \in Nat /\ Empty \in X
  BY DEF IsMembers, Empty
<1>2. ASSUME NEW n \in 1 .. N, NEW y \in X
      PROVE  /\ G[n][y] \in X
             /\ G[n][y] = IF n \notin ks THEN y
                          ELSE IF y.count = 0 THEN Single(ms[n].vec) ELSE Welford(y, ms[n].vec)
  <2>1. ms[n].vec \in Nat \X Nat
    BY KMeansAssumption DEF IsMembers
  <2>2. Single(ms[n].vec) \in X
    BY <2>1 DEF Single
  <2>3. CASE y.count # 0
    <3>1. Numbers(y)
      BY <2>3 DEF Numbers
    <3>2. Numbers(Welford(y, ms[n].vec))
      BY <2>1, <3>1, WelfordNumbers
    <3> DEFINE z == Welford(y, ms[n].vec)
    <3>3. z = [sum |-> z.sum, m2 |-> z.m2, count |-> z.count]
      BY DEF Welford
    <3> HIDE DEF z
    <3>4. z \in X
      BY <3>2, <3>3 DEF Numbers, z
    <3> QED
      BY <2>3, <3>4 DEF z
  <2>4. CASE y.count = 0
    BY <2>2, <2>4
  <2> QED
    BY <2>3, <2>4
<1> HIDE DEF X, G
<1>3. PICK g : Recursion(g, Empty, G, N)
  BY <1>1, <1>2, RecursionExists
<1>4. \A n \in 0 .. N : g[n] \in X
  BY <1>1, <1>2, <1>3, RecursionStays
<1>5. BuiltUpTo(g, ms, ks)
  <2> DEFINE e(n) == IF n \notin ks THEN g[n - 1]
                     ELSE IF g[n - 1].count = 0 THEN Single(ms[n].vec)
                     ELSE Welford(g[n - 1], ms[n].vec)
  <2>1. g = [n \in 0 .. N |-> IF n = 0 THEN Empty ELSE G[n][g[n - 1]]]
    BY <1>3, Zenon DEF Recursion
  <2>2. \A n \in 0 .. N : n # 0 => G[n][g[n - 1]] = e(n)
    <3> SUFFICES ASSUME NEW n \in 0 .. N, n # 0 PROVE G[n][g[n - 1]] = e(n)
      OBVIOUS
    <3>1. n \in 1 .. N /\ n - 1 \in 0 .. N
      BY <1>1
    <3> QED
      BY <1>2, <1>4, <3>1
  <2> HIDE DEF e
  <2>3. g = [n \in 0 .. N |-> IF n = 0 THEN Empty ELSE e(n)]
    BY <2>1, <2>2
  <2> QED
    BY <2>3, Zenon DEF BuiltUpTo, Empty, e
<1> DEFINE u == CHOOSE v : BuiltUpTo(v, ms, ks)
<1>6. BuiltUpTo(u, ms, ks)
  BY <1>5, Zenon
<1>7. Built(ms, ks) = [sum |-> u[N].sum, m2 |-> u[N].m2, count |-> u[N].count,
                       ids |-> Ids(ms, ks)]
  BY Zenon DEF Built, BuiltUpTo
<1> QED
  BY <1>6, <1>7

(* Whatever count a mean reaches below n, the division is exact.           *)
ExactUpTo(n) == \A c \in 1 .. n : c < n => \E w \in Int : Scale = (c * (c + 1)) * w

LEMMA BuiltIsMean ==
    ASSUME NEW ms, NEW f, IsMembers(ms, f), ExactUpTo(Len(ms)),
           NEW ks, ks \subseteq DOMAIN ms, ks # {}
    PROVE  Numbers(Built(ms, ks)) /\ IsMeanOf(Built(ms, ks), f, Ids(ms, ks))
<1> DEFINE N == Len(ms)
           S(n) == Ids(ms, {k \in ks : k <= n})
<1>1. PICK u : /\ BuiltUpTo(u, ms, ks)
               /\ Built(ms, ks) = [sum |-> u[N].sum, m2 |-> u[N].m2, count |-> u[N].count,
                                   ids |-> Ids(ms, ks)]
  BY BuiltIs
<1>2. N \in Nat /\ DOMAIN ms = 1 .. N /\ 0 \in 0 .. N /\ N \in 0 .. N
  BY DEF IsMembers
<1> DEFINE Good(n) == /\ IsFiniteSet(S(n)) /\ Cardinality(S(n)) <= n
                      /\ \A v \in S(n) : f[v] \in Nat \X Nat
                      /\ IF S(n) = {} THEN u[n].count = 0
                         ELSE Numbers(u[n]) /\ IsMeanOf(u[n], f, S(n))
           Bad == {n \in 0 .. N : ~Good(n)}
<1>3. Good(0)
  <2>1. S(0) = {}
    BY <1>2 DEF Ids
  <2>2. u[0] = Empty
    BY <1>1, <1>2 DEF BuiltUpTo, Empty
  <2>3. IsFiniteSet(S(0)) /\ Cardinality(S(0)) = 0
    BY <2>1, FS_EmptySet
  <2> QED
    BY <2>1, <2>2, <2>3 DEF Empty
<1>4. ASSUME NEW n \in 1 .. N, Good(n - 1) PROVE Good(n)
  <2>1. n \in 0 .. N /\ n # 0 /\ n \in DOMAIN ms /\ n - 1 \in Nat
    BY <1>2
  <2>2. u[n] = IF n \notin ks THEN u[n - 1]
               ELSE IF u[n - 1].count = 0 THEN Single(ms[n].vec)
               ELSE Welford(u[n - 1], ms[n].vec)
    BY <1>1, <2>1 DEF BuiltUpTo
  <2>3. CASE n \notin ks
    <3>1. {k \in ks : k <= n} = {k \in ks : k <= n - 1}
      BY <1>2, <2>1, <2>3
    <3>2. S(n) = S(n - 1)
      BY <3>1
    <3> HIDE DEF S
    <3>3. IsFiniteSet(S(n)) /\ Cardinality(S(n)) <= n
      BY <1>4, <2>1, <3>2, FS_CardinalityType
    <3> QED
      BY <1>4, <2>2, <2>3, <3>2, <3>3
  <2>4. CASE n \in ks
    <3> DEFINE v == ms[n].id
    <3>1. f[v] = ms[n].vec /\ f[v] \in Nat \X Nat
      BY <2>1, KMeansAssumption DEF IsMembers
    <3>2. S(n) = S(n - 1) \union {v}
      <4>1. {k \in ks : k <= n} = {k \in ks : k <= n - 1} \union {n}
        BY <1>2, <2>1, <2>4
      <4> QED
        BY <4>1 DEF Ids
    <3>3. v \notin S(n - 1)
      <4>1. \A k \in ks : k <= n - 1 => ms[k].id # v
        BY <1>2, <2>1 DEF IsMembers
      <4> QED
        BY <4>1 DEF Ids
    <3>4. /\ IsFiniteSet(S(n - 1)) /\ Cardinality(S(n - 1)) <= n - 1
          /\ \A x \in S(n - 1) : f[x] \in Nat \X Nat
      BY <1>4
    <3> HIDE DEF v, S
    <3>5. IsFiniteSet(S(n)) /\ Cardinality(S(n)) <= n /\ S(n) # {}
      <4>1. IsFiniteSet(S(n)) /\ Cardinality(S(n)) = Cardinality(S(n - 1)) + 1
        BY <3>2, <3>3, <3>4, FS_AddElement
      <4>2. Cardinality(S(n - 1)) \in Nat
        BY <3>4, FS_CardinalityType
      <4> QED
        BY <2>1, <3>2, <3>4, <4>1, <4>2
    <3>6. \A x \in S(n) : f[x] \in Nat \X Nat
      BY <3>1, <3>2, <3>4
    <3>7. CASE S(n - 1) = {}
      <4>1. u[n] = Single(f[v])
        BY <1>4, <2>2, <2>4, <3>1, <3>7
      <4>2. S(n) = {v}
        BY <3>2, <3>7
      <4>3. Numbers(u[n]) /\ IsMeanOf(u[n], f, S(n))
        BY <3>1, <4>1, <4>2, SingleIsMean
      <4> QED
        BY <3>5, <3>6, <4>3
    <3>8. CASE S(n - 1) # {}
      <4> DEFINE c == u[n - 1]
      <4>1. Numbers(c) /\ IsMeanOf(c, f, S(n - 1)) /\ c.count # 0
        BY <1>4, <3>8 DEF Numbers
      <4>2. u[n] = Welford(c, f[v])
        BY <2>2, <2>4, <3>1, <4>1
      <4> HIDE DEF c
      <4>3. c.count = Cardinality(S(n - 1)) /\ c.count \in Nat
        BY <4>1, MeanIs, <3>4 DEF Numbers
      <4>4. c.count \in 1 .. N /\ c.count < N
        BY <1>2, <3>4, <4>1, <4>3
      <4>5. PICK w \in Int : Scale = (c.count * (c.count + 1)) * w
        BY <4>4 DEF ExactUpTo
      <4>6. IsPoints(f, S(n - 1))
        BY <3>4 DEF IsPoints
      <4>7. IsMeanOf(Welford(c, f[v]), f, S(n - 1) \union {v})
        BY <3>1, <3>3, <4>1, <4>5, <4>6, WelfordIsMean
      <4>8. Numbers(Welford(c, f[v]))
        BY <3>1, <4>1, WelfordNumbers
      <4> QED
        BY <3>2, <3>5, <3>6, <4>2, <4>7, <4>8
    <3> QED
      BY <3>7, <3>8
  <2> QED
    BY <2>3, <2>4
<1> HIDE DEF Good, S
<1>5. Bad = {}
  <2> SUFFICES ASSUME Bad # {} PROVE FALSE
    OBVIOUS
  <2>1. PICK n \in Bad : \A m \in Bad : n <= m
    <3>1. Bad \subseteq Nat
      OBVIOUS
    <3> HIDE DEF Bad
    <3> QED
      BY <3>1, LeastElement
  <2>2. n \in 0 .. N /\ ~Good(n)
    OBVIOUS
  <2>3. n # 0
    BY <1>3, <2>2
  <2>4. n - 1 \in 0 .. N /\ ~ (n <= n - 1) /\ n \in 1 .. N
    BY <1>2, <2>2, <2>3
  <2>5. Good(n - 1)
    BY <2>1, <2>4
  <2> QED
    BY <1>4, <2>2, <2>4, <2>5
<1>6. Good(N)
  BY <1>2, <1>5
<1>7. S(N) = Ids(ms, ks) /\ Ids(ms, ks) # {}
  <2>1. {k \in ks : k <= N} = ks
    BY <1>2
  <2> QED
    BY <2>1 DEF S, Ids
<1>8. Numbers(u[N]) /\ IsMeanOf(u[N], f, Ids(ms, ks))
  BY <1>6, <1>7 DEF Good
<1> DEFINE b == Built(ms, ks)
<1>9. b.sum = u[N].sum /\ b.m2 = u[N].m2 /\ b.count = u[N].count
  BY <1>1
<1> HIDE DEF b
<1>10. Numbers(b) /\ IsMeanOf(b, f, Ids(ms, ks))
  BY <1>8, <1>9 DEF Numbers, IsMeanOf
<1> QED
  BY <1>10 DEF b

LEMMA IdsCardinality ==
    ASSUME NEW ms, NEW f, IsMembers(ms, f), NEW ks, ks \subseteq DOMAIN ms, IsFiniteSet(ks)
    PROVE  IsFiniteSet(Ids(ms, ks)) /\ Cardinality(Ids(ms, ks)) = Cardinality(ks)
<1> DEFINE g == [k \in ks |-> ms[k].id]
           T == Ids(ms, ks)
<1>1. g \in [ks -> T] /\ \A v \in T : \E k \in ks : g[k] = v
  BY DEF Ids
<1>2. \A j, k \in ks : g[j] = g[k] => j = k
  BY DEF IsMembers
<1> HIDE DEF g, T
<1>3. g \in Surjection(ks, T) /\ g \in Injection(ks, T)
  BY <1>1, <1>2 DEF Surjection, Injection, IsInjective
<1>4. IsFiniteSet(T) /\ Cardinality(T) = Cardinality(ks)
  BY <1>3, FS_Surjection
<1> QED
  BY <1>4 DEF T

(* Both clusters of kmeans2 are means of the members they are given.       *)
LEMMA KMeans2Means ==
    ASSUME NEW ms, NEW f, IsMembers(ms, f), Len(ms) > 1, ExactUpTo(Len(ms)), NEW i \in 1 .. 2
    PROVE  /\ Numbers(KMeans2(ms)[i])
           /\ IsMeanOf(KMeans2(ms)[i], f, KMeans2(ms)[i].ids)
<1> DEFINE N == Len(ms)
           D == DOMAIN ms
<1>1. N \in Nat /\ N > 1 /\ D = 1 .. N /\ IsFiniteSet(D)
  BY FS_Interval DEF IsMembers
<1>2. CASE \A j, k \in DOMAIN ms : Parallel(ms[j].vec, ms[k].vec)
  <2> DEFINE mid == N \div 2
             half(ks) == [sum   |-> Times(Cardinality(ks), ms[1].vec), m2 |-> 0,
                          count |-> Cardinality(ks), ids |-> Ids(ms, ks)]
  <2>1. KMeans2(ms) = <<half(1 .. mid), half(mid + 1 .. N)>>
    BY <1>2 DEF KMeans2, Halves
  <2>2. mid \in 1 .. N - 1
    BY <1>1
  <2> HIDE DEF mid
  <2>3. PICK ks : /\ KMeans2(ms)[i] = half(ks)
                  /\ ks \subseteq D /\ ks # {} /\ IsFiniteSet(ks)
    <3> HIDE DEF half
    <3>1. CASE i = 1
      <4>1. KMeans2(ms)[i] = half(1 .. mid)
        BY <2>1, <3>1
      <4>2. 1 .. mid \subseteq D /\ 1 \in 1 .. mid /\ mid \in Int
        BY <1>1, <2>2
      <4>3. IsFiniteSet(1 .. mid)
        BY <4>2, FS_Interval
      <4> QED
        BY <4>1, <4>2, <4>3
    <3>2. CASE i = 2
      <4>1. KMeans2(ms)[i] = half(mid + 1 .. N)
        BY <2>1, <3>2
      <4>2. mid + 1 .. N \subseteq D /\ N \in mid + 1 .. N /\ mid + 1 \in Int
        BY <1>1, <2>2
      <4>3. IsFiniteSet(mid + 1 .. N)
        BY <1>1, <4>2, FS_Interval
      <4> QED
        BY <4>1, <4>2, <4>3
    <3> QED
      BY <3>1, <3>2
  <2> DEFINE S == Ids(ms, ks)
             x == ms[1].vec
             h == half(ks)
  <2>4. IsFiniteSet(S) /\ Cardinality(S) = Cardinality(ks) /\ S # {}
    BY <2>3, IdsCardinality DEF Ids
  <2>5. x \in Nat \X Nat /\ \A k \in D : ms[k].vec = x /\ f[ms[k].id] = x
    <3>1. 1 \in D
      BY <1>1
    <3> QED
      BY <1>2, <3>1, KMeansAssumption DEF IsMembers
  <2>6. \A v \in S : f[v] = x
    BY <2>3, <2>5 DEF Ids
  <2>7. /\ h.count = Cardinality(S) /\ h.sum = Times(Cardinality(S), x) /\ h.m2 = 0
        /\ h.ids = S
    BY <2>4
  <2> HIDE DEF h, S, x
  <2>8. Numbers(h) /\ IsMeanOf(h, f, S)
    BY <2>4, <2>5, <2>6, <2>7, CopiesAreMean
  <2> QED
    BY <2>3, <2>7, <2>8 DEF h
<1>3. CASE ~ \A j, k \in DOMAIN ms : Parallel(ms[j].vec, ms[k].vec)
  <2> DEFINE first == (DOMAIN ms) \intersect Lloyd(ms)
             two   == <<Built(ms, first), Built(ms, (DOMAIN ms) \ first)>>
  <2>1. KMeans2(ms) = The({two})
    <3>1. KMeans2(ms) = The({<<Built(ms, g), Built(ms, (DOMAIN ms) \ g)>> : g \in {first}})
      BY <1>3, Zenon DEF KMeans2
    <3>2. {<<Built(ms, g), Built(ms, (DOMAIN ms) \ g)>> : g \in {first}} = {two}
      OBVIOUS
    <3> QED
      BY <3>1, <3>2
  <2>2. The({two}) = two
    <3> HIDE DEF two
    <3> QED
      BY DEF The
  <2>3. /\ first \subseteq D /\ first # {} /\ D \ first \subseteq D /\ D \ first # {}
    BY LloydProper DEF Proper
  <2>4. \A ks : Built(ms, ks).ids = Ids(ms, ks)
    BY DEF Built
  <2> HIDE DEF first
  <2>5. PICK ks : KMeans2(ms)[i] = Built(ms, ks) /\ ks \subseteq D /\ ks # {}
    BY <2>1, <2>2, <2>3
  <2>6. Numbers(Built(ms, ks)) /\ IsMeanOf(Built(ms, ks), f, Ids(ms, ks))
    BY <2>5, BuiltIsMean
  <2> QED
    BY <2>4, <2>5, <2>6
<1> QED
  BY <1>2, <1>3

----------------------------------------------------------------------------
(* What a centroid averages: f is the point of every vector that was not   *)
(* deleted, n of them were embedded so far.                                *)

Gone(f, n) == (1 .. n) \ DOMAIN f

(* The centroid k with the members M was made of the vectors S: its        *)
(* members, and vectors that are gone.                                     *)
Averaged(k, M, S, f, n) ==
    /\ k.count = Cardinality(S)
    /\ M \subseteq S /\ S \subseteq M \union Gone(f, n)
    /\ S = M => IsMeanOf(k, f, S)

(* No vector went into two centroids: h says what each was made of.        *)
Averages(g, h, f, n) ==
    /\ \A c \in DOMAIN g.cents : Numbers(g.cents[c])
    /\ \A c, d \in Active(g) : c # d => h[c] \intersect h[d] = {}
    /\ \A c \in Active(g) : Averaged(g.cents[c], MembersOf(g, c), h[c], f, n)

GraphMeans(g, f, n) ==
    \E h \in [Active(g) -> SUBSET (1 .. n)] : Averages(g, h, f, n)

(* The points of a graph.                                                  *)
IsField(f, n, g) ==
    /\ n \in 0 .. MaxVecs /\ DOMAIN f \subseteq 1 .. n
    /\ \A v \in DOMAIN f : f[v] \in Points
    /\ Homed(g) \subseteq DOMAIN f

LEMMA MembersHomed ==
    ASSUME NEW g, NEW c PROVE MembersOf(g, c) \subseteq Homed(g)
<1> SUFFICES ASSUME NEW v \in MembersOf(g, c) PROVE v \in Homed(g)
  OBVIOUS
<1>1. <<c, v>> \in g.members /\ <<c, v>>[2] = v
  BY DEF MembersOf
<1> QED
  BY <1>1 DEF Homed

LEMMA FieldPoints ==
    ASSUME NEW f, NEW n, NEW g, IsField(f, n, g)
    PROVE  /\ \A S \in SUBSET (1 .. n) : IsFiniteSet(S) /\ Cardinality(S) <= MaxVecs
           /\ \A S \in SUBSET (DOMAIN f) : IsPoints(f, S)
<1>1. n \in Nat /\ n <= MaxVecs /\ MaxVecs \in Nat
  BY ConsolidationAssumption DEF IsField
<1>2. IsFiniteSet(1 .. n) /\ Cardinality(1 .. n) = n
  BY <1>1, FS_Interval
<1>3. ASSUME NEW S \in SUBSET (1 .. n) PROVE IsFiniteSet(S) /\ Cardinality(S) <= MaxVecs
  <2>1. IsFiniteSet(S) /\ Cardinality(S) <= n
    BY <1>2, FS_Subset
  <2>2. Cardinality(S) \in Nat
    BY <2>1, FS_CardinalityType
  <2> QED
    BY <1>1, <2>1, <2>2
<1>4. ASSUME NEW S \in SUBSET (DOMAIN f) PROVE IsPoints(f, S)
  BY <1>3, KMeansAssumption DEF IsField, IsPoints
<1> QED
  BY <1>3, <1>4

LEMMA MeanSame ==
    ASSUME NEW k, NEW f, NEW S, IsMeanOf(k, f, S), IsFiniteSet(S),
           NEW g, \A x \in S : f[x] = g[x]
    PROVE  IsMeanOf(k, g, S)
<1>1. Total(f, 1, S) = Total(g, 1, S) /\ Total(f, 2, S) = Total(g, 2, S)
      /\ Total(f, 3, S) = Total(g, 3, S)
  BY TotalSame
<1>2. /\ k.count = Cardinality(S)
      /\ k.sum = <<Total(f, 1, S), Total(f, 2, S)>>
      /\ k.m2 * k.count = Scale * (k.count * Total(f, 3, S) - Sq(k.sum))
  BY MeanIs
<1> QED
  BY <1>1, <1>2, MeanIs

(* What Centroid copies.                                                   *)
LEMMA CentroidNumbers ==
    ASSUME NEW k
    PROVE  /\ Numbers(k) => Numbers(Centroid(k))
           /\ \A f, S : IsMeanOf(k, f, S) => IsMeanOf(Centroid(k), f, S)
           /\ Centroid(k).count = k.count
<1>1. Centroid(k).sum = k.sum /\ Centroid(k).m2 = k.m2 /\ Centroid(k).count = k.count
  BY DEF Centroid
<1> QED
  BY <1>1 DEF Numbers, IsMeanOf

LEMMA ScaleIsExact ==
    ASSUME NEW a \in Nat \ {0}, NEW b \in Nat \ {0}, a + b <= MaxVecs
    PROVE  \E w \in Int : Scale = (a * b * (a + b)) * w
<1>1. a \in 1 .. MaxVecs /\ b \in 1 .. MaxVecs
  BY ConsolidationAssumption
<1>2. PICK w \in 1 .. Scale : Scale = (a * b * (a + b)) * w
  BY <1>1, ConsolidationAssumption
<1>3. w \in Int
  BY <1>2, KMeansAssumption
<1> QED
  BY <1>2, <1>3

LEMMA ScaleExactUpTo ==
    ASSUME NEW n \in Nat, n <= MaxVecs
    PROVE  ExactUpTo(n)
<1> SUFFICES ASSUME NEW c \in 1 .. n, c < n
             PROVE  \E w \in Int : Scale = (c * (c + 1)) * w
  BY DEF ExactUpTo
<1>1. c \in Nat \ {0} /\ 1 \in Nat \ {0} /\ c + 1 <= MaxVecs
  BY ConsolidationAssumption
<1>2. PICK w \in Int : Scale = (c * 1 * (c + 1)) * w
  BY <1>1, ScaleIsExact
<1>3. c * 1 = c
  BY <1>1
<1> QED
  BY <1>2, <1>3

----------------------------------------------------------------------------
(* The operations on a graph keep it.                                      *)

LEMMA CreateFromMeans ==
    ASSUME NEW g, GraphOK(g), NEW f, NEW n, IsField(f, n, g), GraphMeans(g, f, n),
           NEW v \in Vecs \ Homed(g), v \in DOMAIN f, f[v] = emb[v].vec
    PROVE  GraphMeans(CreateFrom(g, v), f, n)
<1> DEFINE k == Centroid(Single(emb[v].vec))
           e == Len(g.cents) + 1
           j == CreateFrom(g, v)
<1>1. PICK h \in [Active(g) -> SUBSET (1 .. n)] : Averages(g, h, f, n)
  BY DEF GraphMeans
<1>2. Len(g.cents) \in Nat /\ DOMAIN g.cents = 1 .. Len(g.cents)
  BY SeqAny DEF GraphOK
<1>3. /\ j.cents = Append(g.cents, k) /\ j.members = g.members \union {<<e, v>>}
  BY DEF CreateFrom
<1>4. k.active /\ Numbers(k) /\ IsMeanOf(k, f, {v}) /\ k.count = 1
  <2>1. f[v] \in Nat \X Nat
    BY KMeansAssumption DEF IsField
  <2>2. Numbers(Single(f[v])) /\ IsMeanOf(Single(f[v]), f, {v}) /\ Single(f[v]).count = 1
    BY <2>1, SingleIsMean DEF Single
  <2> QED
    BY <2>2, NewCentroid, CentroidNumbers
<1> HIDE DEF k, j
<1>5. /\ DOMAIN j.cents = 1 .. e
      /\ \A c \in DOMAIN g.cents : j.cents[c] = g.cents[c]
      /\ j.cents[e] = k
  BY <1>2, <1>3, AppendAny DEF GraphOK
<1>6. /\ \A c \in DOMAIN j.cents : c \in DOMAIN g.cents \/ c = e
      /\ e \notin DOMAIN g.cents /\ e \in DOMAIN j.cents
      /\ DOMAIN g.cents \subseteq DOMAIN j.cents
  BY <1>2, <1>5
<1>7. Active(j) = Active(g) \union {e} /\ e \notin Active(g)
  BY <1>4, <1>5, <1>6 DEF Active
<1> HIDE DEF e
<1>8. \A m \in g.members : m[1] \in DOMAIN g.cents /\ m[2] # v
  BY DEF GraphOK, Homed
<1>9. \A c \in Active(g) : MembersOf(j, c) = MembersOf(g, c)
  <2> SUFFICES ASSUME NEW c \in Active(g) PROVE MembersOf(j, c) = MembersOf(g, c)
    OBVIOUS
  <2>1. c # e
    BY <1>7
  <2> QED
    BY <1>3, <2>1 DEF MembersOf
<1>10. MembersOf(j, e) = {v}
  <2>1. \A w \in Vecs : <<e, w>> \notin g.members
    <3> SUFFICES ASSUME NEW w \in Vecs, <<e, w>> \in g.members PROVE FALSE
      OBVIOUS
    <3>1. <<e, w>>[1] = e
      OBVIOUS
    <3> QED
      BY <1>6, <1>8, <3>1
  <2> QED
    BY <1>3, <2>1 DEF MembersOf
<1> DEFINE i == [c \in Active(j) |-> IF c = e THEN {v} ELSE h[c]]
<1>11. i[e] = {v} /\ \A c \in Active(g) : i[c] = h[c]
  BY <1>7
<1>12. i \in [Active(j) -> SUBSET (1 .. n)]
  <2>1. v \in 1 .. n
    BY DEF IsField
  <2> QED
    BY <1>7, <2>1
<1> HIDE DEF i
<1>13. \A c \in Active(g) : v \notin h[c]
  <2> SUFFICES ASSUME NEW c \in Active(g), v \in h[c] PROVE FALSE
    OBVIOUS
  <2>1. v \in MembersOf(g, c) \/ v \in Gone(f, n)
    BY <1>1 DEF Averages, Averaged
  <2> QED
    BY <2>1, MembersHomed DEF Gone
<1>14. \A c, d \in Active(j) : c # d => i[c] \intersect i[d] = {}
  BY <1>1, <1>7, <1>11, <1>13 DEF Averages
<1>15. \A c \in DOMAIN j.cents : Numbers(j.cents[c])
  BY <1>1, <1>4, <1>5, <1>6 DEF Averages
<1>16. Averaged(j.cents[e], MembersOf(j, e), i[e], f, n)
  <2>1. Cardinality({v}) = 1
    BY FS_Singleton
  <2> QED
    BY <1>4, <1>5, <1>10, <1>11, <2>1 DEF Averaged
<1>17. ASSUME NEW c \in Active(g) PROVE Averaged(j.cents[c], MembersOf(j, c), i[c], f, n)
  <2>1. c \in DOMAIN g.cents
    BY DEF Active
  <2> QED
    BY <1>1, <1>5, <1>9, <1>11, <2>1 DEF Averages
<1>18. Averages(j, i, f, n)
  BY <1>7, <1>14, <1>15, <1>16, <1>17 DEF Averages
<1> QED
  BY <1>12, <1>18 DEF GraphMeans, j

LEMMA AttachedMeans ==
    ASSUME NEW g, GraphOK(g), NEW f, NEW n, IsField(f, n, g), GraphMeans(g, f, n),
           NEW v \in Vecs \ Homed(g), v \in DOMAIN f, f[v] = emb[v].vec,
           NEW c \in Active(g)
    PROVE  GraphMeans(Attached(g, c, v), f, n)
<1> DEFINE o == g.cents[c]
           k == Centroid(Welford(o, f[v]))
           j == Attached(g, c, v)
<1>1. PICK h \in [Active(g) -> SUBSET (1 .. n)] : Averages(g, h, f, n)
  BY DEF GraphMeans
<1>2. c \in DOMAIN g.cents /\ o.active
  BY DEF Active
<1>3. /\ j.cents = [g.cents EXCEPT ![c] = k] /\ j.members = g.members \union {<<c, v>>}
  BY DEF Attached
<1>4. /\ \A d \in Active(g) : v \notin h[d] /\ h[d] \subseteq 1 .. n /\ MembersOf(g, d) \subseteq h[d]
      /\ Averaged(o, MembersOf(g, c), h[c], f, n) /\ Numbers(o)
  <2>1. ASSUME NEW d \in Active(g) PROVE v \notin h[d] /\ MembersOf(g, d) \subseteq h[d]
    <3>1. h[d] \subseteq MembersOf(g, d) \union Gone(f, n) /\ MembersOf(g, d) \subseteq h[d]
      BY <1>1 DEF Averages, Averaged
    <3> QED
      BY <3>1, MembersHomed DEF Gone
  <2> QED
    BY <1>1, <1>2, <2>1 DEF Averages
<1>5. v \in 1 .. n /\ f[v] \in Nat \X Nat
  BY KMeansAssumption DEF IsField
<1>6. k.active /\ Numbers(k) /\ k.count = o.count + 1
  BY <1>4, <1>5, NewCentroid, CentroidNumbers, WelfordNumbers
<1> DEFINE S == h[c]
           M == MembersOf(g, c)
<1>7. /\ IsFiniteSet(S) /\ Cardinality(S) \in Nat
      /\ Cardinality(S \union {v}) = Cardinality(S) + 1 /\ Cardinality(S \union {v}) <= MaxVecs
  <2>1. S \union {v} \in SUBSET (1 .. n) /\ S \in SUBSET (1 .. n) /\ v \notin S
    BY <1>4, <1>5
  <2> HIDE DEF S
  <2>2. IsFiniteSet(S) /\ Cardinality(S \union {v}) <= MaxVecs
    BY <2>1, FieldPoints
  <2> QED
    BY <2>1, <2>2, FS_AddElement, FS_CardinalityType
<1>8. ASSUME S = M PROVE IsMeanOf(k, f, S \union {v})
  <2>1. IsMeanOf(o, f, S) /\ o.count = Cardinality(S)
    BY <1>4, <1>8 DEF Averaged
  <2>2. o.count \in Nat \ {0}
    BY <1>4 DEF Numbers
  <2>3. o.count + 1 <= MaxVecs
    BY <1>7, <2>1
  <2>4. PICK w \in Int : Scale = (o.count * (o.count + 1)) * w
    <3>1. ExactUpTo(o.count + 1)
      BY <2>2, <2>3, ScaleExactUpTo
    <3>2. o.count \in 1 .. o.count + 1 /\ o.count < o.count + 1
      BY <2>2
    <3> QED
      BY <3>1, <3>2 DEF ExactUpTo
  <2>5. IsPoints(f, S)
    <3>1. S \in SUBSET (DOMAIN f)
      BY <1>8, MembersHomed DEF IsField
    <3> HIDE DEF S
    <3> QED
      BY <3>1, FieldPoints
  <2>6. v \notin S
    BY <1>4
  <2> HIDE DEF S, o
  <2>7. IsMeanOf(Welford(o, f[v]), f, S \union {v})
    BY <1>4, <1>5, <2>1, <2>4, <2>5, <2>6, WelfordIsMean
  <2> QED
    BY <2>7, CentroidNumbers
<1> HIDE DEF k, j
<1>9. /\ DOMAIN j.cents = DOMAIN g.cents
      /\ \A d \in DOMAIN g.cents : j.cents[d] = IF d = c THEN k ELSE g.cents[d]
  BY <1>2, <1>3, ExceptAny DEF GraphOK
<1>10. Active(j) = Active(g)
  BY <1>2, <1>6, <1>9 DEF Active
<1>11. MembersOf(j, c) = M \union {v} /\ \A d \in Active(g) : d # c => MembersOf(j, d) = MembersOf(g, d)
  BY <1>3 DEF MembersOf
<1> DEFINE i == [d \in Active(j) |-> IF d = c THEN S \union {v} ELSE h[d]]
<1>12. i[c] = S \union {v} /\ \A d \in Active(g) : d # c => i[d] = h[d]
  BY <1>10
<1>13. i \in [Active(j) -> SUBSET (1 .. n)]
  BY <1>4, <1>5, <1>10
<1> HIDE DEF i
<1>14. \A d, e \in Active(j) : d # e => i[d] \intersect i[e] = {}
  BY <1>1, <1>4, <1>10, <1>12 DEF Averages
<1>15. \A d \in DOMAIN j.cents : Numbers(j.cents[d])
  BY <1>1, <1>6, <1>9 DEF Averages
<1>16. Averaged(j.cents[c], MembersOf(j, c), i[c], f, n)
  <2>1. j.cents[c] = k /\ k.count = Cardinality(S \union {v})
    BY <1>2, <1>4, <1>6, <1>7, <1>9 DEF Averaged
  <2>2. M \subseteq S /\ S \subseteq M \union Gone(f, n) /\ v \notin S
    BY <1>4 DEF Averaged
  <2>3. S \union {v} = M \union {v} => S = M
    BY <2>2
  <2> HIDE DEF S, M
  <2> QED
    BY <1>8, <1>11, <1>12, <2>1, <2>2, <2>3 DEF Averaged
<1>17. ASSUME NEW d \in Active(g), d # c PROVE Averaged(j.cents[d], MembersOf(j, d), i[d], f, n)
  <2>1. d \in DOMAIN g.cents
    BY DEF Active
  <2> QED
    BY <1>1, <1>9, <1>11, <1>12, <1>17, <2>1 DEF Averages
<1>18. Averages(j, i, f, n)
  BY <1>10, <1>14, <1>15, <1>16, <1>17 DEF Averages
<1> QED
  BY <1>13, <1>18 DEF GraphMeans, j

LEMMA SplitMeans ==
    ASSUME NEW g, GraphOK(g), NEW f, NEW n, IsField(f, n, g), GraphMeans(g, f, n),
           NEW c \in Active(g), NEW two,
           two[1].ids \union two[2].ids = MembersOf(g, c),
           two[1].ids \intersect two[2].ids = {},
           \A i \in 1 .. 2 : Numbers(two[i]) /\ IsMeanOf(two[i], f, two[i].ids)
    PROVE  GraphMeans(Split(g, c, two), f, n)
<1> DEFINE l == Len(g.cents)
           a == Centroid(two[1])
           b == Centroid(two[2])
           off == [g.cents[c] EXCEPT !.active = FALSE]
           old == [g.cents EXCEPT ![c].active = FALSE]
           j == Split(g, c, two)
           A == two[1].ids
           B == two[2].ids
<1>1. PICK h \in [Active(g) -> SUBSET (1 .. n)] : Averages(g, h, f, n)
  BY DEF GraphMeans
<1>2. l \in Nat /\ DOMAIN g.cents = 1 .. l
  BY SeqAny DEF GraphOK
<1>3. c \in DOMAIN g.cents /\ g.cents[c].active
  BY DEF Active
<1>4. /\ j.cents = old \o <<a, b>>
      /\ j.members = {m \in g.members : m[1] # c} \union {<<l + 1, v>> : v \in A}
                     \union {<<l + 2, v>> : v \in B}
  BY DEF Split, Halved
<1>5. /\ a.active /\ Numbers(a) /\ IsMeanOf(a, f, A)
      /\ b.active /\ Numbers(b) /\ IsMeanOf(b, f, B)
  <2>1. /\ Numbers(two[1]) /\ IsMeanOf(two[1], f, two[1].ids)
        /\ Numbers(two[2]) /\ IsMeanOf(two[2], f, two[2].ids)
    OBVIOUS
  <2> QED
    BY <2>1, NewCentroid, CentroidNumbers
<1>6. Numbers(off) /\ ~off.active
  <2> DEFINE k == g.cents[c]
  <2>1. IsCentroid(k) /\ Numbers(k)
    BY <1>1, <1>3 DEF GraphOK, Averages
  <2>2. off = [k EXCEPT !.active = FALSE]
    OBVIOUS
  <2> HIDE DEF k, off
  <2> QED
    BY <2>1, <2>2 DEF IsCentroid, Numbers
<1>7. /\ IsSeq(old) /\ DOMAIN old = 1 .. l
      /\ \A d \in 1 .. l : old[d] = IF d = c THEN off ELSE g.cents[d]
  <2>1. old = [g.cents EXCEPT ![c] = off]
    OBVIOUS
  <2> HIDE DEF off, old
  <2> QED
    BY <1>2, <1>3, <2>1, ExceptAny DEF GraphOK
<1>8. Len(old) = l
  BY <1>2, <1>7, SeqAny
<1>9. A \subseteq MembersOf(g, c) /\ B \subseteq MembersOf(g, c) /\ A \intersect B = {}
      /\ A \subseteq Vecs /\ B \subseteq Vecs
  BY DEF MembersOf
<1> HIDE DEF a, b, old, off, j, A, B
<1>10. /\ DOMAIN j.cents = 1 .. l + 2
       /\ \A d \in 1 .. l : j.cents[d] = IF d = c THEN off ELSE g.cents[d]
       /\ j.cents[l + 1] = a /\ j.cents[l + 2] = b
  BY <1>4, <1>7, <1>8, PairAny
<1> DEFINE x == l + 1
           y == l + 2
<1>11. /\ x \notin 1 .. l /\ y \notin 1 .. l /\ x # y /\ x \in 1 .. l + 2 /\ y \in 1 .. l + 2
       /\ \A d \in 1 .. l + 2 : d \in 1 .. l \/ d = x \/ d = y
       /\ 1 .. l \subseteq 1 .. l + 2
       /\ j.cents[x] = a /\ j.cents[y] = b
       /\ j.members = {m \in g.members : m[1] # c} \union {<<x, v>> : v \in A}
                      \union {<<y, v>> : v \in B}
  BY <1>2, <1>4, <1>10
<1> HIDE DEF x, y
<1>12. /\ Active(j) = (Active(g) \ {c}) \union {x, y}
       /\ x \notin Active(g) /\ y \notin Active(g)
  <2>1. \A d \in 1 .. l : d \in Active(j) <=> d \in Active(g) /\ d # c
    BY <1>2, <1>6, <1>10, <1>11 DEF Active
  <2>2. x \in Active(j) /\ y \in Active(j)
    BY <1>5, <1>10, <1>11 DEF Active
  <2>3. Active(g) \subseteq 1 .. l /\ Active(j) \subseteq 1 .. l + 2
    BY <1>2, <1>10 DEF Active
  <2> QED
    BY <1>11, <2>1, <2>2, <2>3
<1>13. \A m \in g.members : m[1] # x /\ m[1] # y
  BY <1>2, <1>11 DEF GraphOK
<1>14. ASSUME NEW d \in Active(g) \ {c} PROVE MembersOf(j, d) = MembersOf(g, d)
  <2>1. d # x /\ d # y /\ d # c
    BY <1>12
  <2>2. \A v \in Vecs : <<d, v>> \in j.members <=> <<d, v>> \in g.members
    <3> SUFFICES ASSUME NEW v \in Vecs
                 PROVE  <<d, v>> \in j.members <=> <<d, v>> \in g.members
      OBVIOUS
    <3>1. <<d, v>>[1] = d
      OBVIOUS
    <3>2. <<d, v>> \notin {<<x, w>> : w \in A} /\ <<d, v>> \notin {<<y, w>> : w \in B}
      BY <2>1
    <3> QED
      BY <1>11, <2>1, <3>1, <3>2
  <2> QED
    BY <2>2 DEF MembersOf
<1>15. MembersOf(j, x) = A /\ MembersOf(j, y) = B
  <2>1. ASSUME NEW v PROVE /\ <<x, v>> \in j.members <=> v \in A
                           /\ <<y, v>> \in j.members <=> v \in B
    <3>1. <<x, v>>[1] = x /\ <<y, v>>[1] = y
      OBVIOUS
    <3>2. <<x, v>> \notin g.members /\ <<y, v>> \notin g.members
      BY <1>13, <3>1
    <3> QED
      BY <1>11, <3>2
  <2> QED
    BY <1>9, <2>1 DEF MembersOf
<1> DEFINE i == [d \in Active(j) |-> IF d = x THEN A ELSE IF d = y THEN B ELSE h[d]]
<1>16. i[x] = A /\ i[y] = B /\ \A d \in Active(g) \ {c} : i[d] = h[d]
  BY <1>11, <1>12
<1>17. /\ A \subseteq h[c] /\ B \subseteq h[c] /\ h[c] \subseteq 1 .. n
  BY <1>1, <1>9 DEF Averages, Averaged
<1>18. i \in [Active(j) -> SUBSET (1 .. n)]
  BY <1>12, <1>17
<1> HIDE DEF i
<1>19. \A d, e \in Active(j) : d # e => i[d] \intersect i[e] = {}
  <2>1. \A d \in Active(g) \ {c} : h[d] \intersect h[c] = {}
    BY <1>1 DEF Averages
  <2>2. \A d, e \in Active(g) \ {c} : d # e => h[d] \intersect h[e] = {}
    BY <1>1 DEF Averages
  <2>3. \A d \in Active(g) \ {c} : i[d] \intersect A = {} /\ i[d] \intersect B = {}
    BY <1>16, <1>17, <2>1
  <2>4. \A d, e \in Active(g) \ {c} : d # e => i[d] \intersect i[e] = {}
    BY <1>16, <2>2
  <2>5. i[x] \intersect i[y] = {}
    BY <1>9, <1>16
  <2> QED
    BY <1>12, <1>16, <2>3, <2>4, <2>5
<1>20. \A d \in DOMAIN j.cents : Numbers(j.cents[d])
  BY <1>1, <1>2, <1>5, <1>6, <1>10, <1>11 DEF Averages
<1>21. Averaged(a, A, A, f, n) /\ Averaged(b, B, B, f, n)
  BY <1>5 DEF Averaged, IsMeanOf
<1>22. ASSUME NEW d \in Active(g) \ {c} PROVE Averaged(j.cents[d], MembersOf(j, d), i[d], f, n)
  <2>1. d \in 1 .. l /\ d # c
    BY <1>2 DEF Active
  <2> QED
    BY <1>1, <1>10, <1>14, <1>16, <2>1 DEF Averages
<1>23. \A d \in Active(j) : Averaged(j.cents[d], MembersOf(j, d), i[d], f, n)
  BY <1>11, <1>12, <1>15, <1>16, <1>21, <1>22
<1>24. Averages(j, i, f, n)
  BY <1>19, <1>20, <1>23 DEF Averages
<1> QED
  BY <1>18, <1>24 DEF GraphMeans, j

LEMMA MergeMeans ==
    ASSUME NEW g, GraphOK(g), NEW f, NEW n, IsField(f, n, g), GraphMeans(g, f, n),
           NEW a \in Active(g), NEW b \in Active(g), a # b
    PROVE  GraphMeans(Merge(g, a, b), f, n)
<1> DEFINE l == Len(g.cents)
           e == l + 1
           k == Centroid(Combine(g.cents[a], g.cents[b]))
           old == [c \in DOMAIN g.cents |->
                     IF c \in {a, b} THEN [g.cents[c] EXCEPT !.active = FALSE, !.into = e]
                     ELSE g.cents[c]]
           j == Merge(g, a, b)
<1>1. PICK h \in [Active(g) -> SUBSET (1 .. n)] : Averages(g, h, f, n)
  BY DEF GraphMeans
<1>2. l \in Nat /\ DOMAIN g.cents = 1 .. l
  BY SeqAny DEF GraphOK
<1>3. {a, b} \subseteq DOMAIN g.cents /\ g.cents[a].active /\ g.cents[b].active
  BY DEF Active
<1>4. /\ j.cents = Append(old, k)
      /\ j.members = {IF m[1] \in {a, b} THEN <<e, m[2]>> ELSE m : m \in g.members}
  BY DEF Merge
<1> DEFINE S == h[a]
           T == h[b]
           M == MembersOf(g, a)
           N == MembersOf(g, b)
           x == g.cents[a]
           y == g.cents[b]
<1>5. /\ Numbers(x) /\ Averaged(x, M, S, f, n) /\ Numbers(y) /\ Averaged(y, N, T, f, n)
      /\ S \intersect T = {} /\ S \subseteq 1 .. n /\ T \subseteq 1 .. n
  BY <1>1, <1>3 DEF Averages
<1>6. k.active /\ Numbers(k) /\ k.count = x.count + y.count
  BY <1>5, NewCentroid, CentroidNumbers, CombineNumbers
<1>7. M \subseteq DOMAIN f /\ N \subseteq DOMAIN f
  BY MembersHomed DEF IsField
<1>8. /\ IsFiniteSet(S) /\ IsFiniteSet(T) /\ Cardinality(S \union T) <= MaxVecs
      /\ Cardinality(S \union T) = Cardinality(S) + Cardinality(T)
  <2>1. S \in SUBSET (1 .. n) /\ T \in SUBSET (1 .. n) /\ S \union T \in SUBSET (1 .. n)
    BY <1>5
  <2> HIDE DEF S, T
  <2>2. IsFiniteSet(S) /\ IsFiniteSet(T) /\ Cardinality(S \union T) <= MaxVecs
    BY <2>1, FieldPoints
  <2> QED
    BY <1>5, <2>2, CardinalityApart
<1> HIDE DEF S, T, M, N, x, y
<1>9. ASSUME S \union T = M \union N PROVE IsMeanOf(k, f, S \union T)
  <2>1. S = M /\ T = N
    <3>1. M \subseteq S /\ N \subseteq T
      BY <1>5 DEF Averaged
    <3> QED
      BY <1>5, <1>9, <3>1
  <2>2. /\ IsMeanOf(x, f, S) /\ x.count = Cardinality(S)
        /\ IsMeanOf(y, f, T) /\ y.count = Cardinality(T)
    BY <1>5, <2>1 DEF Averaged
  <2>3. x.count \in Nat \ {0} /\ y.count \in Nat \ {0}
    BY <1>5 DEF Numbers
  <2>4. x.count + y.count <= MaxVecs
    BY <1>8, <2>2
  <2>5. PICK w \in Int : Scale = (x.count * y.count * (x.count + y.count)) * w
    BY <2>3, <2>4, ScaleIsExact
  <2>6. IsPoints(f, S) /\ IsPoints(f, T)
    BY <1>7, <2>1, FieldPoints
  <2>7. IsMeanOf(Combine(x, y), f, S \union T)
    BY <1>5, <2>2, <2>5, <2>6, CombineIsMean
  <2> QED
    BY <2>7, CentroidNumbers DEF k, x, y
<1>10. ASSUME NEW c \in {a, b} PROVE Numbers(old[c]) /\ ~old[c].active
  <2>1. c \in DOMAIN g.cents /\ IsCentroid(g.cents[c]) /\ Numbers(g.cents[c])
    BY <1>1, <1>3 DEF GraphOK, Averages
  <2>2. old[c] = [g.cents[c] EXCEPT !.active = FALSE, !.into = e]
    BY <2>1
  <2> HIDE DEF old, e
  <2> QED
    BY <2>1, <2>2 DEF IsCentroid, Numbers
<1>11. \A c \in 1 .. l : c \notin {a, b} => old[c] = g.cents[c]
  BY <1>2
<1>12. IsSeq(old) /\ Len(old) = l
  <2>1. old = [c \in 1 .. l |-> old[c]]
    BY <1>2
  <2> HIDE DEF old
  <2> QED
    BY <1>2, <2>1, FunctionIsSeq
<1> HIDE DEF k, old, j
<1>13. /\ DOMAIN j.cents = 1 .. e
       /\ \A c \in 1 .. l : j.cents[c] = old[c]
       /\ j.cents[e] = k
  BY <1>4, <1>12, AppendAny
<1>14. /\ 1 .. l \subseteq 1 .. e /\ e \in 1 .. e /\ e \notin 1 .. l
       /\ \A d \in 1 .. e : d \in 1 .. l \/ d = e
  BY <1>2
<1> HIDE DEF e, l
<1>15. Active(j) = (Active(g) \ {a, b}) \union {e} /\ e \notin Active(g)
  BY <1>2, <1>3, <1>6, <1>10, <1>11, <1>13, <1>14 DEF Active
<1>16. \A m \in g.members : m = <<m[1], m[2]>> /\ m[1] \in 1 .. l /\ m[2] \in Vecs
  BY <1>2 DEF GraphOK
<1>17. ASSUME NEW c \in Active(g) \ {a, b} PROVE MembersOf(j, c) = MembersOf(g, c)
  <2>1. c # e /\ c \notin {a, b}
    BY <1>15
  <2>2. ASSUME NEW v \in Vecs PROVE <<c, v>> \in j.members <=> <<c, v>> \in g.members
    <3>1. <<c, v>>[1] = c
      OBVIOUS
    <3>2. ASSUME <<c, v>> \in g.members PROVE <<c, v>> \in j.members
      BY <1>4, <2>1, <3>1, <3>2
    <3>3. ASSUME <<c, v>> \in j.members PROVE <<c, v>> \in g.members
      <4>1. PICK m \in g.members : <<c, v>> = IF m[1] \in {a, b} THEN <<e, m[2]>> ELSE m
        BY <1>4, <3>3
      <4>2. m[1] \notin {a, b}
        BY <2>1, <4>1
      <4> QED
        BY <4>1, <4>2
    <3> QED
      BY <3>2, <3>3
  <2> QED
    BY <2>2 DEF MembersOf
<1>18. MembersOf(j, e) = M \union N
  <2>1. ASSUME NEW v \in Vecs, <<e, v>> \in j.members
        PROVE  <<a, v>> \in g.members \/ <<b, v>> \in g.members
    <3>1. PICK m \in g.members : <<e, v>> = IF m[1] \in {a, b} THEN <<e, m[2]>> ELSE m
      BY <1>4, <2>1
    <3>2. m[1] \in {a, b}
      <4> SUFFICES ASSUME m[1] \notin {a, b} PROVE FALSE
        OBVIOUS
      <4>1. m = <<e, v>> /\ <<e, v>>[1] = e
        BY <3>1
      <4> QED
        BY <1>14, <1>16, <4>1
    <3>3. m[2] = v
      BY <3>1, <3>2
    <3> QED
      BY <1>16, <3>2, <3>3
  <2>2. ASSUME NEW v \in Vecs, NEW c \in {a, b}, <<c, v>> \in g.members
        PROVE  <<e, v>> \in j.members
    <3>1. <<c, v>>[1] = c /\ <<c, v>>[2] = v
      OBVIOUS
    <3> QED
      BY <1>4, <2>2, <3>1
  <2> QED
    BY <2>1, <2>2 DEF MembersOf, M, N
<1> DEFINE i == [c \in Active(j) |-> IF c = e THEN S \union T ELSE h[c]]
<1>19. i[e] = S \union T /\ \A c \in Active(g) \ {a, b} : i[c] = h[c]
  BY <1>15
<1>20. i \in [Active(j) -> SUBSET (1 .. n)]
  BY <1>5, <1>15
<1> HIDE DEF i
<1>21. \A c, d \in Active(j) : c # d => i[c] \intersect i[d] = {}
  <2>1. \A c \in Active(g) \ {a, b} : h[c] \intersect S = {} /\ h[c] \intersect T = {}
    BY <1>1 DEF Averages, S, T
  <2>2. \A c, d \in Active(g) \ {a, b} : c # d => h[c] \intersect h[d] = {}
    BY <1>1 DEF Averages
  <2> QED
    BY <1>15, <1>19, <2>1, <2>2
<1>22. \A c \in DOMAIN j.cents : Numbers(j.cents[c])
  BY <1>1, <1>2, <1>6, <1>10, <1>11, <1>13, <1>14 DEF Averages
<1>23. Averaged(j.cents[e], MembersOf(j, e), i[e], f, n)
  <2>1. k.count = Cardinality(S \union T)
    BY <1>5, <1>6, <1>8 DEF Averaged
  <2>2. M \union N \subseteq S \union T /\ S \union T \subseteq (M \union N) \union Gone(f, n)
    BY <1>5 DEF Averaged
  <2> QED
    BY <1>9, <1>13, <1>18, <1>19, <2>1, <2>2 DEF Averaged
<1>24. ASSUME NEW c \in Active(g) \ {a, b} PROVE Averaged(j.cents[c], MembersOf(j, c), i[c], f, n)
  <2>1. c \in 1 .. l /\ c \notin {a, b}
    BY <1>2 DEF Active
  <2> QED
    BY <1>1, <1>11, <1>13, <1>17, <1>19, <2>1 DEF Averages
<1>25. Averages(j, i, f, n)
  BY <1>15, <1>21, <1>22, <1>23, <1>24 DEF Averages
<1> QED
  BY <1>20, <1>25 DEF GraphMeans, j

(* A vector is embedded.                                                   *)
LEMMA EmbedMeans ==
    ASSUME NEW g, NEW f, NEW n, IsField(f, n, g), GraphMeans(g, f, n),
           NEW f2, DOMAIN f2 = (DOMAIN f) \union {n + 1}, \A v \in DOMAIN f : f2[v] = f[v]
    PROVE  GraphMeans(g, f2, n + 1)
<1>1. PICK h \in [Active(g) -> SUBSET (1 .. n)] : Averages(g, h, f, n)
  BY DEF GraphMeans
<1>2. Gone(f2, n + 1) = Gone(f, n) /\ 1 .. n \subseteq 1 .. n + 1
  BY DEF Gone, IsField
<1>3. h \in [Active(g) -> SUBSET (1 .. n + 1)]
  BY <1>2
<1>4. ASSUME NEW c \in Active(g), h[c] = MembersOf(g, c) PROVE IsMeanOf(g.cents[c], f2, h[c])
  <2> DEFINE S == h[c]
  <2>1. IsMeanOf(g.cents[c], f, S) /\ S \in SUBSET (1 .. n)
    BY <1>1, <1>4 DEF Averages, Averaged
  <2>2. \A x \in S : f[x] = f2[x]
    BY <1>4, MembersHomed DEF IsField
  <2> HIDE DEF S
  <2>3. IsFiniteSet(S)
    BY <2>1, FieldPoints
  <2>4. IsMeanOf(g.cents[c], f2, S)
    BY <2>1, <2>2, <2>3, MeanSame
  <2> QED
    BY <2>4 DEF S
<1>5. \A c \in Active(g) : Averaged(g.cents[c], MembersOf(g, c), h[c], f2, n + 1)
  BY <1>1, <1>2, <1>4 DEF Averages, Averaged
<1>6. Averages(g, h, f2, n + 1)
  BY <1>1, <1>5 DEF Averages
<1> QED
  BY <1>3, <1>6 DEF GraphMeans

(* A vector is deleted: a centroid it went into keeps it in its mean.      *)
LEMMA WithoutMeans ==
    ASSUME NEW g, GraphOK(g), NEW f, NEW n, IsField(f, n, g), GraphMeans(g, f, n),
           NEW v \in DOMAIN f,
           NEW f2, DOMAIN f2 = (DOMAIN f) \ {v}, \A w \in DOMAIN f2 : f2[w] = f[w]
    PROVE  GraphMeans(Without(g, v), f2, n)
<1> DEFINE j == Without(g, v)
<1>1. PICK h \in [Active(g) -> SUBSET (1 .. n)] : Averages(g, h, f, n)
  BY DEF GraphMeans
<1>2. j.cents = g.cents /\ Active(j) = Active(g) /\ Homed(j) = Homed(g) \ {v}
  BY WithoutOK
<1>3. \A c : MembersOf(j, c) = MembersOf(g, c) \ {v}
  <2>1. j.members = {m \in g.members : m[2] # v}
    <3>1. g = [cents |-> g.cents, members |-> g.members]
      BY DEF GraphOK, IsGraph
    <3>2. j = [g EXCEPT !.members = {m \in g.members : m[2] # v}]
      BY Zenon DEF Without
    <3> HIDE DEF j
    <3>3. j = [cents |-> g.cents, members |-> {m \in g.members : m[2] # v}]
      BY <3>1, <3>2
    <3> QED
      BY <3>3
  <2> QED
    BY <2>1 DEF MembersOf
<1> HIDE DEF j
<1>4. Gone(f2, n) = Gone(f, n) \union {v}
  BY DEF Gone, IsField
<1>5. ASSUME NEW c \in Active(g)
      PROVE  Averaged(g.cents[c], MembersOf(j, c), h[c], f2, n)
  <2> DEFINE S == h[c]
             M == MembersOf(g, c)
  <2>1. Averaged(g.cents[c], M, S, f, n) /\ S \in SUBSET (1 .. n)
    BY <1>1 DEF Averages
  <2>2. MembersOf(j, c) = M \ {v} /\ M \subseteq DOMAIN f
    BY <1>3, MembersHomed DEF IsField
  <2> HIDE DEF S, M
  <2>3. M \ {v} \subseteq S /\ S \subseteq (M \ {v}) \union Gone(f2, n)
    BY <1>4, <2>1 DEF Averaged
  <2>4. ASSUME S = M \ {v} PROVE IsMeanOf(g.cents[c], f2, S)
    <3>1. S = M
      BY <2>1, <2>4 DEF Averaged
    <3>2. IsMeanOf(g.cents[c], f, S) /\ IsFiniteSet(S)
      BY <2>1, <3>1, FieldPoints DEF Averaged
    <3>3. \A x \in S : f[x] = f2[x]
      BY <2>2, <2>4
    <3> QED
      BY <3>2, <3>3, MeanSame
  <2>5. Averaged(g.cents[c], M \ {v}, S, f2, n)
    BY <2>1, <2>3, <2>4 DEF Averaged
  <2> QED
    BY <2>2, <2>5 DEF S
<1>6. Averages(j, h, f2, n)
  BY <1>1, <1>2, <1>5 DEF Averages
<1> QED
  BY <1>1, <1>2, <1>6 DEF GraphMeans, j

----------------------------------------------------------------------------
(* The inductive invariant of the averages.                                *)

Point == [v \in Live |-> emb[v].vec]

(* The deletes that took a vector away, or will.                           *)
Losses == Cardinality(Gone(Point, born)) + (IF del = None THEN 0 ELSE 1)

(* Centroids, published or not, average what went into them, and what is   *)
(* not among their members any more was deleted.                           *)
Means ==
    /\ GraphMeans(graph, Point, born)
    /\ \A s \in Sups : tx[s] # None => GraphMeans(tx[s].graph, Point, born)
    /\ Losses <= deletes

LEMMA Fields ==
    ASSUME Consolidated
    PROVE  /\ IsField(Point, born, graph) /\ GraphOK(graph)
           /\ \A s \in Sups : tx[s] # None =>
                IsField(Point, born, tx[s].graph) /\ GraphOK(tx[s].graph)
<1>1. Tables /\ Transactions
  BY DEF Consolidated
<1>2. DOMAIN Point = Live /\ \A v \in Live : Point[v] = emb[v].vec
  BY DEF Point
<1>3. born \in 0 .. MaxVecs /\ Live \subseteq 1 .. born /\ \A v \in Live : Point[v] \in Points
  <2>1. \A v \in Live : v \in Vecs /\ v <= born /\ emb[v] \in EmbRow
    BY <1>1, RowsAreRows
  <2>2. born \in 0 .. MaxVecs /\ MaxVecs \in Nat
    BY <1>1, ConsolidationAssumption DEF Tables
  <2> QED
    BY <1>2, <2>1, <2>2 DEF Vecs, EmbRow
<1>4. GraphOK(graph) /\ Homed(graph) \subseteq Live
  BY <1>1 DEF Tables
<1>5. ASSUME NEW s \in Sups, tx[s] # None
      PROVE  GraphOK(tx[s].graph) /\ Homed(tx[s].graph) \subseteq Live
  <2>1. TxOK(s)
    BY <1>1, <1>5 DEF Transactions
  <2> QED
    BY <1>4, <2>1 DEF TxOK
<1> QED
  BY <1>2, <1>3, <1>4, <1>5 DEF IsField

LEMMA PointSame ==
    ASSUME Live' = Live, \A v \in Live : emb'[v].vec = emb[v].vec
    PROVE  Point' = Point
BY DEF Point

LEMMA GoneNumber ==
    ASSUME Consolidated
    PROVE  /\ IsFiniteSet(Gone(Point, born)) /\ Cardinality(Gone(Point, born)) \in Nat
           /\ deletes \in Nat
<1>1. born \in Nat /\ deletes \in Nat
  BY ConsolidationAssumption DEF Consolidated, Tables
<1>2. IsFiniteSet(1 .. born)
  BY <1>1, FS_Interval
<1>3. Gone(Point, born) \subseteq 1 .. born
  BY DEF Gone
<1> QED
  BY <1>1, <1>2, <1>3, FS_Subset, FS_CardinalityType

(* A step that embeds and deletes nothing.                                 *)
LEMMA MeansKept ==
    ASSUME Consolidated, Means, Point' = Point, UNCHANGED <<born, deletes>>,
           del' = del \/ del' = None,
           GraphMeans(graph', Point, born),
           \A s \in Sups : tx'[s] # None => GraphMeans(tx'[s].graph, Point, born)
    PROVE  Means'
<1>1. Losses <= deletes /\ Cardinality(Gone(Point, born)) \in Nat /\ deletes \in Nat
  BY GoneNumber DEF Means
<1>2. Losses' = Cardinality(Gone(Point, born)) + (IF del' = None THEN 0 ELSE 1)
  BY DEF Losses
<1>3. Losses' <= deletes
  <2>1. CASE del' = None
    BY <1>1, <1>2, <2>1 DEF Losses
  <2>2. CASE del' = del
    BY <1>1, <1>2, <2>2 DEF Losses
  <2> QED
    BY <2>1, <2>2
<1> QED
  BY <1>3 DEF Means

(* A step of a transaction.                                                *)
LEMMA MeansWritten ==
    ASSUME Means, NEW s \in Sups, NEW x, tx = [t \in Sups |-> tx[t]],
           tx' = [tx EXCEPT ![s] = x], x # None => GraphMeans(x.graph, Point, born)
    PROVE  \A t \in Sups : tx'[t] # None => GraphMeans(tx'[t].graph, Point, born)
<1> SUFFICES ASSUME NEW t \in Sups, tx'[t] # None
             PROVE  GraphMeans(tx'[t].graph, Point, born)
  OBVIOUS
<1>1. tx'[t] = IF t = s THEN x ELSE tx[t]
  BY Zenon
<1> QED
  BY <1>1 DEF Means

(* The halves of a centroid's members are means.                           *)
LEMMA DealtMeans ==
    ASSUME Tables, NEW S, S \subseteq Live, Cardinality(S) > 1, NEW order \in Orders(S),
           NEW f, NEW n, NEW g, IsField(f, n, g), DOMAIN f = Live,
           \A v \in Live : f[v] = emb[v].vec,
           NEW two, two = KMeans2([k \in DOMAIN order |->
                                     [id |-> order[k], vec |-> emb[order[k]].vec]])
    PROVE  \A i \in 1 .. 2 : Numbers(two[i]) /\ IsMeanOf(two[i], f, two[i].ids)
<1> DEFINE N == Cardinality(S)
           ms == [k \in DOMAIN order |-> [id |-> order[k], vec |-> emb[order[k]].vec]]
<1>1. IsFiniteSet(S) /\ N \in Nat /\ N <= MaxVecs
  <2>1. S \in SUBSET (1 .. n)
    BY DEF IsField
  <2>2. IsFiniteSet(S) /\ Cardinality(S) <= MaxVecs
    BY <2>1, FieldPoints
  <2> QED
    BY <2>2, FS_CardinalityType
<1>2. order \in [1 .. N -> S] /\ \A j, k \in 1 .. N : order[j] = order[k] => j = k
  BY DEF Orders
<1>3. \A k \in 1 .. N : ms[k].id = order[k] /\ ms[k].vec = emb[order[k]].vec
  BY <1>2
<1>4. ms = [k \in 1 .. N |-> ms[k]] /\ DOMAIN ms = 1 .. N
  BY <1>2
<1>5. two = KMeans2(ms)
  OBVIOUS
<1> HIDE DEF ms
<1>6. Len(ms) = N
  BY <1>1, <1>4, FunctionIsSeq
<1>7. \A k \in 1 .. N : ms[k].vec \in Points /\ f[ms[k].id] = ms[k].vec
  <2> SUFFICES ASSUME NEW k \in 1 .. N PROVE ms[k].vec \in Points /\ f[ms[k].id] = ms[k].vec
    OBVIOUS
  <2>1. order[k] \in Live
    BY <1>2
  <2> QED
    BY <1>3, <2>1 DEF IsField
<1>8. \A j, k \in 1 .. N : ms[j].id = ms[k].id => j = k
  BY <1>2, <1>3
<1>9. IsMembers(ms, f)
  BY <1>1, <1>4, <1>6, <1>7, <1>8 DEF IsMembers
<1>10. Len(ms) > 1 /\ ExactUpTo(Len(ms))
  BY <1>1, <1>6, ScaleExactUpTo
<1> QED
  BY <1>5, <1>9, <1>10, KMeans2Means

(* What a batch does with the vector that is next.                         *)
LEMMA BatchItemMeans ==
    ASSUME Consolidated, Means, NEW s \in Sups, BatchItem(s)
    PROVE  \A t \in Sups : tx'[t] # None => GraphMeans(tx'[t].graph, Point, born)
<1> DEFINE g == tx[s].graph
           v == Next1(s)
<1>1. tx[s] # None /\ tx[s].todo # {} /\ Tables /\ Transactions
  BY DEF BatchItem, Consolidated
<1>2. TxOK(s) /\ tx = [t \in Sups |-> tx[t]] /\ IsTx(tx[s])
  BY <1>1 DEF Transactions, TxOK
<1>3. v \in Vecs \ Homed(g) /\ v \in Live
  BY <1>1, <1>2, NextIsHomeless DEF TxOK
<1>4. GraphOK(g) /\ IsField(Point, born, g) /\ GraphMeans(g, Point, born)
  BY <1>1, Fields DEF Means
<1>5. v \in DOMAIN Point /\ DOMAIN Point = Live /\ \A w \in Live : Point[w] = emb[w].vec
  BY <1>3 DEF Point
<1>6. ASSUME NEW h, NEW vs, Wrote(s, h, vs), GraphMeans(h, Point, born)
      PROVE  \A t \in Sups : tx'[t] # None => GraphMeans(tx'[t].graph, Point, born)
  <2>1. PICK x : tx' = [tx EXCEPT ![s] = x] /\ x.graph = h
    BY <1>2, <1>6, WroteTx
  <2> QED
    BY <1>2, <1>6, <2>1, MeansWritten
<1>7. CASE Nearest(g, v) = {} /\ Wrote(s, CreateFrom(g, v), {v})
  BY <1>3, <1>4, <1>5, <1>6, <1>7, CreateFromMeans
<1>8. ASSUME NEW c \in Nearest(g, v),
             \/ ~TooLarge(Attached(g, c, v), c) /\ Wrote(s, Attached(g, c, v), {v})
             \/ /\ TooLarge(Attached(g, c, v), c)
                /\ \E order \in Orders(MembersOf(Attached(g, c, v), c)) :
                     Wrote(s, Split(Attached(g, c, v), c,
                                    KMeans2([k \in DOMAIN order |->
                                      [id |-> order[k], vec |-> emb[order[k]].vec]])),
                           MembersOf(Attached(g, c, v), c))
      PROVE  \A t \in Sups : tx'[t] # None => GraphMeans(tx'[t].graph, Point, born)
  <2> DEFINE h == Attached(g, c, v)
  <2>1. c \in Active(g)
    BY DEF Nearest
  <2>2. GraphMeans(h, Point, born)
    BY <1>3, <1>4, <1>5, <2>1, AttachedMeans
  <2>3. GraphOK(h) /\ Homed(h) = Homed(g) \union {v} /\ c \in Active(h)
    BY <1>3, <1>4, <2>1, AttachedOK
  <2> HIDE DEF h, g, v
  <2>4. IsField(Point, born, h)
    BY <1>4, <1>5, <2>3 DEF IsField
  <2>5. CASE Wrote(s, h, {v})
    BY <1>6, <2>2, <2>5
  <2>6. ASSUME TooLarge(h, c), NEW order \in Orders(MembersOf(h, c)),
               Wrote(s, Split(h, c, KMeans2([k \in DOMAIN order |->
                                   [id |-> order[k], vec |-> emb[order[k]].vec]])),
                     MembersOf(h, c))
        PROVE  \A t \in Sups : tx'[t] # None => GraphMeans(tx'[t].graph, Point, born)
    <3>1. PICK two : two = KMeans2([k \in DOMAIN order |->
                                      [id |-> order[k], vec |-> emb[order[k]].vec]])
      OBVIOUS
    <3>2. Wrote(s, Split(h, c, two), MembersOf(h, c))
      BY <2>6, <3>1
    <3>3. MembersOf(h, c) \in SUBSET Vecs
      BY DEF MembersOf
    <3>4. /\ two[1].ids \union two[2].ids = MembersOf(h, c)
          /\ two[1].ids \intersect two[2].ids = {}
      BY <3>1, <3>3, MembersDealt
    <3>5. MembersOf(h, c) \subseteq Live /\ Cardinality(MembersOf(h, c)) > 1
      BY <1>5, <2>4, <2>6, MembersHomed DEF IsField, TooLarge
    <3>6. \A i \in 1 .. 2 : Numbers(two[i]) /\ IsMeanOf(two[i], Point, two[i].ids)
      BY <1>1, <1>5, <2>4, <2>6, <3>1, <3>5, DealtMeans
    <3>7. GraphMeans(Split(h, c, two), Point, born)
      BY <2>2, <2>3, <2>4, <3>4, <3>6, SplitMeans
    <3> QED
      BY <1>6, <3>2, <3>7
  <2> QED
    BY <1>8, <2>5, <2>6 DEF h
<1> QED
  BY <1>7, <1>8 DEF BatchItem

(* The closest two centroids that are left become one.                     *)
LEMMA MergePairMeans ==
    ASSUME Consolidated, Means, NEW s \in Sups, NEW p, MergePair(s, p)
    PROVE  \A t \in Sups : tx'[t] # None => GraphMeans(tx'[t].graph, Point, born)
<1> DEFINE y == tx[s]
           g == y.graph
           a == p[1]
           b == p[2]
           vs == MembersOf(g, p[1]) \union MembersOf(g, p[2])
           rest == {q \in y.pairs : {q[1], q[2]} \intersect {p[1], p[2]} = {}}
           x == [y EXCEPT !.graph = Merge(g, a, b), !.held = @ \union vs,
                          !.pairs = {q \in @ : {q[1], q[2]} \intersect {p[1], p[2]} = {}}]
<1>1. y # None /\ p \in y.pairs /\ Transactions
  BY DEF MergePair, Consolidated
<1>2. TxOK(s) /\ tx = [t \in Sups |-> tx[t]]
  BY <1>1 DEF Transactions
<1>3. IsTx(y) /\ a \in Active(g) /\ b \in Active(g) /\ a # b
  BY <1>1, <1>2 DEF TxOK
<1>4. GraphOK(g) /\ IsField(Point, born, g) /\ GraphMeans(g, Point, born)
  BY <1>1, Fields DEF Means
<1>5. GraphMeans(Merge(g, a, b), Point, born)
  BY <1>3, <1>4, MergeMeans
<1>6. tx' = [tx EXCEPT ![s] = x]
  BY DEF MergePair
<1>7. PICK h, k, r : /\ k = Merge(g, a, b) /\ h = y.held \union vs /\ r = rest
                     /\ x = [y EXCEPT !.graph = k, !.held = h, !.pairs = r]
  OBVIOUS
<1> HIDE DEF x
<1>8. x.graph = k
  <2> HIDE DEF rest, vs, y
  <2>1. y = [claim |-> y.claim, todo |-> y.todo, held |-> y.held,
             pairs |-> y.pairs, graph |-> y.graph]
    BY <1>3 DEF IsTx
  <2>2. x = [claim |-> y.claim, todo |-> y.todo, held |-> h, pairs |-> r, graph |-> k]
    BY <1>7, <2>1
  <2> QED
    BY <2>2
<1> HIDE DEF a, b, g
<1>9. GraphMeans(x.graph, Point, born)
  BY <1>5, <1>7, <1>8
<1> QED
  BY <1>2, <1>6, <1>9, MeansWritten

LEMMA QuietMeans ==
    ASSUME Consolidated, Means, NEW s \in Sups,
           \/ LockedOut(s) \/ BatchBegin(s) \/ BatchItem(s) \/ MergeBegin(s)
           \/ (\E p \in Active(graph) \X Active(graph) : MergePair(s, p))
           \/ ForeignKeyFails(s) \/ LoadFails(s) \/ TxFails(s)
    PROVE  Means'
<1>1. Tables /\ Transactions /\ tx = [t \in Sups |-> tx[t]]
  BY DEF Consolidated, Transactions
<1>2. UNCHANGED <<emb, born, graph, search, del, deletes>>
  BY <1>1, SupStepQuiet
<1>3. Point' = Point
  BY <1>2, PointSame DEF Live
<1>4. \A t \in Sups : tx'[t] # None => GraphMeans(tx'[t].graph, Point, born)
  <2>1. CASE LockedOut(s) \/ LoadFails(s)
    <3>1. tx' = tx
      BY <2>1 DEF LockedOut, LoadFails
    <3> QED
      BY <3>1 DEF Means
  <2>2. CASE ForeignKeyFails(s) \/ TxFails(s)
    <3>1. tx' = [tx EXCEPT ![s] = None]
      BY <2>2 DEF ForeignKeyFails, TxFails, RolledBack
    <3> QED
      BY <1>1, <3>1, MeansWritten
  <2>3. ASSUME NEW claim, NEW pairs, Begin(s, claim, pairs)
        PROVE  \A t \in Sups : tx'[t] # None => GraphMeans(tx'[t].graph, Point, born)
    <3>1. PICK x : x = [claim |-> claim, todo |-> claim, held |-> {},
                        pairs |-> pairs, graph |-> graph]
      OBVIOUS
    <3>2. tx' = [tx EXCEPT ![s] = x]
      BY <2>3, <3>1 DEF Begin
    <3>3. GraphMeans(x.graph, Point, born)
      BY <3>1 DEF Means
    <3> QED
      BY <1>1, <3>2, <3>3, MeansWritten
  <2>4. CASE BatchBegin(s) \/ MergeBegin(s)
    BY <2>3, <2>4 DEF BatchBegin, MergeBegin
  <2>5. CASE BatchItem(s)
    BY <2>5, BatchItemMeans
  <2>6. ASSUME NEW p, MergePair(s, p)
        PROVE  \A t \in Sups : tx'[t] # None => GraphMeans(tx'[t].graph, Point, born)
    BY <2>6, MergePairMeans
  <2> QED
    BY <2>1, <2>2, <2>4, <2>5, <2>6
<1> QED
  BY <1>2, <1>3, <1>4, MeansKept DEF Means

(* A commit publishes the working copy.                                    *)
LEMMA CommitMeans ==
    ASSUME Consolidated, Means, NEW s \in Sups, BatchCommit(s) \/ MergeCommit(s)
    PROVE  Means'
<1>1. Tables /\ Transactions /\ tx = [t \in Sups |-> tx[t]]
  BY DEF Consolidated, Transactions
<1>2. /\ tx[s] # None /\ graph' = tx[s].graph /\ tx' = [tx EXCEPT ![s] = None]
      /\ UNCHANGED <<born, del, deletes>>
  BY DEF BatchCommit, MergeCommit
<1>3. Live' = Live /\ \A v \in Live : emb'[v].vec = emb[v].vec
  <2>1. CASE BatchCommit(s)
    <3>1. emb' = [v \in Vecs |-> IF v \in tx[s].claim
                                 THEN [emb[v] EXCEPT !.consolidated = TRUE] ELSE emb[v]]
      BY <2>1 DEF BatchCommit
    <3>2. tx[s].claim \subseteq Live
      BY <1>1, <1>2 DEF Transactions, TxOK
    <3>3. ASSUME NEW v \in Live PROVE emb'[v] # None /\ emb'[v].vec = emb[v].vec
      <4>1. emb[v] \in EmbRow /\ emb[v] # None /\ v \in Vecs
        BY <1>1, RowsAreRows DEF Live
      <4>2. PICK x : x = [emb[v] EXCEPT !.consolidated = TRUE]
        OBVIOUS
      <4>3. x \in EmbRow /\ x.vec = emb[v].vec
        BY <4>1, <4>2 DEF EmbRow
      <4>4. emb'[v] = x \/ emb'[v] = emb[v]
        BY <3>1, <4>1, <4>2
      <4> QED
        BY <1>1, <4>1, <4>3, <4>4, RowsAreRows
    <3>4. ASSUME NEW v \in Vecs \ Live PROVE emb'[v] = None
      BY <3>1, <3>2 DEF Live
    <3> QED
      BY <3>3, <3>4 DEF Live
  <2>2. CASE MergeCommit(s)
    BY <2>2 DEF MergeCommit, Live
  <2> QED
    BY <2>1, <2>2
<1>4. Point' = Point
  BY <1>3, PointSame
<1>5. GraphMeans(graph', Point, born)
  BY <1>2 DEF Means
<1>6. \A t \in Sups : tx'[t] # None => GraphMeans(tx'[t].graph, Point, born)
  BY <1>1, <1>2, MeansWritten
<1> QED
  BY <1>2, <1>4, <1>5, <1>6, MeansKept

(* A new vector is in no centroid yet.                                     *)
LEMMA EmbedKeepsMeans ==
    ASSUME Consolidated, Means, NEW p \in Points, Embed(p)
    PROVE  Means'
<1> DEFINE n == born + 1
<1>1. /\ born' = n /\ n \in Vecs /\ n > born /\ born \in Nat
      /\ UNCHANGED <<graph, tx, del, deletes>> /\ Tables
      /\ emb \in [Vecs -> EmbRow \union {None}]
  BY ConsolidationAssumption DEF Embed, Tables, Vecs, Consolidated
<1>2. n \notin Live /\ \A v \in Live : v <= born /\ v \in Vecs
  BY <1>1, RowsAreRows
<1>3. PICK new : new = [vec |-> p, current |-> TRUE, consolidated |-> FALSE]
  OBVIOUS
<1>4. emb' = [emb EXCEPT ![n] = new] /\ new # None
  <2>1. new \in EmbRow
    BY <1>3 DEF EmbRow
  <2> QED
    BY <1>1, <1>3, <2>1, RowsAreRows DEF Embed
<1> HIDE DEF n
<1>5. Live' = Live \union {n} /\ \A v \in Live : emb'[v] = emb[v]
  BY <1>1, <1>2, <1>4 DEF Live
<1>6. /\ DOMAIN Point = Live /\ DOMAIN Point' = Live \union {n}
      /\ \A v \in Live : Point'[v] = Point[v]
  BY <1>5 DEF Point
<1>7. ASSUME NEW g, IsField(Point, born, g), GraphMeans(g, Point, born)
      PROVE  GraphMeans(g, Point', born')
  <2>1. PICK f : f = Point'
    OBVIOUS
  <2>2. DOMAIN f = (DOMAIN Point) \union {born + 1} /\ \A v \in DOMAIN Point : f[v] = Point[v]
    BY <1>6, <2>1 DEF n
  <2>3. GraphMeans(g, f, born + 1)
    BY <1>7, <2>2, EmbedMeans
  <2> QED
    BY <1>1, <2>1, <2>3 DEF n
<1>8. GraphMeans(graph', Point', born')
  BY <1>1, <1>7, Fields DEF Means
<1>9. \A s \in Sups : tx'[s] # None => GraphMeans(tx'[s].graph, Point', born')
  BY <1>1, <1>7, Fields DEF Means
<1>10. Gone(Point, born)' = Gone(Point, born)
  <2>1. 1 .. born' = (1 .. born) \union {n}
    BY <1>1 DEF n
  <2>2. n \notin 1 .. born
    BY <1>1
  <2> QED
    BY <1>6, <2>1, <2>2 DEF Gone
<1> QED
  BY <1>1, <1>8, <1>9, <1>10 DEF Means, Losses

LEMMA OutdateKeepsMeans ==
    ASSUME Consolidated, Means, NEW v \in Vecs, Outdate(v)
    PROVE  Means'
<1>1. /\ v \in Live /\ emb' = [emb EXCEPT ![v].current = FALSE]
      /\ UNCHANGED <<born, graph, tx, del, deletes>> /\ Tables
      /\ emb \in [Vecs -> EmbRow \union {None}]
  BY DEF Outdate, Current, Consolidated, Tables
<1>2. PICK new : new = [emb[v] EXCEPT !.current = FALSE]
  OBVIOUS
<1>3. new # None /\ new.vec = emb[v].vec
  BY <1>1, <1>2, RowsAreRows DEF EmbRow
<1>4. emb'[v] = new /\ \A w \in Vecs : w # v => emb'[w] = emb[w]
  BY <1>1, <1>2
<1>5. Live' = Live /\ \A w \in Live : emb'[w].vec = emb[w].vec
  BY <1>1, <1>3, <1>4 DEF Live
<1> QED
  BY <1>1, <1>5, PointSame, MeansKept DEF Means

LEMMA DeleteBeginKeepsMeans ==
    ASSUME Consolidated, Means, NEW v \in Vecs, DeleteBegin(v)
    PROVE  Means'
<1>1. /\ del = None /\ deletes' = deletes + 1 /\ UNCHANGED <<emb, born, graph, tx>>
  BY DEF DeleteBegin
<1>2. Point' = Point
  BY <1>1, PointSame DEF Live
<1>3. Cardinality(Gone(Point, born)) \in Nat /\ deletes \in Nat /\ Losses <= deletes
  BY GoneNumber DEF Means
<1>4. Losses' <= deletes'
  BY <1>1, <1>2, <1>3 DEF Losses
<1> QED
  BY <1>1, <1>2, <1>4 DEF Means

(* A vector that is deleted stays in the means it went into.               *)
LEMMA DeleteFinishKeepsMeans ==
    ASSUME Consolidated, Means, DeleteFinish
    PROVE  Means'
<1>1. /\ del # None /\ emb' = [emb EXCEPT ![del] = None] /\ graph' = Without(graph, del)
      /\ del' = None /\ UNCHANGED <<born, deletes>> /\ Tables
      /\ emb \in [Vecs -> EmbRow \union {None}]
  BY DEF DeleteFinish, Consolidated, Tables
<1>2. del \in Live /\ del \in Vecs /\ del <= born /\ born \in Nat
  BY <1>1, RowsAreRows, ConsolidationAssumption DEF Tables
<1>3. Live' = Live \ {del} /\ \A v \in Live' : emb'[v] = emb[v]
  BY <1>1, <1>2 DEF Live
<1>4. /\ DOMAIN Point = Live /\ DOMAIN Point' = Live \ {del}
      /\ \A v \in Live \ {del} : Point'[v] = Point[v]
  BY <1>3 DEF Point
<1>5. ASSUME NEW g, GraphOK(g), IsField(Point, born, g), GraphMeans(g, Point, born)
      PROVE  GraphMeans(Without(g, del), Point', born')
  <2>1. PICK f : f = Point'
    OBVIOUS
  <2>2. DOMAIN f = (DOMAIN Point) \ {del} /\ \A v \in DOMAIN f : f[v] = Point[v]
    BY <1>4, <2>1
  <2>3. del \in DOMAIN Point
    BY <1>2, <1>4
  <2>4. GraphMeans(Without(g, del), f, born)
    BY <1>5, <2>2, <2>3, WithoutMeans
  <2> QED
    BY <1>1, <2>1, <2>4
<1>6. GraphMeans(graph', Point', born')
  BY <1>1, <1>5, Fields DEF Means
<1>7. ASSUME NEW s \in Sups, tx'[s] # None
      PROVE  GraphMeans(tx'[s].graph, Point', born')
  <2>1. tx' = [t \in Sups |-> IF tx[t] = None THEN None
                              ELSE [tx[t] EXCEPT !.graph = Without(tx[t].graph, del)]]
    BY Zenon DEF DeleteFinish
  <2>2. tx[s] # None /\ tx'[s] = [tx[s] EXCEPT !.graph = Without(tx[s].graph, del)]
    BY <1>7, <2>1
  <2>3. IsTx(tx[s])
    BY <2>2 DEF Consolidated, Transactions, TxOK
  <2>4. PICK y, h, x : y = tx[s] /\ h = Without(tx[s].graph, del) /\ x = tx'[s]
    OBVIOUS
  <2>5. y = [claim |-> y.claim, todo |-> y.todo, held |-> y.held,
             pairs |-> y.pairs, graph |-> y.graph]
    BY <2>3, <2>4 DEF IsTx
  <2>6. x = [y EXCEPT !.graph = h]
    BY <2>2, <2>4
  <2>7. x.graph = h
    BY <2>5, <2>6
  <2> QED
    BY <1>5, <2>2, <2>4, <2>7, Fields DEF Means
<1>8. Losses' = Losses
  <2> DEFINE S == Gone(Point, born)
  <2>1. IsFiniteSet(S) /\ Cardinality(S) \in Nat
    BY GoneNumber
  <2>2. Gone(Point, born)' = S \union {del} /\ del \notin S
    BY <1>1, <1>2, <1>4, RowsAreRows DEF Gone, Vecs
  <2> HIDE DEF S
  <2>3. Cardinality(Gone(Point, born)') = Cardinality(S) + 1
    BY <2>1, <2>2, FS_AddElement
  <2> QED
    BY <1>1, <2>1, <2>3 DEF Losses, S
<1> QED
  BY <1>1, <1>6, <1>7, <1>8 DEF Means

----------------------------------------------------------------------------
LEMMA MeansInitially ==
    ASSUME Init, Consolidated PROVE Means
<1>1. /\ born = 0 /\ graph = [cents |-> <<>>, members |-> {}] /\ del = None /\ deletes = 0
      /\ \A s \in Sups : tx[s] = None
  BY DEF Init
<1>2. Active(graph) = {} /\ DOMAIN graph.cents = {}
  BY <1>1 DEF Active
<1>3. Gone(Point, born) = {}
  BY <1>1 DEF Gone
<1>4. Losses <= deletes
  BY <1>1, <1>3, FS_EmptySet DEF Losses
<1>5. GraphMeans(graph, Point, born)
  <2>1. PICK h : h = [c \in Active(graph) |-> {}]
    OBVIOUS
  <2>2. h \in [Active(graph) -> SUBSET (1 .. born)]
    BY <2>1
  <2>3. Averages(graph, h, Point, born)
    BY <1>2 DEF Averages
  <2> QED
    BY <2>2, <2>3 DEF GraphMeans
<1> QED
  BY <1>1, <1>4, <1>5 DEF Means

LEMMA MeansStep ==
    ASSUME Consolidated, Means, [Next]_vars PROVE Means'
<1>1. ASSUME NEW p \in Points, Embed(p) PROVE Means'
  BY <1>1, EmbedKeepsMeans
<1>2. ASSUME NEW v \in Vecs, Outdate(v) PROVE Means'
  BY <1>2, OutdateKeepsMeans
<1>3. ASSUME NEW v \in Vecs, DeleteBegin(v) PROVE Means'
  BY <1>3, DeleteBeginKeepsMeans
<1>4. CASE DeleteFinish
  BY <1>4, DeleteFinishKeepsMeans
<1>5. CASE DeleteAborted \/ SearchStep \/ UNCHANGED vars
  <2>1. UNCHANGED <<emb, born, graph, tx, deletes>> /\ (del' = del \/ del' = None)
    BY <1>5 DEF DeleteAborted, SearchStep, SearchCentroids, SearchBuffer, SearchEnd, vars
  <2>2. Point' = Point
    BY <2>1, PointSame DEF Live
  <2> QED
    BY <2>1, <2>2, MeansKept DEF Means
<1>6. ASSUME NEW s \in Sups,
              \/ LockedOut(s) \/ BatchBegin(s) \/ BatchItem(s) \/ MergeBegin(s)
              \/ (\E p \in Active(graph) \X Active(graph) : MergePair(s, p))
              \/ ForeignKeyFails(s) \/ LoadFails(s) \/ TxFails(s)
       PROVE  Means'
  BY <1>6, QuietMeans
<1>7. ASSUME NEW s \in Sups, BatchCommit(s) \/ MergeCommit(s) PROVE Means'
  BY <1>7, CommitMeans
<1> QED
  BY <1>1, <1>2, <1>3, <1>4, <1>5, <1>6, <1>7 DEF Next, SupStep

(* Centroids average what went into them, whatever interleaves.            *)
THEOREM MeansInvariant == Spec => []Means
<1>1. Init => Means
  BY ConsolidatedInitially, MeansInitially
<1>2. Consolidated /\ Means /\ [Next]_vars => Means'
  BY MeansStep
<1> QED
  BY <1>1, <1>2, ConsolidationInvariant, PTL DEF Spec

LEMMA CentroidsAreMeans ==
    ASSUME Consolidated, Means PROVE CentroidIsMean
<1>1. PICK h \in [Active(graph) -> SUBSET (1 .. born)] : Averages(graph, h, Point, born)
  BY DEF Means, GraphMeans
<1>2. IsField(Point, born, graph) /\ DOMAIN Point = Live /\ \A v \in Live : Point[v] = emb[v].vec
  BY Fields DEF Point
<1>3. /\ IsFiniteSet(Gone(Point, born)) /\ Cardinality(Gone(Point, born)) \in Nat
      /\ deletes \in Nat /\ Cardinality(Gone(Point, born)) <= deletes
  <2>1. Losses <= deletes
    BY DEF Means
  <2> QED
    BY <2>1, GoneNumber DEF Losses
<1>4. \A c \in DOMAIN graph.cents :
         graph.cents[c].count \in Nat \ {0} /\ graph.cents[c].m2 \in Nat
  BY <1>1 DEF Averages, Numbers
<1>5. ASSUME NEW c \in Active(graph)
      PROVE  LET k  == graph.cents[c]
                 vs == MembersOf(graph, c)
             IN  /\ k.count - Cardinality(vs) \in 0 .. deletes
                 /\ k.count = Cardinality(vs) => IsMeanOf(k, [v \in vs |-> emb[v].vec], vs)
  <2> DEFINE k == graph.cents[c]
             vs == MembersOf(graph, c)
             S == h[c]
             G == Gone(Point, born)
  <2>1. /\ k.count = Cardinality(S) /\ vs \subseteq S /\ S \subseteq vs \union G
        /\ S = vs => IsMeanOf(k, Point, S)
        /\ S \in SUBSET (1 .. born)
    BY <1>1 DEF Averages, Averaged
  <2>2. vs \subseteq Live
    BY <1>2, MembersHomed DEF IsField
  <2> HIDE DEF k, vs, S, G
  <2>3. IsFiniteSet(S) /\ IsFiniteSet(vs) /\ Cardinality(S) \in Nat /\ Cardinality(vs) \in Nat
        /\ Cardinality(vs) <= Cardinality(S)
    <3>1. IsFiniteSet(S)
      BY <1>2, <2>1, FieldPoints
    <3> QED
      BY <2>1, <3>1, FS_Subset, FS_CardinalityType
  <2>4. Cardinality(S) <= Cardinality(vs) + Cardinality(G)
    <3>1. IsFiniteSet(S \ vs) /\ Cardinality(S \ vs) <= Cardinality(G) /\ Cardinality(S \ vs) \in Nat
      <4>1. S \ vs \subseteq G
        BY <2>1
      <4> QED
        BY <1>3, <4>1, FS_Subset, FS_CardinalityType DEF G
    <3>2. Cardinality(vs \union (S \ vs)) = Cardinality(vs) + Cardinality(S \ vs)
      <4>1. vs \intersect (S \ vs) = {}
        OBVIOUS
      <4> QED
        BY <2>3, <3>1, <4>1, CardinalityApart
    <3>3. vs \union (S \ vs) = S
      BY <2>1
    <3>4. Cardinality(S) = Cardinality(vs) + Cardinality(S \ vs) /\ Cardinality(G) \in Nat
      BY <1>3, <3>2, <3>3, Zenon DEF G
    <3> QED
      BY <2>3, <3>1, <3>4
  <2>5. k.count - Cardinality(vs) \in 0 .. deletes
    BY <1>3, <2>1, <2>3, <2>4 DEF G
  <2>6. ASSUME k.count = Cardinality(vs) PROVE IsMeanOf(k, [v \in vs |-> emb[v].vec], vs)
    <3>1. S = vs
      BY <2>1, <2>3, <2>6, FS_Subset
    <3>2. IsMeanOf(k, Point, vs)
      BY <2>1, <3>1
    <3>3. PICK f : f = [v \in vs |-> emb[v].vec]
      OBVIOUS
    <3>4. \A v \in vs : Point[v] = f[v]
      BY <1>2, <2>2, <3>3
    <3>5. IsMeanOf(k, f, vs)
      BY <2>3, <3>2, <3>4, MeanSame
    <3> QED
      BY <3>3, <3>5
  <2> QED
    BY <2>5, <2>6 DEF k, vs
<1> QED
  BY <1>4, <1>5 DEF CentroidIsMean

(* A centroid no member of which was deleted is the mean of its members,   *)
(* m2 the sum of their squared distances from it, and member_count never   *)
(* runs behind its members (CentroidIsMean), for any embeddings, batches,  *)
(* splits and merges: welford_update, kmeans2 and combine_centroids.       *)
THEOREM CentroidIsMeanAlways == Spec => []CentroidIsMean
BY ConsolidationInvariant, MeansInvariant, CentroidsAreMeans, PTL
=============================================================================
