------------------------------- MODULE KMeans -------------------------------
(***************************************************************************)
(* The arithmetic of smartfs-semantic (kmeans.rs) in exact integers, with  *)
(* embeddings of two coordinates, none of them negative.                   *)
(*                                                                         *)
(* A mean is kept as the sum of what it averages together with its count,  *)
(* and m2, the sum of squared deviations, in units of 1/Scale.  A cosine   *)
(* is compared by its square: it does not depend on the length of the      *)
(* vectors, so the sum stands for the mean.                                *)
(***************************************************************************)
EXTENDS Integers, Sequences, FiniteSets, Functions

CONSTANTS
    Points,   \* the embeddings
    Scale,    \* a multiple of a * b * (a + b) for the counts that occur
    MaxIter   \* iterations of kmeans2

Plus(x, y)  == <<x[1] + y[1], x[2] + y[2]>>
Times(k, x) == <<k * x[1], k * x[2]>>
Minus(x, y) == Plus(x, Times(-1, y))
Dot(x, y)   == x[1] * y[1] + x[2] * y[2]
Sq(x)       == Dot(x, x)

(* The sum of the points f[x], for x in S.                                 *)
SumOf(f, S) == <<SumFunctionOnSet([x \in S |-> f[x][1]], S),
                 SumFunctionOnSet([x \in S |-> f[x][2]], S)>>

(* Embeddings are normalised (engine.rs): two of one direction are equal.  *)
Parallel(x, y) == Dot(x, y) * Dot(x, y) = Sq(x) * Sq(y)

ASSUME KMeansAssumption ==
    /\ Points \subseteq Nat \X Nat /\ <<0, 0>> \notin Points
    /\ \A x, y \in Points : Parallel(x, y) => x = y
    /\ Scale \in Nat \ {0} /\ MaxIter \in Nat \ {0}

(* cosine_distance: x is not farther from a than from b.                   *)
NotFarther(x, a, b) ==
    Dot(x, a) * Dot(x, a) * Sq(b) >= Dot(x, b) * Dot(x, b) * Sq(a)

(* The two points of p are not farther apart than those of q.              *)
NotFartherPair(p, q) ==
    Dot(p[1], p[2]) * Dot(p[1], p[2]) * Sq(q[1]) * Sq(q[2])
      >= Dot(q[1], q[2]) * Dot(q[1], q[2]) * Sq(p[1]) * Sq(p[2])

(* cosine_distance(x, y) <= 1 - c[1]/c[2].                                 *)
Within(x, y, c) ==
    Dot(x, y) * Dot(x, y) * c[2] * c[2] >= c[1] * c[1] * Sq(x) * Sq(y)

----------------------------------------------------------------------------
(* A cluster is [sum, m2, count]; kmeans2 adds the ids of its members.     *)

Single(x) == [sum |-> x, m2 |-> 0, count |-> 1]

(* welford_update: m2 grows by count / (count + 1) * |x - mean|^2.         *)
Welford(c, x) ==
    [sum   |-> Plus(c.sum, x),
     m2    |-> c.m2 + (Scale * Sq(Minus(Times(c.count, x), c.sum)))
                      \div (c.count * (c.count + 1)),
     count |-> c.count + 1]

(* variance_from_m2(m2, count) > t[1]/t[2].                                *)
Spread(c, t) == c.count > 1 /\ c.m2 * t[2] > t[1] * Scale * (c.count - 1)

(* Mutant of Combine: the distance between the two means is forgotten.     *)
CombineSums(a, b) ==
    [sum |-> Plus(a.sum, b.sum), m2 |-> a.m2 + b.m2, count |-> a.count + b.count]

(* combine_centroids: Chan's formula.                                      *)
Combine(a, b) ==
    [sum   |-> Plus(a.sum, b.sum),
     m2    |-> a.m2 + b.m2
               + (Scale * Sq(Minus(Times(b.count, a.sum), Times(a.count, b.sum))))
                 \div (a.count * b.count * (a.count + b.count)),
     count |-> a.count + b.count]

----------------------------------------------------------------------------
(* kmeans2 of a sequence of [id, vec].                                     *)

(* The element of a singleton: TLC evaluates what is bound by one once.    *)
The(S) == CHOOSE x \in S : TRUE

Ids(ms, ks) == {ms[k].id : k \in ks}

(* The first pair, in the order of the loops, of maximal distance.         *)
FarthestPair(ms) ==
    LET pairs == {p \in (DOMAIN ms) \X (DOMAIN ms) : p[1] < p[2]}
        vecs(p) == <<ms[p[1]].vec, ms[p[2]].vec>>
        before(p, q) == p[1] < q[1] \/ (p[1] = q[1] /\ p[2] < q[2])
    IN  CHOOSE p \in pairs : \A q \in pairs \ {p} :
            /\ NotFartherPair(vecs(q), vecs(p))
            /\ NotFartherPair(vecs(p), vecs(q)) => before(p, q)

(* All members coincide: they are dealt out in two halves.                 *)
Halves(ms) ==
    LET half(ks) == [sum   |-> Times(Cardinality(ks), ms[1].vec), m2 |-> 0,
                     count |-> Cardinality(ks), ids |-> Ids(ms, ks)]
        mid == Len(ms) \div 2
    IN  <<half(1 .. mid), half(mid + 1 .. Len(ms))>>

(* The first member that is farthest from the mean m.                      *)
FarthestFrom(ms, m) ==
    CHOOSE k \in DOMAIN ms : \A j \in (DOMAIN ms) \ {k} :
        NotFarther(m, ms[j].vec, ms[k].vec)
        /\ (NotFarther(m, ms[k].vec, ms[j].vec) => k < j)

(* One iteration: assign, never leave a cluster empty, recompute the means.*)
Iterated(ms, it) ==
    LET vecs  == [k \in DOMAIN ms |-> ms[k].vec]
        near  == {k \in DOMAIN ms : NotFarther(ms[k].vec, it.mean[1], it.mean[2])}
        first == IF near = {} THEN {FarthestFrom(ms, it.mean[2])}
                 ELSE IF near = DOMAIN ms THEN near \ {FarthestFrom(ms, it.mean[1])}
                 ELSE near
        same  == near = it.first /\ first = near
    IN  IF it.done \/ same THEN [it EXCEPT !.done = TRUE]
        ELSE [first |-> first, done |-> FALSE,
              mean  |-> <<SumOf(vecs, first), SumOf(vecs, (DOMAIN ms) \ first)>>]

Lloyd(ms) ==
    LET p == FarthestPair(ms)
        it[n \in 0 .. MaxIter] ==
            IF n = 0 THEN [first |-> DOMAIN ms, done |-> FALSE,
                           mean  |-> <<ms[p[1]].vec, ms[p[2]].vec>>]
            ELSE The({Iterated(ms, x) : x \in {it[n - 1]}})
    IN  it[MaxIter].first

(* build_cluster: the metrics of a cluster, member by member.              *)
Built(ms, ks) ==
    LET upTo[n \in 0 .. Len(ms)] ==
            IF n = 0 THEN [sum |-> <<0, 0>>, m2 |-> 0, count |-> 0]
            ELSE IF n \notin ks THEN upTo[n - 1]
            ELSE IF upTo[n - 1].count = 0 THEN Single(ms[n].vec)
            ELSE Welford(upTo[n - 1], ms[n].vec)
        c == upTo[Len(ms)]
    IN  [sum |-> c.sum, m2 |-> c.m2, count |-> c.count, ids |-> Ids(ms, ks)]

KMeans2(ms) ==
    IF \A j, k \in DOMAIN ms : Parallel(ms[j].vec, ms[k].vec) THEN Halves(ms)
    ELSE The({<<Built(ms, first), Built(ms, (DOMAIN ms) \ first)>> :
                  first \in {(DOMAIN ms) \intersect Lloyd(ms)}})
=============================================================================
