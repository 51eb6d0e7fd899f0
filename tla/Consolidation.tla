--------------------------- MODULE Consolidation ---------------------------
(***************************************************************************)
(* Semantic consolidation (smartfs-semantic: supervisor.rs,                *)
(* consolidation.rs, search.rs): supervisors move the vectors of one       *)
(* (plugin_type, model_id) from the working buffer into a graph of         *)
(* centroids, while vectors are embedded, go out of date, are deleted with *)
(* their files, and are searched for.                                      *)
(*                                                                         *)
(* A supervisor is a task of a daemon; two of them for one combination are *)
(* two daemons on one database.  A transaction works on its own copy of    *)
(* the tables and publishes it when it commits; of the rows it has locked, *)
(* those are kept that make another transaction wait.                      *)
(***************************************************************************)
EXTENDS KMeans

CONSTANTS
    MaxVecs,     \* bound: vectors ever embedded
    Sups,        \* supervisors of the combination
    BatchSize,   \* batch_size
    JoinCos,     \* 1 - join_threshold, as <<numerator, denominator>>
    MergeCos,    \* 1 - join_threshold / 2
    SplitVar,    \* split_variance_threshold, as <<numerator, denominator>>
    MaxMembers,  \* max_members_per_centroid
    MergeEvery,  \* MERGE_CHECK_INTERVAL_CYCLES
    MaxDeletes,  \* bound: files deleted
    MaxFails,    \* bound: failing statements and restarts
    None         \* the absent value

ASSUME ConsolidationAssumption ==
    /\ {MaxVecs, BatchSize, MaxMembers, MergeEvery} \subseteq Nat \ {0}
    /\ {MaxDeletes, MaxFails} \subseteq Nat
    /\ None \notin [vec : Points, current : BOOLEAN, consolidated : BOOLEAN]
    /\ \A a, b \in 1 .. MaxVecs : a + b <= MaxVecs =>
           \E w \in 1 .. Scale : Scale = (a * b * (a + b)) * w

(* A vector is named by its rank in the order of created_at.               *)
Vecs == 1 .. MaxVecs

VARIABLES
    emb,      \* ast_embeddings_1536: the row of each vector, None without
    born,     \* vectors embedded so far
    graph,    \* [cents, members]: concept_centroids_1536, centroid_members_1536
    sup,      \* what each supervisor does next, and cycles_since_merge
    tx,       \* the open transaction of each supervisor, None without
    del,      \* the vector whose node a delete has locked
    search,   \* the search_by_concept under way
    deletes,  \* deletes so far
    fails     \* failures so far

vars == <<emb, born, graph, sup, tx, del, search, deletes, fails>>

IdleSup == [pc |-> "check", cycles |-> 0]

Init ==
    /\ emb = [v \in Vecs |-> None] /\ born = 0
    /\ graph = [cents |-> <<>>, members |-> {}]
    /\ sup = [s \in Sups |-> IdleSup]
    /\ tx = [s \in Sups |-> None]
    /\ del = None /\ search = None
    /\ deletes = 0 /\ fails = 0

----------------------------------------------------------------------------
(* Rows and locks.                                                         *)

Live == {v \in Vecs : emb[v] # None}

(* Rows a search may return and a batch may claim.                         *)
Current  == {v \in Live : emb[v].current}
Buffered == {v \in Current : ~emb[v].consolidated}

Active(g) == {c \in DOMAIN g.cents : g.cents[c].active}

MembersOf(g, c) == {v \in Vecs : <<c, v>> \in g.members}

(* FOR UPDATE on the rows of the claim.                                    *)
Claimed == UNION {tx[s].claim : s \in {t \in Sups : tx[t] # None}}

(* Nodes whose membership a transaction has written.                       *)
Held == UNION {tx[s].held : s \in {t \in Sups : tx[t] # None}}

----------------------------------------------------------------------------
(* The rest of the system.                                                 *)

(* The worker inserts the vector of a node of the latest version.          *)
Embed(p) ==
    /\ born < MaxVecs
    /\ born' = born + 1
    /\ emb' = [emb EXCEPT ![born'] = [vec |-> p, current |-> TRUE, consolidated |-> FALSE]]
    /\ UNCHANGED <<graph, sup, tx, del, search, deletes, fails>>

Forgotten(v) == IF search = None THEN None
                ELSE [search EXCEPT !.missed = @ \ {v}, !.moved = @ \ {v}]

(* refresh_is_current, when a newer version was embedded.                  *)
Outdate(v) ==
    /\ v \in Current \ Claimed
    /\ emb' = [emb EXCEPT ![v].current = FALSE]
    /\ search' = Forgotten(v)
    /\ UNCHANGED <<born, graph, sup, tx, del, deletes, fails>>

(* A file is deleted: the cascade locks the node ...                       *)
DeleteBegin(v) ==
    /\ del = None /\ deletes < MaxDeletes
    /\ v \in Live \ Held
    /\ del' = v
    /\ deletes' = deletes + 1
    /\ UNCHANGED <<emb, born, graph, sup, tx, search, fails>>

Without(g, v) == [g EXCEPT !.members = {m \in @ : m[2] # v}]

(* ... then the embedding and the memberships, and waits for their locks.  *)
DeleteFinish ==
    /\ del # None /\ del \notin Claimed \union Held
    /\ emb' = [emb EXCEPT ![del] = None]
    /\ graph' = Without(graph, del)
    /\ tx' = [s \in Sups |-> IF tx[s] = None THEN None
                             ELSE [tx[s] EXCEPT !.graph = Without(@, del)]]
    /\ search' = Forgotten(del)
    /\ del' = None
    /\ UNCHANGED <<born, sup, deletes, fails>>

(* search_by_concept: the members of active centroids first ...            *)
SearchCentroids ==
    /\ search = None
    /\ search' = [missed |-> {v \in Current : \A c \in Active(graph) :
                                                  <<c, v>> \notin graph.members},
                  moved |-> {}, done |-> FALSE]
    /\ UNCHANGED <<emb, born, graph, sup, tx, del, deletes, fails>>

(* Mutant of SearchBuffer: only the centroids are searched.                *)
SearchNothing ==
    /\ search # None /\ ~search.done
    /\ search' = [search EXCEPT !.done = TRUE]
    /\ UNCHANGED <<emb, born, graph, sup, tx, del, deletes, fails>>

(* ... then the buffer, in a statement of its own.                         *)
SearchBuffer ==
    /\ search # None /\ ~search.done
    /\ search' = [search EXCEPT !.missed = @ \ Buffered, !.done = TRUE]
    /\ UNCHANGED <<emb, born, graph, sup, tx, del, deletes, fails>>

SearchEnd ==
    /\ search # None /\ search.done
    /\ search' = None
    /\ UNCHANGED <<emb, born, graph, sup, tx, del, deletes, fails>>

----------------------------------------------------------------------------
(* consolidation_supervisor.                                               *)

(* The configuration cannot be read: the task returns.                     *)
LoadFails(s) ==
    /\ sup[s].pc = "check" /\ tx[s] = None /\ fails < MaxFails
    /\ fails' = fails + 1
    /\ sup' = [sup EXCEPT ![s].pc = "off"]
    /\ UNCHANGED <<emb, born, graph, tx, del, search, deletes>>

(* A batch ended without an error; every MergeEvery-th is followed by a    *)
(* merge.                                                                  *)
Cycled(u) == IF u.cycles + 1 >= MergeEvery THEN [pc |-> "merge", cycles |-> 0]
             ELSE [pc |-> "check", cycles |-> u.cycles + 1]

(* pg_try_advisory_xact_lock: the first statement of either transaction.   *)
LockFree == \A s \in Sups : tx[s] = None

(* A batch or a merge that another supervisor keeps out does nothing.      *)
LockedOut(s) ==
    /\ ~LockFree /\ tx[s] = None
    /\ \/ sup[s].pc = "check" /\ sup' = [sup EXCEPT ![s] = Cycled(@)]
       \/ sup[s].pc = "merge" /\ sup' = [sup EXCEPT ![s].pc = "check"]
    /\ UNCHANGED <<emb, born, graph, tx, del, search, deletes, fails>>

(* Mutant of Oldest: one short of the limit.                               *)
OldestButOne(S) == {v \in S : Cardinality({w \in S : w <= v}) < BatchSize}

Oldest(S) == {v \in S : Cardinality({w \in S : w < v}) < BatchSize}

Begin(s, claim, pairs) ==
    tx' = [tx EXCEPT ![s] = [claim |-> claim, todo |-> claim, held |-> {},
                             pairs |-> pairs, graph |-> graph]]

(* A clock or the backlog says run, and claim_unconsolidated_batch takes   *)
(* the oldest: SKIP LOCKED passes over no row a cascade has not come to.   *)
BatchBegin(s) ==
    /\ sup[s].pc = "check" /\ LockFree
    /\ Begin(s, Oldest(Buffered), {})
    /\ UNCHANGED <<emb, born, graph, sup, del, search, deletes, fails>>

Next1(s) == CHOOSE v \in tx[s].todo : \A w \in tx[s].todo : v <= w

(* nearest_centroid, when it is near enough.                               *)
Nearest(g, v) ==
    LET nearest == {c \in Active(g) : \A d \in Active(g) :
                        NotFarther(emb[v].vec, g.cents[c].sum, g.cents[d].sum)}
    IN  {c \in nearest : Within(emb[v].vec, g.cents[c].sum, JoinCos)}

Centroid(k) == [sum |-> k.sum, m2 |-> k.m2, count |-> k.count,
                active |-> TRUE, into |-> None]

CreateFrom(g, v) ==
    [cents   |-> Append(g.cents, Centroid(Single(emb[v].vec))),
     members |-> g.members \union {<<Len(g.cents) + 1, v>>}]

Attached(g, c, v) ==
    [cents   |-> [g.cents EXCEPT ![c] = Centroid(Welford(@, emb[v].vec))],
     members |-> g.members \union {<<c, v>>}]

TooLarge(g, c) ==
    /\ Spread(g.cents[c], SplitVar) \/ g.cents[c].count > MaxMembers
    /\ Cardinality(MembersOf(g, c)) > 1

(* The members are read in any order.                                      *)
Orders(S) ==
    {f \in [1 .. Cardinality(S) -> S] : \A j, k \in DOMAIN f : f[j] = f[k] => j = k}

(* split_centroid, given kmeans2 of the members: two new centroids share   *)
(* the members of the old one.                                             *)
Halved(g, c, two, second) ==
    [cents   |-> [g.cents EXCEPT ![c].active = FALSE]
                 \o <<Centroid(two[1]), Centroid(two[2])>>,
     members |-> {m \in g.members : m[1] # c}
                 \union {<<Len(g.cents) + 1, v>> : v \in two[1].ids}
                 \union {<<second, v>> : v \in two[2].ids}]

(* Mutant of Split: the second half keeps its old memberships.             *)
SplitFirstOnly(g, c, two) == Halved(g, c, two, c)

Split(g, c, two) == Halved(g, c, two, Len(g.cents) + 2)

(* The new working copy, and the nodes it wrote memberships of: inserting  *)
(* one locks the node.                                                     *)
Wrote(s, g, vs) ==
    /\ del \notin vs
    /\ tx' = [tx EXCEPT ![s].graph = g, ![s].held = @ \union vs,
                        ![s].todo = @ \ {Next1(s)}]

(* One vector of the batch; mark_consolidated comes with the commit.       *)
BatchItem(s) ==
    /\ sup[s].pc = "check" /\ tx[s] # None /\ tx[s].todo # {}
    /\ LET g == tx[s].graph
           v == Next1(s)
       IN  \/ Nearest(g, v) = {} /\ Wrote(s, CreateFrom(g, v), {v})
           \/ \E c \in Nearest(g, v) : \E h \in {Attached(g, c, v)} :
                \/ ~TooLarge(h, c) /\ Wrote(s, h, {v})
                \/ /\ TooLarge(h, c)
                   /\ \E order \in Orders(MembersOf(h, c)) :
                        \E two \in {KMeans2([k \in DOMAIN order |->
                                      [id |-> order[k], vec |-> emb[order[k]].vec]])} :
                          Wrote(s, Split(h, c, two), MembersOf(h, c))
    /\ UNCHANGED <<emb, born, graph, sup, del, search, deletes, fails>>

Moved(claim) == IF search = None THEN None
                ELSE [search EXCEPT !.moved = @ \union (claim \intersect search.missed)]

BatchCommit(s) ==
    /\ sup[s].pc = "check" /\ tx[s] # None /\ tx[s].todo = {}
    /\ emb' = [v \in Vecs |-> IF v \in tx[s].claim
                              THEN [emb[v] EXCEPT !.consolidated = TRUE] ELSE emb[v]]
    /\ graph' = tx[s].graph
    /\ search' = Moved(tx[s].claim)
    /\ tx' = [tx EXCEPT ![s] = None]
    /\ sup' = [sup EXCEPT ![s] = Cycled(@)]
    /\ UNCHANGED <<born, del, deletes, fails>>

Ends(g, p) == <<g.cents[p[1]].sum, g.cents[p[2]].sum>>

(* merge_centroids: pairs of active centroids that are close ...           *)
MergeBegin(s) ==
    /\ sup[s].pc = "merge" /\ LockFree
    /\ Begin(s, {}, {p \in Active(graph) \X Active(graph) : p[1] < p[2] /\
                        Within(graph.cents[p[1]].sum, graph.cents[p[2]].sum, MergeCos)})
    /\ UNCHANGED <<emb, born, graph, sup, del, search, deletes, fails>>

(* Mutant of Merge: what was merged into the two now points past them.     *)
MergeRedirects(g, a, b) ==
    LET n == Len(g.cents) + 1
    IN  [cents   |-> Append([c \in DOMAIN g.cents |->
                               IF c \in {a, b} \/ g.cents[c].into \in {a, b}
                               THEN [g.cents[c] EXCEPT !.active = FALSE, !.into = n]
                               ELSE g.cents[c]],
                            Centroid(Combine(g.cents[a], g.cents[b]))),
         members |-> {IF m[1] \in {a, b} THEN <<n, m[2]>> ELSE m : m \in g.members}]

Merge(g, a, b) ==
    LET n == Len(g.cents) + 1
    IN  [cents   |-> Append([c \in DOMAIN g.cents |->
                               IF c \in {a, b}
                               THEN [g.cents[c] EXCEPT !.active = FALSE, !.into = n]
                               ELSE g.cents[c]],
                            Centroid(Combine(g.cents[a], g.cents[b]))),
         members |-> {IF m[1] \in {a, b} THEN <<n, m[2]>> ELSE m : m \in g.members}]

(* ... the closest first, unless one of the two was merged before.         *)
MergePair(s, p) ==
    /\ sup[s].pc = "merge" /\ tx[s] # None /\ p \in tx[s].pairs
    /\ \A q \in tx[s].pairs :
         NotFartherPair(Ends(tx[s].graph, p), Ends(tx[s].graph, q))
    /\ LET g  == tx[s].graph
           vs == MembersOf(g, p[1]) \union MembersOf(g, p[2])
       IN  /\ del \notin vs
           /\ tx' = [tx EXCEPT ![s].graph = Merge(g, p[1], p[2]),
                               ![s].held = @ \union vs,
                               ![s].pairs = {q \in @ : {q[1], q[2]} \intersect {p[1], p[2]} = {}}]
    /\ UNCHANGED <<emb, born, graph, sup, del, search, deletes, fails>>

MergeCommit(s) ==
    /\ sup[s].pc = "merge" /\ tx[s] # None /\ tx[s].pairs = {}
    /\ graph' = tx[s].graph
    /\ tx' = [tx EXCEPT ![s] = None]
    /\ sup' = [sup EXCEPT ![s].pc = "check"]
    /\ UNCHANGED <<emb, born, del, search, deletes, fails>>

RolledBack(s) ==
    /\ tx' = [tx EXCEPT ![s] = None]
    /\ sup' = [sup EXCEPT ![s].pc = "check"]

(* A statement fails, or the daemon dies and starts again.                 *)
TxFails(s) ==
    /\ tx[s] # None /\ fails < MaxFails
    /\ fails' = fails + 1
    /\ RolledBack(s)
    /\ UNCHANGED <<emb, born, graph, del, search, deletes>>

(* The transaction waits for a node that a delete has locked.              *)
Waits(s) ==
    /\ del # None /\ tx[s] # None
    /\ \/ tx[s].todo # {} /\ Next1(s) = del
       \/ tx[s].todo # {} /\ \E c \in Nearest(tx[s].graph, Next1(s)) :
            del \in MembersOf(tx[s].graph, c) /\ TooLarge(Attached(tx[s].graph, c, Next1(s)), c)
       \/ \E p \in tx[s].pairs : del \in MembersOf(tx[s].graph, p[1])
                                         \union MembersOf(tx[s].graph, p[2])

(* When the delete commits, the foreign key fails; when the delete waits   *)
(* for the transaction in turn, PostgreSQL aborts one of the two.          *)
ForeignKeyFails(s) ==
    /\ Waits(s)
    /\ RolledBack(s)
    /\ UNCHANGED <<emb, born, graph, del, search, deletes, fails>>

DeleteAborted ==
    /\ del \in Claimed /\ \E s \in Sups : Waits(s)
    /\ del' = None
    /\ UNCHANGED <<emb, born, graph, sup, tx, search, deletes, fails>>

SupStep(s) ==
    \/ LockedOut(s)
    \/ BatchBegin(s) \/ BatchItem(s) \/ BatchCommit(s)
    \/ MergeBegin(s) \/ (\E p \in Active(graph) \X Active(graph) : MergePair(s, p))
    \/ MergeCommit(s) \/ ForeignKeyFails(s)

SearchStep == SearchCentroids \/ SearchBuffer \/ SearchEnd

Next ==
    \/ \E p \in Points : Embed(p)
    \/ \E v \in Vecs : Outdate(v) \/ DeleteBegin(v)
    \/ DeleteFinish \/ DeleteAborted
    \/ SearchStep
    \/ \E s \in Sups : SupStep(s) \/ LoadFails(s) \/ TxFails(s)

Spec == Init /\ [][Next]_vars

(* max_wait lets every supervisor run in the end; a delete that waits for  *)
(* a lock gets it when the lock is released (claims pass over its rows).   *)
FairSpec == Spec /\ SF_vars(DeleteFinish) /\ \A s \in Sups : WF_vars(SupStep(s))

----------------------------------------------------------------------------
(* Types of the state, the foreign keys among them.                        *)
ConsolidationTypeOK ==
    /\ \A v \in Vecs : emb[v] # None =>
         /\ v <= born /\ emb[v].vec \in Points
         /\ {emb[v].current, emb[v].consolidated} \subseteq BOOLEAN
    /\ born \in 0 .. MaxVecs
    /\ graph.members \subseteq (DOMAIN graph.cents) \X Live
    /\ \A c \in DOMAIN graph.cents :
         graph.cents[c].into \in (DOMAIN graph.cents) \union {None}
    /\ \A s \in Sups : /\ sup[s].pc \in {"check", "merge", "off"}
                       /\ sup[s].cycles \in 0 .. MergeEvery - 1
                       /\ tx[s] # None => tx[s].claim \subseteq Live
    /\ del \in Live \union {None}
    /\ search # None => search.missed \union search.moved \subseteq Vecs
    /\ deletes \in 0 .. MaxDeletes /\ fails \in 0 .. MaxFails

(* A vector is in the buffer or in exactly one active centroid, whatever   *)
(* batch, split, merge or rollback came in between (consolidate_batch,     *)
(* split_centroid, merge_centroids).                                       *)
OneHome ==
    /\ ConsolidationTypeOK
    /\ \A m \in graph.members : graph.cents[m[1]].active
    /\ \A v \in Live : Cardinality({c \in Active(graph) : <<c, v>> \in graph.members})
                       = IF emb[v].consolidated THEN 1 ELSE 0

(* k averages the points f[x], x in S: their mean, and m2 the sum of their *)
(* squared distances from it.                                              *)
IsMeanOf(k, f, S) ==
    /\ k.count = Cardinality(S)
    /\ k.sum = SumOf(f, S)
    /\ k.m2 * k.count = Scale *
         (k.count * SumFunctionOnSet([x \in S |-> Sq(f[x])], S) - Sq(k.sum))

(* The incremental arithmetic is exact: as long as nothing was deleted     *)
(* from it, an active centroid is the mean of its members and m2 the sum   *)
(* of their squared distances from it (welford_update, kmeans2,            *)
(* combine_centroids).  member_count runs ahead of the members only by     *)
(* vectors whose files were deleted, and never behind (attach_to_centroid, *)
(* ON DELETE CASCADE).                                                     *)
CentroidIsMean ==
    /\ \A c \in DOMAIN graph.cents :
         graph.cents[c].count \in Nat \ {0} /\ graph.cents[c].m2 \in Nat
    /\ \A c \in Active(graph) :
        LET k  == graph.cents[c]
            vs == MembersOf(graph, c)
        IN  /\ k.count - Cardinality(vs) \in 0 .. deletes
            /\ k.count = Cardinality(vs) => IsMeanOf(k, [v \in vs |-> emb[v].vec], vs)

(* A search misses a vector only when a batch commits between its two      *)
(* statements (search_by_concept).                                         *)
MissedOnlyWhenMoved ==
    search # None /\ search.done => search.missed \subseteq search.moved

(* Splitting and merging never delete a centroid, and one that is no       *)
(* longer active never changes again (ADR-53).                             *)
NeverReactivated ==
    [][\A c \in DOMAIN graph.cents :
         /\ c \in DOMAIN graph'.cents
         /\ ~graph.cents[c].active => graph'.cents[c] = graph.cents[c]]_vars

(* As long as a supervisor is left, every current vector is consolidated   *)
(* in the end, whatever locks, deadlocks and failures come in between      *)
(* (consolidation_supervisor, pg_try_advisory_xact_lock).                  *)
EventuallyConsolidated ==
    \A v \in Vecs : v \in Buffered ~>
        (v \notin Buffered \/ \A s \in Sups : sup[s].pc = "off")
=============================================================================
