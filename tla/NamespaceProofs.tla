-------------------------- MODULE NamespaceProofs --------------------------
(***************************************************************************)
(* Proofs about Namespace, for every number of inodes, names and handles:  *)
(* the table of inodes is a tree whatever cascades, renames and inserts of *)
(* the other process do to it, a name is hidden only while its file is     *)
(* open, a row disappears only for a reason, and a listing misses nothing  *)
(* and repeats nothing although entries join while it is read.             *)
(*                                                                         *)
(* Below(k), what a cascade takes, is the least closed set that contains   *)
(* k; the lemmas about it are all the proofs need to know of it.           *)
(*                                                                         *)
(* The second part is about McpTools, which extends Namespace: the         *)
(* server's deletes leave the table a tree, also in the middle of an rmdir *)
(* of the mount; a confirmation token has at most one effect, the one it   *)
(* was handed out for, on what its path named then; and a walk over all    *)
(* files finds each that stays where it is, once.                          *)
(***************************************************************************)
EXTENDS McpTools, FiniteSetTheorems, SequenceTheorems, NaturalsInduction, TLAPS

(* The table by itself: what the lemmas on it assume.                      *)
TableOK ==
    /\ tab \in [Inos -> Row \union {None}]
    /\ nextIno \in 2 .. MaxIno + 1
    /\ Rows \subseteq 2 .. nextIno - 1

Tree == TableOK /\ Parented /\ Rooted /\ NamesUnique

(* A row is a record, and its fields have their types.                     *)
LEMMA RowFields ==
    ASSUME TableOK, NEW i \in Rows
    PROVE  /\ tab[i] \in Row /\ i \in Inos /\ i # Root
           /\ tab[i].parent \in 1 .. MaxIno /\ tab[i].name \in Names
           /\ tab[i].dir \in BOOLEAN
  <1>1. i \in Inos /\ tab[i] # None
    BY DEF Rows
  <1>2. tab[i] \in Row
    BY <1>1 DEF TableOK
  <1>3. i # Root
    BY <1>1, NamespaceAssumption, SMT DEF Inos, Root
  <1> QED
    BY <1>1, <1>2, <1>3, SMT DEF Row

----------------------------------------------------------------------------
(* What is below a row.                                                    *)

LEMMA BelowRows ==
    ASSUME NEW k
    PROVE  Below(k) \subseteq Rows
  BY DEF Below

LEMMA BelowSelf ==
    ASSUME NEW k \in Rows
    PROVE  k \in Below(k)
  BY DEF Below

LEMMA BelowClosed ==
    ASSUME NEW k
    PROVE  ClosedBelow(Below(k))
  <1> SUFFICES ASSUME NEW i \in Rows, tab[i].parent \in Below(k)
               PROVE  i \in Below(k)
    BY DEF ClosedBelow
  <1> SUFFICES ASSUME NEW S \in SUBSET Rows,
                      {k} \intersect Rows \subseteq S, ClosedBelow(S)
               PROVE  i \in S
    BY DEF Below
  <1>1. tab[i].parent \in S
    BY DEF Below
  <1> QED
    BY <1>1 DEF ClosedBelow

LEMMA BelowLeast ==
    ASSUME NEW k, NEW S \in SUBSET Rows,
           {k} \intersect Rows \subseteq S, ClosedBelow(S)
    PROVE  Below(k) \subseteq S
  BY DEF Below

(* A row below k is k itself or has its parent below k.                    *)
LEMMA BelowParent ==
    ASSUME NEW k, NEW i \in Below(k), i # k
    PROVE  tab[i].parent \in Below(k)
  <1> DEFINE S == {j \in Below(k) : j = k \/ tab[j].parent \in Below(k)}
  <1>1. S \in SUBSET Rows
    BY BelowRows
  <1>2. {k} \intersect Rows \subseteq S
    BY BelowSelf
  <1>3. ClosedBelow(S)
    BY BelowClosed DEF ClosedBelow
  <1>4. Below(k) \subseteq S
    BY <1>1, <1>2, <1>3, BelowLeast
  <1> QED
    BY <1>4

(* In a table without cycles no row is below itself.                       *)
LEMMA BelowAcyclic ==
    ASSUME Rooted, NEW k \in Rows
    PROVE  tab[k].parent \notin Below(k)
  <1> SUFFICES ASSUME tab[k].parent \in Below(k)
               PROVE  FALSE
    OBVIOUS
  <1> DEFINE S == {i \in Below(k) : tab[i].parent \in Below(k)}
  <1>1. k \in S
    BY BelowSelf
  <1>2. S \in SUBSET Rows
    BY BelowRows
  <1>3. PICK i \in S : tab[i].parent \notin S
    BY <1>1, <1>2 DEF Rooted
  <1>4. tab[i].parent # k
    BY <1>1, <1>3
  <1>5. tab[tab[i].parent].parent \in Below(k)
    BY <1>3, <1>4, BelowParent
  <1> QED
    BY <1>3, <1>5

(* Nothing is below a file but the file.                                   *)
LEMMA BelowFile ==
    ASSUME TableOK, Parented, NEW k, ~IsDir(k)
    PROVE  Below(k) \subseteq {k}
  <1> DEFINE S == {k} \intersect Rows
  <1>1. ClosedBelow(S)
    BY DEF ClosedBelow, Parented
  <1> QED
    BY <1>1, BelowLeast

----------------------------------------------------------------------------
(* What keeps the table a tree.                                            *)

(* Taking away a set that is closed downwards.                             *)
LEMMA RemoveKeepsTree ==
    ASSUME Tree, NEW S, ClosedBelow(S),
           tab' = Without(S), nextIno' = nextIno
    PROVE  Tree' /\ Rows' = Rows \ S
  <1> USE DEF Tree
  <1>1. tab' \in [Inos -> Row \union {None}]
    BY DEF TableOK, Without
  <1>2. Rows' = Rows \ S
    BY DEF Rows, Without
  <1>3. \A i \in Rows' : tab'[i] = tab[i]
    BY <1>2 DEF Without, Rows
  <1>4. TableOK'
    BY <1>1, <1>2 DEF TableOK
  <1>5. Parented'
    <2> SUFFICES ASSUME NEW i \in Rows', NEW p, p = tab'[i].parent
                 PROVE  IsDir(p)'
      BY DEF Parented, IsDir
    <2>1. i \in Rows /\ i \notin S /\ p = tab[i].parent
      BY <1>2, <1>3
    <2>2. IsDir(p) /\ p \notin S
      BY <2>1 DEF Parented, ClosedBelow
    <2>3. CASE p = Root
      BY <2>3 DEF IsDir
    <2>4. CASE p \in Rows /\ tab[p].dir
      <3>1. p \in Rows'
        BY <2>2, <2>4, <1>2
      <3>2. tab'[p].dir
        BY <3>1, <2>4, <1>3
      <3> QED
        BY <3>1, <3>2 DEF IsDir
    <2> QED
      BY <2>2, <2>3, <2>4 DEF IsDir
  <1>6. Rooted'
    <2> SUFFICES ASSUME NEW T \in SUBSET Rows', T # {}
                 PROVE  \E i \in T : tab'[i].parent \notin T
      BY DEF Rooted
    <2>1. T \in SUBSET Rows
      BY <1>2
    <2>2. PICK i \in T : tab[i].parent \notin T
      BY <2>1 DEF Rooted
    <2> QED
      BY <2>2, <1>3
  <1>7. NamesUnique'
    BY <1>2, <1>3 DEF NamesUnique
  <1> QED
    BY <1>2, <1>4, <1>5, <1>6, <1>7

(* A new row below a directory that exists, under a name that is free.     *)
LEMMA InsertKeepsTree ==
    ASSUME Tree, NEW d, NEW n \in Names, NEW dir \in BOOLEAN, Insert(d, n, dir)
    PROVE  /\ Tree' /\ Rows' = Rows \union {nextIno}
           /\ nextIno \in Inos \ Rows /\ nextIno' = nextIno + 1
           /\ \A i \in Rows : tab'[i] = tab[i]
           /\ tab'[nextIno] = [parent |-> d, name |-> n, dir |-> dir]
           /\ d # nextIno
  <1> USE DEF Tree
  <1> DEFINE new == [parent |-> d, name |-> n, dir |-> dir]
  <1>1. /\ IsDir(d) /\ Entry(d, n) = {} /\ nextIno <= MaxIno
        /\ tab' = [tab EXCEPT ![nextIno] = new] /\ nextIno' = nextIno + 1
    BY DEF Insert, CanInsert
  <1>2. nextIno \in Inos /\ nextIno' \in 2 .. MaxIno + 1
    BY <1>1, NamespaceAssumption, SMT DEF TableOK, Inos
  <1>3. nextIno \notin Rows
    BY <1>2, SMT DEF TableOK, Inos
  <1>4. d \in 1 .. MaxIno /\ d # nextIno
    <2>1. CASE d = Root
      BY <2>1, <1>2, NamespaceAssumption, SMT DEF Root, Inos
    <2>2. CASE d \in Rows
      BY <2>2, <1>3, NamespaceAssumption, SMT DEF Rows, Inos
    <2> QED
      BY <1>1, <2>1, <2>2 DEF IsDir
  <1>5. new \in Row /\ new # None
    BY <1>4, NamespaceAssumption DEF Row
  <1>6. tab' \in [Inos -> Row \union {None}] /\ tab'[nextIno] = new
    BY <1>1, <1>2, <1>5 DEF TableOK
  <1>7. \A i \in Inos \ {nextIno} : tab'[i] = tab[i]
    BY <1>1 DEF TableOK
  <1>8. Rows' = Rows \union {nextIno}
    BY <1>2, <1>5, <1>6, <1>7 DEF Rows
  <1>9. \A i \in Rows : tab'[i] = tab[i]
    BY <1>3, <1>7 DEF Rows
  <1>10. TableOK'
    <2>1. Rows' \subseteq 2 .. nextIno' - 1
      BY <1>8, <1>1, <1>2, SMT DEF TableOK, Inos
    <2> QED
      BY <2>1, <1>2, <1>6 DEF TableOK
  <1>11. \A x : IsDir(x) => IsDir(x)'
    BY <1>8, <1>9 DEF IsDir
  <1>12. Parented'
    <2> SUFFICES ASSUME NEW i \in Rows', NEW p, p = tab'[i].parent
                 PROVE  IsDir(p)'
      BY DEF Parented, IsDir
    <2>1. CASE i = nextIno
      BY <2>1, <1>1, <1>6, <1>11
    <2>2. CASE i \in Rows
      BY <2>2, <1>9, <1>11 DEF Parented
    <2> QED
      BY <2>1, <2>2, <1>8
  <1>13. Rooted'
    <2> SUFFICES ASSUME NEW T \in SUBSET Rows', T # {}
                 PROVE  \E i \in T : tab'[i].parent \notin T
      BY DEF Rooted
    <2>1. CASE T \intersect Rows = {}
      <3>1. T = {nextIno}
        BY <2>1, <1>8
      <3> QED
        BY <3>1, <1>4, <1>6
    <2>2. CASE T \intersect Rows # {}
      <3>1. PICK i \in T \intersect Rows : tab[i].parent \notin T \intersect Rows
        BY <2>2 DEF Rooted
      <3>2. tab[i].parent \in Rows \union {Root}
        BY <3>1 DEF Parented, IsDir
      <3>3. Root \notin T
        BY <1>2, <1>8, NamespaceAssumption, SMT DEF Rows, Inos, Root
      <3> QED
        BY <3>1, <3>2, <3>3, <1>9
    <2> QED
      BY <2>1, <2>2
  <1>14. NamesUnique'
    <2> SUFFICES ASSUME NEW i \in Rows', NEW j \in Rows',
                        tab'[i].parent = tab'[j].parent,
                        tab'[i].name = tab'[j].name
                 PROVE  i = j
      BY DEF NamesUnique
    <2>1. \A k \in Rows : ~(tab[k].parent = d /\ tab[k].name = n)
      BY <1>1 DEF Entry, Kids
    <2>2. tab'[nextIno].parent = d /\ tab'[nextIno].name = n
      BY <1>6
    <2> QED
      BY <2>1, <2>2, <1>8, <1>9 DEF NamesUnique
  <1> QED
    BY <1>1, <1>2, <1>3, <1>4, <1>6, <1>8, <1>9, <1>10, <1>12, <1>13, <1>14

(* What a rename replaces, with everything below it.                       *)
Gone(s, t) == {i \in Rows : \E k \in t \ {s} : i \in Below(k)}

(* A rename moves s under e, which is neither below s nor below what it    *)
(* replaces, and takes away nothing else.                                  *)
LEMMA RenameKeepsTree ==
    ASSUME Tree, NEW d, NEW n, NEW e, NEW m \in Names, NEW s \in Found(d, n),
           IsDir(e), KernelAllows(s, Entry(e, m), e),
           tab' = Moved(s, Entry(e, m), e, m), nextIno' = nextIno
    PROVE  Tree' /\ s \in Rows' /\ Rows' = Rows \ Gone(s, Entry(e, m))
  <1> DEFINE t == Entry(e, m)
             D == Gone(s, t)
             row == [tab[s] EXCEPT !.parent = e, !.name = m]
  <1>1. s \in Rows /\ t \subseteq Rows
    BY DEF Found, Entry, Kids
  <1>2. s \notin D
    BY DEF KernelAllows, Gone
  <1>3. e \notin D
    <2>1. \A k \in t : tab[k].parent = e
      BY DEF Entry, Kids
    <2>2. \A k \in t : e \notin Below(k)
      BY <1>1, <2>1, BelowAcyclic DEF Tree
    <2> QED
      BY <2>2 DEF Gone
  <1>4. ClosedBelow(D)
    BY BelowClosed DEF ClosedBelow, Gone
  <1>5. row \in Row /\ row # None /\ row.parent = e /\ row.name = m
        /\ row.dir = tab[s].dir /\ s \in Inos
    <2>1. tab[s] \in Row /\ s \in Inos
      BY <1>1, RowFields DEF Tree
    <2>2. e \in 1 .. MaxIno
      BY NamespaceAssumption, SMT DEF IsDir, Root, Rows, Inos
    <2> QED
      BY <2>1, <2>2, NamespaceAssumption DEF Row
  <1>6. D \subseteq Inos /\ \A i \in Inos : i \in D <=> \E k \in t \ {s} : i \in Below(k)
    BY BelowRows DEF Gone, Rows
  <1>7. tab' = [i \in Inos |-> IF i \in D THEN None ELSE IF i = s THEN row ELSE tab[i]]
    BY <1>6 DEF Moved
  <1>8. tab' \in [Inos -> Row \union {None}] /\ Rows' = Rows \ D
    BY <1>1, <1>2, <1>5, <1>7 DEF Rows, Tree, TableOK
  <1>9. s \in Rows' /\ tab'[s] = row
    BY <1>1, <1>2, <1>5, <1>7, <1>8
  <1>10. \A i \in Rows' : i \in Rows /\ i \notin D /\ (i # s => tab'[i] = tab[i])
    BY <1>7, <1>8 DEF Rows
  <1>11. TableOK'
    BY <1>8 DEF Tree, TableOK
  <1>12. \A x : IsDir(x) /\ x \notin D => IsDir(x)'
    <2> SUFFICES ASSUME NEW x, x \in Rows, tab[x].dir, x \notin D
                 PROVE  x \in Rows' /\ tab'[x].dir
      BY DEF IsDir
    <2> QED
      BY <1>5, <1>8, <1>9, <1>10
  <1>13. Parented'
    <2> SUFFICES ASSUME NEW i \in Rows', NEW p, p = tab'[i].parent
                 PROVE  IsDir(p)'
      BY DEF Parented, IsDir
    <2>1. CASE i = s
      BY <2>1, <1>3, <1>5, <1>9, <1>12
    <2>2. CASE i # s
      <3>1. p = tab[i].parent /\ i \in Rows /\ i \notin D
        BY <2>2, <1>10
      <3>2. IsDir(p) /\ p \notin D
        BY <3>1, <1>4 DEF Tree, Parented, ClosedBelow
      <3> QED
        BY <3>2, <1>12
    <2> QED
      BY <2>1, <2>2
  <1>14. Rooted'
    <2> SUFFICES ASSUME NEW T \in SUBSET Rows', T # {}
                 PROVE  \E i \in T : tab'[i].parent \notin T
      BY DEF Rooted
    <2> DEFINE U == T \ Below(s)
    <2>1. CASE s \in T /\ e \notin T
      BY <2>1, <1>5, <1>9
    <2>2. CASE s \notin T
      <3>1. PICK i \in T : tab[i].parent \notin T
        BY <1>10 DEF Tree, Rooted
      <3> QED
        BY <2>2, <3>1, <1>10
    <2>3. CASE e \in T
      <3>1. U \in SUBSET Rows /\ U # {}
        BY <2>3, <1>10 DEF KernelAllows
      <3>2. PICK i \in U : tab[i].parent \notin U
        BY <3>1 DEF Tree, Rooted
      <3>3. i # s
        BY <3>2, <1>1, BelowSelf
      <3>4. tab[i].parent \notin Below(s)
        BY <3>1, <3>2, BelowClosed DEF ClosedBelow
      <3> QED
        BY <3>2, <3>3, <3>4, <1>10
    <2> QED
      BY <2>1, <2>2, <2>3
  <1>15. NamesUnique'
    <2>1. \A j \in Rows' \ {s} : ~(tab'[j].parent = e /\ tab'[j].name = m)
      <3> SUFFICES ASSUME NEW j \in Rows', j # s,
                          tab[j].parent = e, tab[j].name = m
                   PROVE  FALSE
        BY <1>10
      <3>1. j \in t \ {s} /\ j \in Rows
        BY <1>10 DEF Entry, Kids
      <3> QED
        BY <3>1, <1>10, BelowSelf DEF Gone
    <2>2. tab'[s].parent = e /\ tab'[s].name = m
      BY <1>5, <1>9
    <2> SUFFICES ASSUME NEW i \in Rows', NEW j \in Rows',
                        tab'[i].parent = tab'[j].parent,
                        tab'[i].name = tab'[j].name
                 PROVE  i = j
      BY DEF NamesUnique
    <2> QED
      BY <2>1, <2>2, <1>10 DEF Tree, NamesUnique
  <1> QED
    BY <1>8, <1>9, <1>11, <1>13, <1>14, <1>15 DEF Tree

----------------------------------------------------------------------------
(* The inductive invariant.                                                *)

(* What is open or hidden is, or was, a row, and not of a directory.       *)
FilesHeld == \A i \in fds \union marked : i < nextIno /\ ~IsDir(i)

(* What the delete of an rmdir will take: the directory, hidden files in   *)
(* it, and rows that came since the check.                                 *)
RemovalBounded ==
    req # None => /\ req < nextIno
                  /\ Below(req) \subseteq {req} \union marked \union raced

Inductive == TreeOK /\ FilesHeld /\ HiddenAreOpen /\ RemovalBounded

LEMMA TreeOfOK ==
    ASSUME TreeOK
    PROVE  Tree
  BY DEF TreeOK, NamespaceTypeOK, Tree, TableOK

(* Nothing changes but what the invariant does not depend on.              *)
LEMMA DiskUnchanged ==
    ASSUME Inductive, UNCHANGED disk
    PROVE  /\ Tree' /\ Rows' = Rows /\ FilesHeld' = (\A i \in fds' \union marked' :
                                            i < nextIno /\ ~IsDir(i))
           /\ \A x : Below(x)' = Below(x)
           /\ \A x : IsDir(x)' = IsDir(x)
  <1> USE DEF disk
  <1>1. Tree
    BY TreeOfOK DEF Inductive
  <1>2. Tree'
    BY <1>1 DEF Tree, TableOK, Parented, Rooted, NamesUnique, Rows, IsDir
  <1>3. Rows' = Rows
    BY DEF Rows
  <1>4. \A x : Below(x)' = Below(x)
    BY DEF Below, ClosedBelow, Rows
  <1>5. \A x : IsDir(x)' = IsDir(x)
    BY DEF IsDir, Rows
  <1>6. FilesHeld' = (\A i \in fds' \union marked' : i < nextIno /\ ~IsDir(i))
    BY <1>5 DEF FilesHeld
  <1> QED
    BY <1>2, <1>3, <1>4, <1>5, <1>6

(* The whole invariant after a step, from the tree and the rest.           *)
LEMMA Assemble ==
    ASSUME Tree', FilesHeld', HiddenAreOpen', RemovalBounded',
           (fds \subseteq Inos /\ marked \subseteq Inos /\ raced \subseteq Inos)',
           req' \in Inos \union {None},
           cli' \in [at : 1 .. MaxIno, todo : Seq(Names) \ {<<>>}, dir : BOOLEAN,
                     step : {"lookup", "create"}] \union {None}
    PROVE  Inductive'
  BY DEF Inductive, TreeOK, NamespaceTypeOK, Tree, TableOK

(* A file appears: by mkdir, mknod, symlink, or create, which opens it.    *)
LEMMA CreateStep ==
    ASSUME Inductive, NEW d, NEW n \in Names, NEW dir \in BOOLEAN,
           Insert(d, n, dir), fds' \subseteq fds \union (IF dir THEN {} ELSE {nextIno}),
           fds \subseteq fds', marked' = marked
    PROVE  /\ Tree' /\ FilesHeld' /\ HiddenAreOpen' /\ nextIno \in Inos
           /\ fds' \subseteq Inos /\ Vanished = {}
           /\ \A x : Below(x)' \subseteq Below(x) \union {nextIno}
  <1>1. Tree
    BY TreeOfOK DEF Inductive
  <1>2. /\ Tree' /\ Rows' = Rows \union {nextIno}
        /\ nextIno \in Inos \ Rows /\ nextIno' = nextIno + 1
        /\ \A i \in Rows : tab'[i] = tab[i]
        /\ tab'[nextIno] = [parent |-> d, name |-> n, dir |-> dir]
    BY <1>1, InsertKeepsTree
  <1>3. \A x : IsDir(x)' => IsDir(x) \/ (x = nextIno /\ dir)
    BY <1>2 DEF IsDir
  <1>4. FilesHeld'
    <2> SUFFICES ASSUME NEW i \in fds' \union marked'
                 PROVE  i < nextIno + 1 /\ ~IsDir(i)'
      BY <1>2 DEF FilesHeld
    <2>1. CASE i \in fds \union marked
      <3>1. i < nextIno /\ ~IsDir(i)
        BY <2>1 DEF Inductive, FilesHeld
      <3>2. i \in Inos
        BY <2>1 DEF Inductive, TreeOK, NamespaceTypeOK
      <3> QED
        BY <3>1, <3>2, <1>2, <1>3, NamespaceAssumption, SMT DEF Inos
    <2>2. CASE i = nextIno /\ ~dir
      <3>1. ~IsDir(nextIno)
        BY <1>2, NamespaceAssumption, SMT DEF IsDir, Inos, Root
      <3> QED
        BY <2>2, <3>1, <1>2, <1>3, NamespaceAssumption, SMT DEF Inos
    <2> QED
      BY <2>1, <2>2
  <1>5. HiddenAreOpen'
    BY DEF Inductive, HiddenAreOpen
  <1>6. fds' \subseteq Inos
    BY <1>2 DEF Inductive, TreeOK, NamespaceTypeOK
  <1>7. Vanished = {}
    BY <1>1, <1>2, NamespaceAssumption DEF Vanished, Rows
  <1>8. ASSUME NEW x
        PROVE  Below(x)' \subseteq Below(x) \union {nextIno}
    <2>0. PICK S : S = Below(x) \union {nextIno}
      OBVIOUS
    <2>1. S \in SUBSET Rows'
      BY <2>0, <1>2, BelowRows
    <2>2. {x} \intersect Rows' \subseteq S
      BY <2>0, <1>2, BelowSelf
    <2>3. \A k \in Rows' : tab'[k].parent \in S => k \in S
      <3> SUFFICES ASSUME NEW k \in Rows, tab[k].parent \in S
                   PROVE  k \in S
        BY <2>0, <1>2
      <3>1. tab[k].parent # nextIno
        BY <1>1, <1>2, NamespaceAssumption, SMT DEF Tree, Parented, IsDir, Root, Inos
      <3> QED
        BY <2>0, <3>1, BelowClosed DEF ClosedBelow
    <2> QED
      BY <2>0, <2>1, <2>2, <2>3 DEF Below, ClosedBelow
  <1> QED
    BY <1>2, <1>4, <1>5, <1>6, <1>7, <1>8

(* Rows disappear, by a cascade or a rename.                               *)
LEMMA RemoveStep ==
    ASSUME Inductive, Tree', Rows' \subseteq Rows, nextIno' = nextIno,
           \A i \in Rows' : tab'[i].dir = tab[i].dir,
           fds' \subseteq fds, marked' \subseteq fds' \intersect (fds \union marked),
           \/ req' = None
           \/ /\ req' = req /\ marked' = marked /\ raced' = raced
              /\ \A i \in Rows' : tab'[i] = tab[i]
    PROVE  FilesHeld' /\ HiddenAreOpen' /\ RemovalBounded'
  <1>1. \A x : IsDir(x)' => IsDir(x)
    BY DEF IsDir
  <1>2. FilesHeld' /\ HiddenAreOpen'
    BY <1>1 DEF Inductive, FilesHeld, HiddenAreOpen
  <1>3. CASE req' = None
    BY <1>2, <1>3 DEF RemovalBounded
  <1>4. CASE /\ req' = req /\ marked' = marked /\ raced' = raced
             /\ \A i \in Rows' : tab'[i] = tab[i]
    <2>0. PICK S : S = Below(req) \intersect Rows'
      OBVIOUS
    <2>1. S \in SUBSET Rows' /\ {req} \intersect Rows' \subseteq S
      BY <2>0, BelowSelf
    <2>2. \A k \in Rows' : tab'[k].parent \in S => k \in S
      BY <2>0, <1>4, BelowClosed DEF ClosedBelow
    <2>3. Below(req)' \subseteq S
      BY <2>1, <2>2, <1>4 DEF Below, ClosedBelow
    <2> QED
      BY <2>0, <2>3, <1>2, <1>4 DEF Inductive, RemovalBounded
  <1> QED
    BY <1>3, <1>4

(* A removal of what is below some inode.                                  *)
LEMMA CascadeStep ==
    ASSUME Inductive, NEW k, tab' = Without(Below(k)), nextIno' = nextIno
    PROVE  /\ Tree' /\ Rows' = Rows \ Below(k) /\ Vanished = Below(k)
           /\ \A i \in Rows' : tab'[i] = tab[i]
  <1>1. Tree
    BY TreeOfOK DEF Inductive
  <1>2. Tree' /\ Rows' = Rows \ Below(k)
    BY <1>1, BelowClosed, RemoveKeepsTree
  <1>3. \A i \in Rows' : tab'[i] = tab[i]
    BY <1>2 DEF Without, Rows
  <1>4. Vanished = Below(k)
    BY <1>2, BelowRows DEF Vanished, Rows
  <1> QED
    BY <1>2, <1>3, <1>4

(* A directory that shows no entry holds nothing but hidden files.         *)
LEMMA EmptyBelow ==
    ASSUME Inductive, NEW i, Visible(i) = {}
    PROVE  Below(i) \subseteq {i} \union marked
  <1> DEFINE S == ({i} \union marked) \intersect Rows
  <1>1. ClosedBelow(S)
    <2> SUFFICES ASSUME NEW k \in Rows, tab[k].parent \in S
                 PROVE  k \in S
      BY DEF ClosedBelow
    <2>1. CASE tab[k].parent = i
      BY <2>1 DEF Visible, Kids
    <2>2. CASE tab[k].parent \in marked
      <3>1. IsDir(tab[k].parent)
        BY DEF Inductive, TreeOK, Parented
      <3> QED
        BY <2>2, <3>1 DEF Inductive, FilesHeld
    <2> QED
      BY <2>1, <2>2
  <1> QED
    BY <1>1, BelowLeast

(* Steps that leave the table alone.                                       *)
LEMMA MemoryStep ==
    ASSUME Inductive, UNCHANGED disk,
           fds' \subseteq fds \union {i \in Rows : ~IsDir(i)},
           marked' \subseteq fds' \intersect (fds \union marked),
           \/ req' = None
           \/ /\ marked' = marked /\ raced' = raced
              /\ \/ req' = req
                 \/ req' \in Rows /\ Visible(req') = {}
    PROVE  /\ Tree' /\ FilesHeld' /\ HiddenAreOpen' /\ RemovalBounded'
           /\ fds' \subseteq Inos /\ Vanished = {}
  <1>1. /\ Tree' /\ Rows' = Rows
        /\ FilesHeld' = (\A i \in fds' \union marked' : i < nextIno /\ ~IsDir(i))
        /\ \A x : Below(x)' = Below(x)
    BY DiskUnchanged
  <1>2. \A i \in Rows : i < nextIno /\ i \in Inos
    BY SMT DEF Inductive, TreeOK, NamespaceTypeOK, Rows, Inos
  <1>3. FilesHeld'
    BY <1>1, <1>2 DEF Inductive, FilesHeld
  <1>4. HiddenAreOpen' /\ fds' \subseteq Inos
    BY <1>2 DEF HiddenAreOpen, Inductive, TreeOK, NamespaceTypeOK
  <1>5. RemovalBounded'
    <2>1. CASE req' = None
      BY <2>1 DEF RemovalBounded
    <2>2. CASE req' = req /\ marked' = marked /\ raced' = raced
      BY <2>2, <1>1 DEF Inductive, RemovalBounded, disk
    <2>3. CASE /\ req' \in Rows /\ Visible(req') = {}
               /\ marked' = marked /\ raced' = raced
      <3>1. PICK r : r = req'
        OBVIOUS
      <3>2. Below(r) \subseteq {r} \union marked
        BY <3>1, <2>3, EmptyBelow
      <3> QED
        BY <3>1, <3>2, <2>3, <1>1, <1>2 DEF RemovalBounded, disk
    <2> QED
      BY <2>1, <2>2, <2>3
  <1>6. Vanished = {}
    BY DEF Vanished, Rows, disk
  <1> QED
    BY <1>1, <1>3, <1>4, <1>5, <1>6

----------------------------------------------------------------------------
(* The steps.                                                              *)

(* What LossExplained asks of one step.                                    *)
Explained ==
    \A i \in Vanished :
        \/ i \in marked \union raced \/ i = req
        \/ Vanished = {i} /\ ~IsDir(i) /\ Idle
        \/ \E k \in Replaced : i \in Below(k)

(* A rename keeps the invariant, and what it replaces explains its loss.   *)
LEMMA RenameStep ==
    ASSUME Inductive, NEW d, NEW n, NEW e, NEW m \in Names, Rename(d, n, e, m)
    PROVE  Inductive' /\ Explained
  <1>1. PICK s \in Found(d, n) : /\ KernelAllows(s, Entry(e, m), e)
                                 /\ tab' = Moved(s, Entry(e, m), e, m)
    BY DEF Rename
  <1>2. IsDir(e) /\ Idle /\ UNCHANGED <<nextIno, memory, req, cli, raced>>
    BY DEF Rename
  <1>3. Tree
    BY TreeOfOK DEF Inductive
  <1>4. /\ Tree' /\ s \in Rows' /\ Rows' = Rows \ Gone(s, Entry(e, m))
    BY <1>1, <1>2, <1>3, RenameKeepsTree
  <1>5. \A i \in Rows' : i # s => tab'[i] = tab[i]
    BY <1>1, <1>4 DEF Rows, Moved
  <1>6. s \in Inos /\ tab'[s] = [tab[s] EXCEPT !.parent = e, !.name = m]
    BY <1>1, <1>4 DEF Rows, Moved
  <1>7. tab[s] \in Row
    BY <1>3, <1>4, RowFields DEF Tree
  <1>8. tab'[s].parent = e /\ tab'[s].name = m /\ tab'[s].dir = tab[s].dir
    BY <1>6, <1>7 DEF Row
  <1>9. \A i \in Rows' : tab'[i].dir = tab[i].dir
    BY <1>5, <1>8
  <1>10. fds' = fds /\ marked' = marked /\ req' = None /\ raced' = raced
    BY <1>2 DEF memory, Idle
  <1>11. FilesHeld' /\ HiddenAreOpen' /\ RemovalBounded'
    BY <1>2, <1>4, <1>9, <1>10, RemoveStep DEF Inductive, HiddenAreOpen
  <1>12. Inductive'
    BY <1>2, <1>4, <1>10, <1>11, Assemble DEF Inductive, TreeOK, NamespaceTypeOK
  <1>13. Explained
    <2> SUFFICES ASSUME NEW i \in Vanished
                 PROVE  \E k \in Replaced : i \in Below(k)
      BY DEF Explained
    <2>1. i \in Gone(s, Entry(e, m))
      BY <1>4 DEF Vanished, Rows
    <2>2. PICK k \in Entry(e, m) \ {s} : i \in Below(k)
      BY <2>1 DEF Gone
    <2>3. k \in Rows /\ tab[k].parent = e /\ tab[k].name = m
      BY <2>2 DEF Entry, Kids
    <2>4. k \in Vanished
      BY <2>2, <2>3, <1>4, BelowSelf DEF Gone, Vanished, Rows
    <2>5. s \in Rows \ Vanished
      BY <1>4 DEF Vanished, Rows
    <2>6. k \in Replaced
      BY <2>3, <2>4, <2>5, <1>8 DEF Replaced
    <2> QED
      BY <2>2, <2>6
  <1> QED
    BY <1>12, <1>13

(* The requests of the mount that change entries.                          *)
LEMMA ChangesStep ==
    ASSUME Inductive, Changes
    PROVE  Inductive' /\ Explained
  <1> USE DEF memory
  <1>0. /\ fds \subseteq Inos /\ marked \subseteq Inos /\ raced \subseteq Inos
        /\ req \in Inos \union {None}
        /\ cli \in [at : 1 .. MaxIno, todo : Seq(Names) \ {<<>>}, dir : BOOLEAN,
                    step : {"lookup", "create"}] \union {None}
    BY DEF Inductive, TreeOK, NamespaceTypeOK
  <1>a. Tree
    BY TreeOfOK DEF Inductive
  <1>1. ASSUME NEW d, NEW n \in Names, Mkdir(d, n)
        PROVE  Inductive' /\ Explained
    <2>1. /\ Insert(d, n, TRUE) /\ fds' = fds /\ marked' = marked
          /\ req' = None /\ cli' = cli /\ raced' = raced
      BY <1>1 DEF Mkdir, Idle
    <2>2. /\ Tree' /\ FilesHeld' /\ HiddenAreOpen' /\ Vanished = {}
      BY <2>1, CreateStep
    <2>3. RemovalBounded'
      BY <2>1 DEF RemovalBounded
    <2> QED
      BY <1>0, <2>1, <2>2, <2>3, Assemble DEF Explained
  <1>2. ASSUME NEW d, NEW n \in Names, Mknod(d, n) \/ Symlink(d, n)
        PROVE  Inductive' /\ Explained
    <2>1. /\ Insert(d, n, FALSE) /\ fds' = fds /\ marked' = marked
          /\ req' = None /\ cli' = cli /\ raced' = raced
      BY <1>2 DEF Mknod, Symlink, Idle
    <2>2. /\ Tree' /\ FilesHeld' /\ HiddenAreOpen' /\ Vanished = {}
      BY <2>1, CreateStep
    <2>3. RemovalBounded'
      BY <2>1 DEF RemovalBounded
    <2> QED
      BY <1>0, <2>1, <2>2, <2>3, Assemble DEF Explained
  <1>3. ASSUME NEW d, NEW n \in Names, Create(d, n)
        PROVE  Inductive' /\ Explained
    <2>1. /\ Insert(d, n, FALSE) /\ fds' = fds \union {nextIno} /\ marked' = marked
          /\ req' = None /\ cli' = cli /\ raced' = raced
      BY <1>3 DEF Create, Idle
    <2>2. /\ Tree' /\ FilesHeld' /\ HiddenAreOpen' /\ Vanished = {}
          /\ fds' \subseteq Inos
      BY <2>1, CreateStep
    <2>3. RemovalBounded'
      BY <2>1 DEF RemovalBounded
    <2> QED
      BY <1>0, <2>1, <2>2, <2>3, Assemble DEF Explained
  <1>4. ASSUME NEW d, NEW n \in Names, Unlink(d, n)
        PROVE  Inductive' /\ Explained
    <2>1. PICK i \in Found(d, n) :
            /\ ~IsDir(i)
            /\ \/ i \notin fds /\ tab' = Without(Below(i)) /\ UNCHANGED marked
               \/ i \in fds /\ marked' = marked \union {i} /\ UNCHANGED tab
      BY <1>4 DEF Unlink
    <2>2. /\ nextIno' = nextIno /\ fds' = fds /\ req = None /\ req' = None
          /\ cli' = cli /\ raced' = raced
      BY <1>4 DEF Unlink, Idle
    <2>3. i \in Rows
      BY <2>1 DEF Found, Entry, Kids
    <2>4. CASE tab' = Without(Below(i)) /\ marked' = marked
      <3>1. /\ Tree' /\ Rows' = Rows \ Below(i) /\ Vanished = Below(i)
            /\ \A j \in Rows' : tab'[j] = tab[j]
        BY <2>2, <2>4, CascadeStep
      <3>2. FilesHeld' /\ HiddenAreOpen' /\ RemovalBounded'
        BY <2>2, <2>4, <3>1, RemoveStep DEF Inductive, HiddenAreOpen
      <3>3. Below(i) = {i}
        BY <2>1, <2>3, <1>a, BelowFile, BelowSelf DEF Tree
      <3>4. Explained
        BY <2>1, <2>2, <3>1, <3>3 DEF Explained, Idle
      <3> QED
        BY <1>0, <2>2, <2>4, <3>1, <3>2, <3>4, Assemble
    <2>5. CASE i \in fds /\ marked' = marked \union {i} /\ tab' = tab
      <3>1. marked' \subseteq fds' \intersect (fds \union marked)
        BY <2>2, <2>5 DEF Inductive, HiddenAreOpen
      <3>2. /\ Tree' /\ FilesHeld' /\ HiddenAreOpen' /\ RemovalBounded'
            /\ Vanished = {} /\ fds' \subseteq Inos
        BY <2>2, <2>5, <3>1, MemoryStep DEF disk
      <3>3. marked' \subseteq Inos
        BY <1>0, <3>1, <3>2
      <3> QED
        BY <1>0, <2>2, <3>2, <3>3, Assemble DEF Explained
    <2> QED
      BY <2>1, <2>4, <2>5
  <1>5. ASSUME NEW d, NEW n \in Names, RmdirCheck(d, n)
        PROVE  Inductive' /\ Explained
    <2>1. PICK i \in Found(d, n) : Removable(i) /\ req' = i
      BY <1>5 DEF RmdirCheck
    <2>2. /\ UNCHANGED disk /\ fds' = fds /\ marked' = marked
          /\ cli' = cli /\ raced' = raced
      BY <1>5 DEF RmdirCheck
    <2>3. req' \in Rows /\ Visible(req') = {} /\ req' \in Inos
      BY <2>1 DEF Removable, Found, Entry, Kids, Rows
    <2>4. /\ Tree' /\ FilesHeld' /\ HiddenAreOpen' /\ RemovalBounded'
          /\ Vanished = {}
      BY <2>2, <2>3, MemoryStep DEF Inductive, HiddenAreOpen
    <2> QED
      BY <1>0, <2>2, <2>3, <2>4, Assemble DEF Explained
  <1>6. ASSUME NEW d, NEW n \in Names, NEW e, NEW m \in Names, Rename(d, n, e, m)
        PROVE  Inductive' /\ Explained
    BY <1>6, RenameStep
  <1>7. ASSUME RmdirDelete
        PROVE  Inductive' /\ Explained
    <2>1. /\ req # None /\ req' = None /\ raced' = {} /\ nextIno' = nextIno
          /\ fds' = fds /\ marked' = marked /\ cli' = cli
          /\ tab' = tab \/ tab' = Without(Below(req))
      BY <1>7 DEF RmdirDelete
    <2>2. CASE tab' = Without(Below(req))
      <3>1. /\ Tree' /\ Rows' = Rows \ Below(req) /\ Vanished = Below(req)
            /\ \A j \in Rows' : tab'[j] = tab[j]
        BY <2>1, <2>2, CascadeStep
      <3>2. FilesHeld' /\ HiddenAreOpen' /\ RemovalBounded'
        BY <2>1, <3>1, RemoveStep DEF Inductive, HiddenAreOpen
      <3>3. Explained
        BY <2>1, <3>1 DEF Explained, Inductive, RemovalBounded
      <3> QED
        BY <1>0, <2>1, <3>1, <3>2, <3>3, Assemble
    <2>3. CASE tab' = tab
      <3>1. /\ Tree' /\ FilesHeld' /\ HiddenAreOpen' /\ RemovalBounded'
            /\ Vanished = {}
        BY <2>1, <2>3, MemoryStep DEF disk, Inductive, HiddenAreOpen
      <3> QED
        BY <1>0, <2>1, <3>1, Assemble DEF Explained
    <2> QED
      BY <2>1, <2>2, <2>3
  <1>8. ASSUME NEW i \in Inos, Open(i)
        PROVE  Inductive' /\ Explained
    <2>1. /\ UNCHANGED disk /\ fds' = fds \union {i} /\ marked' = marked
          /\ i \in Rows /\ ~IsDir(i)
          /\ req' = None /\ cli' = cli /\ raced' = raced
      BY <1>8 DEF Open, Idle
    <2>2. /\ Tree' /\ FilesHeld' /\ HiddenAreOpen' /\ RemovalBounded'
          /\ Vanished = {} /\ fds' \subseteq Inos
      BY <2>1, MemoryStep DEF Inductive, HiddenAreOpen
    <2> QED
      BY <1>0, <2>1, <2>2, Assemble DEF Explained
  <1>9. ASSUME NEW i \in Inos, Release(i)
        PROVE  Inductive' /\ Explained
    <2>1. /\ i \in fds /\ fds' = fds \ {i} /\ marked' = marked \ {i}
          /\ nextIno' = nextIno /\ req' = None /\ cli' = cli /\ raced' = raced
          /\ tab' = IF i \in marked THEN Without(Below(i)) ELSE tab
      BY <1>9 DEF Release, Idle
    <2>2. marked' \subseteq fds' \intersect (fds \union marked)
      BY <2>1 DEF Inductive, HiddenAreOpen
    <2>3. CASE i \in marked
      <3>1. /\ Tree' /\ Rows' = Rows \ Below(i) /\ Vanished = Below(i)
            /\ \A j \in Rows' : tab'[j] = tab[j]
        BY <2>1, <2>3, CascadeStep
      <3>2. FilesHeld' /\ HiddenAreOpen' /\ RemovalBounded'
        BY <2>1, <2>2, <3>1, RemoveStep
      <3>3. Below(i) \subseteq {i}
        BY <2>3, <1>a, BelowFile DEF Tree, Inductive, FilesHeld
      <3>4. Explained
        BY <2>3, <3>1, <3>3 DEF Explained
      <3> QED
        BY <1>0, <2>1, <3>1, <3>2, <3>4, Assemble
    <2>4. CASE i \notin marked
      <3>1. /\ Tree' /\ FilesHeld' /\ HiddenAreOpen' /\ RemovalBounded'
            /\ Vanished = {}
        BY <2>1, <2>2, <2>4, MemoryStep DEF disk
      <3> QED
        BY <1>0, <2>1, <3>1, Assemble DEF Explained
    <2> QED
      BY <2>3, <2>4
  <1> QED
    BY <1>1, <1>2, <1>3, <1>4, <1>5, <1>6, <1>7, <1>8, <1>9 DEF Changes

(* One segment of the walk of import: the next one is typed as this one.   *)
LEMMA EnterType ==
    ASSUME Inductive, cli # None, NEW i \in 1 .. MaxIno
    PROVE  Enter(i) \in [at : 1 .. MaxIno, todo : Seq(Names) \ {<<>>}, dir : BOOLEAN,
                         step : {"lookup", "create"}] \union {None}
  <1>1. /\ cli.at \in 1 .. MaxIno /\ cli.todo \in Seq(Names) \ {<<>>}
        /\ cli.dir \in BOOLEAN
        /\ cli \in [at : 1 .. MaxIno, todo : Seq(Names) \ {<<>>}, dir : BOOLEAN,
                    step : {"lookup", "create"}]
    BY DEF Inductive, TreeOK, NamespaceTypeOK
  <1>2. CASE ~Final
    <2>0. PICK q \in Seq(Names) : q = cli.todo /\ q # <<>> /\ Len(q) # 1
      BY <1>1, <1>2 DEF Final
    <2>1. Tail(cli.todo) \in Seq(Names) /\ Tail(cli.todo) # <<>>
      <3>1. Len(q) \in Nat /\ Len(q) > 0 /\ Tail(q) \in Seq(Names)
        BY <2>0
      <3>2. Len(Tail(q)) = Len(q) - 1
        BY <2>0, <3>1
      <3>3. Len(Tail(q)) # 0
        BY <2>0, <3>1, <3>2
      <3> QED
        BY <2>0, <3>1, <3>3
    <2> QED
      BY <1>1, <1>2, <2>1 DEF Enter
  <1>3. CASE Final
    BY <1>3 DEF Enter
  <1> QED
    BY <1>2, <1>3

(* Import inserts a row, or not: below a directory that rmdir is about to  *)
(* delete, the row is remembered.                                          *)
LEMMA ImportStep ==
    ASSUME Inductive, ImportCreate
    PROVE  Inductive' /\ Explained
  <1> USE DEF memory
  <1>0. /\ fds \subseteq Inos /\ marked \subseteq Inos /\ raced \subseteq Inos
        /\ req \in Inos \union {None}
    BY DEF Inductive, TreeOK, NamespaceTypeOK
  <1>1. /\ cli # None /\ cli.at \in 1 .. MaxIno /\ cli.dir \in BOOLEAN
        /\ Head(cli.todo) \in Names
    BY DEF Inductive, TreeOK, NamespaceTypeOK, ImportCreate
  <1>2. fds' = fds /\ marked' = marked /\ req' = req
    BY DEF ImportCreate
  <1>3. CASE /\ Insert(cli.at, Head(cli.todo), ~Final \/ cli.dir)
             /\ cli' = Enter(nextIno)
             /\ raced' = IF UnderRemoval(cli.at) THEN raced \union {nextIno} ELSE raced
    <2>1. PICK d \in 1 .. MaxIno, n \in Names : d = cli.at /\ n = Head(cli.todo)
      BY <1>1
    <2>2. PICK dir \in BOOLEAN : Insert(d, n, dir)
      <3>1. (~Final \/ cli.dir) \in BOOLEAN
        OBVIOUS
      <3>2. Insert(d, n, ~Final \/ cli.dir)
        BY <1>3, <2>1, Zenon
      <3> QED
        BY <3>1, <3>2, Zenon
    <2>3. /\ Tree' /\ FilesHeld' /\ HiddenAreOpen' /\ Vanished = {}
          /\ nextIno \in Inos
          /\ Below(req)' \subseteq Below(req) \union {nextIno}
      <3>1. fds' \subseteq fds \union (IF dir THEN {} ELSE {nextIno}) /\ fds \subseteq fds'
        BY <1>2
      <3> QED
        BY <3>1, <2>2, <1>2, CreateStep
    <2>4. /\ Rows' = Rows \union {nextIno} /\ nextIno' = nextIno + 1
          /\ nextIno \notin Rows
          /\ \A i \in Rows : tab'[i] = tab[i]
          /\ tab'[nextIno] = [parent |-> d, name |-> n, dir |-> dir]
      BY <2>2, InsertKeepsTree, TreeOfOK DEF Inductive
    <2>5. RemovalBounded'
      <3> SUFFICES ASSUME req # None
                   PROVE  /\ req < nextIno + 1
                          /\ Below(req)' \subseteq {req} \union marked \union raced'
        BY <1>2, <2>4 DEF RemovalBounded
      <3>1. req < nextIno /\ req \in Inos
        BY <1>0 DEF Inductive, RemovalBounded
      <3>2. req < nextIno + 1 /\ req # nextIno
        BY <3>1, <2>3, NamespaceAssumption, SMT DEF Inos
      <3>3. Below(req) \subseteq {req} \union marked \union raced
        BY DEF Inductive, RemovalBounded
      <3>4. CASE UnderRemoval(cli.at)
        BY <3>2, <3>3, <3>4, <1>3, <2>3
      <3>5. CASE ~UnderRemoval(cli.at)
        <4>1. d \notin Below(req)
          BY <3>5, <2>1 DEF UnderRemoval
        <4>2. PICK S : S = Below(req)
          OBVIOUS
        <4>3. S \in SUBSET Rows' /\ {req} \intersect Rows' \subseteq S
          BY <4>2, <3>2, <2>4, BelowRows, BelowSelf
        <4>4. \A k \in Rows' : tab'[k].parent \in S => k \in S
          BY <4>1, <4>2, <2>4, BelowClosed DEF ClosedBelow
        <4>5. Below(req)' \subseteq S
          BY <4>3, <4>4, <1>2 DEF Below, ClosedBelow
        <4> QED
          BY <4>2, <4>5, <3>2, <3>3, <3>5, <1>3
      <3> QED
        BY <3>4, <3>5
    <2>6. raced' \subseteq Inos
      BY <1>0, <1>3, <2>3
    <2>7. nextIno \in 1 .. MaxIno
      BY <2>3, SMT DEF Inos
    <2>8. cli' \in [at : 1 .. MaxIno, todo : Seq(Names) \ {<<>>}, dir : BOOLEAN,
                    step : {"lookup", "create"}] \union {None}
      BY <1>1, <1>3, <2>7, EnterType
    <2> QED
      BY <1>0, <1>2, <2>3, <2>5, <2>6, <2>8, Assemble DEF Explained
  <1>4. CASE cli' = None /\ UNCHANGED <<disk, raced>>
    <2>0. UNCHANGED disk /\ raced' = raced
      BY <1>4
    <2>1. /\ Tree' /\ FilesHeld' /\ HiddenAreOpen' /\ RemovalBounded'
          /\ Vanished = {} /\ fds' \subseteq Inos
      BY <1>2, <2>0, MemoryStep DEF Inductive, HiddenAreOpen
    <2> QED
      BY <1>0, <1>2, <1>4, <2>1, Assemble DEF Explained
  <1> QED
    BY <1>3, <1>4 DEF ImportCreate

LEMMA InductiveInit ==
    ASSUME Init
    PROVE  Inductive
  <1> USE DEF Init
  <1>1. Rows = {}
    BY DEF Rows
  <1>2. NamespaceTypeOK
    BY <1>1, NamespaceAssumption, SMT DEF NamespaceTypeOK, Inos
  <1> QED
    BY <1>1, <1>2 DEF Inductive, TreeOK, Parented, Rooted, NamesUnique, FilesHeld,
                      HiddenAreOpen, RemovalBounded

(* Every step keeps the invariant and explains what it loses.              *)
LEMMA InductiveNext ==
    ASSUME Inductive, [Next]_vars
    PROVE  Inductive' /\ Explained
  <1> USE DEF memory
  <1>0. /\ fds \subseteq Inos /\ marked \subseteq Inos /\ raced \subseteq Inos
        /\ req \in Inos \union {None}
        /\ cli \in [at : 1 .. MaxIno, todo : Seq(Names) \ {<<>>}, dir : BOOLEAN,
                    step : {"lookup", "create"}] \union {None}
    BY DEF Inductive, TreeOK, NamespaceTypeOK
  <1>1. ASSUME UNCHANGED <<disk, memory, req, raced>>,
               cli' \in [at : 1 .. MaxIno, todo : Seq(Names) \ {<<>>}, dir : BOOLEAN,
                         step : {"lookup", "create"}] \union {None}
        PROVE  Inductive' /\ Explained
    <2>0. /\ UNCHANGED disk /\ fds' = fds /\ marked' = marked /\ req' = req
          /\ raced' = raced
      BY <1>1
    <2>1. /\ Tree' /\ FilesHeld' /\ HiddenAreOpen' /\ RemovalBounded'
          /\ Vanished = {}
      BY <2>0, MemoryStep DEF Inductive, HiddenAreOpen
    <2> QED
      BY <1>0, <1>1, <2>1, Assemble DEF Explained
  <1>2. CASE Changes
    BY <1>2, ChangesStep
  <1>3. CASE (\E d \in 1 .. MaxIno : ListBegin(d)) \/ ListPage \/ ListEnd \/ UNCHANGED vars
    BY <1>0, <1>1, <1>3 DEF ListBegin, ListPage, ListEnd, vars
  <1>4. CASE Crash
    <2>1. /\ UNCHANGED disk /\ fds' = {} /\ marked' = {} /\ req' = None
          /\ raced' = {} /\ cli' = cli
      BY <1>4 DEF Crash
    <2>2. /\ Tree' /\ FilesHeld' /\ HiddenAreOpen' /\ RemovalBounded'
          /\ Vanished = {}
      BY <2>1, MemoryStep
    <2> QED
      BY <1>0, <2>1, <2>2, Assemble DEF Explained
  <1>5. ASSUME NEW dir \in BOOLEAN, ImportBegin(dir)
        PROVE  Inductive' /\ Explained
    <2>1. cli' \in [at : 1 .. MaxIno, todo : Seq(Names) \ {<<>>}, dir : BOOLEAN,
                    step : {"lookup", "create"}]
      BY <1>5, NamespaceAssumption, SMT DEF ImportBegin, Root
    <2> QED
      BY <1>1, <1>5, <2>1 DEF ImportBegin
  <1>6. CASE ImportLookup
    <2>1. UNCHANGED <<disk, memory, req, raced>> /\ cli # None
      BY <1>6 DEF ImportLookup
    <2>2. \/ \E i \in Rows : cli' = Enter(i)
          \/ cli' = None
          \/ cli' = [cli EXCEPT !.step = "create"]
      BY <1>6 DEF ImportLookup, Entry, Kids
    <2>3. \A i \in Rows : i \in 1 .. MaxIno
      BY SMT DEF Rows, Inos
    <2>4. cli' \in [at : 1 .. MaxIno, todo : Seq(Names) \ {<<>>}, dir : BOOLEAN,
                    step : {"lookup", "create"}] \union {None}
      <3>1. CASE \E i \in Rows : cli' = Enter(i)
        BY <3>1, <2>1, <2>3, EnterType
      <3>2. CASE cli' = [cli EXCEPT !.step = "create"]
        BY <3>2, <2>1, <1>0
      <3> QED
        BY <3>1, <3>2, <2>2
    <2> QED
      BY <1>1, <2>1, <2>4
  <1>7. CASE ImportCreate
    BY <1>7, ImportStep
  <1> QED
    BY <1>2, <1>3, <1>4, <1>5, <1>6, <1>7 DEF Next, Requests

(* The table of inodes is a tree with unique names, whatever the mount and *)
(* import do to it and wherever the daemon is killed.                      *)
THEOREM TreeAlways == Spec => []TreeOK
  <1>1. Init => Inductive
    BY InductiveInit
  <1>2. Inductive /\ [Next]_vars => Inductive'
    BY InductiveNext
  <1>3. Inductive => TreeOK
    BY DEF Inductive
  <1> QED
    BY <1>1, <1>2, <1>3, PTL DEF Spec

(* A name is hidden only while the file behind it is open: no delete that  *)
(* was delayed to the last close is forgotten while the mount lives.       *)
THEOREM HiddenAlwaysOpen == Spec => []HiddenAreOpen
  <1>1. Init => Inductive
    BY InductiveInit
  <1>2. Inductive /\ [Next]_vars => Inductive'
    BY InductiveNext
  <1>3. Inductive => HiddenAreOpen
    BY DEF Inductive
  <1> QED
    BY <1>1, <1>2, <1>3, PTL DEF Spec

(* No row disappears but as the file unlinked, the directory removed or a  *)
(* row import put below it in between, or with what a rename replaced.     *)
THEOREM LossAlwaysExplained == Spec => LossExplained
  <1>1. Init => Inductive
    BY InductiveInit
  <1>2. Inductive /\ [Next]_vars => Inductive'
    BY InductiveNext
  <1>3. Inductive /\ [Next]_vars => [Explained]_vars
    BY InductiveNext
  <1>4. [][Explained]_vars => LossExplained
    BY PTL DEF Explained, LossExplained
  <1> QED
    BY <1>1, <1>2, <1>3, <1>4, PTL DEF Spec

----------------------------------------------------------------------------
(* The place of an entry in the order a listing follows: how many entries  *)
(* there are up to it.                                                     *)
Place(S, i) == Cardinality({j \in S : j <= i})

LEMMA PlaceBounds ==
    ASSUME NEW S \in SUBSET Nat, IsFiniteSet(S), NEW i \in S
    PROVE  Place(S, i) \in 1 .. Cardinality(S)
  <1> DEFINE T == {j \in S : j <= i}
  <1>1. T \in SUBSET S /\ i \in T
    OBVIOUS
  <1>2. /\ IsFiniteSet(T) /\ Cardinality(T) <= Cardinality(S)
        /\ Cardinality(T) \in Nat /\ Cardinality(S) \in Nat
    BY <1>1, FS_Subset, FS_CardinalityType
  <1>3. Cardinality(T) # 0
    BY <1>1, <1>2, FS_EmptySet
  <1>4. Cardinality(T) \in 1 .. Cardinality(S)
    BY <1>2, <1>3
  <1> QED
    BY <1>4 DEF Place

LEMMA PlaceStrict ==
    ASSUME NEW S \in SUBSET Nat, IsFiniteSet(S), NEW i \in S, NEW k \in S, i < k
    PROVE  Place(S, i) < Place(S, k)
  <1> DEFINE T == {j \in S : j <= i}
             U == {j \in S : j <= k}
  <1>1. /\ \A j \in S : j <= i => j <= k
        /\ k <= k /\ ~(k <= i)
    OBVIOUS
  <1>a. T \in SUBSET U /\ k \in U /\ k \notin T /\ U \in SUBSET S
    BY <1>1, Zenon
  <1>2. IsFiniteSet(U)
    BY <1>a, FS_Subset
  <1>3. /\ IsFiniteSet(T) /\ Cardinality(T) <= Cardinality(U)
        /\ Cardinality(T) # Cardinality(U)
    BY <1>a, <1>2, FS_Subset
  <1>4. Cardinality(T) \in Nat /\ Cardinality(U) \in Nat
    BY <1>2, <1>3, FS_CardinalityType
  <1>5. Cardinality(T) < Cardinality(U)
    BY <1>3, <1>4
  <1> QED
    BY <1>5 DEF Place

(* No two entries have one place.                                          *)
LEMMA PlaceUnique ==
    ASSUME NEW S \in SUBSET Nat, IsFiniteSet(S), NEW i \in S, NEW k \in S,
           Place(S, i) = Place(S, k)
    PROVE  i = k
  <1>1. Place(S, i) \in Nat /\ Place(S, k) \in Nat
    BY PlaceBounds, FS_CardinalityType
  <1>2. ~(i < k) /\ ~(k < i)
    BY <1>1, PlaceStrict
  <1> QED
    BY <1>2

(* Every place up to the last is taken.                                    *)
LEMMA PlaceTaken ==
    ASSUME NEW S \in SUBSET Nat, IsFiniteSet(S), NEW n \in 1 .. Cardinality(S)
    PROVE  \E i \in S : Place(S, i) = n
  <1> DEFINE N == 1 .. Cardinality(S)
             f == [i \in S |-> Place(S, i)]
  <1>1. f \in [S -> N]
    BY PlaceBounds
  <1>2. \A i, k \in S : f[i] = f[k] => i = k
    BY PlaceUnique
  <1>3. f \in Injection(S, N)
    BY <1>1, <1>2 DEF Injection, IsInjective
  <1>4. Cardinality(S) \in Nat
    BY FS_CardinalityType
  <1>5. IsFiniteSet(N) /\ Cardinality(N) = Cardinality(S)
    BY <1>4, FS_Interval
  <1>6. f \in Surjection(S, N)
    BY <1>3, <1>5, FS_Injection
  <1>7. \E i \in S : f[i] = n
    BY <1>6 DEF Surjection
  <1> QED
    BY <1>7

(* A listing in order has each entry at its place.                         *)
LEMMA InOrderPlace ==
    ASSUME NEW S \in SUBSET Nat, IsFiniteSet(S), NEW n \in 1 .. Cardinality(S)
    PROVE  InOrder(S)[n] \in S /\ Place(S, InOrder(S)[n]) = n
  <1>1. \E i \in S : Cardinality({j \in S : j <= i}) = n
    BY PlaceTaken DEF Place
  <1>2. InOrder(S)[n] = CHOOSE i \in S : Cardinality({j \in S : j <= i}) = n
    BY DEF InOrder
  <1> QED
    BY <1>1, <1>2 DEF Place

LEMMA InOrderSeq ==
    ASSUME NEW S \in SUBSET Nat, IsFiniteSet(S)
    PROVE  /\ InOrder(S) \in Seq(S) /\ Len(InOrder(S)) = Cardinality(S)
           /\ Cardinality(S) \in Nat
  <1> DEFINE c == Cardinality(S)
  <1>1. c \in Nat
    BY FS_CardinalityType
  <1>2. InOrder(S) \in [1 .. c -> S]
    <2>1. \A n \in 1 .. c : InOrder(S)[n] \in S
      BY InOrderPlace
    <2> QED
      BY <2>1 DEF InOrder
  <1>3. InOrder(S) \in Seq(S)
    BY <1>1, <1>2, SeqDef
  <1>4. 1 .. Len(InOrder(S)) = 1 .. c /\ Len(InOrder(S)) \in Nat
    BY <1>2, <1>3, LenProperties
  <1>5. Len(InOrder(S)) = c
    BY <1>1, <1>4
  <1> QED
    BY <1>1, <1>3, <1>5

----------------------------------------------------------------------------
(* Listings: what was returned are the first entries of the directory, in  *)
(* order, whatever was created in it since.                                *)
Listings == [dir : 1 .. MaxIno, limit : 2 .. MaxIno + 1, seen : Seq(Inos),
             done : BOOLEAN]

ListingFits(x) ==
    /\ x \in Listings
    /\ x.limit <= nextIno
    /\ \A k \in DOMAIN x.seen : /\ x.seen[k] \in Visible(x.dir)
                                /\ Place(Visible(x.dir), x.seen[k]) = k
    /\ x.done => \A i \in Visible(x.dir) :
            i < x.limit => \E n \in DOMAIN x.seen : x.seen[n] = i

ListingInOrder == list # None => ListingFits(list)

LEMMA VisibleFinite ==
    ASSUME NEW d
    PROVE  /\ Visible(d) \subseteq Inos /\ Visible(d) \in SUBSET Nat
           /\ IsFiniteSet(Visible(d))
  <1>1. Inos \in SUBSET Nat /\ IsFiniteSet(Inos)
    BY NamespaceAssumption, FS_Interval DEF Inos
  <1>2. Visible(d) \subseteq Inos
    BY DEF Visible, Kids, Rows
  <1> QED
    BY <1>1, <1>2, FS_Subset

LEMMA InitialListing ==
    ASSUME Init
    PROVE  ListingInOrder
  BY DEF Init, ListingInOrder

(* What was returned stays the beginning when entries with higher numbers  *)
(* join.                                                                   *)
LEMMA ListingKept ==
    ASSUME TableOK, NEW x, ListingFits(x), nextIno' \in Nat, nextIno' >= nextIno,
           Visible(x.dir) \subseteq Visible(x.dir)',
           \A i \in Visible(x.dir)' \ Visible(x.dir) : i >= nextIno
    PROVE  ListingFits(x)'
  <1> DEFINE d == x.dir
             V == Visible(d)
             W == Visible(d)'
  <1>1. x \in Listings /\ x.limit \in Nat /\ x.seen \in Seq(Inos)
    BY NamespaceAssumption DEF ListingFits, Listings
  <1>2. nextIno \in Nat /\ x.limit <= nextIno
    BY NamespaceAssumption DEF TableOK, ListingFits
  <1>3. \A i \in V : i \in Rows /\ i \in Nat /\ i < nextIno
    BY <1>2 DEF Visible, Kids, TableOK
  <1>4. \A i \in W : i \in Nat
    BY NamespaceAssumption DEF Visible, Kids, Rows, Inos
  <1>5. \A i \in V : {j \in W : j <= i} = {j \in V : j <= i}
    <2> SUFFICES ASSUME NEW i \in V, NEW j \in W, j <= i
                 PROVE  j \in V
      OBVIOUS
    <2>1. i < nextIno /\ i \in Nat /\ j \in Nat
      BY <1>3, <1>4
    <2>2. ~(j >= nextIno)
      BY <2>1, <1>2
    <2> QED
      BY <2>2
  <1>6. \A k \in DOMAIN x.seen : x.seen[k] \in V /\ Place(V, x.seen[k]) = k
    BY DEF ListingFits
  <1>7. \A k \in DOMAIN x.seen : x.seen[k] \in W /\ Place(W, x.seen[k]) = k
    BY <1>5, <1>6 DEF Place
  <1>8. ASSUME x.done, NEW i \in W, i < x.limit
        PROVE  \E n \in DOMAIN x.seen : x.seen[n] = i
    <2>1. i < nextIno /\ i \in Nat
      BY <1>8, <1>1, <1>2, <1>4
    <2>2. i \in V
      BY <2>1, <1>2
    <2> QED
      BY <1>8, <2>2 DEF ListingFits
  <1>9. x.limit <= nextIno'
    BY <1>1, <1>2
  <1> QED
    BY <1>1, <1>7, <1>8, <1>9 DEF ListingFits, Place

(* Steps of others: the listing is given up, or the directory gained new   *)
(* rows at most.                                                           *)
LEMMA WatchedStep ==
    ASSUME TableOK, ListingInOrder, Watched, nextIno' \in Nat, nextIno' >= nextIno
    PROVE  ListingInOrder'
  <1> SUFFICES ASSUME list # None, ~Shifts, list' = list
               PROVE  ListingInOrder'
    BY DEF Watched, ListingInOrder
  <1>1. PICK x : x = list
    OBVIOUS
  <1>2. ListingFits(x)
    BY <1>1 DEF ListingInOrder
  <1>3. \A i : i \in Visible(x.dir)' <=>
                i \in {j \in Inos \ marked' : tab'[j] # None /\ tab'[j].parent = x.dir}
    BY DEF Visible, Kids, Rows
  <1>4. Visible(x.dir) \subseteq Visible(x.dir)'
    BY <1>1, <1>3 DEF Shifts
  <1>5. \A i \in Visible(x.dir)' \ Visible(x.dir) : i \notin 2 .. nextIno - 1
    BY <1>1, <1>3 DEF Shifts
  <1>6. \A i \in Visible(x.dir)' : i \in Inos
    BY <1>3
  <1>7. \A i \in Visible(x.dir)' \ Visible(x.dir) : i >= nextIno
    BY <1>5, <1>6, NamespaceAssumption DEF TableOK, Inos
  <1>8. ListingFits(x)'
    BY <1>2, <1>4, <1>7, ListingKept
  <1> QED
    BY <1>1, <1>8 DEF ListingInOrder

(* A page: the entries of the directory that follow those returned.        *)
LEMMA PageStep ==
    ASSUME TableOK, NEW x, list = x, ListingFits(x)
    PROVE  LET V == Visible(x.dir) IN
           /\ x.seen \o Page \in Seq(Inos)
           /\ \A k \in DOMAIN (x.seen \o Page) :
                 /\ (x.seen \o Page)[k] \in V
                 /\ Place(V, (x.seen \o Page)[k]) = k
           /\ Page = <<>> => \A i \in V : \E k \in DOMAIN x.seen : x.seen[k] = i
  <1> DEFINE V   == Visible(x.dir)
             c   == Cardinality(V)
             all == InOrder(V)
             q   == x.seen
             m   == Len(q) + 1
             end == IF Len(q) + PageSize < c THEN Len(q) + PageSize ELSE c
  <1>1. /\ V \subseteq Inos /\ V \in SUBSET Nat /\ IsFiniteSet(V)
    BY VisibleFinite
  <1>2. all \in Seq(V) /\ Len(all) = c /\ c \in Nat
    BY <1>1, InOrderSeq
  <1>3. \A n \in 1 .. c : all[n] \in V /\ Place(V, all[n]) = n
    BY <1>1, InOrderPlace
  <1>4. q \in Seq(Inos) /\ Len(q) \in Nat /\ DOMAIN q = 1 .. Len(q)
    BY LenProperties DEF ListingFits, Listings
  <1>5. \A k \in 1 .. Len(q) : q[k] \in V /\ Place(V, q[k]) = k
    BY <1>4 DEF ListingFits
  <1>6. Page = SubSeq(all, m, end)
    BY <1>2 DEF Page
  <1>7. m \in Nat \ {0} /\ end \in Nat /\ end <= c /\ PageSize \in Nat \ {0}
    BY <1>2, <1>4, NamespaceAssumption
  <1> HIDE DEF all, c, V
  <1>8. \A n \in m .. end : all[n] \in Inos
    <2>1. \A n \in m .. end : n \in 1 .. c
      BY <1>2, <1>7
    <2> QED
      BY <2>1, <1>1, <1>3
  <1>9. /\ Page \in Seq(Inos)
        /\ Len(Page) = IF m <= end THEN end - m + 1 ELSE 0
        /\ \A k \in 1 .. end - m + 1 : Page[k] = all[m + k - 1]
    <2> HIDE DEF m, end
    <2> QED
      BY <1>6, <1>7, <1>8, SubSeqProperties
  <1>10. /\ q \o Page \in Seq(Inos)
         /\ Len(q \o Page) = Len(q) + Len(Page)
         /\ \A k \in 1 .. Len(q) + Len(Page) :
               (q \o Page)[k] = IF k <= Len(q) THEN q[k] ELSE Page[k - Len(q)]
    BY <1>4, <1>9, ConcatProperties
  <1>11. DOMAIN (q \o Page) = 1 .. Len(q) + Len(Page)
    BY <1>10, LenProperties
  <1>12. ASSUME NEW k \in 1 .. Len(q) + Len(Page)
         PROVE  (q \o Page)[k] \in V /\ Place(V, (q \o Page)[k]) = k
    <2>1. CASE k <= Len(q)
      BY <2>1, <1>4, <1>5, <1>10
    <2>2. CASE ~ (k <= Len(q))
      <3>1. m <= end /\ Len(Page) = end - Len(q)
        BY <2>2, <1>4, <1>7, <1>9
      <3>2. k - Len(q) \in 1 .. end - m + 1 /\ m + (k - Len(q)) - 1 = k /\ k \in 1 .. c
        <4>1. m = Len(q) + 1 /\ Len(Page) \in Nat
          BY <1>9, LenProperties
        <4> HIDE DEF m, end, q
        <4> QED
          BY <2>2, <3>1, <4>1, <1>2, <1>4, <1>7
      <3>3. (q \o Page)[k] = all[k]
        BY <2>2, <3>2, <1>9, <1>10
      <3> QED
        BY <3>2, <3>3, <1>3
    <2> QED
      BY <2>1, <2>2
  <1>13. ASSUME Page = <<>>, NEW i \in V
         PROVE  \E k \in DOMAIN q : q[k] = i
    <2>1. Len(Page) = 0
      BY <1>13
    <2>2. c <= Len(q)
      BY <2>1, <1>2, <1>4, <1>7, <1>9
    <2>3. Place(V, i) \in 1 .. c
      BY <1>1, <1>13, PlaceBounds DEF c
    <2>4. PICK k \in DOMAIN q : k = Place(V, i)
      BY <2>2, <2>3, <1>2, <1>4
    <2>5. q[k] \in V /\ Place(V, q[k]) = Place(V, i)
      BY <2>4, <1>4, <1>5
    <2> QED
      BY <2>5, <1>1, <1>13, PlaceUnique
  <1> QED
    BY <1>10, <1>11, <1>12, <1>13 DEF V

(* A listing begins, goes on, or is given up with its directory.           *)
LEMMA ListPageStep ==
    ASSUME TableOK, ListingInOrder, ListPage
    PROVE  ListingInOrder'
  <1> SUFFICES ASSUME IsDir(list.dir)
               PROVE  ListingInOrder'
    BY DEF ListPage, ListingInOrder
  <1>1. PICK x : x = list
    OBVIOUS
  <1>2. ListingFits(x) /\ ~x.done
    BY <1>1 DEF ListPage, ListingInOrder
  <1>3. PICK s : s = x.seen \o Page
    OBVIOUS
  <1> DEFINE b == Page = <<>>
  <1>4. list' = [x EXCEPT !.seen = s, !.done = b] /\ b \in BOOLEAN
    BY <1>1, <1>3 DEF ListPage
  <1>5. UNCHANGED <<tab, nextIno, marked>>
    BY DEF ListPage, disk, memory
  <1>6. /\ s \in Seq(Inos)
        /\ \A k \in DOMAIN s : s[k] \in Visible(x.dir) /\ Place(Visible(x.dir), s[k]) = k
        /\ b => \A i \in Visible(x.dir) : \E k \in DOMAIN x.seen : x.seen[k] = i
    <2>1. list = x
      BY <1>1
    <2> HIDE DEF b
    <2> QED
      BY <2>1, <1>2, <1>3, PageStep DEF b
  <1> HIDE DEF b
  <1>7. b => s = x.seen
    BY <1>2, <1>3, ConcatEmptySeq DEF ListingFits, Listings, b
  <1>8. PICK y : y = list'
    OBVIOUS
  <1>9. /\ y \in Listings /\ y.dir = x.dir /\ y.limit = x.limit
        /\ y.seen = s /\ y.done = b
    BY <1>2, <1>3, <1>4, <1>6, <1>8 DEF ListingFits, Listings
  <1>10. ListingFits(y)
    BY <1>2, <1>6, <1>7, <1>9 DEF ListingFits
  <1>11. ListingFits(y)'
    BY <1>5, <1>10 DEF ListingFits, Visible, Kids, Rows
  <1> QED
    BY <1>8, <1>11 DEF ListingInOrder

LEMMA ListBeginStep ==
    ASSUME TableOK, NEW d \in 1 .. MaxIno, ListBegin(d)
    PROVE  ListingInOrder'
  <1>1. PICK x : x = list'
    OBVIOUS
  <1>2. x = [dir |-> d, limit |-> nextIno, seen |-> <<>>, done |-> FALSE]
    BY <1>1 DEF ListBegin
  <1>3. x \in Listings /\ x.limit = nextIno /\ x.seen = <<>> /\ ~x.done
    BY <1>2 DEF Listings, TableOK
  <1>4. nextIno' = nextIno /\ nextIno \in Nat
    BY NamespaceAssumption DEF ListBegin, disk, TableOK
  <1>5. ListingFits(x)'
    BY <1>3, <1>4 DEF ListingFits
  <1> QED
    BY <1>1, <1>5 DEF ListingInOrder

LEMMA ListingNext ==
    ASSUME TableOK, ListingInOrder, [Next]_vars
    PROVE  ListingInOrder'
  <1> USE DEF disk, memory
  <1>0. nextIno \in Nat
    BY NamespaceAssumption DEF TableOK
  <1>1. ASSUME UNCHANGED <<disk, marked, list>>
        PROVE  ListingInOrder'
    BY <1>1 DEF ListingInOrder, ListingFits, Visible, Kids, Rows
  <1>2. ASSUME Watched, nextIno' \in {nextIno, nextIno + 1}
        PROVE  ListingInOrder'
    BY <1>0, <1>2, WatchedStep
  <1>3. ASSUME NEW d, NEW n, \/ Mkdir(d, n) \/ Mknod(d, n) \/ Symlink(d, n) \/ Create(d, n)
                             \/ Unlink(d, n)
        PROVE  ListingInOrder'
    BY <1>2, <1>3 DEF Mkdir, Mknod, Symlink, Create, Unlink, Insert
  <1>4. ASSUME NEW d, NEW n, NEW e, NEW m, Rename(d, n, e, m)
        PROVE  ListingInOrder'
    BY <1>2, <1>4 DEF Rename
  <1>5. ASSUME NEW i, RmdirDelete \/ Release(i)
        PROVE  ListingInOrder'
    BY <1>2, <1>5 DEF RmdirDelete, Release
  <1>6. ASSUME NEW d, NEW n, NEW i, RmdirCheck(d, n) \/ Open(i)
        PROVE  ListingInOrder'
    BY <1>1, <1>6 DEF RmdirCheck, Open
  <1>7. CASE Changes
    BY <1>3, <1>4, <1>5, <1>6, <1>7 DEF Changes
  <1>8. CASE ListEnd \/ Crash
    BY <1>8 DEF ListEnd, Crash, ListingInOrder
  <1>9. CASE (\E dir \in BOOLEAN : ImportBegin(dir)) \/ ImportLookup \/ UNCHANGED vars
    BY <1>1, <1>9 DEF ImportBegin, ImportLookup, vars
  <1>10. CASE ImportCreate
    BY <1>2, <1>10 DEF ImportCreate, Insert
  <1> QED
    BY <1>7, <1>8, <1>9, <1>10, ListBeginStep, ListPageStep DEF Next, Requests

(* A listing that is still followed is one whose entries so far are the    *)
(* first of the directory: it has none twice and, at its end, misses none  *)
(* it began with, however many pages it took (readdir).                    *)
THEOREM ListingAlwaysExact == Spec => []ListingExact
  <1>1. Init => Inductive /\ ListingInOrder
    BY InductiveInit, InitialListing
  <1>2. Inductive => TableOK
    BY TreeOfOK DEF Inductive, Tree
  <1>3. Inductive /\ ListingInOrder /\ [Next]_vars => (Inductive /\ ListingInOrder)'
    BY <1>2, InductiveNext, ListingNext
  <1>4. ListingInOrder => ListingExact
    BY DEF ListingInOrder, ListingFits, ListingExact, Listings
  <1> QED
    BY <1>1, <1>3, <1>4, PTL DEF Spec

----------------------------------------------------------------------------
(* McpTools.                                                               *)

(* The tools touch the table in one place, the delete.                     *)
LEMMA DeleteStep ==
    ASSUME Inductive, DeleteFile
    PROVE  Inductive'
  <1>1. /\ tab' = Without(Below(call.at)) /\ nextIno' = nextIno
        /\ fds' = fds /\ marked' = marked /\ req' = req /\ cli' = cli /\ raced' = raced
    BY DEF DeleteFile, memory
  <1>2. PICK k : k = call.at
    OBVIOUS
  <1>3. Tree' /\ Rows' = Rows \ Below(k) /\ \A i \in Rows' : tab'[i] = tab[i]
    BY <1>1, <1>2, CascadeStep
  <1>4. FilesHeld' /\ HiddenAreOpen' /\ RemovalBounded'
    BY <1>1, <1>3, RemoveStep DEF Inductive, HiddenAreOpen
  <1> QED
    BY <1>1, <1>3, <1>4, Assemble DEF Inductive, TreeOK, NamespaceTypeOK

LEMMA ToolsKeepTree ==
    ASSUME Inductive, [McpNext]_mcpVars
    PROVE  Inductive'
  <1>1. CASE MountStep
    BY <1>1, ChangesStep DEF MountStep
  <1>2. CASE DeleteFile
    BY <1>2, DeleteStep
  <1>3. CASE UNCHANGED vars
    BY <1>3, InductiveNext
  <1>4. ToolStep => DeleteFile \/ UNCHANGED vars
    BY DEF ToolStep, Announce, Confirm, Resolve, PutBytes, CommitOverwrite, WalkBegin,
           WalkStep, WalkEnd, Expire, Restart
  <1> QED
    BY <1>1, <1>2, <1>3, <1>4 DEF McpNext, mcpVars

(* The table stays a tree with unique names when the MCP server deletes    *)
(* entries between the statements of the mount's requests (delete_file).   *)
THEOREM ToolsKeepTreeOK == McpSpec => []TreeOK
  <1>1. McpInit => Inductive
    BY InductiveInit DEF McpInit
  <1>2. Inductive /\ [McpNext]_mcpVars => Inductive'
    BY ToolsKeepTree
  <1>3. Inductive => TreeOK
    BY DEF Inductive
  <1> QED
    BY <1>1, <1>2, <1>3, PTL DEF McpSpec

----------------------------------------------------------------------------
(* Tokens, the call and the effects carry ids handed out, and an id is in  *)
(* one of the three places only.                                           *)

(* What a token, a call or an effect says of its content.                  *)
ContentFits(x) == x.content = None <=> x.action = "delete"

NamedSeq == \E S : named \in Seq(S)

Issued(k) == k \in Nat /\ k <= Len(named)

TokensIssued ==
    /\ \A t \in tokens : Issued(t.id) /\ ContentFits(t)
    /\ \A t, u \in tokens : t.id = u.id => t = u

CallSpent ==
    call # None => /\ Issued(call.id) /\ ContentFits(call) /\ ~call.late
                   /\ \A t \in tokens : t.id # call.id

EffectsSpent ==
    \A e \in effects : /\ Issued(e.id) /\ ContentFits(e) /\ ~e.late
                       /\ \A t \in tokens : t.id # e.id
                       /\ call # None => call.id # e.id
                       /\ \A f \in effects : e.id = f.id => e = f

SpentOnce == NamedSeq /\ TokensIssued /\ CallSpent /\ EffectsSpent

(* Fewer tokens, the same ids, no new call.                                *)
LEMMA FewerTokens ==
    ASSUME SpentOnce, tokens' \subseteq tokens, named' = named,
           effects' = effects, call' \in {call, None}
    PROVE  SpentOnce'
  BY DEF SpentOnce, NamedSeq, TokensIssued, CallSpent, EffectsSpent, Issued, ContentFits

(* A token is handed out: its id is new.                                   *)
LEMMA AnnounceStep ==
    ASSUME SpentOnce, NEW action, NEW path, NEW content,
           Announce(action, path, content), content = None <=> action = "delete"
    PROVE  SpentOnce'
  <1>0. /\ call' = call /\ effects' = effects
        /\ named' = Append(named, [path |-> path, trail |-> Trail(path)])
        /\ tokens' = Cleaned \union {[id |-> Len(named'), action |-> action,
                                      path |-> path, content |-> content]}
    BY DEF Announce
  <1>1. PICK S : named \in Seq(S)
    BY DEF SpentOnce, NamedSeq
  <1>2. PICK x : x = [path |-> path, trail |-> Trail(path)]
    OBVIOUS
  <1>3. named \in Seq(S \union {x})
    BY <1>1
  <1>4. named' \in Seq(S \union {x}) /\ Len(named') = Len(named) + 1 /\ Len(named) \in Nat
    BY <1>0, <1>2, <1>3
  <1>5. PICK t : t = [id |-> Len(named'), action |-> action,
                      path |-> path, content |-> content]
    OBVIOUS
  <1>6. t.id = Len(named) + 1 /\ ContentFits(t)
    BY <1>4, <1>5 DEF ContentFits
  <1>7. \A k : Issued(k) => Issued(k)' /\ k # t.id
    BY <1>4, <1>6, SMT DEF Issued
  <1>8. Issued(t.id)'
    BY <1>4, <1>6, SMT DEF Issued
  <1>9. tokens' = Cleaned \union {t} /\ Cleaned \subseteq tokens
    BY <1>0, <1>5 DEF Cleaned
  <1>10. NamedSeq'
    BY <1>4 DEF NamedSeq
  <1>11. TokensIssued'
    <2>1. \A u \in tokens' : Issued(u.id)' /\ (u.content = None <=> u.action = "delete")
      BY <1>6, <1>7, <1>8, <1>9 DEF SpentOnce, TokensIssued, ContentFits
    <2>2. \A u, v \in tokens' : u.id = v.id => u = v
      BY <1>7, <1>9 DEF SpentOnce, TokensIssued
    <2> QED
      BY <2>1, <2>2 DEF TokensIssued, ContentFits, Issued
  <1>12. CallSpent'
    BY <1>0, <1>7, <1>9 DEF SpentOnce, CallSpent, ContentFits, Issued
  <1>13. EffectsSpent'
    BY <1>0, <1>7, <1>9 DEF SpentOnce, EffectsSpent, ContentFits, Issued
  <1> QED
    BY <1>10, <1>11, <1>12, <1>13 DEF SpentOnce

(* A token is redeemed: it leaves the tokens for the call, in time.        *)
LEMMA ConfirmStep ==
    ASSUME SpentOnce, NEW k, NEW action, NEW path, Confirm(k, action, path)
    PROVE  SpentOnce'
  <1>1. Cleaned \subseteq tokens
    BY DEF Cleaned
  <1>2. CASE tokens' = Cleaned /\ UNCHANGED call
    BY <1>1, <1>2, FewerTokens DEF Confirm
  <1>3. ASSUME NEW t \in Matching(k, action, path), tokens' = Consumed(t),
               call' = [id |-> k, action |-> action, at |-> Root, todo |-> path,
                        content |-> t.content, put |-> FALSE, late |-> k \in expired]
        PROVE  SpentOnce'
    <2>1. t \in tokens /\ t.id \notin expired /\ t.id = k /\ t.action = action
      BY <1>3 DEF Matching, Cleaned
    <2>2. tokens' \subseteq tokens /\ t \notin tokens'
      BY <1>1, <1>3 DEF Consumed
    <2>3. \A u \in tokens' : u.id # k
      BY <2>1, <2>2 DEF SpentOnce, TokensIssued
    <2>4. named' = named /\ effects' = effects
      BY DEF Confirm
    <2>5. NamedSeq' /\ TokensIssued'
      BY <2>2, <2>4 DEF SpentOnce, NamedSeq, TokensIssued, Issued, ContentFits
    <2>6. /\ call'.id = k /\ call'.action = action /\ call'.content = t.content
          /\ call'.late = (k \in expired)
      BY <1>3
    <2>7. CallSpent'
      BY <2>1, <2>3, <2>4, <2>6 DEF SpentOnce, TokensIssued, CallSpent, Issued, ContentFits
    <2>8. EffectsSpent'
      BY <2>1, <2>2, <2>4, <2>6 DEF SpentOnce, EffectsSpent, Issued, ContentFits
    <2> QED
      BY <2>5, <2>7, <2>8 DEF SpentOnce
  <1> QED
    BY <1>2, <1>3 DEF Confirm

(* The call ends, with an effect or without.                               *)
LEMMA EffectStep ==
    ASSUME SpentOnce, call # None, call' = None, UNCHANGED <<tokens, named>>,
           effects' \in {effects, effects \union {Effect}}
    PROVE  SpentOnce'
  <1>1. /\ Effect.id = call.id /\ Effect.action = call.action
        /\ Effect.content = call.content /\ Effect.late = call.late
    BY DEF Effect
  <1>2. PICK x : x = Effect
    OBVIOUS
  <1>3. /\ Issued(x.id) /\ ContentFits(x) /\ ~x.late
        /\ \A t \in tokens : t.id # x.id
        /\ \A e \in effects : e.id # x.id
    BY <1>1, <1>2 DEF SpentOnce, CallSpent, EffectsSpent, ContentFits
  <1>4. effects' \subseteq effects \union {x}
    BY <1>2
  <1>5. NamedSeq' /\ TokensIssued' /\ CallSpent'
    BY DEF SpentOnce, NamedSeq, TokensIssued, CallSpent, Issued, ContentFits
  <1>6. EffectsSpent'
    BY <1>3, <1>4 DEF SpentOnce, EffectsSpent, Issued, ContentFits
  <1> QED
    BY <1>5, <1>6 DEF SpentOnce

(* A query of resolve_path, or a put: the call goes on as what it was.     *)
LEMMA CallGoesOn ==
    ASSUME SpentOnce, call # None, UNCHANGED <<tokens, named, effects>>,
           call' # None => /\ call'.id = call.id /\ call'.action = call.action
                           /\ call'.content = call.content /\ call'.late = call.late
    PROVE  SpentOnce'
  BY DEF SpentOnce, NamedSeq, TokensIssued, CallSpent, EffectsSpent, Issued, ContentFits

LEMMA SpentInit ==
    ASSUME McpInit
    PROVE  SpentOnce
  <1>1. named \in Seq({})
    BY DEF McpInit
  <1> QED
    BY <1>1 DEF McpInit, SpentOnce, NamedSeq, TokensIssued, CallSpent, EffectsSpent

LEMMA SpentNext ==
    ASSUME SpentOnce, [McpNext]_mcpVars
    PROVE  SpentOnce'
  <1>1. CASE MountStep \/ UNCHANGED mcpVars
    <2>1. tokens' = tokens /\ named' = named /\ effects' = effects /\ call' = call
      BY <1>1 DEF MountStep, mcpVars, tools
    <2> QED
      BY <2>1, FewerTokens
  <1>2. ASSUME NEW path \in Paths, Announce("delete", path, None)
        PROVE  SpentOnce'
    BY <1>2, AnnounceStep
  <1>3. ASSUME NEW path \in Paths, NEW content \in Contents,
               Announce("overwrite", path, content)
        PROVE  SpentOnce'
    <2>1. content # None
      BY McpAssumption
    <2> QED
      BY <1>3, <2>1, AnnounceStep
  <1>4. ASSUME NEW path \in Paths, NEW k \in DOMAIN named, NEW action \in Actions,
               Confirm(k, action, path)
        PROVE  SpentOnce'
    BY <1>4, ConfirmStep
  <1>5. CASE Resolve
    <2>1. call # None /\ UNCHANGED <<tokens, named, effects>>
      BY <1>5 DEF Resolve
    <2>2. CASE call' = None
      BY <2>1, <2>2, CallGoesOn
    <2>3. CASE \E i : call' = [call EXCEPT !.at = i, !.todo = Tail(@)]
      <3>1. /\ call'.id = call.id /\ call'.action = call.action
            /\ call'.content = call.content /\ call'.late = call.late
        BY <2>3
      <3> QED
        BY <2>1, <3>1, CallGoesOn
    <2> QED
      BY <1>5, <2>2, <2>3 DEF Resolve
  <1>6. CASE PutBytes
    <2>1. call # None /\ UNCHANGED <<tokens, named, effects>>
      BY <1>6 DEF PutBytes, Resolved
    <2>2. CASE call' = None
      BY <2>1, <2>2, CallGoesOn
    <2>3. CASE call' = [call EXCEPT !.put = TRUE]
      <3>1. /\ call'.id = call.id /\ call'.action = call.action
            /\ call'.content = call.content /\ call'.late = call.late
        BY <2>3
      <3> QED
        BY <2>1, <3>1, CallGoesOn
    <2> QED
      BY <1>6, <2>2, <2>3 DEF PutBytes
  <1>7. CASE DeleteFile \/ CommitOverwrite
    <2>1. /\ call # None /\ call' = None /\ UNCHANGED <<tokens, named>>
          /\ effects' \in {effects, effects \union {Effect}}
      BY <1>7 DEF DeleteFile, CommitOverwrite, Resolved
    <2> QED
      BY <2>1, EffectStep
  <1>8. CASE WalkBegin \/ WalkStep \/ WalkEnd \/ (\E k \in DOMAIN named : Expire(k)) \/ Restart
    <2>1. /\ tokens' \subseteq tokens /\ named' = named /\ effects' = effects
          /\ call' \in {call, None}
      BY <1>8 DEF WalkBegin, WalkStep, WalkEnd, Expire, Restart
    <2> QED
      BY <2>1, FewerTokens
  <1> QED
    BY <1>1, <1>2, <1>3, <1>4, <1>5, <1>6, <1>7, <1>8 DEF McpNext, ToolStep

(* A token confirms at most one effect, in time and of the kind it was     *)
(* handed out for, however often the client repeats the call, whatever     *)
(* fails in between and however often the server restarts (consume_token). *)
THEOREM OneEffectAlways == McpSpec => []OneEffectEach
  <1>1. McpInit => SpentOnce
    BY SpentInit
  <1>2. SpentOnce /\ [McpNext]_mcpVars => SpentOnce'
    BY SpentNext
  <1>3. SpentOnce => OneEffectEach
    BY DEF SpentOnce, EffectsSpent, ContentFits, OneEffectEach
  <1> QED
    BY <1>1, <1>2, <1>3, PTL DEF McpSpec

----------------------------------------------------------------------------
(* More of what is below a row: a directory and its entries.               *)

(* Rows that have a row below them in common are one below the other.      *)
LEMMA BelowChain ==
    ASSUME Rooted, NEW e, NEW f, NEW i, i \in Below(e), i \in Below(f)
    PROVE  e \in Below(f) \/ f \in Below(e)
  <1> SUFFICES ASSUME e \notin Below(f), f \notin Below(e)
               PROVE  FALSE
    OBVIOUS
  <1> DEFINE T == Below(e) \intersect Below(f)
  <1>1. T \in SUBSET Rows /\ T # {}
    BY BelowRows
  <1>2. PICK j \in T : tab[j].parent \notin T
    BY <1>1 DEF Rooted
  <1>3. j # e /\ j # f
    BY <1>2
  <1> QED
    BY <1>2, <1>3, BelowParent

LEMMA BelowTransitive ==
    ASSUME NEW e, NEW d \in Below(e)
    PROVE  Below(d) \subseteq Below(e)
  <1>1. Below(e) \in SUBSET Rows /\ {d} \intersect Rows \subseteq Below(e)
    BY BelowRows
  <1> QED
    BY <1>1, BelowClosed, BelowLeast

(* Whatever is below an entry of a directory is below the directory.       *)
LEMMA BelowKid ==
    ASSUME Tree, NEW d \in Rows, NEW e \in Kids(d)
    PROVE  e \in Below(d) /\ Below(e) \subseteq Below(d) /\ e # d /\ d \notin Below(e)
  <1>1. e \in Rows /\ tab[e].parent = d
    BY DEF Kids
  <1>2. e \in Below(d)
    BY <1>1, BelowSelf, BelowClosed DEF ClosedBelow
  <1>3. d \notin Below(e)
    BY <1>1, BelowAcyclic DEF Tree
  <1> QED
    BY <1>1, <1>2, <1>3, BelowTransitive, BelowSelf

----------------------------------------------------------------------------
(* Walks.                                                                  *)

(* A walk that lists d, and what it finds there, and so on, comes by i.    *)
Covers(d, i) == d = Root \/ (i \in Below(d) /\ d # i)

(* One entry of a directory covers what the directory does, or is it.      *)
LEMMA CoveringKid ==
    ASSUME Tree, NEW d, NEW i \in Rows, Covers(d, i)
    PROVE  \E e \in Kids(d) : i \in Below(e)
  <1> DEFINE U == {j \in Rows : \E e \in Kids(d) : j \in Below(e)}
  <1>1. ClosedBelow(U)
    BY BelowClosed DEF ClosedBelow
  <1>2. Kids(d) \subseteq U
    BY BelowSelf DEF Kids
  <1>3. CASE d = Root
    <2> SUFFICES ASSUME i \notin U
                 PROVE  FALSE
      OBVIOUS
    <2>1. Rows \ U # {} /\ Rows \ U \in SUBSET Rows
      OBVIOUS
    <2>2. PICK j \in Rows \ U : tab[j].parent \notin Rows \ U
      BY <2>1 DEF Tree, Rooted
    <2>3. tab[j].parent = Root \/ tab[j].parent \in Rows
      BY <2>2 DEF Tree, Parented, IsDir
    <2> QED
      BY <1>1, <1>2, <1>3, <2>2, <2>3 DEF ClosedBelow, Kids
  <1>4. CASE i \in Below(d) /\ d # i
    <2> DEFINE S == U \union ({d} \intersect Rows)
    <2>1. ClosedBelow(S)
      BY <1>1, <1>2 DEF ClosedBelow, Kids
    <2>2. Below(d) \subseteq S
      BY <2>1, BelowLeast
    <2> QED
      BY <1>4, <2>2
  <1> QED
    BY <1>3, <1>4 DEF Covers

(* ... and no other one.                                                   *)
LEMMA OneKidCovers ==
    ASSUME Tree, NEW d, NEW e \in Kids(d), NEW f \in Kids(d), NEW i,
           i \in Below(e), i \in Below(f)
    PROVE  e = f
  <1>1. e \in Rows /\ f \in Rows /\ tab[e].parent = d /\ tab[f].parent = d
    BY DEF Kids
  <1>2. d \notin Below(e) /\ d \notin Below(f)
    BY <1>1, BelowAcyclic DEF Tree
  <1>3. e \in Below(f) \/ f \in Below(e)
    BY BelowChain DEF Tree
  <1> QED
    BY <1>1, <1>2, <1>3, BelowParent

(* What an entry covers, the directory covers.                             *)
LEMMA KidCovered ==
    ASSUME Tree, NEW d, NEW e \in Kids(d), NEW i \in Below(e)
    PROVE  Covers(d, i)
  <1>1. CASE d = Root
    BY <1>1 DEF Covers
  <1>2. CASE d # Root
    <2>1. d \in Rows
      BY <1>2 DEF Kids, Tree, Parented, IsDir
    <2> QED
      BY <2>1, BelowKid DEF Covers
  <1> QED
    BY <1>1, <1>2

(* The three of them for one directory the walk lists: a file it covers is *)
(* among its files, or one of its directories covers it.                   *)
LEMMA CoveredOnce ==
    ASSUME Tree, NEW d, NEW i \in Files
    PROVE  /\ \A e, f \in Listed(d) : Covers(e, i) /\ Covers(f, i) => e = f
           /\ (\E e \in Listed(d) : Covers(e, i)) => Covers(d, i) /\ i \notin Kids(d)
           /\ i \in Kids(d) => Covers(d, i)
           /\ Covers(d, i) /\ i \notin Kids(d) => \E e \in Listed(d) : Covers(e, i)
  <1>1. i \in Rows /\ ~IsDir(i)
    BY DEF Files
  <1>2. \A e \in Listed(d) : e \in Kids(d) /\ e \in Rows /\ e # Root /\ e # i
    BY <1>1, RowFields DEF Listed, Kids, Tree
  <1>3. \A e \in Listed(d) : Covers(e, i) => i \in Below(e)
    BY <1>2 DEF Covers
  <1>4. \A e, f \in Listed(d) : Covers(e, i) /\ Covers(f, i) => e = f
    BY <1>2, <1>3, OneKidCovers
  <1>5. ASSUME NEW e \in Listed(d), Covers(e, i)
        PROVE  Covers(d, i) /\ i \notin Kids(d)
    <2>1. Covers(d, i)
      BY <1>2, <1>3, <1>5, KidCovered
    <2>2. ASSUME i \in Kids(d)
          PROVE  FALSE
      <3>1. i \in Below(i)
        BY <1>1, BelowSelf
      <3> QED
        BY <3>1, <2>2, <1>2, <1>3, <1>5, OneKidCovers
    <2> QED
      BY <2>1, <2>2
  <1>6. i \in Kids(d) => Covers(d, i)
    BY <1>1, BelowSelf, KidCovered
  <1>7. ASSUME Covers(d, i), i \notin Kids(d)
        PROVE  \E e \in Listed(d) : Covers(e, i)
    <2>1. PICK e \in Kids(d) : i \in Below(e)
      BY <1>1, <1>7, CoveringKid
    <2>2. e # i
      BY <1>7
    <2>3. IsDir(e)
      BY <2>1, <2>2, BelowFile DEF Tree
    <2> QED
      BY <2>1, <2>2, <2>3 DEF Listed, Covers
  <1> QED
    BY <1>4, <1>5, <1>6, <1>7

Walks == [todo : Seq(1 .. MaxIno), files : SUBSET Inos, twice : SUBSET Inos,
          stay : SUBSET Inos]

(* A file that stays has been found, and once, or it will be: then one     *)
(* directory on the stack covers it, and only one.                         *)
WalkFits(x) ==
    /\ x \in Walks
    /\ \A i \in x.stay :
          /\ i \in Files /\ i \notin x.twice
          /\ \A k, l \in DOMAIN x.todo :
                Covers(x.todo[k], i) /\ Covers(x.todo[l], i) => k = l
          /\ i \in x.files <=> \A k \in DOMAIN x.todo : ~Covers(x.todo[k], i)

WalkOnward == walk # None => WalkFits(walk)

(* The stack with one directory replaced by those in it.                   *)
LEMMA PushedStack ==
    ASSUME NEW q \in Seq(1 .. MaxIno), q # <<>>, NEW ds \in SUBSET Inos
    PROVE  LET r == Pushed(q, ds)
               n == Len(q) - 1
           IN  /\ r \in Seq(1 .. MaxIno) /\ n \in Nat /\ DOMAIN q = 1 .. n + 1
               /\ \A k \in 1 .. n : k \in DOMAIN r /\ r[k] = q[k]
               /\ \A k \in DOMAIN r \ 1 .. n : r[k] \in ds
               /\ \A k, l \in DOMAIN r \ 1 .. n : r[k] = r[l] => k = l
               /\ \A e \in ds : \E k \in DOMAIN r \ 1 .. n : r[k] = e
  <1> DEFINE n == Len(q) - 1
             p == SubSeq(q, 1, n)
             w == InOrder(ds)
             c == Cardinality(ds)
             r == p \o w
  <1>1. n \in Nat /\ DOMAIN q = 1 .. n + 1 /\ \A k \in 1 .. n : q[k] \in 1 .. MaxIno
    <2>1. /\ Len(q) \in Nat /\ DOMAIN q = 1 .. Len(q)
          /\ \A k \in 1 .. Len(q) : q[k] \in 1 .. MaxIno
      BY LenProperties, ElementOfSeq
    <2>2. Len(q) # 0
      BY EmptySeq
    <2> QED
      BY <2>1, <2>2
  <1>2. ds \in SUBSET Nat /\ IsFiniteSet(ds)
    <2>1. Inos \in SUBSET Nat /\ IsFiniteSet(Inos)
      BY NamespaceAssumption, FS_Interval DEF Inos
    <2> QED
      BY <2>1, FS_Subset
  <1>3. w \in Seq(ds) /\ Len(w) = c /\ c \in Nat
    BY <1>2, InOrderSeq
  <1>4. \A k \in 1 .. c : w[k] \in ds /\ Place(ds, w[k]) = k
    BY <1>2, InOrderPlace
  <1>5. \A i \in ds : i \in 1 .. MaxIno
    BY NamespaceAssumption DEF Inos
  <1>6. w \in Seq(1 .. MaxIno)
    BY <1>3, <1>5, SeqMonotonic
  <1>7. /\ p \in Seq(1 .. MaxIno) /\ Len(p) = n
        /\ \A k \in 1 .. n : p[k] = q[k]
    <2> HIDE DEF n
    <2>1. /\ p \in Seq(1 .. MaxIno) /\ Len(p) = IF 1 <= n THEN n - 1 + 1 ELSE 0
          /\ \A k \in 1 .. n - 1 + 1 : p[k] = q[1 + k - 1]
      BY <1>1, SubSeqProperties
    <2> HIDE DEF p
    <2> QED
      BY <1>1, <2>1
  <1> HIDE DEF n, p, w, c
  <1>8. /\ r \in Seq(1 .. MaxIno) /\ Len(r) = n + c /\ DOMAIN r = 1 .. n + c
        /\ \A k \in 1 .. n + c : r[k] = IF k <= n THEN p[k] ELSE w[k - n]
    <2>1. /\ r \in Seq(1 .. MaxIno) /\ Len(r) = Len(p) + Len(w)
          /\ \A k \in 1 .. Len(p) + Len(w) :
                r[k] = IF k <= Len(p) THEN p[k] ELSE w[k - Len(p)]
      BY <1>6, <1>7, ConcatProperties
    <2>2. DOMAIN r = 1 .. Len(r)
      BY <2>1, LenProperties
    <2> QED
      BY <2>1, <2>2, <1>3, <1>7
  <1> HIDE DEF r
  <1>9. \A k \in 1 .. n : k \in DOMAIN r /\ r[k] = q[k]
    BY <1>1, <1>3, <1>7, <1>8
  <1>10. ASSUME NEW k \in DOMAIN r \ 1 .. n
         PROVE  k - n \in 1 .. c /\ r[k] = w[k - n] /\ k \in Nat
    BY <1>1, <1>3, <1>8
  <1>11. \A k \in DOMAIN r \ 1 .. n : r[k] \in ds
    BY <1>4, <1>10
  <1>12. ASSUME NEW k \in DOMAIN r \ 1 .. n, NEW l \in DOMAIN r \ 1 .. n, r[k] = r[l]
         PROVE  k = l
    <2>1. k - n = l - n
      BY <1>4, <1>10, <1>12
    <2> QED
      BY <2>1, <1>1, <1>10
  <1>13. ASSUME NEW e \in ds
         PROVE  \E k \in DOMAIN r \ 1 .. n : r[k] = e
    <2>1. PICK j \in 1 .. c : j = Place(ds, e)
      BY <1>2, PlaceBounds DEF c
    <2>2. w[j] = e
      <3>1. PICK f \in ds : f = w[j] /\ Place(ds, f) = Place(ds, e)
        BY <1>4, <2>1
      <3> QED
        BY <3>1, <1>2, <1>13, PlaceUnique
    <2>3. n + j \in DOMAIN r \ 1 .. n /\ r[n + j] = w[n + j - n] /\ n + j - n = j
      BY <1>1, <1>3, <1>8, <2>1
    <2> QED
      BY <2>2, <2>3
  <1>14. Pushed(q, ds) = r
    BY DEF Pushed, r, p, w, n
  <1> QED
    BY <1>1, <1>8, <1>9, <1>11, <1>12, <1>13, <1>14 DEF n

(* A directory is taken from the stack and listed.                         *)
LEMMA WalkStepFits ==
    ASSUME Tree, WalkOnward, WalkStep
    PROVE  WalkOnward'
  <1>1. PICK x : x = walk
    OBVIOUS
  <1>2. WalkFits(x) /\ x.todo \in Seq(1 .. MaxIno) /\ x.todo # <<>>
    BY <1>1 DEF WalkStep, WalkOnward, WalkFits, Walks
  <1>3. PICK d : d = x.todo[Len(x.todo)]
    OBVIOUS
  <1>4. PICK found : found = Kids(d) \ Listed(d)
    OBVIOUS
  <1>5. PICK r : r = Pushed(x.todo, Listed(d))
    OBVIOUS
  <1>6. walk' = [x EXCEPT !.todo = r, !.files = x.files \union found,
                          !.twice = x.twice \union (found \intersect x.files)]
    BY <1>1, <1>3, <1>4, <1>5 DEF WalkStep
  <1>7. UNCHANGED vars
    BY DEF WalkStep
  <1>8. Listed(d) \in SUBSET Inos /\ found \in SUBSET Inos
    BY <1>4 DEF Listed, Kids, Rows
  <1>9. PICK n \in Nat :
           /\ n = Len(x.todo) - 1
           /\ r \in Seq(1 .. MaxIno) /\ DOMAIN x.todo = 1 .. n + 1
           /\ \A k \in 1 .. n : k \in DOMAIN r /\ r[k] = x.todo[k]
           /\ \A k \in DOMAIN r \ 1 .. n : r[k] \in Listed(d)
           /\ \A k, l \in DOMAIN r \ 1 .. n : r[k] = r[l] => k = l
           /\ \A e \in Listed(d) : \E k \in DOMAIN r \ 1 .. n : r[k] = e
    BY <1>2, <1>5, <1>8, PushedStack
  <1>10. d = x.todo[n + 1] /\ n + 1 \in DOMAIN x.todo /\ n + 1 \notin 1 .. n
         /\ \A k \in DOMAIN x.todo : k \in 1 .. n \/ k = n + 1
    <2>1. Len(x.todo) = n + 1
      BY <1>2, <1>9, LenProperties
    <2> QED
      BY <2>1, <1>3, <1>9
  <1>11. PICK y : y = walk'
    OBVIOUS
  <1>12. /\ y \in Walks /\ y.todo = r /\ y.files = x.files \union found
         /\ y.twice = x.twice \union (found \intersect x.files) /\ y.stay = x.stay
    BY <1>2, <1>6, <1>8, <1>9, <1>11 DEF WalkFits, Walks
  <1>13. ASSUME NEW i \in x.stay
         PROVE  /\ i \in Files /\ i \notin y.twice
                /\ \A k, l \in DOMAIN r : Covers(r[k], i) /\ Covers(r[l], i) => k = l
                /\ i \in y.files <=> \A k \in DOMAIN r : ~Covers(r[k], i)
    <2>1. /\ i \in Files /\ i \notin x.twice
          /\ \A k, l \in DOMAIN x.todo :
                Covers(x.todo[k], i) /\ Covers(x.todo[l], i) => k = l
          /\ i \in x.files <=> \A k \in DOMAIN x.todo : ~Covers(x.todo[k], i)
      BY <1>2 DEF WalkFits
    <2>2. i \in Rows /\ ~IsDir(i)
      BY <2>1 DEF Files
    <2>3. i \in found <=> i \in Kids(d)
      BY <2>2, <1>4 DEF Listed
    <2>4. /\ \A e, f \in Listed(d) : Covers(e, i) /\ Covers(f, i) => e = f
          /\ (\E e \in Listed(d) : Covers(e, i)) => Covers(d, i) /\ i \notin Kids(d)
          /\ i \in Kids(d) => Covers(d, i)
          /\ Covers(d, i) /\ i \notin Kids(d) => \E e \in Listed(d) : Covers(e, i)
      BY <2>1, CoveredOnce
    <2>5. \A k \in 1 .. n : k \in DOMAIN x.todo /\ k # n + 1
      BY <1>9
    <2>6. CASE Covers(d, i)
      <3>1. i \notin x.files
        BY <2>1, <2>6, <1>10
      <3>2. \A k \in 1 .. n : ~Covers(r[k], i)
        BY <2>1, <2>5, <2>6, <1>9, <1>10
      <3>3. i \notin y.twice
        BY <2>1, <3>1, <1>12
      <3>4. \A k, l \in DOMAIN r : Covers(r[k], i) /\ Covers(r[l], i) => k = l
        BY <2>4, <3>2, <1>9
      <3>5. i \in y.files <=> \A k \in DOMAIN r : ~Covers(r[k], i)
        BY <2>3, <2>4, <2>6, <3>1, <3>2, <1>9, <1>12
      <3> QED
        BY <2>1, <3>3, <3>4, <3>5
    <2>7. CASE ~Covers(d, i)
      <3>1. i \notin found /\ \A e \in Listed(d) : ~Covers(e, i)
        BY <2>3, <2>4, <2>7
      <3>2. \A k \in DOMAIN r \ 1 .. n : ~Covers(r[k], i)
        BY <3>1, <1>9
      <3>3. \A k, l \in DOMAIN r : Covers(r[k], i) /\ Covers(r[l], i) => k = l
        BY <2>1, <2>5, <3>2, <1>9
      <3>4. (\A k \in DOMAIN r : ~Covers(r[k], i))
                <=> \A k \in DOMAIN x.todo : ~Covers(x.todo[k], i)
        BY <2>5, <2>7, <3>2, <1>9, <1>10
      <3> QED
        BY <2>1, <3>1, <3>3, <3>4, <1>12
    <2> QED
      BY <2>6, <2>7
  <1>14. WalkFits(y)
    BY <1>12, <1>13 DEF WalkFits
  <1>15. WalkFits(y)'
    BY <1>7, <1>14 DEF WalkFits, Covers, Below, ClosedBelow, Files, IsDir, Rows, vars, disk
  <1> QED
    BY <1>11, <1>15 DEF WalkOnward

(* What the lemmas say of Below, as a formula: it holds in every state, so *)
(* also in the next.                                                       *)
BelowOK ==
    \A k : /\ Below(k) \subseteq Rows /\ ClosedBelow(Below(k))
           /\ k \in Rows => k \in Below(k)
           /\ \A i \in Below(k) : k \in Rows /\ (i = k \/ tab[i].parent \in Below(k))

LEMMA BelowFacts == BelowOK
  <1> SUFFICES ASSUME NEW k, NEW i \in Below(k)
               PROVE  k \in Rows
    BY BelowRows, BelowClosed, BelowSelf, BelowParent DEF BelowOK
  <1> SUFFICES ASSUME k \notin Rows
               PROVE  FALSE
    OBVIOUS
  <1>1. Below(k) \subseteq {}
    <2>1. ClosedBelow({}) /\ {k} \intersect Rows \subseteq {}
      BY DEF ClosedBelow
    <2> QED
      BY <2>1, BelowLeast
  <1> QED
    BY <1>1

LEMMA BelowFactsNext == BelowOK'
  BY BelowFacts, PTL

(* A file that stays has the same directories above it after the step.     *)
LEMMA StaysCovered ==
    ASSUME Tree, Tree', NEW i \in Files, Stays(i)
    PROVE  i \in Files' /\ \A d : Covers(d, i)' <=> Covers(d, i)
  <1> DEFINE A == Above(i)
  <1>1. BelowOK /\ BelowOK'
    BY BelowFacts, BelowFactsNext
  <1>2. i \in Rows /\ ~IsDir(i) /\ i \in A
    BY <1>1 DEF BelowOK, Above, Files
  <1>3. \A j \in A : /\ j \in Rows /\ j \in Rows' /\ tab'[j] = tab[j] /\ i \in Below(j)
    BY DEF Above, Stays, Rows
  <1>4. \A j \in A : tab[j].parent \in Rows => tab[j].parent \in A
    <2> SUFFICES ASSUME NEW j \in A, tab[j].parent \in Rows
                 PROVE  i \in Below(tab[j].parent)
      BY DEF Above
    <2>1. j \in Kids(tab[j].parent)
      BY <1>3 DEF Kids
    <2> QED
      BY <2>1, <1>3, BelowKid
  <1>5. i \in Files'
    BY <1>2, <1>3 DEF Files, IsDir
  <1>6. ASSUME NEW d, i \in Below(d)
        PROVE  i \in Below(d)'
    <2> DEFINE T == {j \in A : j \in Below(d) /\ j \notin Below(d)'}
    <2> SUFFICES ASSUME i \notin Below(d)'
                 PROVE  FALSE
      OBVIOUS
    <2>1. d \in A
      BY <1>1, <1>6 DEF BelowOK, Above
    <2>2. d \in Below(d)'
      BY <1>1, <1>3, <2>1 DEF BelowOK
    <2>3. i \in T /\ T \in SUBSET Rows
      BY <1>2, <1>3, <1>6
    <2>4. PICK j \in T : tab[j].parent \notin T
      BY <2>3 DEF Tree, Rooted
    <2>5. tab[j].parent \in Below(d) /\ tab[j].parent \in Rows
      BY <1>1, <2>2, <2>4 DEF BelowOK
    <2>6. tab[j].parent \in Below(d)'
      BY <1>4, <2>4, <2>5
    <2>7. j \in Below(d)'
      BY <1>1, <1>3, <2>4, <2>6 DEF BelowOK, ClosedBelow
    <2> QED
      BY <2>4, <2>7
  <1>7. ASSUME NEW d, i \in Below(d)'
        PROVE  i \in Below(d)
    <2> DEFINE T == {j \in A : j \in Below(d)' /\ j \notin Below(d)}
    <2> SUFFICES ASSUME i \notin Below(d)
                 PROVE  FALSE
      OBVIOUS
    <2>1. i \in T /\ T \in SUBSET Rows
      BY <1>2, <1>3, <1>7
    <2>2. PICK j \in T : tab[j].parent \notin T
      BY <2>1 DEF Tree, Rooted
    <2>3. j # d
      BY <1>1, <1>3, <2>2 DEF BelowOK
    <2>4. tab[j].parent \in Below(d)' /\ tab[j].parent \in Rows'
      BY <1>1, <1>3, <2>2, <2>3 DEF BelowOK
    <2>5. tab[j].parent # Root
      BY <2>4, NamespaceAssumption, SMT DEF Rows, Inos, Root
    <2>6. tab[j].parent \in Rows
      BY <1>3, <2>2, <2>5 DEF Tree, Parented, IsDir
    <2>7. tab[j].parent \in A /\ tab[j].parent \in Below(d)
      BY <1>4, <2>2, <2>4, <2>6
    <2> QED
      BY <1>1, <1>3, <2>2, <2>7 DEF BelowOK, ClosedBelow
  <1> QED
    BY <1>5, <1>6, <1>7 DEF Covers

(* A request of the mount between two queries of the walk.                 *)
LEMMA MountStepFits ==
    ASSUME Tree, Tree', WalkOnward, walk' = IF walk = None THEN None ELSE Followed
    PROVE  WalkOnward'
  <1> SUFFICES ASSUME walk # None, walk' # None
               PROVE  WalkOnward'
    BY DEF WalkOnward
  <1>1. PICK x : x = walk
    OBVIOUS
  <1>2. WalkFits(x)
    BY <1>1 DEF WalkOnward
  <1>3. PICK S : S = {i \in x.stay : Stays(i)}
    OBVIOUS
  <1>4. walk' = [x EXCEPT !.stay = S]
    BY <1>1, <1>3 DEF Followed
  <1>5. PICK y : y = walk'
    OBVIOUS
  <1>6. /\ y \in Walks /\ y.todo = x.todo /\ y.files = x.files /\ y.twice = x.twice
        /\ y.stay = S
    BY <1>2, <1>3, <1>4, <1>5 DEF WalkFits, Walks
  <1>7. ASSUME NEW i \in S
        PROVE  i \in Files' /\ \A d : Covers(d, i)' <=> Covers(d, i)
    BY <1>2, <1>3, StaysCovered DEF WalkFits
  <1>8. WalkFits(y)'
    <2> SUFFICES ASSUME NEW i \in S
                 PROVE  /\ i \in Files' /\ i \notin x.twice
                        /\ \A k, l \in DOMAIN x.todo :
                              Covers(x.todo[k], i)' /\ Covers(x.todo[l], i)' => k = l
                        /\ i \in x.files <=> \A k \in DOMAIN x.todo : ~Covers(x.todo[k], i)'
      BY <1>6 DEF WalkFits
    <2> QED
      BY <1>2, <1>3, <1>7 DEF WalkFits
  <1> QED
    BY <1>5, <1>8 DEF WalkOnward

LEMMA WalkBeginFits ==
    ASSUME Tree, WalkBegin
    PROVE  WalkOnward'
  <1>1. PICK y : y = walk'
    OBVIOUS
  <1>2. y = [todo |-> <<Root>>, files |-> {}, twice |-> {}, stay |-> Files]
    BY <1>1 DEF WalkBegin
  <1>3. Root \in 1 .. MaxIno /\ Files \subseteq Inos
    BY NamespaceAssumption DEF Root, Files, Rows
  <1>4. y \in Walks /\ y.todo = <<Root>> /\ y.files = {} /\ y.twice = {} /\ y.stay = Files
    BY <1>2, <1>3 DEF Walks
  <1>5. DOMAIN y.todo = {1} /\ y.todo[1] = Root
    BY <1>4
  <1>6. WalkFits(y)
    BY <1>4, <1>5 DEF WalkFits, Covers
  <1>7. UNCHANGED vars
    BY DEF WalkBegin
  <1>8. WalkFits(y)'
    BY <1>6, <1>7 DEF WalkFits, Covers, Below, ClosedBelow, Files, IsDir, Rows, vars, disk
  <1> QED
    BY <1>1, <1>8 DEF WalkOnward

(* The server handles one call at a time: no delete runs during a walk.    *)
OneAtATime == call = None \/ walk = None

LEMMA WalkInit ==
    ASSUME McpInit
    PROVE  WalkOnward /\ OneAtATime
  BY DEF McpInit, WalkOnward, OneAtATime

LEMMA WalkNext ==
    ASSUME Inductive, WalkOnward, OneAtATime, [McpNext]_mcpVars
    PROVE  (WalkOnward /\ OneAtATime)'
  <1>0. Tree /\ Tree'
    <2>1. Inductive'
      BY ToolsKeepTree
    <2> QED
      BY <2>1 DEF Inductive, TreeOK, NamespaceTypeOK, Tree, TableOK
  <1>1. ASSUME UNCHANGED <<vars, walk>>
        PROVE  WalkOnward'
    BY <1>1 DEF WalkOnward, WalkFits, Covers, Below, ClosedBelow, Files, IsDir, Rows,
                vars, disk
  <1>2. CASE MountStep
    BY <1>0, <1>2, MountStepFits DEF MountStep, OneAtATime
  <1>3. CASE UNCHANGED mcpVars
    BY <1>1, <1>3 DEF mcpVars, tools, OneAtATime
  <1>4. ASSUME NEW path, NEW content, NEW action, NEW k,
               Announce(action, path, content) \/ Confirm(k, action, path) \/ Expire(k)
        PROVE  (WalkOnward /\ OneAtATime)'
    BY <1>1, <1>4 DEF Announce, Confirm, Expire, Ready, OneAtATime
  <1>5. CASE Resolve \/ PutBytes \/ CommitOverwrite
    BY <1>1, <1>5 DEF Resolve, PutBytes, CommitOverwrite, Resolved, OneAtATime
  <1>6. CASE DeleteFile
    BY <1>6 DEF DeleteFile, Resolved, OneAtATime, WalkOnward
  <1>7. CASE WalkBegin
    BY <1>0, <1>7, WalkBeginFits DEF WalkBegin, Ready, OneAtATime
  <1>8. CASE WalkStep
    BY <1>0, <1>8, WalkStepFits DEF WalkStep, OneAtATime
  <1>9. CASE WalkEnd \/ Restart
    BY <1>9 DEF WalkEnd, Restart, WalkOnward, OneAtATime
  <1> QED
    BY <1>2, <1>3, <1>4, <1>5, <1>6, <1>7, <1>8, <1>9 DEF McpNext, ToolStep

(* A walk over all files ends with every file that stayed where it was,    *)
(* and with none of them twice, whatever else the mount renames, creates   *)
(* and removes between its queries (collect_all_file_inodes).              *)
THEOREM WalkAlwaysComplete == McpSpec => []WalkComplete
  <1>1. McpInit => Inductive /\ WalkOnward /\ OneAtATime
    BY InductiveInit, WalkInit DEF McpInit
  <1>2. Inductive /\ WalkOnward /\ OneAtATime /\ [McpNext]_mcpVars
            => (Inductive /\ WalkOnward /\ OneAtATime)'
    BY ToolsKeepTree, WalkNext
  <1>3. WalkOnward => WalkComplete
    BY DEF WalkOnward, WalkFits, WalkComplete
  <1> QED
    BY <1>1, <1>2, <1>3, PTL DEF McpSpec

(* Numbers have a least one: the base of arguments by the smallest         *)
(* counterexample.                                                         *)
LEMMA LeastElement ==
    ASSUME NEW T, T \subseteq Nat, T # {}
    PROVE  \E x \in T : \A y \in T : x <= y
<1> DEFINE R == {p \in Nat \X Nat : p[1] < p[2]}
<1>1. IsWellFoundedOn(R, Nat)
  BY NatLessThanWellFounded DEF OpToRel
<1> HIDE DEF R
<1>2. PICK x \in T : \A y \in T : ~ (<<y, x>> \in R)
  BY <1>1, WFMin
<1>3. ASSUME NEW y \in T PROVE x <= y
  <2>1. ~ (y < x)
    BY <1>2 DEF R
  <2> QED
    BY <2>1
<1> QED
  BY <1>3

(* What one query of Trail finds.                                          *)
Query(i, n) ==
    LET e == IF i = None THEN {} ELSE Entry(i, n)
    IN  IF e = {} THEN None ELSE CHOOSE j \in e : TRUE

Follows(f, path, m) ==
    f = [n \in 0 .. m |-> IF n = 0 THEN Root ELSE Query(f[n - 1], path[n])]

LEMMA FollowsExists ==
    ASSUME NEW path, NEW m \in Nat
    PROVE  \E f : Follows(f, path, m)
  <1> DEFINE Bad == {k \in Nat : ~ \E f : Follows(f, path, k)}
  <1> SUFFICES ASSUME Bad # {}
               PROVE  FALSE
    OBVIOUS
  <1>1. PICK k \in Bad : \A l \in Bad : k <= l
    BY LeastElement
  <1>2. k # 0
    <2>1. Follows([n \in 0 .. 0 |-> Root], path, 0)
      BY DEF Follows
    <2> QED
      BY <2>1
  <1>3. k \in Nat /\ k - 1 \in Nat /\ k - 1 \notin Bad
    BY <1>1, <1>2
  <1>4. PICK f : Follows(f, path, k - 1)
    BY <1>3
  <1> DEFINE g == [n \in 0 .. k |-> IF n = k THEN Query(f[k - 1], path[k]) ELSE f[n]]
  <1>5. \A n \in 0 .. k - 1 : f[n] = IF n = 0 THEN Root ELSE Query(f[n - 1], path[n])
    BY <1>4 DEF Follows
  <1>6. ASSUME NEW n \in 0 .. k
        PROVE  g[n] = IF n = 0 THEN Root ELSE Query(g[n - 1], path[n])
    <2>1. CASE n = k
      BY <1>2, <1>3, <2>1
    <2>2. CASE n # k
      <3>1. n \in 0 .. k - 1 /\ (n # 0 => n - 1 \in 0 .. k /\ n - 1 # k)
        BY <1>3, <2>2
      <3> QED
        BY <1>5, <2>2, <3>1
    <2> QED
      BY <2>1, <2>2
  <1>7. Follows(g, path, k)
    BY <1>6 DEF Follows
  <1> QED
    BY <1>1, <1>7

(* Trail follows its path query by query.                                  *)
LEMMA TrailSteps ==
    ASSUME NEW path, Len(path) \in Nat
    PROVE  \E f : /\ Follows(f, path, Len(path))
                  /\ Trail(path) = [n \in 1 .. Len(path) |-> f[n]]
  <1> DEFINE at[n \in 0 .. Len(path)] ==
                IF n = 0 THEN Root
                ELSE LET e == IF at[n - 1] = None THEN {} ELSE Entry(at[n - 1], path[n])
                     IN  IF e = {} THEN None ELSE CHOOSE i \in e : TRUE
  <1>1. Trail(path) = [n \in 1 .. Len(path) |-> at[n]]
    BY DEF Trail
  <1>2. \E f : Follows(f, path, Len(path))
    BY FollowsExists
  <1>3. Follows(at, path, Len(path))
    BY <1>2 DEF Follows, Query
  <1> QED
    BY <1>1, <1>3

LEMMA QueryFinds ==
    ASSUME NEW i, NEW n
    PROVE  /\ Query(i, n) \in Rows \union {None}
           /\ i # None /\ NamesUnique => \A j \in Entry(i, n) : Query(i, n) = j
  <1>1. \A j \in Entry(i, n) : j \in Rows /\ tab[j].parent = i /\ tab[j].name = n
    BY DEF Entry, Kids
  <1>2. CASE i = None \/ Entry(i, n) = {}
    BY <1>2 DEF Query
  <1>3. CASE i # None /\ Entry(i, n) # {}
    <2>1. Query(i, n) = CHOOSE j \in Entry(i, n) : TRUE
      BY <1>3 DEF Query
    <2>2. Query(i, n) \in Entry(i, n)
      BY <1>3, <2>1
    <2> QED
      BY <1>1, <2>2 DEF NamesUnique
  <1> QED
    BY <1>2, <1>3

LEMMA TrailType ==
    ASSUME NEW path, Len(path) \in Nat
    PROVE  /\ Trail(path) \in Seq(Inos \union {None})
           /\ Len(Trail(path)) = Len(path)
  <1>1. PICK f : /\ Follows(f, path, Len(path))
                 /\ Trail(path) = [n \in 1 .. Len(path) |-> f[n]]
    BY TrailSteps
  <1>2. \A n \in 1 .. Len(path) : f[n] = Query(f[n - 1], path[n])
    BY <1>1 DEF Follows
  <1>3. \A n \in 1 .. Len(path) : f[n] \in Inos \union {None}
    BY <1>2, QueryFinds DEF Rows
  <1>4. Trail(path) \in [1 .. Len(path) -> Inos \union {None}]
    BY <1>1, <1>3
  <1>5. Trail(path) \in Seq(Inos \union {None})
    BY <1>4, SeqDef
  <1>6. 1 .. Len(Trail(path)) = 1 .. Len(path) /\ Len(Trail(path)) \in Nat
    BY <1>4, <1>5, LenProperties
  <1> QED
    BY <1>5, <1>6

LEMMA StrayedFrame ==
    ASSUME tab' = tab, named' = named
    PROVE  Strayed' = Strayed
  BY DEF Strayed, Trail, Entry, Kids, Rows

----------------------------------------------------------------------------
(* What the tokens announced, and how far the call is with its path.       *)
Announcement == [path : Paths, trail : Seq(Inos \union {None})]

(* A path that does not name what it named is known to be rebound.         *)
AnnouncedKept ==
    /\ named \in Seq(Announcement) /\ Len(named) <= MaxTokens
    /\ \A k \in DOMAIN named : Len(named[k].trail) = Len(named[k].path)
    /\ expired \union rebound \subseteq DOMAIN named
    /\ Strayed \subseteq rebound

TokensName ==
    \A t \in tokens :
        /\ t.id \in DOMAIN named /\ t.action \in Actions
        /\ t.path \in Paths /\ t.content \in Contents \union {None}
        /\ t.path = named[t.id].path

(* j names of the path are behind the call, and at is what they named when *)
(* the token was handed out, unless the path was rebound.                  *)
AtName(c, j) ==
    /\ j \in Nat /\ Len(c.todo) + j = Len(named[c.id].path)
    /\ \A k \in 1 .. Len(c.todo) : c.todo[k] = named[c.id].path[j + k]
    /\ j = 0 => c.at = Root
    /\ j > 0 => c.at \in Inos /\ (c.id \in rebound \/ c.at = named[c.id].trail[j])

CallFits(c) ==
    /\ c.id \in DOMAIN named /\ c.at \in 1 .. MaxIno /\ c.todo \in Seq(Names)
    /\ \E j : AtName(c, j)

CallFollows == call # None => CallFits(call)

EffectsHit ==
    \A e \in effects :
        /\ e.id \in DOMAIN named
        /\ e.rebound \/ e.ino = named[e.id].trail[Len(named[e.id].trail)]

Hits == AnnouncedKept /\ TokensName /\ CallFollows /\ EffectsHit

LEMMA PathLength ==
    ASSUME NEW p \in Paths
    PROVE  p \in Seq(Names) /\ Len(p) \in Nat \ {0}
  BY McpAssumption, EmptySeq

LEMMA NamedFields ==
    ASSUME AnnouncedKept, NEW k \in DOMAIN named
    PROVE  /\ named[k].path \in Paths /\ named[k].trail \in Seq(Inos \union {None})
           /\ Len(named[k].trail) = Len(named[k].path) /\ Len(named[k].path) \in Nat \ {0}
  <1>1. named[k] \in Announcement
    BY LenProperties, ElementOfSeq DEF AnnouncedKept
  <1> QED
    BY <1>1, PathLength DEF AnnouncedKept, Announcement

(* The announcements stay, and more may be rebound.                        *)
LEMMA HitsKept ==
    ASSUME Hits, named' = named,
           rebound \subseteq rebound', rebound' \subseteq DOMAIN named,
           expired' \subseteq DOMAIN named, Strayed' \subseteq rebound',
           tokens' \subseteq tokens, call' \in {call, None}, effects' = effects
    PROVE  Hits'
  <1>1. AnnouncedKept'
    BY DEF Hits, AnnouncedKept
  <1>2. TokensName'
    BY DEF Hits, TokensName
  <1>3. ASSUME NEW c, CallFits(c)
        PROVE  CallFits(c)'
    BY <1>3 DEF CallFits, AtName
  <1>4. CallFollows'
    BY <1>3 DEF Hits, CallFollows
  <1>5. EffectsHit'
    BY DEF Hits, EffectsHit
  <1> QED
    BY <1>1, <1>2, <1>4, <1>5 DEF Hits

(* The call goes on to another place; nothing else changes.                *)
LEMMA HitsGoOn ==
    ASSUME Hits, UNCHANGED <<tab, named, rebound, expired, tokens, effects>>,
           NEW c, call' = c, CallFits(c)
    PROVE  Hits'
  <1>1. Strayed' = Strayed
    BY StrayedFrame
  <1>2. AnnouncedKept' /\ TokensName' /\ EffectsHit'
    BY <1>1 DEF Hits, AnnouncedKept, TokensName, EffectsHit
  <1>3. CallFits(c)'
    BY DEF CallFits, AtName
  <1> QED
    BY <1>2, <1>3 DEF Hits, CallFollows

LEMMA HitsAnnounce ==
    ASSUME Hits, NEW action \in Actions, NEW path \in Paths,
           NEW content \in Contents \union {None}, Announce(action, path, content)
    PROVE  Hits'
  <1>0. /\ Len(named) < MaxTokens
        /\ named' = Append(named, [path |-> path, trail |-> Trail(path)])
        /\ tokens' = Cleaned \union {[id |-> Len(named'), action |-> action,
                                      path |-> path, content |-> content]}
        /\ expired' = expired /\ call' = call /\ effects' = effects
        /\ rebound' = rebound \union Strayed'
    BY DEF Announce, Track
  <1>1. PICK x \in Announcement : /\ x = [path |-> path, trail |-> Trail(path)]
                                  /\ x.path = path /\ Len(x.trail) = Len(path)
    <2>1. Len(path) \in Nat
      BY PathLength
    <2>2. PICK l \in Seq(Inos \union {None}) : l = Trail(path) /\ Len(l) = Len(path)
      BY <2>1, TrailType
    <2>3. PICK x : x = [path |-> path, trail |-> l]
      OBVIOUS
    <2>4. x \in Announcement /\ x.path = path /\ x.trail = l
      BY <2>3 DEF Announcement
    <2> QED
      BY <2>2, <2>3, <2>4
  <1>2. named \in Seq(Announcement)
    BY DEF Hits, AnnouncedKept
  <1>3. /\ named' \in Seq(Announcement)
        /\ Len(named') = Len(named) + 1 /\ Len(named) \in Nat
        /\ named'[Len(named) + 1] = x /\ \A k \in 1 .. Len(named) : named'[k] = named[k]
    BY <1>0, <1>1, <1>2, AppendProperties, LenProperties
  <1>4. DOMAIN named = 1 .. Len(named) /\ DOMAIN named' = 1 .. Len(named) + 1
    BY <1>2, <1>3, LenProperties
  <1>5. PICK n : n = Len(named) + 1
    OBVIOUS
  <1>6. /\ \A k \in DOMAIN named : k \in DOMAIN named' /\ named'[k] = named[k] /\ k # n
        /\ n \in DOMAIN named' /\ named'[n] = x
        /\ \A k \in DOMAIN named' : k \in DOMAIN named \/ k = n
    BY <1>3, <1>4, <1>5
  <1>7. AnnouncedKept'
    <2>1. Len(named') <= MaxTokens
      BY <1>0, <1>3, McpAssumption
    <2>2. \A k \in DOMAIN named' : Len(named'[k].trail) = Len(named'[k].path)
      BY <1>1, <1>6 DEF Hits, AnnouncedKept
    <2>3. Strayed' \subseteq DOMAIN named'
      BY DEF Strayed
    <2> QED
      BY <1>0, <1>3, <1>6, <2>1, <2>2, <2>3 DEF Hits, AnnouncedKept
  <1>8. TokensName'
    <2>1. PICK t : t = [id |-> Len(named'), action |-> action,
                        path |-> path, content |-> content]
      OBVIOUS
    <2>2. t.id = n /\ t.action = action /\ t.path = path /\ t.content = content
      BY <2>1, <1>3, <1>5
    <2>3. \A u \in tokens' : u \in tokens \/ u = t
      BY <2>1, <1>0 DEF Cleaned
    <2> QED
      BY <2>2, <2>3, <1>1, <1>6 DEF Hits, TokensName
  <1>9. CallFollows'
    <2>1. ASSUME NEW c, CallFits(c)
          PROVE  CallFits(c)'
      BY <2>1, <1>0, <1>6 DEF CallFits, AtName
    <2> QED
      BY <2>1, <1>0 DEF Hits, CallFollows
  <1>10. EffectsHit'
    BY <1>0, <1>6 DEF Hits, EffectsHit
  <1> QED
    BY <1>7, <1>8, <1>9, <1>10 DEF Hits

LEMMA HitsConfirm ==
    ASSUME Hits, NEW k, NEW action, NEW path, Confirm(k, action, path)
    PROVE  Hits'
  <1>0. UNCHANGED <<tab, named, rebound, expired, effects>>
    BY DEF Confirm, vars, disk
  <1>1. Strayed' = Strayed
    BY <1>0, StrayedFrame
  <1>2. Cleaned \subseteq tokens
    BY DEF Cleaned
  <1>3. CASE tokens' = Cleaned /\ UNCHANGED call
    BY <1>0, <1>1, <1>2, <1>3, HitsKept DEF Hits, AnnouncedKept
  <1>4. ASSUME NEW t \in Matching(k, action, path), tokens' = Consumed(t),
               call' = [id |-> k, action |-> action, at |-> Root, todo |-> path,
                        content |-> t.content, put |-> FALSE, late |-> k \in expired]
        PROVE  Hits'
    <2>1. t \in tokens /\ t.id = k /\ t.path = path /\ tokens' \subseteq tokens
      BY <1>2, <1>4 DEF Matching, Consumed
    <2>2. k \in DOMAIN named /\ path \in Paths /\ path = named[k].path
      BY <2>1 DEF Hits, TokensName
    <2>3. PICK c : c = call'
      OBVIOUS
    <2>4. c.id = k /\ c.at = Root /\ c.todo = path
      BY <1>4, <2>3
    <2>5. path \in Seq(Names) /\ Len(path) \in Nat
      BY <2>2, PathLength
    <2>6. AtName(c, 0)
      BY <2>2, <2>4, <2>5 DEF AtName
    <2>7. CallFits(c)
      BY <2>2, <2>4, <2>5, <2>6, NamespaceAssumption DEF CallFits, Root
    <2>8. CallFits(c)'
      BY <2>7, <1>0 DEF CallFits, AtName
    <2>9. AnnouncedKept' /\ TokensName' /\ EffectsHit'
      BY <1>0, <1>1, <2>1 DEF Hits, AnnouncedKept, TokensName, EffectsHit
    <2> QED
      BY <2>3, <2>8, <2>9 DEF Hits, CallFollows
  <1> QED
    BY <1>3, <1>4 DEF Confirm

(* A query of resolve_path finds what the trail has, as long as the path   *)
(* was not rebound.                                                        *)
LEMMA HitsResolve ==
    ASSUME Hits, TableOK, NamesUnique, Resolve
    PROVE  Hits'
  <1>0. /\ call # None /\ call.todo # <<>>
        /\ UNCHANGED <<tab, named, rebound, expired, tokens, effects>>
    BY DEF Resolve, vars, disk
  <1>1. CASE call' = None
    <2>1. Strayed' = Strayed
      BY <1>0, StrayedFrame
    <2> QED
      BY <1>0, <1>1, <2>1, HitsKept DEF Hits, AnnouncedKept
  <1>2. ASSUME NEW i \in Entry(call.at, Head(call.todo)),
               call' = [call EXCEPT !.at = i, !.todo = Tail(@)]
        PROVE  Hits'
    <2>1. PICK c : c = call
      OBVIOUS
    <2>2. /\ c.id \in DOMAIN named /\ c.at \in 1 .. MaxIno /\ c.todo \in Seq(Names)
      BY <2>1, <1>0 DEF Hits, CallFollows, CallFits
    <2>3. PICK j : AtName(c, j)
      BY <2>1, <1>0 DEF Hits, CallFollows, CallFits
    <2>4. PICK p \in Paths : p = named[c.id].path
      BY <2>2, NamedFields DEF Hits
    <2>5. PICK y : y = call'
      OBVIOUS
    <2>6. y.id = c.id /\ y.at = i /\ y.todo = Tail(c.todo)
      BY <2>1, <2>5, <1>2
    <2>7. /\ Tail(c.todo) \in Seq(Names) /\ Len(Tail(c.todo)) = Len(c.todo) - 1
          /\ \A k \in 1 .. Len(c.todo) - 1 : Tail(c.todo)[k] = c.todo[k + 1]
          /\ Len(c.todo) \in Nat \ {0} /\ Head(c.todo) = c.todo[1]
      BY <2>1, <2>2, <1>0, EmptySeq
    <2>8. i \in Inos /\ i \in 1 .. MaxIno
      BY <1>2, NamespaceAssumption DEF Entry, Kids, Rows, Inos
    <2>9. /\ j \in Nat /\ Len(c.todo) + j = Len(p)
          /\ \A k \in 1 .. Len(c.todo) : c.todo[k] = p[j + k]
          /\ j = 0 => c.at = Root
          /\ j > 0 => c.id \in rebound \/ c.at = named[c.id].trail[j]
      BY <2>3, <2>4 DEF AtName
    <2>10. Len(p) \in Nat /\ j + 1 \in 1 .. Len(p) /\ j + 1 - 1 = j /\ c.todo[1] = p[j + 1]
      BY <2>7, <2>9
    <2>11. c.id \in rebound \/ i = named[c.id].trail[j + 1]
      <3> SUFFICES ASSUME c.id \notin rebound
                   PROVE  i = named[c.id].trail[j + 1]
        OBVIOUS
      <3>1. Trail(p) = named[c.id].trail
        BY <2>2, <2>4 DEF Hits, AnnouncedKept, Strayed
      <3>2. PICK f : /\ Follows(f, p, Len(p))
                     /\ Trail(p) = [n \in 1 .. Len(p) |-> f[n]]
        BY <2>10, TrailSteps
      <3>3. /\ f[0] = Root /\ f[j + 1] = Query(f[j], p[j + 1])
            /\ Trail(p)[j + 1] = f[j + 1] /\ (j > 0 => Trail(p)[j] = f[j])
        BY <2>9, <2>10, <3>2 DEF Follows
      <3>4. f[j] = c.at
        BY <2>9, <3>1, <3>3
      <3>5. c.at # None
        BY <2>2, NamespaceAssumption DEF Inos, Root
      <3>6. PICK a, n : a = c.at /\ n = p[j + 1]
        OBVIOUS
      <3>7. i \in Entry(a, n)
        BY <3>6, <1>2, <2>1, <2>7, <2>10
      <3>8. Query(a, n) = i
        BY <3>5, <3>6, <3>7, QueryFinds
      <3> QED
        BY <3>1, <3>3, <3>4, <3>6, <3>8
    <2>12. ASSUME NEW k \in 1 .. Len(y.todo)
           PROVE  y.todo[k] = p[(j + 1) + k]
      <3>1. k \in 1 .. Len(c.todo) - 1 /\ k + 1 \in 1 .. Len(c.todo) /\ k \in Nat
        BY <2>6, <2>7
      <3>2. y.todo[k] = p[j + (k + 1)] /\ j + (k + 1) = (j + 1) + k
        BY <2>6, <2>7, <2>9, <3>1
      <3> QED
        BY <3>2
    <2>13. Len(y.todo) + (j + 1) = Len(p) /\ j + 1 \in Nat /\ j + 1 # 0
      BY <2>6, <2>7, <2>9
    <2>14. AtName(y, j + 1)
      BY <2>4, <2>6, <2>8, <2>11, <2>12, <2>13 DEF AtName
    <2>15. CallFits(y)
      BY <2>2, <2>6, <2>7, <2>8, <2>14 DEF CallFits
    <2> QED
      BY <2>5, <2>15, <1>0, HitsGoOn
  <1> QED
    BY <1>1, <1>2 DEF Resolve

(* The call takes effect where its path has led.                           *)
LEMMA EffectHits ==
    ASSUME Hits, call # None, call.todo = <<>>
    PROVE  /\ Effect.id \in DOMAIN named /\ call.at \in Inos
           /\ \/ Effect.rebound
              \/ Effect.ino = named[Effect.id].trail[Len(named[Effect.id].trail)]
  <1>1. /\ Effect.id = call.id /\ Effect.ino = call.at
        /\ Effect.rebound = (call.id \in rebound)
    BY DEF Effect
  <1>2. PICK c : c = call
    OBVIOUS
  <1>3. c.id \in DOMAIN named /\ \E j : AtName(c, j)
    BY <1>2 DEF Hits, CallFollows, CallFits
  <1>4. PICK j : AtName(c, j)
    BY <1>3
  <1>5. /\ Len(named[c.id].trail) = Len(named[c.id].path)
        /\ Len(named[c.id].path) \in Nat \ {0}
    BY <1>3, NamedFields DEF Hits
  <1>6. Len(c.todo) = 0
    BY <1>2
  <1>7. j = Len(named[c.id].trail) /\ j > 0
    BY <1>4, <1>5, <1>6 DEF AtName
  <1>8. c.at \in Inos /\ (c.id \in rebound \/ c.at = named[c.id].trail[j])
    BY <1>4, <1>7 DEF AtName
  <1> QED
    BY <1>1, <1>2, <1>3, <1>7, <1>8

LEMMA HitsEffect ==
    ASSUME Hits, call # None, call.todo = <<>>, call' = None,
           UNCHANGED <<tokens, expired, named>>,
           effects' \in {effects, effects \union {Effect}},
           rebound \subseteq rebound', rebound' \subseteq DOMAIN named,
           Strayed' \subseteq rebound'
    PROVE  Hits'
  <1>1. PICK x : x = Effect
    OBVIOUS
  <1>2. /\ x.id \in DOMAIN named
        /\ x.rebound \/ x.ino = named[x.id].trail[Len(named[x.id].trail)]
    BY <1>1, EffectHits
  <1>3. \A e \in effects' : e \in effects \/ e = x
    BY <1>1
  <1>4. EffectsHit'
    BY <1>2, <1>3 DEF Hits, EffectsHit
  <1>5. AnnouncedKept' /\ TokensName' /\ CallFollows'
    BY DEF Hits, AnnouncedKept, TokensName, CallFollows
  <1> QED
    BY <1>4, <1>5 DEF Hits

LEMMA HitsInit ==
    ASSUME McpInit
    PROVE  Hits
  <1>1. named \in Seq(Announcement) /\ Len(named) = 0 /\ DOMAIN named = {}
    BY EmptySeq DEF McpInit
  <1> QED
    BY <1>1, McpAssumption DEF McpInit, Hits, AnnouncedKept, TokensName, CallFollows,
                               EffectsHit, Strayed

LEMMA HitsNext ==
    ASSUME Hits, TableOK, NamesUnique, [McpNext]_mcpVars
    PROVE  Hits'
  <1>a. /\ rebound \subseteq DOMAIN named /\ expired \subseteq DOMAIN named
        /\ Strayed \subseteq rebound
    BY DEF Hits, AnnouncedKept
  <1>b. Strayed' \subseteq DOMAIN named'
    BY DEF Strayed
  <1>1. CASE MountStep
    BY <1>1, <1>a, <1>b, HitsKept DEF MountStep, Track
  <1>2. ASSUME UNCHANGED <<tab, named, rebound, effects>>, tokens' \subseteq tokens,
               call' \in {call, None}, expired' \subseteq DOMAIN named
        PROVE  Hits'
    <2>1. Strayed' = Strayed
      BY <1>2, StrayedFrame
    <2> QED
      BY <1>2, <2>1, <1>a, HitsKept
  <1>3. CASE UNCHANGED mcpVars
    BY <1>2, <1>3, <1>a DEF mcpVars, vars, disk, tools
  <1>4. ASSUME NEW path \in Paths,
               \/ Announce("delete", path, None)
               \/ \E content \in Contents : Announce("overwrite", path, content)
        PROVE  Hits'
    BY <1>4, HitsAnnounce DEF Actions
  <1>5. ASSUME NEW k, NEW action, NEW path, Confirm(k, action, path)
        PROVE  Hits'
    BY <1>5, HitsConfirm
  <1>6. CASE Resolve
    BY <1>6, HitsResolve
  <1>7. CASE DeleteFile
    BY <1>7, <1>a, <1>b, HitsEffect DEF DeleteFile, Resolved, Track
  <1>8. CASE PutBytes
    <2>1. UNCHANGED <<tab, named, rebound, expired, tokens, effects>> /\ call # None
      BY <1>8 DEF PutBytes, Resolved, vars, disk
    <2>2. CASE call' = None
      BY <1>2, <2>1, <2>2, <1>a
    <2>3. CASE call' = [call EXCEPT !.put = TRUE]
      <3>1. PICK c, y : c = call /\ y = call'
        OBVIOUS
      <3>2. y.id = c.id /\ y.at = c.at /\ y.todo = c.todo
        BY <2>3, <3>1
      <3>3. CallFits(c)
        BY <2>1, <3>1 DEF Hits, CallFollows
      <3>4. CallFits(y)
        BY <3>2, <3>3 DEF CallFits, AtName
      <3> QED
        BY <2>1, <3>1, <3>4, HitsGoOn
    <2> QED
      BY <1>8, <2>2, <2>3 DEF PutBytes
  <1>9. CASE CommitOverwrite
    <2>1. UNCHANGED <<tab, named, rebound, expired, tokens>>
      BY <1>9 DEF CommitOverwrite, vars, disk
    <2>2. Strayed' = Strayed
      BY <2>1, StrayedFrame
    <2>3. /\ call # None /\ call.todo = <<>> /\ call' = None
          /\ effects' \in {effects, effects \union {Effect}}
      BY <1>9 DEF CommitOverwrite, Resolved
    <2> QED
      BY <1>a, <2>1, <2>2, <2>3, HitsEffect
  <1>10. CASE WalkBegin \/ WalkStep \/ WalkEnd \/ Restart
    BY <1>2, <1>10, <1>a DEF WalkBegin, WalkStep, WalkEnd, Restart, vars, disk
  <1>11. ASSUME NEW k \in DOMAIN named, Expire(k)
         PROVE  Hits'
    <2>1. expired' \subseteq DOMAIN named
      BY <1>11, <1>a DEF Expire
    <2> QED
      BY <1>2, <1>11, <2>1 DEF Expire, vars, disk
  <1> QED
    BY <1>1, <1>3, <1>4, <1>5, <1>6, <1>7, <1>8, <1>9, <1>10, <1>11 DEF McpNext, ToolStep

LEMMA HitsTypes ==
    ASSUME Hits, WalkOnward
    PROVE  McpTypeOK
  <1>1. \A k \in DOMAIN named : /\ named[k].path \in Paths
                                /\ named[k].trail \in Seq(Inos \union {None})
    BY NamedFields DEF Hits
  <1>2. call # None => /\ call.at \in 1 .. MaxIno
                       /\ call.todo = <<>> => call.at \in Inos
    BY EffectHits DEF Hits, CallFollows, CallFits
  <1>3. walk # None => walk.files \union walk.twice \union walk.stay \subseteq Inos
    BY DEF WalkOnward, WalkFits, Walks
  <1> QED
    BY <1>1, <1>2, <1>3 DEF Hits, AnnouncedKept, TokensName, McpTypeOK

(* What a confirmed call deletes or overwrites is what its path named when *)
(* the token was handed out, or the path, or one above it, is known to     *)
(* have been rebound: no two queries of resolve_path mix two states of the *)
(* tree without that (delete_file, overwrite_file).                        *)
THEOREM AlwaysHitsAnnounced == McpSpec => []HitsAnnounced
  <1>1. McpInit => Inductive /\ WalkOnward /\ OneAtATime /\ Hits
    BY InductiveInit, WalkInit, HitsInit DEF McpInit
  <1>2. Inductive => TableOK /\ NamesUnique
    BY TreeOfOK DEF Inductive, Tree
  <1>3. Inductive /\ WalkOnward /\ OneAtATime /\ Hits /\ [McpNext]_mcpVars
            => (Inductive /\ WalkOnward /\ OneAtATime /\ Hits)'
    BY <1>2, ToolsKeepTree, WalkNext, HitsNext
  <1>4. WalkOnward /\ Hits => HitsAnnounced
    BY HitsTypes DEF Hits, EffectsHit, HitsAnnounced
  <1> QED
    BY <1>1, <1>3, <1>4, PTL DEF McpSpec
=============================================================================
