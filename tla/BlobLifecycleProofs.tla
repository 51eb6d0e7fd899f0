------------------------ MODULE BlobLifecycleProofs ------------------------
(***************************************************************************)
(* Proofs about BlobLifecycle, for any files, contents and numbers of      *)
(* writes, failing calls and crashes: dedup, reconcile, heal, retry and    *)
(* the cleaner keep the bytes and the inventory rows of what is queued and *)
(* what is current, as long as no row-first write meets by dedup a row     *)
(* past the grace window (YoungSpec).  The writes come first, then the     *)
(* cleaner, then the theorems and the two systems in which YoungSpec       *)
(* holds by itself.                                                        *)
(***************************************************************************)
EXTENDS BlobLifecycle, TLAPS

Markers == [vid : Nat, inode : Inodes, blob : Blob, shared : BOOLEAN]

IsShared(b)  == [blob |-> b, shared |-> TRUE] \in rows
IsPrivate(b) == [blob |-> b, shared |-> FALSE] \in rows

Committed(m) == \E v \in versions : v.vid = m.vid

(* A queued write that its replay would still commit.                      *)
Waiting(m) == m.inode \in live /\ ~Committed(m)

Shape ==
    /\ BlobsTypeOK
    /\ next \in Nat
    /\ overlay \in [Inodes -> Markers \union {None}]
    /\ drain \in [pc : {"idle", "tx", "reconcile", "unlink"},
                  mark : Markers \union {None}, canonical : Blob \union {None},
                  ins : BOOLEAN]
    /\ drain.pc = "reconcile" => drain.canonical \in Blob
    /\ fails \in Nat /\ crashes \in Nat /\ undone \in Nat /\ undone <= fails

(* Numbers are handed out once.                                            *)
Fresh ==
    /\ \A r \in rows : r.blob[1] < next
    /\ \A m \in queue : m.blob[1] < next /\ m.vid < next
    /\ \A v \in versions : v.vid < next
    /\ \A p \in Procs : proc[p].pc # "idle" =>
          proc[p].inode \in Inodes /\ proc[p].blob \in Blob /\ proc[p].blob[1] < next
    /\ \A m, o \in queue : m.vid = o.vid => m = o
    /\ \A v \in versions, m \in queue : v.vid = m.vid => v.inode = m.inode
    /\ drain.pc # "idle" => drain.mark \in queue
    /\ \A i \in Inodes : overlay[i] # None => overlay[i] \in queue

(* A blob has one row, and a shared content one shared row.                *)
OneRow ==
    /\ \A r, s \in rows : r.blob = s.blob => r = s
    /\ \A r, s \in rows :
          r.shared /\ s.shared /\ HashOf(r.blob) = HashOf(s.blob) => r = s

(* A request holds the blob of a shared row, or bytes nobody else knows.   *)
Provisional ==
    /\ \A p \in Procs : proc[p].pc \in {"store", "heal"} =>
          IsShared(proc[p].blob) /\ proc[p].shared
    /\ proc["cli"].pc = "finish" => IsShared(proc["cli"].blob)
    /\ proc["fuse"].pc = "finish" =>
          \/ IsShared(proc["fuse"].blob) /\ proc["fuse"].shared
          \/ /\ ~HasRow(proc["fuse"].blob) /\ proc["fuse"].blob \in files
             /\ \A m \in queue : m.blob # proc["fuse"].blob

(* Only a blob with a shared row is in two markers.                        *)
QueueBlobs ==
    /\ \A m \in queue : \A r \in rows : r.blob = m.blob => r.shared = m.shared
    /\ \A m, o \in queue : m.blob = o.blob /\ (~HasRow(m.blob) \/ ~m.shared) => m = o

(* What the drain learned in its transaction is still so.                  *)
DrainKnows ==
    /\ drain.pc = "tx" /\ ~drain.mark.shared => ~HasRow(drain.mark.blob)
    /\ drain.pc \in {"reconcile", "unlink"} => ~Waiting(drain.mark)
    /\ drain.pc = "reconcile" /\ ~drain.ins =>
          /\ drain.mark.shared /\ HashOf(drain.canonical) = HashOf(drain.mark.blob)
          /\ drain.canonical # drain.mark.blob => ~HasRow(drain.mark.blob)

Inventory == \A i \in live : cur[i] # None => HasRow(cur[i])

(* A private blob is current in one file, the one its marker committed to. *)
PrivateOnce ==
    /\ \A i, j \in live : cur[i] = cur[j] /\ IsPrivate(cur[i]) => i = j
    /\ \A m \in queue : IsPrivate(m.blob) =>
          ~Waiting(m) /\ \A i \in live : cur[i] = m.blob => i = m.inode

Core == OneRow /\ Provisional /\ QueueBlobs /\ DrainKnows /\ Inventory /\ PrivateOnce

(* Bytes that reconcile will move to the canonical blob.                   *)
Evidence(b) ==
    \E m \in queue : /\ m.shared /\ HashOf(m.blob) = HashOf(b) /\ m.blob \in files
                     /\ ~(drain.pc = "unlink" /\ drain.mark = m)

(* While no call fails, whatever crashes.                                  *)
NoFailure ==
    /\ \A m \in queue : Waiting(m) => m.blob \in files
    /\ \A p \in Procs : proc[p].pc = "finish" => proc[p].blob \in files
    /\ \A i \in live : cur[i] # None =>
          cur[i] \in files \/ (IsShared(cur[i]) /\ Evidence(cur[i]))
    /\ drain.pc = "reconcile" /\ drain.mark.shared =>
          \A i \in live :
              cur[i] # None /\ HashOf(cur[i]) = HashOf(drain.mark.blob) /\ IsShared(cur[i])
                  => cur[i] \in files \/ (~drain.ins /\ cur[i] = drain.canonical)

Storing(b) == \E p \in Procs : proc[p].pc = "store" /\ proc[p].blob = b

(* While nothing crashes, whatever calls fail.                             *)
NoCrash ==
    /\ \A b \in Blob : IsShared(b) => b \in files \/ Storing(b)
    /\ \A m \in queue : Waiting(m) => IsShared(m.blob) \/ m.blob \in files
    /\ \A i \in live : cur[i] # None => IsShared(cur[i]) \/ cur[i] \in files

(* While neither happens a committed marker is the one in the drain's hand. *)
Calm ==
    /\ \A m \in queue : Committed(m) =>
          drain.pc \in {"reconcile", "unlink"} /\ drain.mark = m
    /\ drain.pc = "reconcile" /\ drain.mark.inode \in live => drain.mark.blob \in files

(* Next to the cleaner.                                                    *)
CleanerShape ==
    /\ cleaner \in [pc : {"sleep", "list", "row", "wait", "bytes"},
                    protected : SUBSET Hashes, todo : SUBSET Blob,
                    blob : Blob \union {None}]
    /\ cleaner.pc = "sleep" => cleaner = IdleCleaner
    /\ cleaner.pc \in {"wait", "bytes"} => cleaner.blob \in Blob
    /\ lockWaits \in Nat
    /\ cleaner.pc = "wait" => lockWaits > 0
    /\ ~CleanerOn => cleaner = IdleCleaner /\ lockWaits = 0 /\ old = {}

(* The two protections: the blob of a write in flight is within the grace  *)
(* window, and that of a queued write outlived the window only if its      *)
(* marker was there when the pass read the queue.                          *)
Protection ==
    /\ \A b \in old : b \in Blob /\ b[1] < next
    /\ \A p \in Procs : proc[p].pc # "idle" => proc[p].blob \notin old
    /\ cleaner.pc # "sleep" =>
          \A m \in queue : m.blob \in old => HashOf(m.blob) \in cleaner.protected
    /\ cleaner.todo \subseteq old
    /\ cleaner.pc \in {"wait", "bytes"} =>
          /\ cleaner.blob \in old \ cleaner.todo
          /\ HashOf(cleaner.blob) \notin cleaner.protected
    /\ cleaner.pc = "bytes" => ~HasRow(cleaner.blob)

(* The current blob of a file is that of one of its versions.              *)
Versioned ==
    \A i \in live : cur[i] # None => \E v \in versions : v.inode = i /\ v.blob = cur[i]

BytesInv ==
    /\ Shape /\ Fresh /\ CleanerShape /\ Protection /\ Versioned
    /\ undone = 0 /\ lockWaits = 0 =>
          /\ Core
          /\ fails = 0 => NoFailure
          /\ crashes = 0 => NoCrash
          /\ fails = 0 /\ crashes = 0 => Calm

----------------------------------------------------------------------------
LEMMA CanonicalIs ==
    ASSUME Shape, NEW m \in Markers
    PROVE  /\ Canonical(m) \in Blob
           /\ Canonical(m) # m.blob => m.shared
           /\ \/ Canonical(m) = m.blob /\ (m.shared => SharedRows(HashOf(m.blob)) = {})
              \/ m.shared /\ IsShared(Canonical(m)) /\ HashOf(Canonical(m)) = HashOf(m.blob)
  <1>1. CASE m.shared /\ SharedRows(HashOf(m.blob)) # {}
    <2>1. PICK r \in SharedRows(HashOf(m.blob)) : Canonical(m) = r.blob
      BY <1>1 DEF Canonical
    <2>2. r \in rows /\ r.shared /\ HashOf(r.blob) = HashOf(m.blob)
      BY DEF SharedRows
    <2>3. r = [blob |-> r.blob, shared |-> TRUE] /\ r.blob \in Blob
      BY <2>2 DEF Shape, BlobsTypeOK
    <2> QED
      BY <1>1, <2>1, <2>2, <2>3 DEF IsShared
  <1>2. CASE ~(m.shared /\ SharedRows(HashOf(m.blob)) # {})
    BY <1>2 DEF Canonical, Markers
  <1> QED
    BY <1>1, <1>2

(* The row of a marker's content is inserted only when there is none.      *)
LEMMA InsertedIs ==
    ASSUME Shape, NEW m \in Markers
    PROVE  /\ Inserted(m) => Canonical(m) = m.blob /\ ~HasRow(m.blob)
           /\ Inserted(m) /\ m.shared => SharedRows(HashOf(m.blob)) = {}
           /\ ~Inserted(m) => HasRow(Canonical(m))
  <1>1. IsShared(Canonical(m)) => HasRow(Canonical(m))
    BY DEF IsShared, HasRow
  <1> QED
    BY <1>1, CanonicalIs DEF Inserted

(* The steps of everybody but the cleaner.                                 *)
WriteStep ==
    \/ \E i \in Inodes, h \in Hashes : PutProvisional(i, h)
    \/ \E i \in Inodes, h \in Hashes, p \in Procs : InsertBlob(p, i, h)
    \/ \E p \in Procs : \/ StorePutFails(p) \/ HealFails(p) \/ RequestFails(p)
                        \/ StorePut(p) \/ HealDedupHit(p)
    \/ Submit \/ CliCommit
    \/ \E i \in Inodes : Unlink(i)
    \/ \E m \in queue : DrainBegin(m)
    \/ DrainCommit \/ DrainReconcile \/ DrainUnlink
    \/ DrainReconcileFails \/ DrainAbandon
    \/ CrashDaemon \/ KillCli

CleanerStep == (\E r \in rows : Age(r)) \/ CleanStep \/ CleanBytesFails

LEMMA NextIs ==
    ASSUME Next
    PROVE  WriteStep \/ CleanerStep
  BY DEF Next, ProcStep, DrainStep, WriteStep, CleanerStep

(* Types.                                                                  *)
LEMMA ShapeStep ==
    ASSUME Shape, Fresh, WriteStep \/ UNCHANGED vars
    PROVE  Shape'
  <1> USE DEF Shape, BlobsTypeOK, stored, counters
  <1>a. \A h \in Hashes : <<next, h>> \in Blob
    BY DEF Blob
  <1>b. fails + 1 \in Nat /\ crashes + 1 \in Nat /\ undone + 1 \in Nat /\ next + 1 \in Nat
    OBVIOUS
  <1>1. CASE UNCHANGED vars
    BY <1>1 DEF vars
  <1>2. ASSUME NEW i \in Inodes, NEW h \in Hashes, PutProvisional(i, h)
        PROVE  Shape'
    BY <1>2, <1>a, <1>b DEF PutProvisional, Procs
  <1>3. ASSUME NEW i \in Inodes, NEW h \in Hashes, NEW p \in Procs, InsertBlob(p, i, h)
        PROVE  Shape'
    <2>1. \A r \in SharedRows(h) : r.blob \in Blob
      BY DEF SharedRows
    <2> DEFINE Types == /\ rows' \subseteq [blob : Blob, shared : BOOLEAN] /\ next' \in Nat
                        /\ proc' \in [Procs ->
                               [pc : {"idle", "store", "heal", "finish"},
                                inode : Inodes \union {None},
                                blob : Blob \union {None}, shared : BOOLEAN]]
    <2>2. ASSUME NEW r \in SharedRows(h), UNCHANGED <<rows, next>>,
                 proc' = [proc EXCEPT ![p] =
                           [pc |-> "heal", inode |-> i, blob |-> r.blob, shared |-> TRUE]]
          PROVE  Types
      BY <2>1, <2>2
    <2>3. ASSUME rows' = rows \union {[blob |-> <<next, h>>, shared |-> TRUE]},
                 proc' = [proc EXCEPT ![p] =
                   [pc |-> "store", inode |-> i, blob |-> <<next, h>>, shared |-> TRUE]],
                 next' = next + 1
          PROVE  Types
      <3>1. <<next, h>> \in Blob
        BY <1>a
      <3>2. [blob |-> <<next, h>>, shared |-> TRUE] \in [blob : Blob, shared : BOOLEAN]
        BY <3>1
      <3>3. [pc |-> "store", inode |-> i, blob |-> <<next, h>>, shared |-> TRUE] \in
              [pc : {"idle", "store", "heal", "finish"}, inode : Inodes \union {None},
               blob : Blob \union {None}, shared : BOOLEAN]
        BY <3>1
      <3> QED
        BY <1>b, <2>3, <3>2, <3>3
    <2>4. Types
      BY <1>3, <2>2, <2>3 DEF InsertBlob
    <2> QED
      BY <1>3, <2>4 DEF InsertBlob
  <1>4. ASSUME NEW p \in Procs,
               \/ StorePutFails(p) \/ HealFails(p) \/ RequestFails(p)
               \/ StorePut(p) \/ HealDedupHit(p)
        PROVE  Shape'
    <2>a. \/ proc' = [proc EXCEPT ![p] = IdleProc]
          \/ proc' = [proc EXCEPT ![p].pc = "finish"]
      BY <1>4 DEF StorePutFails, HealFails, RequestFails, StorePut, HealDedupHit
    <2>1. proc' \in [Procs -> [pc : {"idle", "store", "heal", "finish"},
                               inode : Inodes \union {None},
                               blob : Blob \union {None}, shared : BOOLEAN]]
      <3>1. CASE proc' = [proc EXCEPT ![p] = IdleProc]
        BY <3>1 DEF IdleProc
      <3>2. CASE proc' = [proc EXCEPT ![p].pc = "finish"]
        <4>1. [proc[p] EXCEPT !.pc = "finish"] \in
                [pc : {"idle", "store", "heal", "finish"}, inode : Inodes \union {None},
                 blob : Blob \union {None}, shared : BOOLEAN]
          OBVIOUS
        <4> QED
          BY <3>2, <4>1
      <3> QED
        BY <2>a, <3>1, <3>2
    <2>2. proc[p].pc # "idle" => proc[p].blob \in Blob
      BY DEF Fresh
    <2>3. /\ files' \subseteq Blob /\ rows' \subseteq rows
          /\ fails' \in Nat /\ undone' \in Nat /\ undone' <= fails'
          /\ UNCHANGED <<versions, cur, live, queue, overlay, old, drain, cleaner, next,
                         crashes, lockWaits>>
      BY <1>4, <1>b, <2>2
      DEF StorePutFails, HealFails, RequestFails, StorePut, HealDedupHit, Fail
    <2> QED
      BY <2>1, <2>3
  <1>5. CASE Submit
    <2> DEFINE w == proc["fuse"]
               m == [vid |-> next, inode |-> w.inode, blob |-> w.blob, shared |-> w.shared]
    <2>1. w.inode \in Inodes /\ w.blob \in Blob /\ w.shared \in BOOLEAN
      BY <1>5 DEF Submit, Fresh, Procs
    <2>2. m \in Markers /\ m.inode = w.inode
      BY <2>1 DEF Markers
    <2>3. /\ queue' = queue \union {m} /\ overlay' = [overlay EXCEPT ![w.inode] = m]
          /\ proc' = [proc EXCEPT !["fuse"] = IdleProc] /\ next' = next + 1
          /\ UNCHANGED <<rows, files, versions, cur, live, old, drain, cleaner, counters>>
      BY <1>5 DEF Submit
    <2> HIDE DEF m
    <2>4. /\ overlay' \in [Inodes -> Markers \union {None}]
          /\ \A i \in Inodes : overlay'[i] = None \/ overlay'[i].inode = i
      BY <2>1, <2>2, <2>3
    <2>5. queue' \subseteq [vid : Nat, inode : Inodes, blob : Blob, shared : BOOLEAN]
      BY <2>2, <2>3 DEF Markers
    <2>6. proc' \in [Procs -> [pc : {"idle", "store", "heal", "finish"},
                               inode : Inodes \union {None},
                               blob : Blob \union {None}, shared : BOOLEAN]]
      BY <2>3 DEF IdleProc
    <2> QED
      BY <1>b, <2>3, <2>4, <2>5, <2>6
  <1>6. CASE CliCommit
    <2>1. proc["cli"].inode \in Inodes /\ proc["cli"].blob \in Blob
      BY <1>6 DEF CliCommit, Fresh, Procs
    <2>2. /\ versions' \subseteq [vid : Nat, inode : Inodes, blob : Blob]
          /\ cur' \in [Inodes -> Blob \union {None}]
      BY <1>6, <2>1 DEF CliCommit
    <2>3. proc' \in [Procs -> [pc : {"idle", "store", "heal", "finish"},
                               inode : Inodes \union {None},
                               blob : Blob \union {None}, shared : BOOLEAN]]
      BY <1>6 DEF CliCommit, IdleProc
    <2> QED
      BY <1>6, <1>b, <2>2, <2>3 DEF CliCommit
  <1>7. ASSUME NEW i \in Inodes, Unlink(i)
        PROVE  Shape'
    <2>1. /\ files' \subseteq Blob /\ versions' \subseteq versions /\ live' \subseteq Inodes
          /\ cur' \in [Inodes -> Blob \union {None}]
      BY <1>7 DEF Unlink
    <2>2. fails' = fails \/ fails' = fails + 1
      BY <1>7 DEF Unlink, Fail
    <2>3. fails' \in Nat /\ fails <= fails'
      BY <2>2
    <2> QED
      BY <1>7, <2>1, <2>3 DEF Unlink
  <1>8. ASSUME NEW m \in queue, DrainBegin(m)
        PROVE  Shape'
    <2>1. m \in Markers
      BY DEF Markers
    <2> QED
      BY <1>8, <2>1 DEF DrainBegin, IdleDrain
  <1>9. CASE DrainCommit
    <2> DEFINE m == drain.mark
    <2>1. m \in Markers /\ Canonical(m) \in Blob
      BY <1>9, CanonicalIs DEF DrainCommit, Fresh, Markers
    <2>2. /\ rows' \subseteq [blob : Blob, shared : BOOLEAN]
          /\ versions' \subseteq [vid : Nat, inode : Inodes, blob : Blob]
          /\ cur' \in [Inodes -> Blob \union {None}]
      BY <1>9, <2>1 DEF DrainCommit, Markers
    <2>3. Inserted(m) \in BOOLEAN
      BY DEF Inserted, HasRow
    <2>4. drain' = [drain EXCEPT !.pc = "reconcile", !.canonical = Canonical(m),
                                 !.ins = Inserted(m)]
      BY <1>9 DEF DrainCommit
    <2>5. drain' \in [pc : {"idle", "tx", "reconcile", "unlink"},
                      mark : Markers \union {None}, canonical : Blob \union {None},
                      ins : BOOLEAN]
      BY <2>1, <2>3, <2>4
    <2>6. drain'.canonical \in Blob
      BY <2>1, <2>4
    <2>7. UNCHANGED <<files, live, queue, overlay, old, proc, cleaner, next, counters>>
      BY <1>9 DEF DrainCommit
    <2> HIDE DEF m
    <2> QED
      BY <2>2, <2>5, <2>6, <2>7
  <1>10. CASE DrainReconcile \/ DrainReconcileFails
    <2>1. drain.canonical \in Blob /\ drain' = [drain EXCEPT !.pc = "unlink"]
      BY <1>10 DEF DrainReconcile, DrainReconcileFails
    <2>2. files' \subseteq Blob /\ fails' \in Nat /\ fails <= fails'
      BY <1>10, <1>b, <2>1 DEF DrainReconcile, DrainReconcileFails, Reconciled, Fail
    <2>3. UNCHANGED <<rows, versions, cur, live, queue, overlay, old, proc, cleaner,
                      next, undone, crashes, lockWaits>>
      BY <1>10 DEF DrainReconcile, DrainReconcileFails
    <2> QED
      BY <2>1, <2>2, <2>3
  <1>11. CASE DrainUnlink
    BY <1>11 DEF DrainUnlink, IdleDrain
  <1>12. CASE DrainAbandon
    BY <1>12, <1>b DEF DrainAbandon, IdleDrain, Fail
  <1>13. CASE CrashDaemon
    <2>1. \A i \in Inodes : Newest(i) \in Markers \union {None}
                            /\ (Newest(i) # None => Newest(i).inode = i)
      BY DEF Newest, Markers
    <2>2. /\ overlay' \in [Inodes -> Markers \union {None}]
          /\ \A i \in Inodes : overlay'[i] = None \/ overlay'[i].inode = i
      BY <1>13, <2>1 DEF CrashDaemon
    <2>3. proc' \in [Procs -> [pc : {"idle", "store", "heal", "finish"},
                               inode : Inodes \union {None},
                               blob : Blob \union {None}, shared : BOOLEAN]]
      BY <1>13 DEF CrashDaemon, IdleProc
    <2> QED
      BY <1>13, <1>b, <2>2, <2>3 DEF CrashDaemon, IdleDrain, IdleCleaner
  <1>14. CASE KillCli
    <2>1. proc' \in [Procs -> [pc : {"idle", "store", "heal", "finish"},
                               inode : Inodes \union {None},
                               blob : Blob \union {None}, shared : BOOLEAN]]
      BY <1>14 DEF KillCli, IdleProc
    <2> QED
      BY <1>14, <1>b, <2>1 DEF KillCli
  <1> QED
    BY <1>1, <1>2, <1>3, <1>4, <1>5, <1>6, <1>7, <1>8, <1>9, <1>10, <1>11, <1>12, <1>13,
       <1>14 DEF WriteStep

(* Numbers stay unused until they are handed out.                          *)
LEMMA FreshStep ==
    ASSUME Shape, Fresh, WriteStep \/ UNCHANGED vars
    PROVE  Fresh'
  <1> USE DEF Shape, BlobsTypeOK, Fresh
  <1>a. \A h \in Hashes : <<next, h>> \in Blob /\ <<next, h>>[1] = next
    BY DEF Blob
  <1>b. \A b \in Blob : b[1] \in Nat
    BY DEF Blob
  <1>1. CASE UNCHANGED vars
    BY <1>1 DEF vars, stored, counters
  <1>2. ASSUME NEW i \in Inodes, NEW h \in Hashes, PutProvisional(i, h)
        PROVE  Fresh'
    <2>1. \A p \in Procs : proc'[p].pc # "idle" =>
             proc'[p].inode \in Inodes /\ proc'[p].blob \in Blob /\ proc'[p].blob[1] < next + 1
      BY <1>2, <1>a, <1>b DEF PutProvisional, Procs
    <2> QED
      BY <1>2, <1>b, <2>1 DEF PutProvisional
  <1>3. ASSUME NEW i \in Inodes, NEW h \in Hashes, NEW p \in Procs, InsertBlob(p, i, h)
        PROVE  Fresh'
    <2>1. CASE UNCHANGED <<rows, next>>
      <3>1. PICK r \in SharedRows(h) : proc' = [proc EXCEPT ![p] =
                           [pc |-> "heal", inode |-> i, blob |-> r.blob, shared |-> TRUE]]
        BY <1>3, <2>1 DEF InsertBlob
      <3>2. r.blob \in Blob /\ r.blob[1] < next
        BY DEF SharedRows
      <3>3. \A q \in Procs : proc'[q].pc # "idle" =>
             proc'[q].inode \in Inodes /\ proc'[q].blob \in Blob /\ proc'[q].blob[1] < next
        BY <3>1, <3>2
      <3> QED
        BY <1>3, <2>1, <3>3 DEF InsertBlob
    <2>2. CASE ~UNCHANGED <<rows, next>>
      <3>1. /\ rows' = rows \union {[blob |-> <<next, h>>, shared |-> TRUE]}
            /\ proc' = [proc EXCEPT ![p] =
                   [pc |-> "store", inode |-> i, blob |-> <<next, h>>, shared |-> TRUE]]
            /\ next' = next + 1
        BY <1>3, <2>2 DEF InsertBlob
      <3>2. \A q \in Procs : proc'[q].pc # "idle" =>
             proc'[q].inode \in Inodes /\ proc'[q].blob \in Blob /\ proc'[q].blob[1] < next + 1
        BY <1>a, <1>b, <3>1
      <3>3. \A r \in rows' : r.blob[1] < next + 1
        BY <1>a, <1>b, <3>1
      <3> QED
        BY <1>3, <1>b, <3>1, <3>2, <3>3 DEF InsertBlob
    <2> QED
      BY <2>1, <2>2
  <1>4. ASSUME NEW p \in Procs,
               \/ StorePutFails(p) \/ HealFails(p) \/ RequestFails(p)
               \/ StorePut(p) \/ HealDedupHit(p)
        PROVE  Fresh'
    <2>1. \/ proc' = [proc EXCEPT ![p] = IdleProc]
          \/ proc' = [proc EXCEPT ![p].pc = "finish"] /\ proc[p].pc # "idle"
      BY <1>4 DEF StorePutFails, HealFails, RequestFails, StorePut, HealDedupHit
    <2>2. \A q \in Procs : proc'[q].pc # "idle" =>
             proc'[q].inode \in Inodes /\ proc'[q].blob \in Blob /\ proc'[q].blob[1] < next
      BY <2>1 DEF IdleProc
    <2>3. /\ rows' \subseteq rows
          /\ UNCHANGED <<versions, queue, overlay, drain, next>>
      BY <1>4 DEF StorePutFails, HealFails, RequestFails, StorePut, HealDedupHit,
                  stored, counters
    <2> QED
      BY <2>2, <2>3
  <1>5. CASE Submit
    <2> DEFINE w == proc["fuse"]
               m == [vid |-> next, inode |-> w.inode, blob |-> w.blob, shared |-> w.shared]
    <2>1. w.inode \in Inodes /\ w.blob \in Blob /\ w.blob[1] < next
      BY <1>5 DEF Submit, Procs
    <2>2. m.vid = next /\ m.blob = w.blob /\ m.inode = w.inode
      OBVIOUS
    <2>3. /\ queue' = queue \union {m} /\ overlay' = [overlay EXCEPT ![w.inode] = m]
          /\ proc' = [proc EXCEPT !["fuse"] = IdleProc] /\ next' = next + 1
          /\ UNCHANGED <<rows, files, versions, cur, live, old, drain, cleaner, counters>>
      BY <1>5 DEF Submit
    <2> HIDE DEF m, w
    <2>4. \A o \in queue' : o.blob[1] < next + 1 /\ o.vid < next + 1
      BY <1>b, <2>1, <2>2, <2>3
    <2>5. \A p \in Procs : proc'[p].pc # "idle" =>
             proc'[p].inode \in Inodes /\ proc'[p].blob \in Blob /\ proc'[p].blob[1] < next + 1
      BY <1>b, <2>3 DEF IdleProc
    <2>6. \A o, q \in queue' : o.vid = q.vid => o = q
      BY <2>2, <2>3
    <2>7. \A v \in versions, o \in queue' : v.vid = o.vid => v.inode = o.inode
      BY <2>2, <2>3
    <2>8. \A i \in Inodes : overlay'[i] # None => overlay'[i] \in queue'
      BY <2>1, <2>3
    <2>9. \A r \in rows : r.blob[1] < next + 1
      BY <1>b
    <2>10. \A v \in versions : v.vid < next + 1
      OBVIOUS
    <2> QED
      BY <2>3, <2>4, <2>5, <2>6, <2>7, <2>8, <2>9, <2>10
  <1>6. CASE CliCommit
    <2>1. proc["cli"].inode \in Inodes /\ proc["cli"].blob \in Blob
      BY <1>6 DEF CliCommit, Procs
    <2>2. versions' \subseteq versions \union
              {[vid |-> next, inode |-> proc["cli"].inode, blob |-> proc["cli"].blob]}
      BY <1>6 DEF CliCommit
    <2>3. /\ \A v \in versions' : v.vid < next + 1
          /\ \A v \in versions', m \in queue : v.vid = m.vid => v.inode = m.inode
      BY <2>2
    <2>4. \A p \in Procs : proc'[p].pc # "idle" =>
             proc'[p].inode \in Inodes /\ proc'[p].blob \in Blob /\ proc'[p].blob[1] < next + 1
      BY <1>6, <1>b DEF CliCommit, IdleProc
    <2> QED
      BY <1>6, <1>b, <2>3, <2>4 DEF CliCommit
  <1>7. ASSUME NEW i \in Inodes, Unlink(i)
        PROVE  Fresh'
    BY <1>7 DEF Unlink
  <1>8. ASSUME NEW m \in queue, DrainBegin(m)
        PROVE  Fresh'
    BY <1>8 DEF DrainBegin, IdleDrain, stored, counters
  <1>9. CASE DrainCommit
    <2> DEFINE m == drain.mark
    <2>1. m \in queue /\ m \in Markers
      BY <1>9 DEF DrainCommit, Markers
    <2>2. /\ \A r \in rows' : r \in rows \/ r.blob = m.blob
          /\ \A v \in versions' : v \in versions \/ (v.vid = m.vid /\ v.inode = m.inode)
      BY <1>9 DEF DrainCommit
    <2>3. drain'.mark = m /\ UNCHANGED <<queue, overlay, proc, next>>
      BY <1>9 DEF DrainCommit
    <2> HIDE DEF m
    <2>4. \A v \in versions', o \in queue : v.vid = o.vid => v.inode = o.inode
      BY <2>1, <2>2
    <2> QED
      BY <2>1, <2>2, <2>3, <2>4
  <1>10. CASE DrainReconcile \/ DrainReconcileFails
    BY <1>10 DEF DrainReconcile, DrainReconcileFails, counters
  <1>11. CASE DrainUnlink
    BY <1>11 DEF DrainUnlink, IdleDrain, counters
  <1>12. CASE DrainAbandon
    BY <1>12 DEF DrainAbandon, IdleDrain, stored
  <1>13. CASE CrashDaemon
    <2>1. \A i \in Inodes : Newest(i) # None => Newest(i) \in queue
      BY DEF Newest
    <2> QED
      BY <1>13, <2>1 DEF CrashDaemon, IdleDrain, IdleProc, stored
  <1>14. CASE KillCli
    BY <1>14 DEF KillCli, IdleProc, stored
  <1> QED
    BY <1>1, <1>2, <1>3, <1>4, <1>5, <1>6, <1>7, <1>8, <1>9, <1>10, <1>11, <1>12, <1>13,
       <1>14 DEF WriteStep

(* A blob with a row has a shared or a private one.                        *)
LEMMA RowKinds ==
    ASSUME Shape
    PROVE  /\ \A r \in rows : r = [blob |-> r.blob, shared |-> r.shared] /\ r.shared \in BOOLEAN
           /\ \A b \in Blob : HasRow(b) <=> IsShared(b) \/ IsPrivate(b)
           /\ OneRow => \A b \in Blob : ~(IsShared(b) /\ IsPrivate(b))
           /\ OneRow => \A b, c \in Blob :
                 IsShared(b) /\ IsShared(c) /\ HashOf(b) = HashOf(c) => b = c
  <1>1. \A r \in rows : r = [blob |-> r.blob, shared |-> r.shared] /\ r.shared \in BOOLEAN
    BY DEF Shape, BlobsTypeOK
  <1>2. \A b \in Blob : HasRow(b) <=> IsShared(b) \/ IsPrivate(b)
    <2> TAKE b \in Blob
    <2>1. ASSUME NEW r \in rows, r.blob = b
          PROVE  IsShared(b) \/ IsPrivate(b)
      <3>1. r = [blob |-> b, shared |-> TRUE] \/ r = [blob |-> b, shared |-> FALSE]
        BY <1>1, <2>1
      <3> QED
        BY <3>1 DEF IsShared, IsPrivate
    <2>2. ASSUME IsShared(b) \/ IsPrivate(b)
          PROVE  HasRow(b)
      BY <2>2 DEF IsShared, IsPrivate, HasRow
    <2> QED
      BY <2>1, <2>2 DEF HasRow
  <1>3. ASSUME OneRow, NEW b \in Blob
        PROVE  ~(IsShared(b) /\ IsPrivate(b))
    <2> DEFINE x == [blob |-> b, shared |-> TRUE]
               y == [blob |-> b, shared |-> FALSE]
    <2>1. x.blob = y.blob /\ x # y
      OBVIOUS
    <2> HIDE DEF x, y
    <2>2. ~(x \in rows /\ y \in rows)
      BY <1>3, <2>1 DEF OneRow
    <2> QED
      BY <2>2 DEF IsShared, IsPrivate, x, y
  <1>4. ASSUME OneRow, NEW b \in Blob, NEW c \in Blob,
               IsShared(b), IsShared(c), HashOf(b) = HashOf(c)
        PROVE  b = c
    <2> DEFINE x == [blob |-> b, shared |-> TRUE]
               y == [blob |-> c, shared |-> TRUE]
    <2>1. x \in rows /\ y \in rows
      BY <1>4 DEF IsShared
    <2>2. x.blob = b /\ y.blob = c /\ x.shared /\ y.shared
      OBVIOUS
    <2> HIDE DEF x, y
    <2>3. x = y
      BY <1>4, <2>1, <2>2 DEF OneRow
    <2> QED
      BY <2>2, <2>3
  <1> QED
    BY <1>1, <1>2, <1>3, <1>4

(* What the transaction of a marker finds and leaves.                      *)
CommitEffect(m, c) ==
    /\ m \in queue /\ m \in Markers /\ c \in Blob
    /\ drain.pc = "tx" /\ drain'.pc = "reconcile" /\ drain'.mark = m
    /\ drain'.canonical = c /\ drain'.ins = Inserted(m)
    /\ UNCHANGED <<files, live, queue, overlay, proc, fails, crashes>>
    /\ \/ /\ Waiting(m)
          /\ rows' = rows \union (IF Inserted(m)
                       THEN {[blob |-> m.blob, shared |-> m.shared]} ELSE {})
       \/ ~Waiting(m) /\ UNCHANGED rows
    /\ Inserted(m) => c = m.blob /\ ~HasRow(m.blob)
    /\ Inserted(m) /\ m.shared => SharedRows(HashOf(m.blob)) = {}
    /\ ~Inserted(m) => /\ m.shared /\ IsShared(c) /\ ~IsPrivate(c) /\ HasRow(c)
                       /\ HashOf(c) = HashOf(m.blob)
    /\ ~Waiting(m)' /\ \A o : Waiting(o)' => Waiting(o)
    /\ \A o : Committed(o)' => Committed(o) \/ o.vid = m.vid
    /\ \A i \in live : cur'[i] = cur[i] \/ (Waiting(m) /\ cur'[i] = c /\ i = m.inode)
    /\ versions \subseteq versions'
    /\ \A i \in live : cur'[i] # cur[i] =>
          \E v \in versions' : v.inode = i /\ v.blob = c

LEMMA CommitIs ==
    ASSUME Shape, Fresh, Core, DrainCommit,
           NEW m, m = drain.mark, NEW c, c = Canonical(m)
    PROVE  CommitEffect(m, c)
  <1>0. m \in queue /\ m = drain.mark
    BY DEF DrainCommit, Fresh
  <1>1. m \in Markers /\ m.blob \in Blob /\ m.inode \in Inodes /\ m.shared \in BOOLEAN
    BY <1>0 DEF Markers, Shape, BlobsTypeOK
  <1>2. c \in Blob /\ c = Canonical(m)
    BY <1>1, CanonicalIs
  <1> DEFINE n == [blob |-> m.blob, shared |-> m.shared]
  <1>3. /\ drain.pc = "tx" /\ drain'.pc = "reconcile" /\ drain'.mark = m
        /\ drain'.canonical = c /\ drain'.ins = Inserted(m)
        /\ UNCHANGED <<files, live, queue, overlay, proc, fails, crashes>>
    BY <1>0, <1>2 DEF DrainCommit, Shape, counters
  <1>4. \/ /\ Waiting(m)
           /\ versions' = versions \union {[vid |-> m.vid, inode |-> m.inode, blob |-> c]}
           /\ cur' = [cur EXCEPT ![m.inode] = c]
           /\ rows' = rows \union (IF Inserted(m) THEN {n} ELSE {})
        \/ ~Waiting(m) /\ UNCHANGED <<versions, cur, rows>>
    BY <1>0, <1>2 DEF DrainCommit, Waiting, Committed
  <1>5. /\ Inserted(m) => c = m.blob /\ ~HasRow(m.blob)
        /\ Inserted(m) /\ m.shared => SharedRows(HashOf(m.blob)) = {}
        /\ ~Inserted(m) => HasRow(c)
    BY <1>1, <1>2, InsertedIs
  <1>6. ~Inserted(m) => m.shared /\ IsShared(c) /\ HashOf(c) = HashOf(m.blob) /\ ~IsPrivate(c)
    <2>1. ASSUME ~Inserted(m), c = m.blob, m.shared => SharedRows(HashOf(m.blob)) = {}
          PROVE  FALSE
      <3>1. PICK r \in rows : r.blob = m.blob
        BY <1>5, <2>1 DEF HasRow
      <3>2. r.shared = m.shared
        BY <1>0, <3>1 DEF Core, QueueBlobs
      <3>3. m.shared
        BY <1>0, <1>3, <3>1 DEF Core, DrainKnows, HasRow
      <3> QED
        BY <2>1, <3>1, <3>2, <3>3 DEF SharedRows
    <2>2. ~Inserted(m) => m.shared /\ IsShared(c) /\ HashOf(c) = HashOf(m.blob)
      BY <1>1, <1>2, <2>1, CanonicalIs
    <2> QED
      BY <1>2, <2>2, RowKinds DEF Core
  <1>7. ~Waiting(m)' /\ \A o : Waiting(o)' => Waiting(o)
    <2>1. Waiting(m) => \E v \in versions' : v.vid = m.vid
      <3>1. [vid |-> m.vid, inode |-> m.inode, blob |-> c].vid = m.vid
        OBVIOUS
      <3> QED
        BY <1>4, <3>1
    <2> QED
      BY <1>3, <1>4, <2>1 DEF Waiting, Committed
  <1>8. \A i \in live : cur'[i] = cur[i] \/ (Waiting(m) /\ cur'[i] = c /\ i = m.inode)
    <2>1. live \subseteq Inodes /\ cur \in [Inodes -> Blob \union {None}]
      BY DEF Shape, BlobsTypeOK
    <2>2. CASE Waiting(m) /\ cur' = [cur EXCEPT ![m.inode] = c]
      BY <1>1, <2>1, <2>2
    <2> QED
      BY <1>4, <2>2
  <1>9. \A o : Committed(o)' => Committed(o) \/ o.vid = m.vid
    BY <1>4 DEF Committed
  <1>10. versions \subseteq versions'
    BY <1>4
  <1>11. ASSUME NEW i \in live, cur'[i] # cur[i]
         PROVE  \E v \in versions' : v.inode = i /\ v.blob = c
    <2>1. Waiting(m) /\ i = m.inode
      BY <1>8, <1>11
    <2>2. [vid |-> m.vid, inode |-> i, blob |-> c] \in versions'
      BY <1>4, <2>1
    <2> QED
      BY <2>2
  <1> QED
    BY <1>0, <1>1, <1>2, <1>3, <1>4, <1>5, <1>6, <1>7, <1>8, <1>9, <1>10, <1>11
    DEF CommitEffect

(* The rows, the queue and the drain, while no failed put is undone.       *)
LEMMA CoreStep ==
    ASSUME Shape, Fresh, Core, WriteStep \/ UNCHANGED vars, undone' = 0
    PROVE  Core'
  <1> DEFINE Parts == OneRow' /\ Provisional' /\ QueueBlobs' /\ DrainKnows'
                      /\ Inventory' /\ PrivateOnce'
  <1>a. SUFFICES Parts
    BY DEF Core
  <1> USE DEF Core
  <1>b. \A h \in Hashes : <<next, h>> \in Blob /\ <<next, h>>[1] = next
    BY DEF Blob, Shape
  <1>c. \A b \in Blob : b[1] \in Nat
    BY DEF Blob
  <1>1. CASE UNCHANGED vars
    BY <1>1 DEF vars, stored, counters, OneRow, Provisional, QueueBlobs, DrainKnows,
                Inventory, PrivateOnce, IsShared, IsPrivate, HasRow, Waiting, Committed
  <1>2. ASSUME NEW i \in Inodes, NEW h \in Hashes, PutProvisional(i, h)
        PROVE  Parts
    <2>1. /\ proc' = [proc EXCEPT !["fuse"] = [pc |-> "finish", inode |-> i,
                             blob |-> <<next, h>>, shared |-> i \notin PrivateInodes]]
          /\ files' = files \union {<<next, h>>}
          /\ UNCHANGED <<rows, versions, cur, live, queue, drain>>
      BY <1>2 DEF PutProvisional
    <2>2. /\ \A r \in rows : r.blob # <<next, h>>
          /\ \A m \in queue : m.blob # <<next, h>>
      BY <1>b, <1>c DEF Fresh, Shape
    <2>3. Provisional'
      BY <2>1, <2>2 DEF Provisional, IsShared, HasRow, Procs, Shape, BlobsTypeOK
    <2> QED
      BY <2>1, <2>3 DEF OneRow, QueueBlobs, DrainKnows, Inventory, PrivateOnce,
                        IsShared, IsPrivate, HasRow, Waiting, Committed
  <1>3. ASSUME NEW i \in Inodes, NEW h \in Hashes, NEW p \in Procs, InsertBlob(p, i, h)
        PROVE  Parts
    <2>0. UNCHANGED <<files, versions, cur, live, queue, drain>> /\ proc[p].pc = "idle"
      BY <1>3 DEF InsertBlob
    <2>1. CASE UNCHANGED <<rows, next>>
      <3>1. PICK r \in SharedRows(h) : proc' = [proc EXCEPT ![p] =
                           [pc |-> "heal", inode |-> i, blob |-> r.blob, shared |-> TRUE]]
        BY <1>3, <2>1 DEF InsertBlob, Shape
      <3>2. IsShared(r.blob)
        <4>1. r \in rows /\ r.shared = TRUE
          BY RowKinds DEF SharedRows
        <4> QED
          BY <4>1, RowKinds DEF IsShared
      <3>3. Provisional'
        BY <2>0, <2>1, <3>1, <3>2
        DEF Provisional, IsShared, HasRow, Procs, Shape, BlobsTypeOK
      <3> QED
        BY <2>0, <2>1, <3>3 DEF OneRow, QueueBlobs, DrainKnows, Inventory, PrivateOnce,
                                IsShared, IsPrivate, HasRow, Waiting, Committed
    <2>2. CASE ~UNCHANGED <<rows, next>>
      <3>0. PICK b \in Blob : b = <<next, h>>
        BY <1>b
      <3> DEFINE n == [blob |-> b, shared |-> TRUE]
      <3>1. /\ rows' = rows \union {n}
            /\ proc' = [proc EXCEPT ![p] =
                   [pc |-> "store", inode |-> i, blob |-> b, shared |-> TRUE]]
            /\ SharedRows(h) = {}
        BY <1>3, <2>2, <3>0 DEF InsertBlob
      <3>2. n.blob = b /\ n.shared = TRUE /\ HashOf(b) = h
        BY <3>0 DEF HashOf
      <3>3. /\ \A r \in rows : r.blob # b
            /\ \A m \in queue : m.blob # b
            /\ \A q \in Procs : proc[q].pc # "idle" => proc[q].blob # b
        BY <1>b, <1>c, <3>0 DEF Fresh, Shape
      <3>4. IsShared(b)'
        BY <3>1 DEF IsShared
      <3>5. /\ \A c : IsShared(c) => IsShared(c)'
            /\ \A c : c # b => (HasRow(c)' <=> HasRow(c))
            /\ \A c : IsPrivate(c)' <=> IsPrivate(c)
        <4>1. \A c : [blob |-> c, shared |-> FALSE] # n
          OBVIOUS
        <4> QED
          BY <3>1, <3>2, <4>1 DEF IsShared, IsPrivate, HasRow
      <3> HIDE DEF n
      <3>6. OneRow'
        BY <3>1, <3>2, <3>3 DEF OneRow, SharedRows
      <3>7. Provisional'
        <4>1. \A q \in Procs : q # p => proc'[q] = proc[q]
          BY <3>1 DEF Shape, BlobsTypeOK
        <4>2. proc'[p].pc = "store" /\ proc'[p].blob = b /\ proc'[p].shared
          BY <3>1 DEF Shape, BlobsTypeOK
        <4>a. [blob |-> b, shared |-> TRUE] \in rows'
          BY <3>4 DEF IsShared
        <4>3. ASSUME NEW q \in Procs, proc'[q].pc \in {"store", "heal"}
              PROVE  [blob |-> proc'[q].blob, shared |-> TRUE] \in rows' /\ proc'[q].shared
          <5>1. CASE q = p
            BY <4>2, <4>a, <5>1
          <5>2. CASE q # p
            <6>1. IsShared(proc[q].blob) /\ proc[q].shared
              BY <4>1, <4>3, <5>2 DEF Provisional
            <6> QED
              BY <3>1, <4>1, <5>2, <6>1 DEF IsShared
          <5> QED
            BY <5>1, <5>2
        <4>4. ASSUME proc'["cli"].pc = "finish"
              PROVE  [blob |-> proc'["cli"].blob, shared |-> TRUE] \in rows'
          <5>1. "cli" \in Procs /\ p # "cli"
            BY <4>2, <4>4 DEF Procs
          <5>2. IsShared(proc["cli"].blob) /\ proc'["cli"] = proc["cli"]
            BY <4>1, <4>4, <5>1 DEF Provisional
          <5>3. [blob |-> proc["cli"].blob, shared |-> TRUE] \in rows'
            BY <3>1, <5>2 DEF IsShared
          <5> QED
            BY <5>2, <5>3, Zenon
        <4>5. proc'["fuse"].pc = "finish" => proc'["fuse"] = proc["fuse"]
          BY <4>1, <4>2 DEF Procs
        <4>6. proc["fuse"].pc = "finish" =>
                 \/ [blob |-> proc["fuse"].blob, shared |-> TRUE] \in rows' /\ proc["fuse"].shared
                 \/ /\ \A r \in rows' : r.blob # proc["fuse"].blob
                    /\ proc["fuse"].blob \in files
                    /\ \A m \in queue : m.blob # proc["fuse"].blob
          BY <3>1, <3>2, <3>3 DEF Provisional, IsShared, HasRow, Procs
        <4> QED
          BY <2>0, <4>3, <4>4, <4>5, <4>6 DEF Provisional, IsShared, HasRow
      <3>8. QueueBlobs'
        BY <2>0, <3>1, <3>2, <3>3, <3>5 DEF QueueBlobs
      <3>9. DrainKnows'
        BY <2>0, <3>3, <3>5 DEF DrainKnows, Fresh, Waiting, Committed
      <3>10. Inventory' /\ PrivateOnce'
        <4>1. \A c : HasRow(c) => HasRow(c)'
          BY <3>1 DEF HasRow
        <4> QED
          BY <2>0, <3>5, <4>1 DEF Inventory, PrivateOnce, Waiting, Committed
      <3> QED
        BY <3>6, <3>7, <3>8, <3>9, <3>10
    <2> QED
      BY <2>1, <2>2
  <1>4. ASSUME NEW p \in Procs,
               \/ StorePutFails(p) \/ HealFails(p) \/ RequestFails(p)
               \/ StorePut(p) \/ HealDedupHit(p)
        PROVE  Parts
    <2>1. ~StorePutFails(p)
      BY DEF StorePutFails, Shape
    <2>2. /\ \/ proc' = [proc EXCEPT ![p] = IdleProc]
             \/ proc' = [proc EXCEPT ![p].pc = "finish"] /\ proc[p].pc \in {"store", "heal"}
          /\ files \subseteq files'
          /\ UNCHANGED <<rows, versions, cur, live, queue, drain>>
      BY <1>4, <2>1 DEF HealFails, RequestFails, StorePut, HealDedupHit, stored
    <2>3. Provisional'
      <3>1. \A q \in Procs : \/ proc'[q] = proc[q]
                            \/ proc'[q].pc = "idle"
                            \/ /\ proc'[q].pc = "finish" /\ proc[q].pc \in {"store", "heal"}
                               /\ proc'[q].blob = proc[q].blob
                               /\ proc'[q].shared = proc[q].shared
        BY <2>2 DEF IdleProc, Shape, BlobsTypeOK
      <3> QED
        BY <2>2, <3>1 DEF Provisional, IsShared, HasRow, Procs
    <2> QED
      BY <2>2, <2>3 DEF OneRow, QueueBlobs, DrainKnows, Inventory, PrivateOnce,
                        IsShared, IsPrivate, HasRow, Waiting, Committed
  <1>5. CASE Submit
    <2> DEFINE w == proc["fuse"]
               m == [vid |-> next, inode |-> w.inode, blob |-> w.blob, shared |-> w.shared]
    <2>1. w.blob \in Blob /\ w.pc = "finish" /\ "fuse" \in Procs
      BY <1>5 DEF Submit, Fresh, Procs
    <2>2. m.vid = next /\ m.blob = w.blob /\ m.inode = w.inode /\ m.shared = w.shared
      OBVIOUS
    <2>3. /\ queue' = queue \union {m}
          /\ proc' = [proc EXCEPT !["fuse"] = IdleProc]
          /\ UNCHANGED <<rows, files, versions, cur, live, drain>>
      BY <1>5 DEF Submit
    <2>4. \/ IsShared(w.blob) /\ w.shared
          \/ ~HasRow(w.blob) /\ \A o \in queue : o.blob # w.blob
      BY <2>1 DEF Provisional
    <2>5. \A r \in rows : r.blob = w.blob => r.shared = TRUE /\ w.shared
      <3>1. ~IsPrivate(w.blob) \/ ~IsShared(w.blob)
        BY <2>1, RowKinds
      <3> QED
        BY <2>1, <2>4, <3>1, RowKinds DEF HasRow, IsPrivate
    <2>6. HasRow(w.blob) => IsShared(w.blob) /\ w.shared /\ ~IsPrivate(w.blob)
      BY <2>1, <2>4, RowKinds
    <2>a. w.shared \in BOOLEAN
      BY <2>1 DEF Shape, BlobsTypeOK
    <2> HIDE DEF m, w
    <2>7. QueueBlobs'
      <3>1. \A o \in queue' : \A r \in rows : r.blob = o.blob => r.shared = o.shared
        BY <2>2, <2>3, <2>5, <2>a DEF QueueBlobs
      <3>2. ASSUME NEW o \in queue, o.blob = w.blob, ~HasRow(o.blob) \/ ~o.shared \/ ~w.shared
            PROVE  FALSE
        <4>1. PICK r \in rows : r.blob = w.blob
          BY <2>4, <3>2 DEF HasRow, IsShared
        <4> QED
          BY <2>5, <3>2, <4>1 DEF QueueBlobs, HasRow
      <3>3. \A o, q \in queue' : o.blob = q.blob /\ (~HasRow(o.blob) \/ ~o.shared) => o = q
        BY <2>2, <2>3, <3>2 DEF QueueBlobs
      <3> QED
        BY <2>3, <3>1, <3>3 DEF QueueBlobs, HasRow
    <2>8. Provisional'
      BY <2>3 DEF Provisional, IsShared, HasRow, Procs, Shape, BlobsTypeOK, IdleProc
    <2>9. \A o \in queue' : IsPrivate(o.blob) =>
             ~Waiting(o) /\ \A i \in live : cur[i] = o.blob => i = o.inode
      <3>1. IsPrivate(w.blob) => HasRow(w.blob)
        BY DEF IsPrivate, HasRow
      <3> QED
        BY <2>2, <2>3, <2>6, <3>1 DEF PrivateOnce
    <2>10. PrivateOnce'
      BY <2>3, <2>9 DEF PrivateOnce, IsPrivate, Waiting, Committed
    <2> QED
      BY <2>3, <2>7, <2>8, <2>10 DEF OneRow, DrainKnows, Inventory, IsShared, HasRow,
                                     Waiting, Committed
  <1>6. CASE CliCommit
    <2> DEFINE w == proc["cli"]
    <2>1. /\ \/ cur' = [cur EXCEPT ![w.inode] = w.blob]
             \/ UNCHANGED cur
          /\ versions \subseteq versions'
          /\ proc' = [proc EXCEPT !["cli"] = IdleProc]
          /\ UNCHANGED <<rows, files, live, queue, drain>>
          /\ w.pc = "finish"
      BY <1>6 DEF CliCommit
    <2>2. w.blob \in Blob /\ IsShared(w.blob) /\ ~IsPrivate(w.blob) /\ HasRow(w.blob)
      BY <2>1, RowKinds DEF Fresh, Procs, Provisional
    <2> HIDE DEF w
    <2>3. \A i \in Inodes : cur'[i] = cur[i] \/ cur'[i] = w.blob
      BY <2>1 DEF Shape, BlobsTypeOK
    <2>4. \A m : Waiting(m)' => Waiting(m)
      BY <2>1 DEF Waiting, Committed
    <2>5. live \subseteq Inodes
      BY DEF Shape, BlobsTypeOK
    <2>6. Inventory'
      BY <2>1, <2>2, <2>3, <2>5 DEF Inventory, HasRow
    <2>a. \A i \in live : IsPrivate(cur'[i]) => cur'[i] = cur[i]
      BY <2>2, <2>3, <2>5
    <2>b. \A i \in live, m \in queue : IsPrivate(m.blob) /\ cur'[i] = m.blob => cur'[i] = cur[i]
      BY <2>a
    <2>7. PrivateOnce'
      <3>1. \A i, j \in live : cur'[i] = cur'[j] /\ IsPrivate(cur'[i]) => i = j
        BY <2>a DEF PrivateOnce
      <3>2. \A m \in queue : IsPrivate(m.blob) =>
               ~Waiting(m)' /\ \A i \in live : cur'[i] = m.blob => i = m.inode
        BY <2>b, <2>4 DEF PrivateOnce
      <3> QED
        BY <2>1, <3>1, <3>2 DEF PrivateOnce, IsPrivate
    <2>8. DrainKnows'
      BY <2>1, <2>4 DEF DrainKnows, HasRow, IsShared
    <2>9. Provisional'
      BY <2>1 DEF Provisional, IsShared, HasRow, Procs, Shape, BlobsTypeOK, IdleProc
    <2> QED
      BY <2>1, <2>6, <2>7, <2>8, <2>9 DEF OneRow, QueueBlobs, HasRow
  <1>7. ASSUME NEW i \in Inodes, Unlink(i)
        PROVE  Parts
    <2>1. /\ proc["fuse"].pc = "idle" /\ live' = live \ {i}
          /\ versions' = {v \in versions : v.inode # i}
          /\ cur' = [cur EXCEPT ![i] = None]
          /\ UNCHANGED <<rows, queue, proc, drain>>
      BY <1>7 DEF Unlink
    <2>2. \A m \in queue : Waiting(m)' => Waiting(m)
      BY <2>1 DEF Waiting, Committed, Fresh
    <2>3. \A j \in live' : j \in live /\ cur'[j] = cur[j]
      BY <2>1 DEF Shape, BlobsTypeOK
    <2>4. Inventory' /\ PrivateOnce'
      BY <2>1, <2>2, <2>3 DEF Inventory, PrivateOnce, IsPrivate, HasRow
    <2>5. DrainKnows'
      BY <2>1, <2>2 DEF DrainKnows, Fresh, HasRow, IsShared
    <2>6. Provisional'
      BY <2>1 DEF Provisional, IsShared, HasRow
    <2> QED
      BY <2>1, <2>4, <2>5, <2>6 DEF OneRow, QueueBlobs, HasRow
  <1>8. ASSUME NEW m \in queue, DrainBegin(m)
        PROVE  Parts
    <2>1. /\ m.shared \/ ~HasRow(m.blob)
          /\ drain'.pc = "tx" /\ drain'.mark = m
          /\ UNCHANGED <<rows, files, versions, cur, live, queue, proc>>
      BY <1>8 DEF DrainBegin, IdleDrain, stored
    <2>2. DrainKnows'
      BY <2>1 DEF DrainKnows, HasRow
    <2> QED
      BY <2>1, <2>2 DEF OneRow, QueueBlobs, Inventory, PrivateOnce, Provisional,
                        IsShared, IsPrivate, HasRow, Waiting, Committed
  <1>10. CASE DrainReconcile \/ DrainReconcileFails
    <2>1. /\ drain' = [drain EXCEPT !.pc = "unlink"] /\ drain.pc = "reconcile"
          /\ UNCHANGED <<rows, versions, cur, live, queue, proc>>
      BY <1>10 DEF DrainReconcile, DrainReconcileFails
    <2>2. drain'.pc = "unlink" /\ drain'.mark = drain.mark
      BY <2>1 DEF Shape
    <2>3. DrainKnows'
      BY <2>1, <2>2 DEF DrainKnows, Waiting, Committed
    <2>4. files \ {drain.mark.blob} \subseteq files' /\ drain.mark \in queue
      BY <1>10, <2>1 DEF DrainReconcile, DrainReconcileFails, Reconciled, Fresh
    <2>5. Provisional'
      BY <2>1, <2>4 DEF Provisional, IsShared, HasRow
    <2> QED
      BY <2>1, <2>3, <2>5 DEF OneRow, QueueBlobs, Inventory, PrivateOnce,
                        IsShared, IsPrivate, HasRow, Waiting, Committed
  <1>11. CASE DrainUnlink \/ DrainAbandon \/ CrashDaemon \/ KillCli
    <2>1. /\ drain' = drain \/ drain'.pc = "idle"
          /\ queue' \subseteq queue
          /\ proc' = proc \/ \E p \in Procs : proc' = [proc EXCEPT ![p] = IdleProc]
          /\ UNCHANGED <<rows, files, versions, cur, live>>
      BY <1>11 DEF DrainUnlink, DrainAbandon, CrashDaemon, KillCli, IdleDrain, stored, Procs
    <2>2. \A p \in Procs : proc'[p].pc # "idle" => proc'[p] = proc[p]
      BY <2>1 DEF IdleProc, Shape, BlobsTypeOK
    <2>3. Provisional'
      BY <2>1, <2>2 DEF Provisional, IsShared, HasRow, Procs
    <2>4. DrainKnows'
      BY <2>1 DEF DrainKnows, IsShared, HasRow, Waiting, Committed
    <2> QED
      BY <2>1, <2>3, <2>4 DEF OneRow, QueueBlobs, Inventory, PrivateOnce,
                        IsShared, IsPrivate, HasRow, Waiting, Committed
  <1>9. CASE DrainCommit
    <2>0. PICK m \in queue : m = drain.mark
      BY <1>9 DEF DrainCommit, Fresh
    <2>1. m \in Markers /\ m.blob \in Blob /\ m.inode \in Inodes /\ m.shared \in BOOLEAN
      BY DEF Markers, Shape, BlobsTypeOK
    <2>2. PICK c \in Blob : c = Canonical(m)
      BY <2>1, CanonicalIs
    <2> DEFINE n == [blob |-> m.blob, shared |-> m.shared]
    <2>3. /\ drain.pc = "tx" /\ drain'.pc = "reconcile" /\ drain'.mark = m
          /\ drain'.canonical = c /\ drain'.ins = Inserted(m)
          /\ UNCHANGED <<files, live, queue, proc>>
      BY <1>9, <2>0, <2>2, CommitIs DEF CommitEffect
    <2>4. \/ Waiting(m) /\ rows' = rows \union (IF Inserted(m) THEN {n} ELSE {})
          \/ ~Waiting(m) /\ UNCHANGED rows
      BY <1>9, <2>0, <2>2, CommitIs DEF CommitEffect
    <2>5. /\ Inserted(m) => c = m.blob /\ ~HasRow(m.blob)
          /\ Inserted(m) /\ m.shared => SharedRows(HashOf(m.blob)) = {}
      BY <1>9, <2>0, <2>2, CommitIs DEF CommitEffect
    <2>6. ~Inserted(m) => /\ m.shared /\ IsShared(c) /\ ~IsPrivate(c) /\ HasRow(c)
                          /\ HashOf(c) = HashOf(m.blob)
      BY <1>9, <2>0, <2>2, CommitIs DEF CommitEffect
    <2>7. n.blob = m.blob /\ n.shared = m.shared
      OBVIOUS
    <2> HIDE DEF n
    <2>8. /\ \A r \in rows : r \in rows'
          /\ \A r \in rows' : r \in rows \/ (r = n /\ Inserted(m) /\ Waiting(m))
      BY <2>4
    <2>10. \A b : HasRow(b) => HasRow(b)'
      BY <2>8 DEF HasRow
    <2>11. \A b : (IsShared(b) => IsShared(b)') /\ (IsPrivate(b) => IsPrivate(b)')
      BY <2>8 DEF IsShared, IsPrivate
    <2>12. \A b : [blob |-> b, shared |-> FALSE] \in rows' =>
                \/ IsPrivate(b)
                \/ b = m.blob /\ ~m.shared /\ Waiting(m) /\ Inserted(m)
      <3>1. \A b : [blob |-> b, shared |-> FALSE] = n => b = m.blob /\ ~m.shared
        BY DEF n
      <3> QED
        BY <2>8, <3>1 DEF IsPrivate
    <2>13. \A o \in queue : o.blob = m.blob /\ ~HasRow(o.blob) => o = m
      BY DEF QueueBlobs
    <2>14. ~Waiting(m)' /\ \A o : Waiting(o)' => Waiting(o)
      BY <1>9, <2>0, <2>2, CommitIs DEF CommitEffect
    <2>15. \A i \in live : cur'[i] = cur[i] \/ (Waiting(m) /\ cur'[i] = c /\ i = m.inode)
      BY <1>9, <2>0, <2>2, CommitIs DEF CommitEffect
    <2>16. Waiting(m) => HasRow(c)'
      BY <2>4, <2>5, <2>6, <2>7, <2>10 DEF HasRow
    <2>17. OneRow'
      <3>1. \A r \in rows : Inserted(m) => r.blob # n.blob
        BY <2>5, <2>7 DEF HasRow
      <3>2. \A r \in rows : Inserted(m) => ~(r.shared /\ n.shared /\ HashOf(r.blob) = HashOf(n.blob))
        BY <2>5, <2>7 DEF SharedRows
      <3> QED
        BY <2>8, <3>1, <3>2 DEF OneRow
    <2>18. Provisional'
      <3>1. proc["fuse"].pc = "finish" /\ ~HasRow(proc["fuse"].blob)
                  /\ (\A o \in queue : o.blob # proc["fuse"].blob) => ~HasRow(proc["fuse"].blob)'
        BY <2>3, <2>7, <2>8 DEF HasRow
      <3> QED
        BY <2>3, <2>8, <3>1 DEF Provisional, IsShared, HasRow
    <2>19. QueueBlobs'
      <3>1. \A o \in queue, r \in rows' : r.blob = o.blob => r.shared = o.shared
        BY <2>5, <2>7, <2>8, <2>13 DEF QueueBlobs
      <3>2. \A o, q \in queue : o.blob = q.blob /\ (~HasRow(o.blob)' \/ ~o.shared) => o = q
        BY <2>3, <2>8 DEF QueueBlobs, HasRow
      <3> QED
        BY <2>3, <3>1, <3>2 DEF QueueBlobs
    <2>20. DrainKnows'
      <3>1. ASSUME ~Inserted(m), c # m.blob, NEW r \in rows', r.blob = m.blob
            PROVE  FALSE
        <4>1. r \in rows /\ r.shared = m.shared /\ m.shared
          BY <2>6, <2>8, <3>1 DEF QueueBlobs
        <4>2. IsShared(m.blob)
          BY <2>1, <3>1, <4>1, RowKinds DEF IsShared
        <4> QED
          BY <2>1, <2>6, <3>1, <4>2, RowKinds
      <3>2. ~Waiting(m)'
        BY <2>14
      <3> QED
        BY <2>3, <2>6, <3>1, <3>2 DEF DrainKnows, HasRow, Waiting, Committed
    <2>21. Inventory'
      BY <2>3, <2>8, <2>15, <2>16 DEF Inventory, HasRow
    <2>22. PrivateOnce'
      <3>1. ASSUME NEW i \in live, NEW j \in live, cur'[i] = cur'[j],
                   [blob |-> cur'[i], shared |-> FALSE] \in rows'
            PROVE  i = j
        <4>1. IsPrivate(cur'[i]) \/ (cur'[i] = m.blob /\ ~m.shared /\ Waiting(m) /\ Inserted(m))
          BY <2>12, <3>1
        <4>2. CASE IsPrivate(cur'[i])
          <5>1. HasRow(cur'[i])
            BY <4>2 DEF IsPrivate, HasRow
          <5>2. Inserted(m) => cur'[i] # c
            BY <2>5, <5>1
          <5>3. ~Inserted(m) => cur'[i] # c
            BY <2>6, <4>2
          <5> QED
            BY <2>15, <3>1, <4>2, <5>2, <5>3 DEF PrivateOnce
        <4>3. CASE cur'[i] = m.blob /\ ~m.shared /\ Waiting(m) /\ Inserted(m)
          <5>1. cur[i] # m.blob /\ cur[j] # m.blob
            BY <2>1, <2>5, <4>3, BlobsAssumption DEF Inventory
          <5> QED
            BY <2>15, <3>1, <4>3, <5>1
        <4> QED
          BY <4>1, <4>2, <4>3
      <3>2. ASSUME NEW o \in queue, [blob |-> o.blob, shared |-> FALSE] \in rows'
            PROVE  ~Waiting(o)' /\ \A i \in live : cur'[i] = o.blob => i = o.inode
        <4>1. IsPrivate(o.blob) \/ (o.blob = m.blob /\ ~m.shared /\ Waiting(m) /\ Inserted(m))
          BY <2>12, <3>2
        <4>2. CASE IsPrivate(o.blob)
          <5>1. HasRow(o.blob)
            BY <4>2 DEF IsPrivate, HasRow
          <5>2. o.blob # c
            BY <2>5, <2>6, <4>2, <5>1
          <5> QED
            BY <2>14, <2>15, <4>2, <5>2 DEF PrivateOnce
        <4>3. CASE o.blob = m.blob /\ ~m.shared /\ Waiting(m) /\ Inserted(m)
          <5>1. o = m
            BY <2>5, <2>13, <4>3
          <5>2. \A i \in live : cur[i] # m.blob
            BY <2>1, <2>5, <4>3, BlobsAssumption DEF Inventory
          <5> QED
            BY <2>14, <2>15, <5>1, <5>2
        <4> QED
          BY <4>1, <4>2, <4>3
      <3> QED
        BY <2>3, <3>1, <3>2 DEF PrivateOnce, IsPrivate
    <2> QED
      BY <2>17, <2>18, <2>19, <2>20, <2>21, <2>22
  <1> QED
    BY <1>1, <1>2, <1>3, <1>4, <1>5, <1>6, <1>7, <1>8, <1>9, <1>10, <1>11 DEF WriteStep

(* reconcile deletes no bytes but those of a blob without a row, which no  *)
(* other marker and no request names.                                      *)
LEMMA ReconcileSpares ==
    ASSUME Shape, Fresh, Core, DrainReconcile \/ DrainReconcileFails
    PROVE  /\ \A b \in Blob : HasRow(b) /\ b \in files => b \in files'
           /\ \A m \in queue : m # drain.mark /\ m.blob \in files => m.blob \in files'
           /\ \A p \in Procs : proc[p].pc = "finish" /\ proc[p].blob \in files
                                  => proc[p].blob \in files'
           /\ drain.mark.blob \in files => \/ drain.mark.blob \in files'
                                           \/ drain.canonical \in files'
<1> DEFINE d == drain.mark
<1>1. d \in queue /\ d.blob \in Blob /\ drain.pc = "reconcile"
  BY DEF DrainReconcile, DrainReconcileFails, Fresh, Shape, BlobsTypeOK
<1>2. \/ files \subseteq files'
      \/ /\ ~drain.ins /\ d.blob # drain.canonical
         /\ files \ {d.blob} \subseteq files'
         /\ d.blob \in files => drain.canonical \in files'
  BY DEF DrainReconcile, DrainReconcileFails, Reconciled
<1>3. ~drain.ins /\ d.blob # drain.canonical => ~HasRow(d.blob)
  BY <1>1 DEF Core, DrainKnows
<1>4. ASSUME ~HasRow(d.blob)
      PROVE  /\ \A m \in queue : m # d => m.blob # d.blob
             /\ \A p \in Procs : proc[p].pc = "finish" => proc[p].blob # d.blob
  <2>1. \A m \in queue : m # d => m.blob # d.blob
    BY <1>1, <1>4 DEF Core, QueueBlobs
  <2>2. ~IsShared(d.blob)
    BY <1>4 DEF IsShared, HasRow
  <2>3. \A p \in Procs : proc[p].pc = "finish" => proc[p].blob # d.blob
    BY <1>1, <2>2 DEF Core, Provisional, Procs
  <2> QED
    BY <2>1, <2>3
<1> HIDE DEF d
<1>5. CASE files \subseteq files'
  BY <1>5 DEF d
<1>6. CASE /\ ~drain.ins /\ d.blob # drain.canonical
           /\ files \ {d.blob} \subseteq files'
           /\ d.blob \in files => drain.canonical \in files'
  BY <1>3, <1>4, <1>6 DEF d
<1> QED
  BY <1>2, <1>5, <1>6

(* unlink takes the bytes of a private blob, which only its file used.     *)
LEMMA UnlinkSpares ==
    ASSUME Shape, Fresh, Core, NEW i \in Inodes, Unlink(i)
    PROVE  /\ \A b \in Blob : IsShared(b) /\ b \in files => b \in files'
           /\ \A j \in live' : /\ j \in live /\ cur'[j] = cur[j]
                               /\ cur[j] \in files => cur[j] \in files'
           /\ \A m \in queue : /\ Waiting(m) /\ m.blob \in files => m.blob \in files'
                               /\ m.shared /\ m.blob \in files => m.blob \in files'
                               /\ m.inode \in live' /\ m.blob \in files => m.blob \in files'
                               /\ Waiting(m)' => Waiting(m)
                               /\ m.inode \in live' /\ Committed(m)' => Committed(m)
           /\ \A p \in Procs : proc[p].pc = "finish" /\ proc[p].blob \in files
                                  => proc[p].blob \in files'
           /\ UNCHANGED <<rows, queue, overlay, proc, drain, crashes>>
<1>1. /\ i \in live /\ live' = live \ {i} /\ proc["fuse"].pc = "idle"
      /\ versions' = {v \in versions : v.inode # i}
      /\ cur' = [cur EXCEPT ![i] = None]
      /\ UNCHANGED <<rows, queue, overlay, proc, drain, crashes>>
  BY DEF Unlink
<1>2. \A b \in files : b \in files' \/ (IsPrivate(b) /\ b = cur[i])
  BY DEF Unlink, IsPrivate
<1>3. \A b \in Blob : IsShared(b) /\ b \in files => b \in files'
  BY <1>2, RowKinds DEF Core
<1>4. \A j \in live' : /\ j \in live /\ cur'[j] = cur[j]
                       /\ cur[j] \in files => cur[j] \in files'
  BY <1>1, <1>2 DEF Core, PrivateOnce, Shape, BlobsTypeOK
<1>5. ASSUME NEW m \in queue
      PROVE  /\ Waiting(m) /\ m.blob \in files => m.blob \in files'
             /\ m.shared /\ m.blob \in files => m.blob \in files'
             /\ m.inode \in live' /\ m.blob \in files => m.blob \in files'
             /\ Waiting(m)' => Waiting(m)
             /\ m.inode \in live' /\ Committed(m)' => Committed(m)
  <2>1. IsPrivate(m.blob) => ~m.shared
    <3>1. [blob |-> m.blob, shared |-> FALSE].blob = m.blob
      OBVIOUS
    <3>2. \A r \in rows : r.blob = m.blob => r.shared = m.shared
      BY DEF Core, QueueBlobs
    <3> QED
      BY <3>1, <3>2 DEF IsPrivate
  <2>2. IsPrivate(m.blob) => ~Waiting(m) /\ \A j \in live : cur[j] = m.blob => j = m.inode
    BY DEF Core, PrivateOnce
  <2>3. Committed(m)' => Committed(m)
    BY <1>1 DEF Committed
  <2>4. Waiting(m)' => Waiting(m)
    BY <1>1 DEF Waiting, Committed, Fresh
  <2> QED
    BY <1>1, <1>2, <2>1, <2>2, <2>3, <2>4
<1>6. \A p \in Procs : proc[p].pc = "finish" /\ proc[p].blob \in files
                                  => proc[p].blob \in files'
  BY <1>1, <1>3 DEF Core, Provisional, Procs, Fresh
<1> QED
  BY <1>1, <1>3, <1>4, <1>5, <1>6

(* While no call fails.                                                    *)
LEMMA NoFailureStep ==
    ASSUME Shape, Fresh, Core, NoFailure, WriteStep \/ UNCHANGED vars,
           undone' = 0, fails' = 0
    PROVE  NoFailure'
<1> DEFINE
      NF1 == \A m \in queue : Waiting(m) => m.blob \in files
      NF2 == \A p \in Procs : proc[p].pc = "finish" => proc[p].blob \in files
      NF3 == \A i \in live : cur[i] # None =>
               cur[i] \in files \/ (IsShared(cur[i]) /\ Evidence(cur[i]))
      NF4 == drain.pc = "reconcile" /\ drain.mark.shared =>
               \A i \in live :
                  cur[i] # None /\ HashOf(cur[i]) = HashOf(drain.mark.blob) /\ IsShared(cur[i])
                      => cur[i] \in files \/ (~drain.ins /\ cur[i] = drain.canonical)
<1>a. SUFFICES NF1' /\ NF2' /\ NF3' /\ NF4'
  BY DEF NoFailure
<1>b. NF1 /\ NF2 /\ NF3 /\ NF4
  BY DEF NoFailure
<1>c. ~Fail
  BY DEF Fail, Shape
<1>d. live \subseteq Inodes /\ \A i \in live : cur[i] # None => cur[i] \in Blob /\ HasRow(cur[i])
  BY DEF Shape, BlobsTypeOK, Core, Inventory
<1>1. CASE UNCHANGED vars
  BY <1>1, <1>b DEF vars, stored, counters, Waiting, Committed, Evidence, IsShared
<1>2. ASSUME NEW i \in Inodes, NEW h \in Hashes, PutProvisional(i, h)
      PROVE  NF1' /\ NF2' /\ NF3' /\ NF4'
  <2>1. /\ proc' = [proc EXCEPT !["fuse"] = [pc |-> "finish", inode |-> i,
                             blob |-> <<next, h>>, shared |-> i \notin PrivateInodes]]
        /\ files' = files \union {<<next, h>>}
        /\ UNCHANGED <<rows, versions, cur, live, queue, drain>>
    BY <1>2 DEF PutProvisional
  <2>2. NF2'
    BY <1>b, <2>1 DEF Shape, BlobsTypeOK
  <2> QED
    BY <1>b, <2>1, <2>2 DEF Waiting, Committed, Evidence, IsShared
<1>3. ASSUME NEW i \in Inodes, NEW h \in Hashes, NEW p \in Procs, InsertBlob(p, i, h)
      PROVE  NF1' /\ NF2' /\ NF3' /\ NF4'
  <2>0. /\ UNCHANGED <<files, versions, cur, live, queue, drain>>
        /\ \A q \in Procs : proc'[q].pc = "finish" => proc'[q] = proc[q]
    BY <1>3 DEF InsertBlob, Shape, BlobsTypeOK
  <2>1. rows \subseteq rows' /\ \A r \in rows' : r \in rows \/ r.blob[1] = next
    BY <1>3 DEF InsertBlob
  <2>2. \A j \in live : cur[j] # None /\ [blob |-> cur[j], shared |-> TRUE] \in rows'
           => IsShared(cur[j])
    <3>1. \A j \in live : cur[j] # None => cur[j][1] # next
      BY <1>d DEF HasRow, Fresh, Shape, BlobsTypeOK
    <3> QED
      BY <2>1, <3>1 DEF IsShared
  <2>3. \A b : IsShared(b) => IsShared(b)'
    BY <2>1 DEF IsShared
  <2>4. NF3'
    BY <1>b, <2>0, <2>3 DEF Evidence
  <2>5. NF4'
    BY <1>b, <2>0, <2>2 DEF IsShared
  <2> QED
    BY <1>b, <2>0, <2>4, <2>5 DEF Waiting, Committed
<1>4. ASSUME NEW p \in Procs,
             \/ StorePutFails(p) \/ HealFails(p) \/ RequestFails(p)
             \/ StorePut(p) \/ HealDedupHit(p)
      PROVE  NF1' /\ NF2' /\ NF3' /\ NF4'
  <2>1. /\ proc' = [proc EXCEPT ![p].pc = "finish"]
        /\ files' = files \union {proc[p].blob}
        /\ UNCHANGED <<rows, versions, cur, live, queue, drain>>
    BY <1>4, <1>c DEF StorePutFails, HealFails, RequestFails, StorePut, HealDedupHit
  <2>2. NF2'
    <3>1. \A q \in Procs : proc'[q].blob = proc[q].blob /\ (q # p => proc'[q] = proc[q])
      BY <2>1 DEF Shape, BlobsTypeOK
    <3> QED
      BY <1>b, <2>1, <3>1
  <2> QED
    BY <1>b, <2>1, <2>2 DEF Waiting, Committed, Evidence, IsShared
<1>5. CASE Submit
  <2>0. PICK b \in Blob : b = proc["fuse"].blob
    BY <1>5 DEF Submit, Fresh, Procs
  <2>1. /\ \A m \in queue' : m \in queue \/ m.blob = b
        /\ queue \subseteq queue'
        /\ \A p \in Procs : proc'[p].pc = "finish" => proc'[p] = proc[p]
        /\ UNCHANGED <<rows, files, versions, cur, live, drain>>
        /\ proc["fuse"].pc = "finish"
    BY <1>5, <2>0 DEF Submit, Shape, BlobsTypeOK, IdleProc
  <2>2. NF1'
    BY <1>b, <2>0, <2>1 DEF Waiting, Committed, Procs
  <2> QED
    BY <1>b, <2>1, <2>2 DEF Evidence, IsShared
<1>6. CASE CliCommit
  <2>0. PICK b \in Blob : b = proc["cli"].blob
    BY <1>6 DEF CliCommit, Fresh, Procs
  <2>1. /\ \A i \in live : cur'[i] = cur[i] \/ cur'[i] = b
        /\ versions \subseteq versions'
        /\ \A p \in Procs : proc'[p].pc = "finish" => proc'[p] = proc[p]
        /\ UNCHANGED <<rows, files, live, queue, drain>>
        /\ b \in files
    BY <1>6, <1>b, <2>0 DEF CliCommit, Shape, BlobsTypeOK, IdleProc, Procs
  <2>2. \A m : Waiting(m)' => Waiting(m)
    BY <2>1 DEF Waiting, Committed
  <2> QED
    BY <1>b, <2>1, <2>2 DEF Evidence, IsShared
<1>7. ASSUME NEW i \in Inodes, Unlink(i)
      PROVE  NF1' /\ NF2' /\ NF3' /\ NF4'
  <2>1. NF1' /\ NF2'
    BY <1>b, <1>7, UnlinkSpares
  <2>2. \A b : Evidence(b) => Evidence(b)'
    BY <1>7, UnlinkSpares DEF Evidence
  <2>3. NF3'
    BY <1>b, <1>7, <2>2, UnlinkSpares DEF IsShared
  <2>4. NF4'
    BY <1>b, <1>7, UnlinkSpares DEF IsShared
  <2> QED
    BY <2>1, <2>3, <2>4
<1>8. ASSUME NEW m \in queue, DrainBegin(m)
      PROVE  NF1' /\ NF2' /\ NF3' /\ NF4'
  <2>1. /\ drain.pc = "idle" /\ drain'.pc = "tx"
        /\ UNCHANGED <<rows, files, versions, cur, live, queue, proc>>
    BY <1>8 DEF DrainBegin, IdleDrain, stored
  <2> QED
    BY <1>b, <2>1 DEF Waiting, Committed, Evidence, IsShared
<1>9. CASE DrainCommit
  <2>0. PICK m \in queue : m = drain.mark
    BY <1>9 DEF DrainCommit, Fresh
  <2>1. m \in Markers /\ m.blob \in Blob
    BY DEF Markers, Shape, BlobsTypeOK
  <2>2. PICK c \in Blob : c = Canonical(m)
    BY <2>1, CanonicalIs
  <2>3. /\ drain.pc = "tx" /\ drain'.pc = "reconcile" /\ drain'.mark = m
        /\ drain'.ins = Inserted(m) /\ drain'.canonical = c
        /\ UNCHANGED <<files, live, queue, proc>>
    BY <1>9, <2>0, <2>2, CommitIs DEF CommitEffect
  <2>4. \A b : /\ IsShared(b) => IsShared(b)'
               /\ [blob |-> b, shared |-> TRUE] \in rows' =>
                     IsShared(b) \/ (Waiting(m) /\ Inserted(m) /\ b = m.blob)
    <3>1. \/ /\ Waiting(m)
             /\ rows' = rows \union (IF Inserted(m)
                          THEN {[blob |-> m.blob, shared |-> m.shared]} ELSE {})
          \/ ~Waiting(m) /\ UNCHANGED rows
      BY <1>9, <2>0, <2>2, CommitIs DEF CommitEffect
    <3> QED
      BY <3>1 DEF IsShared
  <2>5. /\ Inserted(m) => c = m.blob /\ ~HasRow(m.blob)
        /\ Inserted(m) /\ m.shared => SharedRows(HashOf(m.blob)) = {}
        /\ ~Inserted(m) => m.shared /\ IsShared(c) /\ HashOf(c) = HashOf(m.blob)
    BY <1>9, <2>0, <2>2, CommitIs DEF CommitEffect
  <2>6. /\ \A o : Waiting(o)' => Waiting(o)
        /\ \A i \in live : cur'[i] = cur[i] \/ (Waiting(m) /\ cur'[i] = c)
    BY <1>9, <2>0, <2>2, CommitIs DEF CommitEffect
  <2>7. \A b : Evidence(b) => Evidence(b)'
    BY <2>3 DEF Evidence
  <2>8. ASSUME Waiting(m)
        PROVE  c \in files \/ ([blob |-> c, shared |-> TRUE] \in rows' /\ Evidence(c)')
    <3>1. m.blob \in files
      BY <1>b, <2>8
    <3>2. CASE Inserted(m)
      BY <2>5, <3>1, <3>2
    <3>3. CASE ~Inserted(m)
      <4>1. Evidence(c)'
        BY <2>3, <2>5, <3>1, <3>3 DEF Evidence
      <4> QED
        BY <2>4, <2>5, <3>3, <4>1 DEF IsShared
    <3> QED
      BY <3>2, <3>3
  <2>9. NF3'
    <3>1. ASSUME NEW i \in live, NEW e, e = cur'[i], e # None
          PROVE  e \in files \/ ([blob |-> e, shared |-> TRUE] \in rows' /\ Evidence(e)')
      <4>1. CASE e = cur[i]
        <5>1. e \in files \/ (IsShared(e) /\ Evidence(e))
          BY <1>b, <3>1, <4>1
        <5> QED
          BY <2>4, <2>7, <5>1 DEF IsShared
      <4>2. CASE Waiting(m) /\ e = c
        BY <2>8, <4>2
      <4> QED
        BY <2>6, <3>1, <4>1, <4>2
    <3>2. \A i \in live : cur'[i] # None =>
            \/ cur'[i] \in files
            \/ (IsShared(cur[i]) /\ Evidence(cur[i]))'
      BY <3>1 DEF IsShared
    <3> QED
      BY <2>3, <3>2
  <2>10. NF4'
    <3>1. ASSUME NEW i \in live, m.shared,
                 cur'[i] # None, HashOf(cur'[i]) = HashOf(m.blob),
                 [blob |-> cur'[i], shared |-> TRUE] \in rows'
          PROVE  cur'[i] \in files \/ (~Inserted(m) /\ cur'[i] = c)
      <4>1. CASE Inserted(m)
        <5>1. SharedRows(HashOf(m.blob)) = {}
          BY <2>5, <3>1, <4>1
        <5>2. \A b : IsShared(b) => HashOf(b) # HashOf(m.blob)
          BY <5>1 DEF IsShared, SharedRows
        <5>3. Waiting(m) /\ cur'[i] = m.blob
          BY <2>4, <3>1, <5>2
        <5> QED
          BY <1>b, <5>3
      <4>2. CASE ~Inserted(m)
        <5>1. IsShared(cur'[i])
          BY <2>4, <3>1, <4>2
        <5>2. cur'[i] \in Blob
          BY <1>d, <2>2, <2>6, <3>1
        <5> QED
          BY <2>2, <2>5, <3>1, <4>2, <5>1, <5>2, RowKinds DEF Core
      <4> QED
        BY <4>1, <4>2
    <3> QED
      BY <2>3, <3>1 DEF IsShared
  <2> QED
    BY <1>b, <2>3, <2>6, <2>9, <2>10
<1>10. CASE DrainReconcile \/ DrainReconcileFails
  <2>1. /\ drain.pc = "reconcile" /\ drain'.pc = "unlink" /\ drain'.mark = drain.mark
        /\ UNCHANGED <<rows, versions, cur, live, queue, proc>>
        /\ drain.mark \in queue
    BY <1>10 DEF DrainReconcile, DrainReconcileFails, Shape, Fresh
  <2>2. \A m \in queue : Waiting(m) => m # drain.mark
    BY <2>1 DEF Core, DrainKnows
  <2>3. NF1' /\ NF2'
    BY <1>10, <1>b, <2>1, <2>2, ReconcileSpares DEF Waiting, Committed
  <2>4. ASSUME NEW i \in live, cur[i] # None
        PROVE  cur[i] \in files' \/ (IsShared(cur[i]) /\ Evidence(cur[i])')
    <3>1. CASE cur[i] \in files
      BY <1>10, <1>d, <2>4, <3>1, ReconcileSpares
    <3>2. CASE IsShared(cur[i]) /\ Evidence(cur[i]) /\ cur[i] \notin files
      <4>1. PICK m \in queue : m.shared /\ HashOf(m.blob) = HashOf(cur[i]) /\ m.blob \in files
        BY <3>2 DEF Evidence
      <4>2. CASE m # drain.mark
        BY <1>10, <2>1, <3>2, <4>1, <4>2, ReconcileSpares DEF Evidence
      <4>3. CASE m = drain.mark
        <5>1. ~drain.ins /\ cur[i] = drain.canonical
          BY <1>b, <2>1, <2>4, <3>2, <4>1, <4>3
        <5>2. m.blob = drain.canonical \/ files' = Reconciled(m.blob, drain.canonical)
          BY <1>10, <1>c, <4>3, <5>1 DEF DrainReconcile, DrainReconcileFails
        <5> QED
          BY <3>2, <4>1, <5>1, <5>2 DEF Reconciled
      <4> QED
        BY <4>2, <4>3
    <3> QED
      BY <1>b, <2>4, <3>1, <3>2
  <2>5. NF3'
    BY <2>1, <2>4 DEF IsShared
  <2> QED
    BY <2>1, <2>3, <2>5
<1>11. CASE DrainUnlink \/ DrainAbandon \/ CrashDaemon \/ KillCli
  <2>1. /\ drain' = drain \/ drain'.pc = "idle"
        /\ \A m \in queue : m \in queue' \/ (drain.pc = "unlink" /\ m = drain.mark)
        /\ queue' \subseteq queue
        /\ proc' = proc \/ \E p \in Procs : proc' = [proc EXCEPT ![p] = IdleProc]
        /\ UNCHANGED <<rows, files, versions, cur, live>>
    BY <1>11 DEF DrainUnlink, DrainAbandon, CrashDaemon, KillCli, IdleDrain, stored, Procs
  <2>2. \A p \in Procs : proc'[p].pc # "idle" => proc'[p] = proc[p]
    BY <2>1 DEF IdleProc, Shape, BlobsTypeOK
  <2>3. \A b : Evidence(b) => Evidence(b)'
    BY <2>1 DEF Evidence
  <2>4. NF3'
    BY <1>b, <2>1, <2>3 DEF IsShared
  <2> QED
    BY <1>b, <2>1, <2>2, <2>4 DEF Waiting, Committed, IsShared
<1> QED
  BY <1>1, <1>2, <1>3, <1>4, <1>5, <1>6, <1>7, <1>8, <1>9, <1>10, <1>11 DEF WriteStep

(* While nothing crashes.                                                  *)
LEMMA NoCrashStep ==
    ASSUME Shape, Fresh, Core, NoCrash, WriteStep \/ UNCHANGED vars,
           undone' = 0, crashes' = 0
    PROVE  NoCrash'
<1> DEFINE
      NC1 == \A b \in Blob : IsShared(b) => b \in files \/ Storing(b)
      NC2 == \A m \in queue : Waiting(m) => IsShared(m.blob) \/ m.blob \in files
      NC3 == \A i \in live : cur[i] # None => IsShared(cur[i]) \/ cur[i] \in files
<1>a. SUFFICES NC1' /\ NC2' /\ NC3'
  BY DEF NoCrash
<1>b. NC1 /\ NC2 /\ NC3
  BY DEF NoCrash
<1>d. live \subseteq Inodes /\ \A i \in live : cur[i] # None => cur[i] \in Blob /\ HasRow(cur[i])
  BY DEF Shape, BlobsTypeOK, Core, Inventory
<1>1. CASE UNCHANGED vars
  BY <1>1, <1>b DEF vars, stored, counters, Waiting, Committed, Storing, IsShared
<1>2. ASSUME NEW i \in Inodes, NEW h \in Hashes, PutProvisional(i, h)
      PROVE  NC1' /\ NC2' /\ NC3'
  <2>1. /\ proc["fuse"].pc = "idle"
        /\ \A p \in Procs : p # "fuse" => proc'[p] = proc[p]
        /\ files \subseteq files'
        /\ UNCHANGED <<rows, versions, cur, live, queue>>
    BY <1>2 DEF PutProvisional, Shape, BlobsTypeOK
  <2>2. \A b : Storing(b) => Storing(b)'
    BY <2>1 DEF Storing
  <2> QED
    BY <1>b, <2>1, <2>2 DEF Waiting, Committed, IsShared
<1>3. ASSUME NEW i \in Inodes, NEW h \in Hashes, NEW p \in Procs, InsertBlob(p, i, h)
      PROVE  NC1' /\ NC2' /\ NC3'
  <2>0. /\ UNCHANGED <<files, versions, cur, live, queue>>
        /\ proc[p].pc = "idle" /\ rows \subseteq rows'
        /\ \A q \in Procs : q # p => proc'[q] = proc[q]
    BY <1>3 DEF InsertBlob, Shape, BlobsTypeOK
  <2>1. \A b : IsShared(b)' => IsShared(b) \/ Storing(b)'
    <3>1. PICK n : n = <<next, h>>
      OBVIOUS
    <3>2. \/ rows' = rows
          \/ /\ rows' = rows \union {[blob |-> n, shared |-> TRUE]}
             /\ proc' = [proc EXCEPT ![p] =
                   [pc |-> "store", inode |-> i, blob |-> n, shared |-> TRUE]]
      BY <1>3, <3>1 DEF InsertBlob
    <3>3. CASE rows' = rows
      BY <3>3 DEF IsShared
    <3>4. CASE /\ rows' = rows \union {[blob |-> n, shared |-> TRUE]}
               /\ proc' = [proc EXCEPT ![p] =
                     [pc |-> "store", inode |-> i, blob |-> n, shared |-> TRUE]]
      <4>1. Storing(n)'
        BY <3>4 DEF Storing, Shape, BlobsTypeOK
      <4>2. \A b : IsShared(b)' => IsShared(b) \/ b = n
        BY <3>4 DEF IsShared
      <4> QED
        BY <4>1, <4>2
    <3> QED
      BY <3>2, <3>3, <3>4
  <2>2. \A b : (Storing(b) => Storing(b)') /\ (IsShared(b) => IsShared(b)')
    BY <2>0 DEF Storing, IsShared
  <2>3. NC1'
    BY <1>b, <2>0, <2>1, <2>2
  <2>4. NC2' /\ NC3'
    BY <1>b, <2>0 DEF Waiting, Committed, IsShared
  <2> QED
    BY <2>3, <2>4
<1>4. ASSUME NEW p \in Procs,
             \/ StorePutFails(p) \/ HealFails(p) \/ RequestFails(p)
             \/ StorePut(p) \/ HealDedupHit(p)
      PROVE  NC1' /\ NC2' /\ NC3'
  <2>1. ~StorePutFails(p)
    BY DEF StorePutFails, Shape
  <2>2. /\ \A q \in Procs : q # p => proc'[q] = proc[q]
        /\ files \subseteq files'
        /\ proc[p].pc = "store" => proc[p].blob \in files'
        /\ UNCHANGED <<rows, versions, cur, live, queue>>
    BY <1>4, <2>1 DEF HealFails, RequestFails, StorePut, HealDedupHit, stored,
                      Shape, BlobsTypeOK
  <2>3. \A b : Storing(b) => Storing(b)' \/ b \in files'
    BY <2>2 DEF Storing
  <2> QED
    BY <1>b, <2>2, <2>3 DEF Waiting, Committed, IsShared
<1>5. CASE Submit
  <2>0. PICK b \in Blob : b = proc["fuse"].blob
    BY <1>5 DEF Submit, Fresh, Procs
  <2>1. /\ \A m \in queue' : m \in queue \/ m.blob = b
        /\ \A p \in Procs : p # "fuse" => proc'[p] = proc[p]
        /\ UNCHANGED <<rows, files, versions, cur, live>>
        /\ proc["fuse"].pc = "finish"
    BY <1>5, <2>0 DEF Submit, Shape, BlobsTypeOK
  <2>2. IsShared(b) \/ b \in files
    BY <2>0, <2>1 DEF Core, Provisional
  <2>3. \A c : Storing(c) => Storing(c)'
    BY <2>1 DEF Storing
  <2> QED
    BY <1>b, <2>1, <2>2, <2>3 DEF Waiting, Committed, IsShared
<1>6. CASE CliCommit
  <2>0. PICK b \in Blob : b = proc["cli"].blob
    BY <1>6 DEF CliCommit, Fresh, Procs
  <2>1. /\ \A i \in live : cur'[i] = cur[i] \/ cur'[i] = b
        /\ versions \subseteq versions'
        /\ \A p \in Procs : p # "cli" => proc'[p] = proc[p]
        /\ UNCHANGED <<rows, files, live, queue>>
        /\ proc["cli"].pc = "finish"
    BY <1>6, <2>0 DEF CliCommit, Shape, BlobsTypeOK
  <2>2. \A m : Waiting(m)' => Waiting(m)
    BY <2>1 DEF Waiting, Committed
  <2>3. IsShared(b)
    BY <2>0, <2>1 DEF Core, Provisional
  <2>4. \A c : Storing(c) => Storing(c)'
    BY <2>1 DEF Storing
  <2> QED
    BY <1>b, <2>1, <2>2, <2>3, <2>4 DEF IsShared
<1>7. ASSUME NEW i \in Inodes, Unlink(i)
      PROVE  NC1' /\ NC2' /\ NC3'
  <2>1. NC1'
    BY <1>b, <1>7, UnlinkSpares DEF IsShared, Storing
  <2>2. NC2'
    BY <1>b, <1>7, UnlinkSpares DEF IsShared
  <2>3. NC3'
    BY <1>b, <1>7, UnlinkSpares DEF IsShared
  <2> QED
    BY <2>1, <2>2, <2>3
<1>9. CASE DrainCommit
  <2>0. PICK m \in queue : m = drain.mark
    BY <1>9 DEF DrainCommit, Fresh
  <2>1. m \in Markers /\ m.blob \in Blob
    BY DEF Markers, Shape, BlobsTypeOK
  <2>2. PICK c \in Blob : c = Canonical(m)
    BY <2>1, CanonicalIs
  <2>3. UNCHANGED <<files, live, queue, proc>>
    BY <1>9, <2>0, <2>2, CommitIs DEF CommitEffect
  <2>4. \A b : /\ IsShared(b) => IsShared(b)'
               /\ IsShared(b)' => IsShared(b) \/ (Waiting(m) /\ Inserted(m) /\ b = m.blob)
    <3>1. \/ /\ Waiting(m)
             /\ rows' = rows \union (IF Inserted(m)
                          THEN {[blob |-> m.blob, shared |-> m.shared]} ELSE {})
          \/ ~Waiting(m) /\ UNCHANGED rows
      BY <1>9, <2>0, <2>2, CommitIs DEF CommitEffect
    <3> QED
      BY <3>1 DEF IsShared
  <2>5. /\ Inserted(m) => c = m.blob /\ ~HasRow(m.blob)
        /\ ~Inserted(m) => IsShared(c)
    BY <1>9, <2>0, <2>2, CommitIs DEF CommitEffect
  <2>6. /\ \A o : Waiting(o)' => Waiting(o)
        /\ \A i \in live : cur'[i] = cur[i] \/ (Waiting(m) /\ cur'[i] = c)
    BY <1>9, <2>0, <2>2, CommitIs DEF CommitEffect
  <2>7. Waiting(m) /\ Inserted(m) => m.blob \in files
    <3>1. IsShared(m.blob) => HasRow(m.blob)
      BY DEF IsShared, HasRow
    <3> QED
      BY <1>b, <2>5, <3>1
  <2>8. NC1'
    BY <1>b, <2>3, <2>4, <2>7 DEF Storing
  <2>9. NC2'
    BY <1>b, <2>3, <2>4, <2>6 DEF IsShared
  <2>10. NC3'
    <3>1. \A i \in live : cur'[i] # None =>
             [blob |-> cur'[i], shared |-> TRUE] \in rows' \/ cur'[i] \in files
      BY <1>b, <2>4, <2>5, <2>6, <2>7 DEF IsShared
    <3> QED
      BY <2>3, <3>1 DEF IsShared
  <2> QED
    BY <2>8, <2>9, <2>10
<1>10. CASE DrainReconcile \/ DrainReconcileFails
  <2>1. /\ drain.pc = "reconcile" /\ drain.mark \in queue
        /\ UNCHANGED <<rows, versions, cur, live, queue, proc>>
    BY <1>10 DEF DrainReconcile, DrainReconcileFails, Fresh
  <2>2. \A m \in queue : Waiting(m) => m # drain.mark
    BY <2>1 DEF Core, DrainKnows
  <2>3. \A b : IsShared(b) => HasRow(b)
    BY DEF IsShared, HasRow
  <2>4. NC1'
    BY <1>10, <1>b, <2>1, <2>3, ReconcileSpares DEF IsShared, Storing
  <2>5. NC2'
    BY <1>10, <1>b, <2>1, <2>2, ReconcileSpares DEF IsShared, Waiting, Committed
  <2>6. NC3'
    BY <1>10, <1>b, <1>d, <2>1, ReconcileSpares DEF IsShared
  <2> QED
    BY <2>4, <2>5, <2>6
<1>11. CASE DrainUnlink \/ DrainAbandon \/ (\E m \in queue : DrainBegin(m))
  <2>1. queue' \subseteq queue /\ UNCHANGED <<rows, files, versions, cur, live, proc>>
    BY <1>11 DEF DrainUnlink, DrainAbandon, DrainBegin, stored
  <2> QED
    BY <1>b, <2>1 DEF Waiting, Committed, IsShared, Storing
<1>12. ~CrashDaemon /\ ~KillCli
  BY DEF CrashDaemon, KillCli, Shape
<1> QED
  BY <1>1, <1>2, <1>3, <1>4, <1>5, <1>6, <1>7, <1>9, <1>10, <1>11, <1>12 DEF WriteStep

(* While no call fails and nothing crashes.                                *)
LEMMA CalmStep ==
    ASSUME Shape, Fresh, Core, NoFailure, Calm, WriteStep \/ UNCHANGED vars,
           undone' = 0, fails' = 0, crashes' = 0
    PROVE  Calm'
<1> DEFINE
      C1 == \A m \in queue : Committed(m) =>
               drain.pc \in {"reconcile", "unlink"} /\ drain.mark = m
      C2 == drain.pc = "reconcile" /\ drain.mark.inode \in live => drain.mark.blob \in files
<1>a. SUFFICES C1' /\ C2'
  BY DEF Calm
<1>b. C1 /\ C2
  BY DEF Calm
<1>c. ~Fail /\ ~CrashDaemon /\ ~KillCli
  BY DEF Fail, CrashDaemon, KillCli, Shape
<1>1. CASE UNCHANGED vars
  BY <1>1, <1>b DEF vars, stored, counters, Committed
<1>2. ASSUME NEW i \in Inodes, NEW h \in Hashes,
             PutProvisional(i, h) \/ \E p \in Procs : InsertBlob(p, i, h)
      PROVE  C1' /\ C2'
  <2>1. files \subseteq files' /\ UNCHANGED <<versions, live, queue, drain>>
    BY <1>2 DEF PutProvisional, InsertBlob
  <2> QED
    BY <1>b, <2>1 DEF Committed
<1>4. ASSUME NEW p \in Procs,
             \/ StorePutFails(p) \/ HealFails(p) \/ RequestFails(p)
             \/ StorePut(p) \/ HealDedupHit(p)
      PROVE  C1' /\ C2'
  <2>1. files \subseteq files' /\ UNCHANGED <<versions, live, queue, drain>>
    BY <1>4, <1>c DEF StorePutFails, HealFails, RequestFails, StorePut, HealDedupHit
  <2> QED
    BY <1>b, <2>1 DEF Committed
<1>5. CASE Submit
  <2>1. /\ \A m \in queue' : m \in queue \/ m.vid = next
        /\ UNCHANGED <<files, versions, live, drain>>
    BY <1>5 DEF Submit
  <2>2. \A v \in versions : v.vid # next
    BY DEF Fresh, Shape, BlobsTypeOK
  <2> QED
    BY <1>b, <2>1, <2>2 DEF Committed
<1>6. CASE CliCommit
  <2>1. /\ \A v \in versions' : v \in versions \/ v.vid = next
        /\ UNCHANGED <<files, live, queue, drain>>
    BY <1>6 DEF CliCommit
  <2>2. \A m \in queue : m.vid # next
    BY DEF Fresh, Shape, BlobsTypeOK
  <2> QED
    BY <1>b, <2>1, <2>2 DEF Committed
<1>7. ASSUME NEW i \in Inodes, Unlink(i)
      PROVE  C1' /\ C2'
  <2>1. /\ versions' \subseteq versions /\ live' \subseteq live
        /\ UNCHANGED <<queue, drain>>
    BY <1>7 DEF Unlink
  <2>2. C1'
    BY <1>b, <2>1 DEF Committed
  <2>3. C2'
    BY <1>b, <1>7, <2>1, UnlinkSpares DEF Fresh
  <2> QED
    BY <2>2, <2>3
<1>8. ASSUME NEW m \in queue, DrainBegin(m)
      PROVE  C1' /\ C2'
  <2>1. /\ drain.pc = "idle" /\ drain'.pc = "tx"
        /\ UNCHANGED <<files, versions, live, queue>>
    BY <1>8 DEF DrainBegin, IdleDrain, stored
  <2> QED
    BY <1>b, <2>1 DEF Committed
<1>9. CASE DrainCommit
  <2>0. PICK m \in queue : m = drain.mark
    BY <1>9 DEF DrainCommit, Fresh
  <2>1. m \in Markers /\ m.blob \in Blob
    BY DEF Markers, Shape, BlobsTypeOK
  <2>2. PICK c \in Blob : c = Canonical(m)
    BY <2>1, CanonicalIs
  <2>3. /\ drain.pc = "tx" /\ drain'.pc = "reconcile" /\ drain'.mark = m
        /\ UNCHANGED <<files, live, queue>>
        /\ \A o : Committed(o)' => Committed(o) \/ o.vid = m.vid
    BY <1>9, <2>0, <2>2, CommitIs DEF CommitEffect
  <2>4. \A o \in queue : ~Committed(o)
    BY <1>b, <2>3
  <2>5. C1'
    BY <2>3, <2>4 DEF Fresh
  <2>6. m.inode \in live => m.blob \in files
    BY <2>4 DEF NoFailure, Waiting
  <2> QED
    BY <2>3, <2>5, <2>6
<1>10. CASE DrainReconcile \/ DrainReconcileFails
  <2>1. /\ drain.pc = "reconcile" /\ drain'.pc = "unlink" /\ drain'.mark = drain.mark
        /\ UNCHANGED <<versions, live, queue>>
    BY <1>10 DEF DrainReconcile, DrainReconcileFails, Shape
  <2> QED
    BY <1>b, <2>1 DEF Committed
<1>11. CASE DrainUnlink
  <2>1. /\ drain.pc = "unlink" /\ drain'.pc = "idle"
        /\ queue' = queue \ {drain.mark} /\ UNCHANGED versions
    BY <1>11 DEF DrainUnlink, IdleDrain
  <2> QED
    BY <1>b, <2>1 DEF Committed
<1>12. ~DrainAbandon
  BY <1>c DEF DrainAbandon
<1> QED
  BY <1>1, <1>2, <1>4, <1>5, <1>6, <1>7, <1>8, <1>9, <1>10, <1>11, <1>12, <1>c DEF WriteStep

----------------------------------------------------------------------------
(* What the cleaner holds in its delete is in no marker and no request.    *)
LEMMA NotInUse ==
    ASSUME CleanerShape, Protection, cleaner.pc \in {"wait", "bytes"}
    PROVE  /\ cleaner.blob \in Blob /\ cleaner.blob \in old
           /\ \A m \in queue : m.blob # cleaner.blob
           /\ \A p \in Procs : proc[p].pc # "idle" => proc[p].blob # cleaner.blob
<1>1. cleaner.blob \in Blob /\ cleaner.blob \in old
  BY DEF CleanerShape, Protection
<1> QED
  BY <1>1 DEF Protection

(* The cleaner touches nothing but rows, bytes and its own state.          *)
LEMMA CleanerFrame ==
    ASSUME CleanerStep
    PROVE  /\ UNCHANGED <<versions, cur, live, queue, overlay, proc, drain, next,
                          undone, releases, inserts, crashes>>
           /\ rows' \subseteq rows /\ files' \subseteq files
           /\ fails' = fails \/ fails' = fails + 1
           /\ lockWaits' = lockWaits \/ lockWaits' = lockWaits + 1
<1>1. ASSUME NEW r \in rows, Age(r)
      PROVE  /\ UNCHANGED <<versions, cur, live, queue, overlay, proc, drain, next,
                            undone, releases, inserts, crashes>>
             /\ rows' = rows /\ files' = files /\ fails' = fails /\ lockWaits' = lockWaits
  BY <1>1 DEF Age, stored, counters
<1>2. CASE CleanProtect \/ CleanList \/ CleanDone \/ CleanBytesFails
  BY <1>2 DEF CleanProtect, CleanList, CleanDone, CleanBytesFails, stored, counters, Fail
<1>3. ASSUME NEW b \in cleaner.todo, CleanRow(b) \/ CleanWait(b)
      PROVE  /\ UNCHANGED <<versions, cur, live, queue, overlay, proc, drain, next,
                            undone, releases, inserts, crashes>>
             /\ rows' \subseteq rows /\ files' = files /\ fails' = fails
             /\ lockWaits' = lockWaits \/ lockWaits' = lockWaits + 1
  BY <1>3 DEF CleanRow, CleanWait, stored, counters
<1>4. CASE CleanWake \/ CleanBytes
  BY <1>4 DEF CleanWake, CleanBytes, counters
<1> QED
  BY <1>1, <1>2, <1>3, <1>4 DEF CleanerStep, CleanStep

(* It deletes the bytes of the blob it holds, after the row of that blob,  *)
(* and no row that a version, a marker or a request needs, unless its      *)
(* DELETE had to wait.                                                     *)
LEMMA CleanerDeletes ==
    ASSUME CleanerShape, Protection, CleanerStep
    PROVE  /\ \A b \in files : b \in files' \/ (cleaner.pc = "bytes" /\ b = cleaner.blob)
           /\ lockWaits = 0 =>
                 \A b : HasRow(b) /\ ~HasRow(b)' =>
                    /\ ~Referenced(HashOf(b))
                    /\ \A m \in queue : m.blob # b
                    /\ \A p \in Procs : proc[p].pc # "idle" => proc[p].blob # b
<1>1. CASE (\E r \in rows : Age(r)) \/ CleanProtect \/ CleanList \/ CleanDone \/ CleanBytesFails
  <2>1. UNCHANGED <<rows, files>>
    BY <1>1 DEF Age, CleanProtect, CleanList, CleanDone, CleanBytesFails, stored
  <2> QED
    BY <2>1 DEF HasRow
<1>2. ASSUME NEW b \in cleaner.todo, CleanRow(b) \/ CleanWait(b)
      PROVE  /\ files' = files
             /\ \A c : HasRow(c) /\ ~HasRow(c)' =>
                    /\ ~Referenced(HashOf(c))
                    /\ \A m \in queue : m.blob # c
                    /\ \A p \in Procs : proc[p].pc # "idle" => proc[p].blob # c
  <2>1. /\ files' = files /\ cleaner.pc = "row"
        /\ \/ rows' = rows
           \/ /\ rows' = {r \in rows : r.blob # b} /\ ~Referenced(HashOf(b))
              /\ HashOf(b) \notin cleaner.protected
    BY <1>2 DEF CleanRow, CleanWait, Deletable, stored
  <2>2. b \in old
    BY DEF Protection
  <2>3. \A c : HasRow(c) /\ ~HasRow(c)' =>
           c = b /\ ~Referenced(HashOf(b)) /\ HashOf(b) \notin cleaner.protected
    BY <2>1 DEF HasRow
  <2>4. \A p \in Procs : proc[p].pc # "idle" => proc[p].blob # b
    BY <2>2 DEF Protection
  <2>5. HashOf(b) \notin cleaner.protected => \A m \in queue : m.blob # b
    BY <2>1, <2>2 DEF Protection
  <2> QED
    BY <2>1, <2>3, <2>4, <2>5
<1>3. CASE CleanWake
  BY <1>3 DEF CleanWake, CleanerShape
<1>4. CASE CleanBytes
  BY <1>4 DEF CleanBytes, HasRow
<1> QED
  BY <1>1, <1>2, <1>3, <1>4 DEF CleanerStep, CleanStep

(* No write undoes the two protections.                                    *)
LEMMA ProtectionWrite ==
    ASSUME Shape, Fresh, CleanerShape, Protection,
           (WriteStep /\ YoungHits) \/ UNCHANGED vars
    PROVE  CleanerShape' /\ Protection'
<1>b. \A h \in Hashes : <<next, h>> \in Blob /\ <<next, h>>[1] = next
  BY DEF Blob, Shape
<1>c. \A b \in Blob : b[1] \in Nat
  BY DEF Blob
<1>d. next \in Nat /\ \A h \in Hashes : <<next, h>> \notin old
  <2>1. ASSUME NEW h \in Hashes, <<next, h>> \in old
        PROVE  FALSE
    <3>1. <<next, h>>[1] < next
      BY <2>1 DEF Protection
    <3> QED
      BY <1>b, <2>1, <3>1 DEF Shape
  <2> QED
    BY <2>1 DEF Shape
<1>1. CASE UNCHANGED vars
  BY <1>1 DEF vars, stored, counters, CleanerShape, Protection, HasRow
<1>2. CASE WriteStep /\ YoungHits
  <2>1. /\ UNCHANGED <<old, lockWaits>>
        /\ cleaner' = cleaner \/ cleaner' = IdleCleaner
    BY <1>2 DEF WriteStep, PutProvisional, InsertBlob, StorePutFails, HealFails, RequestFails,
       StorePut, HealDedupHit, Submit, CliCommit, Unlink, DrainBegin, DrainCommit,
       DrainReconcile, DrainUnlink, DrainReconcileFails, DrainAbandon, CrashDaemon, KillCli,
       counters
  <2>2. CleanerShape'
    <3>1. CASE cleaner' = cleaner
      BY <2>1, <3>1 DEF CleanerShape
    <3>2. CASE cleaner' = IdleCleaner
      BY <2>1, <3>2 DEF CleanerShape, IdleCleaner
    <3> QED
      BY <2>1, <3>1, <3>2
  <2>3. next' = next \/ next' = next + 1
    BY <1>2 DEF WriteStep, PutProvisional, InsertBlob, StorePutFails, HealFails, RequestFails,
       StorePut, HealDedupHit, Submit, CliCommit, Unlink, DrainBegin, DrainCommit,
       DrainReconcile, DrainUnlink, DrainReconcileFails, DrainAbandon, CrashDaemon, KillCli,
       counters
  <2>4. \A b \in old : b \in Blob /\ b[1] < next'
    BY <1>c, <1>d, <2>3 DEF Protection
  <2> DEFINE Spared == \A q \in Procs : proc'[q].pc # "idle" => proc'[q].blob \notin old
  <2>5. Spared
    <3>1. ASSUME NEW p \in Procs,
                 \/ proc' = [proc EXCEPT ![p] = IdleProc]
                 \/ proc' = [proc EXCEPT ![p].pc = "finish"] /\ proc[p].pc # "idle"
          PROVE  Spared
      BY <3>1 DEF Shape, BlobsTypeOK, IdleProc, Protection
    <3>2. ASSUME NEW i \in Inodes, NEW h \in Hashes, PutProvisional(i, h)
          PROVE  Spared
      <4>1. proc' = [proc EXCEPT !["fuse"] =
                  [pc |-> "finish", inode |-> i, blob |-> <<next, h>>,
                   shared |-> i \notin PrivateInodes]]
        BY <3>2 DEF PutProvisional
      <4> QED
        BY <1>d, <4>1 DEF Shape, BlobsTypeOK, Protection
    <3>3. ASSUME NEW i \in Inodes, NEW h \in Hashes, NEW p \in Procs, InsertBlob(p, i, h)
          PROVE  Spared
      <4>1. CASE \E r \in SharedRows(h) : proc' = [proc EXCEPT ![p] =
                   [pc |-> "heal", inode |-> i, blob |-> r.blob, shared |-> TRUE]]
        <5>1. /\ \A q \in Procs : q # p => proc'[q] = proc[q]
              /\ proc'[p].pc = "heal" /\ proc[p].pc = "idle"
          BY <3>3, <4>1 DEF Shape, BlobsTypeOK, InsertBlob
        <5>2. proc'[p].blob \notin old
          BY <1>2, <5>1 DEF YoungHits
        <5> QED
          BY <5>1, <5>2 DEF Protection
      <4>2. CASE proc' = [proc EXCEPT ![p] =
                   [pc |-> "store", inode |-> i, blob |-> <<next, h>>, shared |-> TRUE]]
        BY <1>d, <4>2 DEF Shape, BlobsTypeOK, Protection
      <4> QED
        BY <3>3, <4>1, <4>2 DEF InsertBlob
    <3>4. CASE proc' = proc
      BY <3>4 DEF Protection
    <3>5. CASE \E p \in Procs : \/ StorePutFails(p) \/ HealFails(p) \/ RequestFails(p)
                                \/ StorePut(p) \/ HealDedupHit(p)
      BY <3>1, <3>5 DEF StorePutFails, HealFails, RequestFails, StorePut, HealDedupHit
    <3>6. CASE Submit \/ CliCommit \/ CrashDaemon \/ KillCli
      BY <3>1, <3>6 DEF Submit, CliCommit, CrashDaemon, KillCli, Procs
    <3> QED
      BY <1>2, <3>2, <3>3, <3>4, <3>5, <3>6
      DEF WriteStep, Unlink, DrainBegin, DrainCommit, DrainReconcile, DrainUnlink,
          DrainReconcileFails, DrainAbandon
  <2> HIDE DEF Spared
  <2>6. \A m \in queue' : m \in queue \/ m.blob \notin old
    <3>1. CASE Submit
      <4>1. proc["fuse"].pc = "finish" /\ "fuse" \in Procs
        BY <3>1 DEF Submit, Procs
      <4>2. \A m \in queue' : m \in queue \/ m.blob = proc["fuse"].blob
        BY <3>1 DEF Submit
      <4> QED
        BY <4>1, <4>2 DEF Protection
    <3>2. CASE queue' \subseteq queue
      BY <3>2
    <3> QED
      BY <1>2, <3>1, <3>2 DEF WriteStep, PutProvisional, InsertBlob, StorePutFails, HealFails,
       RequestFails, StorePut, HealDedupHit, CliCommit, Unlink, DrainBegin, DrainCommit,
       DrainReconcile, DrainUnlink, DrainReconcileFails, DrainAbandon, CrashDaemon, KillCli,
       stored
  <2>7. \A r \in rows' : r \in rows \/ (cleaner.pc = "bytes" => r.blob # cleaner.blob)
    <3>0. ASSUME cleaner.pc = "bytes"
          PROVE  /\ cleaner.blob \in old
                 /\ \A m \in queue : m.blob # cleaner.blob
      BY <3>0, NotInUse
    <3>1. CASE DrainCommit
      <4>1. drain.mark \in queue
        BY <3>1 DEF DrainCommit, Fresh
      <4>2. \A r \in rows' : r \in rows \/ r.blob = drain.mark.blob
        BY <3>1 DEF DrainCommit
      <4> QED
        BY <3>0, <4>1, <4>2
    <3>2. CASE rows' \subseteq rows
      BY <3>2
    <3>3. ASSUME NEW i \in Inodes, NEW h \in Hashes, NEW p \in Procs, InsertBlob(p, i, h)
          PROVE  \A r \in rows' : r \in rows \/ (cleaner.pc = "bytes" => r.blob # cleaner.blob)
      <4>1. \A r \in rows' : r \in rows \/ r.blob = <<next, h>>
        BY <3>3 DEF InsertBlob
      <4> QED
        BY <1>d, <3>0, <4>1
    <3> QED
      BY <1>2, <3>1, <3>2, <3>3 DEF WriteStep, PutProvisional, StorePutFails, HealFails,
       RequestFails, StorePut, HealDedupHit, Submit, CliCommit, Unlink, DrainBegin,
       DrainReconcile, DrainUnlink, DrainReconcileFails, DrainAbandon, CrashDaemon, KillCli,
       stored
  <2>8. CASE cleaner' = cleaner
    <3>1. cleaner.pc # "sleep" =>
             \A m \in queue' : m.blob \in old => HashOf(m.blob) \in cleaner.protected
      BY <2>6 DEF Protection
    <3>2. cleaner.pc = "bytes" => ~(\E r \in rows' : r.blob = cleaner.blob)
      BY <2>7 DEF HasRow, Protection
    <3>3. /\ cleaner.todo \subseteq old
          /\ cleaner.pc \in {"wait", "bytes"} =>
                /\ cleaner.blob \in old \ cleaner.todo
                /\ HashOf(cleaner.blob) \notin cleaner.protected
      BY DEF Protection
    <3> QED
      BY <2>1, <2>2, <2>4, <2>5, <2>8, <3>1, <3>2, <3>3 DEF Protection, Spared, HasRow
  <2>9. CASE cleaner' = IdleCleaner
    <3>1. cleaner'.pc = "sleep" /\ cleaner'.todo = {}
      BY <2>9 DEF IdleCleaner
    <3>2. "sleep" \notin {"wait", "bytes"}
      OBVIOUS
    <3> QED
      BY <2>1, <2>2, <2>4, <2>5, <3>1, <3>2 DEF Protection, Spared
  <2> QED
    BY <2>1, <2>2, <2>8, <2>9
<1> QED
  BY <1>1, <1>2

(* Nor does a pass of the cleaner.                                         *)
LEMMA ProtectionCleaner ==
    ASSUME Shape, Fresh, CleanerShape, Protection, CleanerStep
    PROVE  Shape' /\ Fresh' /\ CleanerShape' /\ Protection'
<1>a. /\ UNCHANGED <<versions, cur, live, queue, overlay, proc, drain, next,
                     undone, releases, inserts, crashes>>
      /\ rows' \subseteq rows /\ files' \subseteq files
      /\ fails' = fails \/ fails' = fails + 1
      /\ lockWaits' = lockWaits \/ lockWaits' = lockWaits + 1
  BY CleanerFrame
<1>b. Fresh'
  BY <1>a DEF Fresh
<1> DEFINE Parts == old' \subseteq Blob /\ CleanerShape' /\ Protection'
<1>c. SUFFICES Parts
  <2>1. fails' \in Nat /\ fails <= fails'
    BY <1>a DEF Shape
  <2>2. CleanerShape' => cleaner'.pc \in {"sleep", "list", "row", "wait", "bytes"}
    BY DEF CleanerShape
  <2>3. Parts => BlobsTypeOK'
    BY <1>a, <2>2 DEF Shape, BlobsTypeOK
  <2>4. Parts => Shape'
    BY <1>a, <2>1, <2>3 DEF Shape
  <2> QED
    BY <1>b, <2>4
<1>d. lockWaits + 1 \in Nat /\ lockWaits + 1 > 0 /\ old \subseteq Blob
  BY DEF CleanerShape, Shape, BlobsTypeOK
<1>e. CleanerOn
  <2> SUFFICES ASSUME ~CleanerOn
               PROVE  FALSE
    OBVIOUS
  <2>1. cleaner = IdleCleaner /\ cleaner.pc = "sleep" /\ cleaner.todo = {}
    BY DEF CleanerShape, IdleCleaner
  <2> QED
    BY <2>1 DEF CleanerStep, CleanStep, Age, CleanProtect, CleanList, CleanRow, CleanWait,
       CleanWake, CleanBytes, CleanDone, CleanBytesFails
<1>f. ASSUME old' \subseteq old, cleaner'.todo \subseteq old',
             cleaner'.pc \notin {"wait", "bytes"},
             \/ cleaner'.pc = "sleep"
             \/ cleaner.pc # "sleep" /\ cleaner'.protected = cleaner.protected
             \/ \A m \in queue : HashOf(m.blob) \in cleaner'.protected
      PROVE  Protection'
  <2>1. \A b \in old' : b \in Blob /\ b[1] < next'
    BY <1>a, <1>f DEF Protection
  <2>2. \A p \in Procs : proc'[p].pc # "idle" => proc'[p].blob \notin old'
    BY <1>a, <1>f DEF Protection
  <2>3. cleaner'.pc # "sleep" =>
           \A m \in queue' : m.blob \in old' => HashOf(m.blob) \in cleaner'.protected
    BY <1>a, <1>f DEF Protection
  <2> QED
    BY <1>f, <2>1, <2>2, <2>3 DEF Protection
<1>1. ASSUME NEW r \in rows, Age(r)
      PROVE  Parts
  <2>1. /\ cleaner = IdleCleaner /\ old' = old \union {r.blob}
        /\ \A p \in Procs : proc[p].blob # r.blob
        /\ UNCHANGED <<cleaner, lockWaits>>
    BY <1>1 DEF Age, CleanerShape, counters
  <2>2. r.blob \in Blob /\ r.blob[1] < next
    BY DEF Fresh, Shape, BlobsTypeOK
  <2>3. old' \subseteq Blob
    BY <1>d, <2>1, <2>2
  <2>4. CleanerShape'
    BY <1>e, <2>1 DEF CleanerShape
  <2>5. cleaner'.pc = "sleep" /\ cleaner'.todo = {}
    BY <2>1 DEF IdleCleaner
  <2>6. \A b \in old' : b \in Blob /\ b[1] < next
    BY <2>1, <2>2 DEF Protection
  <2>7. \A p \in Procs : proc[p].pc # "idle" => proc[p].blob \notin old'
    BY <2>1 DEF Protection
  <2> QED
    BY <1>a, <2>3, <2>4, <2>5, <2>6, <2>7 DEF Protection
<1>2. CASE CleanProtect
  <2> DEFINE P == {HashOf(m.blob) : m \in queue}
  <2>1. /\ cleaner = IdleCleaner
        /\ cleaner' = [IdleCleaner EXCEPT !.pc = "list", !.protected = P]
        /\ UNCHANGED <<old, lockWaits>>
    BY <1>2 DEF CleanProtect, CleanerShape, counters
  <2>2. P \subseteq Hashes
    BY DEF HashOf, Blob, Shape, BlobsTypeOK
  <2>3. \A m \in queue : HashOf(m.blob) \in P
    OBVIOUS
  <2> HIDE DEF P
  <2>4. /\ cleaner'.pc = "list" /\ cleaner'.protected = P /\ cleaner'.todo = {}
        /\ cleaner'.blob = None
    BY <2>1 DEF IdleCleaner
  <2>5. cleaner' \in [pc : {"sleep", "list", "row", "wait", "bytes"},
                      protected : SUBSET Hashes, todo : SUBSET Blob,
                      blob : Blob \union {None}]
    BY <2>1, <2>2 DEF IdleCleaner
  <2>6. CleanerShape'
    BY <1>e, <2>1, <2>4, <2>5 DEF CleanerShape
  <2> QED
    BY <1>d, <1>f, <2>1, <2>3, <2>4, <2>6
<1>3. CASE CleanList
  <2>1. PICK T : /\ T \subseteq old /\ cleaner.pc = "list"
                 /\ cleaner' = [cleaner EXCEPT !.pc = "row", !.todo = T]
                 /\ UNCHANGED <<old, lockWaits>>
    BY <1>3 DEF CleanList, counters
  <2>2. /\ cleaner'.pc = "row" /\ cleaner'.protected = cleaner.protected
        /\ cleaner'.todo = T /\ cleaner'.blob = cleaner.blob
    BY <2>1 DEF CleanerShape
  <2>3. CleanerShape'
    BY <1>d, <1>e, <2>1, <2>2 DEF CleanerShape
  <2> QED
    BY <1>d, <1>f, <2>1, <2>2, <2>3
<1>4. ASSUME NEW b \in cleaner.todo, CleanRow(b)
      PROVE  Parts
  <2>1. b \in old /\ b \in Blob /\ cleaner.todo \ {b} \subseteq Blob
    BY DEF Protection, CleanerShape
  <2>2. CASE Deletable(b)
    <3>1. /\ cleaner.pc = "row" /\ rows' = {r \in rows : r.blob # b}
          /\ cleaner' = [cleaner EXCEPT !.pc = "bytes", !.blob = b, !.todo = @ \ {b}]
          /\ UNCHANGED <<old, lockWaits>>
      BY <1>4, <2>2 DEF CleanRow, counters
    <3>2. /\ cleaner'.pc = "bytes" /\ cleaner'.protected = cleaner.protected
          /\ cleaner'.todo = cleaner.todo \ {b} /\ cleaner'.blob = b
      BY <3>1 DEF CleanerShape
    <3>3. CleanerShape'
      BY <1>e, <2>1, <3>1, <3>2 DEF CleanerShape
    <3>4. HashOf(b) \notin cleaner.protected /\ ~HasRow(b)'
      BY <2>2, <3>1 DEF Deletable, HasRow
    <3>5. ~HasRow(cleaner.blob)'
      BY <3>1, <3>2 DEF HasRow
    <3> QED
      BY <1>a, <1>d, <2>1, <3>1, <3>2, <3>3, <3>4, <3>5 DEF Protection
  <2>3. CASE ~Deletable(b)
    <3>1. /\ cleaner.pc = "row" /\ cleaner' = [cleaner EXCEPT !.todo = @ \ {b}]
          /\ UNCHANGED <<old, lockWaits>>
      BY <1>4, <2>3 DEF CleanRow, counters
    <3>2. /\ cleaner'.pc = "row" /\ cleaner'.protected = cleaner.protected
          /\ cleaner'.todo = cleaner.todo \ {b} /\ cleaner'.blob = cleaner.blob
      BY <3>1 DEF CleanerShape
    <3>3. CleanerShape'
      BY <1>e, <2>1, <3>1, <3>2 DEF CleanerShape
    <3>4. cleaner'.todo \subseteq old'
      BY <3>1, <3>2 DEF Protection
    <3> QED
      BY <1>d, <1>f, <3>1, <3>2, <3>3, <3>4
  <2> QED
    BY <2>2, <2>3
<1>5. ASSUME NEW b \in cleaner.todo, CleanWait(b)
      PROVE  Parts
  <2>1. b \in old /\ b \in Blob /\ cleaner.todo \ {b} \subseteq Blob
    BY DEF Protection, CleanerShape
  <2>2. /\ cleaner.pc = "row" /\ HashOf(b) \notin cleaner.protected
        /\ cleaner' = [cleaner EXCEPT !.pc = "wait", !.blob = b, !.todo = @ \ {b}]
        /\ lockWaits' = lockWaits + 1 /\ UNCHANGED old
    BY <1>5 DEF CleanWait, Deletable
  <2>3. /\ cleaner'.pc = "wait" /\ cleaner'.protected = cleaner.protected
        /\ cleaner'.todo = cleaner.todo \ {b} /\ cleaner'.blob = b
    BY <2>2 DEF CleanerShape
  <2>4. CleanerShape'
    BY <1>d, <1>e, <2>1, <2>2, <2>3 DEF CleanerShape
  <2> QED
    BY <1>a, <1>d, <2>1, <2>2, <2>3, <2>4 DEF Protection
<1>6. CASE CleanWake
  <2>1. /\ cleaner.pc = "wait" /\ rows' = {r \in rows : r.blob # cleaner.blob}
        /\ cleaner' = [cleaner EXCEPT !.pc = "bytes"]
        /\ UNCHANGED <<old, lockWaits>>
    BY <1>6 DEF CleanWake, counters
  <2>2. /\ cleaner'.pc = "bytes" /\ cleaner'.protected = cleaner.protected
        /\ cleaner'.todo = cleaner.todo /\ cleaner'.blob = cleaner.blob
    BY <2>1 DEF CleanerShape
  <2>3. CleanerShape'
    BY <1>e, <2>1, <2>2 DEF CleanerShape
  <2>4. ~HasRow(cleaner.blob)'
    BY <2>1, <2>2 DEF HasRow
  <2>5. cleaner.blob \in old \ cleaner.todo /\ HashOf(cleaner.blob) \notin cleaner.protected
    BY <2>1 DEF Protection
  <2> QED
    BY <1>a, <1>d, <2>1, <2>2, <2>3, <2>4, <2>5 DEF Protection
<1>7. CASE CleanBytes \/ CleanBytesFails
  <2>1. /\ cleaner.pc = "bytes" /\ cleaner' = [cleaner EXCEPT !.pc = "row", !.blob = None]
        /\ old' = old \/ old' = old \ {cleaner.blob}
        /\ UNCHANGED lockWaits
    BY <1>7 DEF CleanBytes, CleanBytesFails, counters
  <2>2. /\ cleaner'.pc = "row" /\ cleaner'.protected = cleaner.protected
        /\ cleaner'.todo = cleaner.todo /\ cleaner'.blob = None
    BY <2>1 DEF CleanerShape
  <2>3. CleanerShape'
    BY <1>e, <2>1, <2>2 DEF CleanerShape
  <2>4. old' \subseteq old /\ cleaner'.todo \subseteq old'
    BY <2>1, <2>2 DEF Protection
  <2> QED
    BY <1>d, <1>f, <2>1, <2>2, <2>3, <2>4
<1>8. CASE CleanDone
  <2>1. cleaner' = IdleCleaner /\ UNCHANGED <<old, lockWaits>>
    BY <1>8 DEF CleanDone, counters
  <2>2. cleaner'.pc = "sleep" /\ cleaner'.todo = {}
    BY <2>1 DEF IdleCleaner
  <2>3. CleanerShape'
    BY <1>e, <2>1, <2>2 DEF CleanerShape, IdleCleaner
  <2> QED
    BY <1>d, <1>f, <2>1, <2>2, <2>3
<1> QED
  BY <1>1, <1>2, <1>3, <1>4, <1>5, <1>6, <1>7, <1>8 DEF CleanerStep, CleanStep

(* A current blob stays that of a version.                                 *)
LEMMA VersionedStep ==
    ASSUME Shape, Fresh, Versioned, WriteStep \/ CleanerStep \/ UNCHANGED vars
    PROVE  Versioned'
<1>1. CASE UNCHANGED <<cur, live, versions>>
  BY <1>1 DEF Versioned
<1>2. ASSUME NEW v, NEW i \in Inodes, NEW b \in Blob, v.inode = i, v.blob = b,
             \/ versions' = versions \union {v} /\ cur' = [cur EXCEPT ![i] = b]
             \/ UNCHANGED <<versions, cur>>,
             UNCHANGED live
      PROVE  Versioned'
  <2>1. \A j \in live : cur'[j] = cur[j] \/ (j = i /\ cur'[j] = b /\ v \in versions')
    BY <1>2 DEF Shape, BlobsTypeOK
  <2>2. versions \subseteq versions'
    BY <1>2
  <2> QED
    BY <1>2, <2>1, <2>2 DEF Versioned
<1>3. ASSUME NEW i \in Inodes, Unlink(i)
      PROVE  Versioned'
  <2>1. /\ live' = live \ {i} /\ cur' = [cur EXCEPT ![i] = None]
        /\ versions' = {v \in versions : v.inode # i}
    BY <1>3 DEF Unlink
  <2>2. \A j \in live' : j \in live /\ j # i /\ cur'[j] = cur[j]
    BY <2>1 DEF Shape, BlobsTypeOK
  <2> QED
    BY <2>1, <2>2 DEF Versioned
<1>4. CASE CleanerStep
  BY <1>1, <1>4, CleanerFrame
<1>5. CASE DrainCommit
  <2>1. drain.mark \in Markers /\ Canonical(drain.mark) \in Blob
    BY <1>5, CanonicalIs DEF DrainCommit, Fresh, Shape, BlobsTypeOK, Markers
  <2> DEFINE v == [vid |-> drain.mark.vid, inode |-> drain.mark.inode,
                   blob |-> Canonical(drain.mark)]
  <2>2. v.inode = drain.mark.inode /\ v.blob = Canonical(drain.mark)
    OBVIOUS
  <2>3. /\ \/ /\ versions' = versions \union {v}
              /\ cur' = [cur EXCEPT ![drain.mark.inode] = Canonical(drain.mark)]
           \/ UNCHANGED <<versions, cur>>
        /\ UNCHANGED live
    BY <1>5 DEF DrainCommit
  <2>4. drain.mark.inode \in Inodes
    BY <2>1 DEF Markers
  <2> HIDE DEF v
  <2> QED
    BY <1>2, <2>1, <2>2, <2>3, <2>4
<1>6. CASE CliCommit
  <2>1. proc["cli"].inode \in Inodes /\ proc["cli"].blob \in Blob
    BY <1>6 DEF CliCommit, Fresh, Procs
  <2> DEFINE v == [vid |-> next, inode |-> proc["cli"].inode, blob |-> proc["cli"].blob]
  <2>2. v.inode = proc["cli"].inode /\ v.blob = proc["cli"].blob
    OBVIOUS
  <2>3. /\ \/ /\ versions' = versions \union {v}
              /\ cur' = [cur EXCEPT ![proc["cli"].inode] = proc["cli"].blob]
           \/ UNCHANGED <<versions, cur>>
        /\ UNCHANGED live
    BY <1>6 DEF CliCommit
  <2> HIDE DEF v
  <2> QED
    BY <1>2, <2>1, <2>2, <2>3
<1> QED
  BY <1>1, <1>3, <1>4, <1>5, <1>6 DEF WriteStep, PutProvisional, InsertBlob, StorePutFails,
     HealFails, RequestFails, StorePut, HealDedupHit, Submit, DrainBegin, DrainReconcile,
     DrainUnlink, DrainReconcileFails, DrainAbandon, CrashDaemon, KillCli, vars, stored

(* A pass of the cleaner takes no row and no bytes that a queued or a      *)
(* current write needs.                                                    *)
LEMMA CleanerSpares ==
    ASSUME Shape, Fresh, CleanerShape, Protection, Versioned, Inventory,
           CleanerStep, lockWaits = 0
    PROVE  /\ UNCHANGED <<versions, cur, live, queue, proc, drain, crashes>>
           /\ rows' \subseteq rows
           /\ \A b : IsShared(b)' => IsShared(b)
           /\ \A b : IsPrivate(b)' => IsPrivate(b)
           /\ \A b : ~HasRow(b) => ~HasRow(b)'
           /\ \A b \in files : HasRow(b) => b \in files'
           /\ \A m \in queue : /\ HasRow(m.blob) => HasRow(m.blob)'
                               /\ m.blob \in files => m.blob \in files'
           /\ \A p \in Procs : proc[p].pc # "idle" =>
                 /\ HasRow(proc[p].blob) => HasRow(proc[p].blob)'
                 /\ proc[p].blob \in files => proc[p].blob \in files'
           /\ \A i \in live : cur[i] # None => HasRow(cur[i]) /\ (\E r \in rows' : r.blob = cur[i])
<1>1. /\ UNCHANGED <<versions, cur, live, queue, proc, drain, crashes>> /\ rows' \subseteq rows
      /\ \A b \in files : b \in files' \/ (cleaner.pc = "bytes" /\ b = cleaner.blob)
  BY CleanerFrame, CleanerDeletes
<1>2. \A b : HasRow(b) /\ ~HasRow(b)' =>
          /\ ~Referenced(HashOf(b))
          /\ \A m \in queue : m.blob # b
          /\ \A p \in Procs : proc[p].pc # "idle" => proc[p].blob # b
  BY CleanerDeletes
<1>3. \A b : ~HasRow(b) => ~HasRow(b)'
  BY <1>1 DEF HasRow
<1>4. \A b \in files : HasRow(b) => b \in files'
  BY <1>1 DEF Protection
<1>5. \A m \in queue : m.blob \in files => m.blob \in files'
  BY <1>1, NotInUse
<1>6. \A p \in Procs : proc[p].pc # "idle" /\ proc[p].blob \in files => proc[p].blob \in files'
  BY <1>1, NotInUse
<1>7. ASSUME NEW i \in live, cur[i] # None
      PROVE  HasRow(cur[i]) /\ \E r \in rows' : r.blob = cur[i]
  <2>1. HasRow(cur[i])
    BY <1>7 DEF Inventory
  <2>2. Referenced(HashOf(cur[i]))
    BY <1>7 DEF Versioned, Referenced
  <2>3. ASSUME NEW c, c = cur[i]
        PROVE  HasRow(c)'
    BY <1>2, <2>1, <2>2, <2>3
  <2>4. ASSUME NEW c, c = cur[i]
        PROVE  \E r \in rows' : r.blob = c
    BY <2>3, <2>4 DEF HasRow
  <2> QED
    BY <2>1, <2>4
<1> QED
  BY <1>1, <1>2, <1>3, <1>4, <1>5, <1>6, <1>7 DEF IsShared, IsPrivate

LEMMA StaysShared ==
    ASSUME Shape, OneRow, rows' \subseteq rows, NEW b \in Blob,
           \E r \in rows' : r.blob = b
    PROVE  /\ IsShared(b) => [blob |-> b, shared |-> TRUE] \in rows'
           /\ IsPrivate(b) => [blob |-> b, shared |-> FALSE] \in rows'
<1>1. PICK r \in rows' : r.blob = b
  OBVIOUS
<1>2. r \in rows /\ r = [blob |-> b, shared |-> r.shared] /\ r.shared \in BOOLEAN
  BY <1>1, RowKinds
<1>3. r = [blob |-> b, shared |-> TRUE] \/ r = [blob |-> b, shared |-> FALSE]
  BY <1>2
<1>4. ~(IsShared(b) /\ IsPrivate(b))
  BY RowKinds
<1> QED
  BY <1>1, <1>2, <1>3, <1>4 DEF IsShared, IsPrivate

(* So a pass keeps what is known of rows, requests and markers.            *)
LEMMA CoreCleaner ==
    ASSUME Shape, Fresh, CleanerShape, Protection, Versioned, Core,
           CleanerStep, lockWaits = 0
    PROVE  Core'
<1> USE DEF Core
<1>1. /\ UNCHANGED <<versions, cur, live, queue, proc, drain>> /\ rows' \subseteq rows
      /\ \A b : IsShared(b)' => IsShared(b)
      /\ \A b : IsPrivate(b)' => IsPrivate(b)
      /\ \A b : ~HasRow(b) => ~HasRow(b)'
  BY CleanerSpares
<1>2. \A p \in Procs : proc[p].pc # "idle" =>
         /\ HasRow(proc[p].blob) => HasRow(proc[p].blob)'
         /\ proc[p].blob \in files => proc[p].blob \in files'
  BY CleanerSpares
<1>3. \A m \in queue : HasRow(m.blob) => HasRow(m.blob)'
  BY CleanerSpares
<1>4. ASSUME NEW p \in Procs, proc[p].pc # "idle", IsShared(proc[p].blob)
      PROVE  IsShared(proc[p].blob)'
  <2>1. proc[p].blob \in Blob
    BY <1>4 DEF Fresh
  <2>2. HasRow(proc[p].blob)
    BY <1>4 DEF IsShared, HasRow
  <2>3. \E r \in rows' : r.blob = proc[p].blob
    BY <1>1, <1>2, <1>4, <2>2 DEF HasRow
  <2> QED
    BY <1>1, <1>4, <2>1, <2>3, StaysShared DEF IsShared
<1>5. OneRow'
  BY <1>1 DEF OneRow
<1>6. Provisional'
  <2>1. \A p \in Procs : proc'[p].pc \in {"store", "heal"} =>
          IsShared(proc[p].blob)' /\ proc'[p].shared
    BY <1>1, <1>4 DEF Provisional
  <2>2. proc'["cli"].pc = "finish" => IsShared(proc["cli"].blob)'
    BY <1>1, <1>4 DEF Provisional, Procs
  <2>3. proc'["fuse"].pc = "finish" =>
          \/ IsShared(proc["fuse"].blob)' /\ proc'["fuse"].shared
          \/ /\ ~HasRow(proc["fuse"].blob)' /\ proc'["fuse"].blob \in files'
             /\ \A m \in queue' : m.blob # proc'["fuse"].blob
    BY <1>1, <1>2, <1>4 DEF Provisional, Procs
  <2> QED
    BY <2>1, <2>2, <2>3 DEF Provisional
<1>7. QueueBlobs'
  BY <1>1, <1>3 DEF QueueBlobs
<1>8. DrainKnows'
  <2>1. \A m : Waiting(m)' <=> Waiting(m)
    BY <1>1 DEF Waiting, Committed
  <2> QED
    BY <1>1, <2>1 DEF DrainKnows
<1>9. Inventory'
  <2>1. \A i \in live : cur[i] # None => \E r \in rows' : r.blob = cur[i]
    BY CleanerSpares
  <2> QED
    BY <1>1, <2>1 DEF Inventory, HasRow
<1>10. PrivateOnce'
  <2>1. \A m : Waiting(m)' <=> Waiting(m)
    BY <1>1 DEF Waiting, Committed
  <2> QED
    BY <1>1, <2>1 DEF PrivateOnce
<1> QED
  BY <1>5, <1>6, <1>7, <1>8, <1>9, <1>10

(* And the bytes where they were.                                          *)
LEMMA BytesCleaner ==
    ASSUME Shape, Fresh, CleanerShape, Protection, Versioned, Core,
           CleanerStep, lockWaits = 0
    PROVE  /\ NoFailure => NoFailure'
           /\ NoCrash => NoCrash'
           /\ Calm => Calm'
<1> USE DEF Core
<1>1. /\ UNCHANGED <<versions, cur, live, queue, proc, drain>> /\ rows' \subseteq rows
      /\ \A b : IsShared(b)' => IsShared(b)
      /\ \A b : ~HasRow(b) => ~HasRow(b)'
      /\ \A b \in files : HasRow(b) => b \in files'
      /\ \A m \in queue : m.blob \in files => m.blob \in files'
      /\ \A p \in Procs : proc[p].pc # "idle" /\ proc[p].blob \in files =>
            proc[p].blob \in files'
  BY CleanerSpares
<1>2. \A m : (Waiting(m)' <=> Waiting(m)) /\ (Committed(m)' <=> Committed(m))
  BY <1>1 DEF Waiting, Committed
<1>3. ASSUME NEW i \in live, cur[i] # None
      PROVE  /\ HasRow(cur[i]) /\ cur[i] \in Blob
             /\ cur[i] \in files => cur[i] \in files'
             /\ IsShared(cur[i]) => IsShared(cur[i])'
  <2>1. HasRow(cur[i]) /\ \E r \in rows' : r.blob = cur[i]
    BY <1>3, CleanerSpares
  <2>2. cur[i] \in Blob
    BY <1>3 DEF Shape, BlobsTypeOK
  <2> QED
    BY <1>1, <2>1, <2>2, StaysShared DEF IsShared
<1>4. ASSUME NoFailure
      PROVE  NoFailure'
  <2>1. \A m \in queue : Waiting(m) => m.blob \in files'
    BY <1>1, <1>4 DEF NoFailure
  <2>2. \A p \in Procs : proc[p].pc = "finish" => proc[p].blob \in files'
    BY <1>1, <1>4 DEF NoFailure
  <2>4. ASSUME NEW i \in live, cur[i] # None
        PROVE  cur[i] \in files' \/ (IsShared(cur[i])' /\ Evidence(cur[i])')
    <3>1. CASE cur[i] \in files
      BY <1>3, <2>4, <3>1
    <3>2. CASE IsShared(cur[i]) /\ Evidence(cur[i])
      <4>1. IsShared(cur[i])'
        BY <1>3, <2>4, <3>2
      <4>2. Evidence(cur[i])'
        BY <1>1, <3>2 DEF Evidence
      <4> QED
        BY <4>1, <4>2
    <3> QED
      BY <1>4, <2>4, <3>1, <3>2 DEF NoFailure
  <2>5. ASSUME drain.pc = "reconcile", drain.mark.shared, NEW i \in live, cur[i] # None,
               HashOf(cur[i]) = HashOf(drain.mark.blob), IsShared(cur[i])'
        PROVE  cur[i] \in files' \/ (~drain.ins /\ cur[i] = drain.canonical)
    <3>1. IsShared(cur[i])
      BY <1>1, <2>5 DEF IsShared
    <3>2. cur[i] \in files \/ (~drain.ins /\ cur[i] = drain.canonical)
      BY <1>4, <2>5, <3>1 DEF NoFailure
    <3> QED
      BY <1>3, <2>5, <3>2
  <2>6. UNCHANGED <<cur, live, queue, proc, drain>>
    BY <1>1
  <2> QED
    BY <1>2, <2>1, <2>2, <2>4, <2>5, <2>6 DEF NoFailure
<1>5. ASSUME NoCrash
      PROVE  NoCrash'
  <2>1. ASSUME NEW b \in Blob, IsShared(b)'
        PROVE  b \in files' \/ Storing(b)'
    <3>1. IsShared(b) /\ HasRow(b)
      BY <1>1, <2>1 DEF IsShared, HasRow
    <3>2. b \in files \/ Storing(b)
      BY <1>5, <3>1 DEF NoCrash
    <3>3. Storing(b) => Storing(b)'
      BY <1>1 DEF Storing
    <3> QED
      BY <1>1, <3>1, <3>2, <3>3
  <2>2. ASSUME NEW m \in queue, Waiting(m)
        PROVE  IsShared(m.blob)' \/ m.blob \in files'
    <3>1. IsShared(m.blob) \/ m.blob \in files
      BY <1>5, <2>2 DEF NoCrash
    <3>2. HasRow(m.blob) => HasRow(m.blob)'
      BY CleanerSpares
    <3>3. IsShared(m.blob) => \E r \in rows' : r.blob = m.blob
      BY <3>2 DEF HasRow, IsShared
    <3>4. m.blob \in Blob
      BY DEF Shape, BlobsTypeOK
    <3> QED
      BY <1>1, <3>1, <3>3, <3>4, StaysShared DEF IsShared
  <2>3. ASSUME NEW i \in live, cur[i] # None
        PROVE  IsShared(cur[i])' \/ cur[i] \in files'
    BY <1>3, <1>5, <2>3 DEF NoCrash
  <2>4. UNCHANGED <<cur, live, queue>>
    BY <1>1
  <2> QED
    BY <1>2, <2>1, <2>2, <2>3, <2>4 DEF NoCrash
<1>6. ASSUME Calm
      PROVE  Calm'
  <2>1. drain.pc = "reconcile" => drain.mark \in queue
    BY DEF Fresh
  <2> QED
    BY <1>1, <1>2, <1>6, <2>1 DEF Calm
<1> QED
  BY <1>4, <1>5, <1>6

----------------------------------------------------------------------------
LEMMA BytesInvInit ==
    ASSUME Init
    PROVE  BytesInv
<1> USE DEF Init
<1>1. BlobsTypeOK
  BY DEF BlobsTypeOK, Procs, IdleProc, IdleDrain, IdleCleaner
<1>2. Shape
  BY <1>1 DEF Shape, IdleDrain
<1>3. Fresh
  BY DEF Fresh, IdleProc, IdleDrain, Procs
<1>a. \A p \in Procs : proc[p].pc = "idle"
  BY DEF IdleProc
<1>4. Core
  <2>1. OneRow /\ QueueBlobs
    BY DEF OneRow, QueueBlobs
  <2>2. Provisional
    BY <1>a DEF Provisional, Procs
  <2>3. DrainKnows
    BY DEF DrainKnows, IdleDrain
  <2>4. Inventory /\ PrivateOnce
    BY DEF Inventory, PrivateOnce, IsPrivate
  <2> QED
    BY <2>1, <2>2, <2>3, <2>4 DEF Core
<1>5. NoFailure /\ NoCrash /\ Calm
  BY <1>a DEF NoFailure, NoCrash, Calm, IdleDrain, IsShared
<1>6. CleanerShape /\ Protection
  BY <1>a DEF CleanerShape, Protection, IdleCleaner
<1>7. Versioned
  BY DEF Versioned
<1> QED
  BY <1>2, <1>3, <1>4, <1>5, <1>6, <1>7 DEF BytesInv

(* What failed, crashed or waited stays counted.                           *)
LEMMA CountersGrow ==
    ASSUME Shape, CleanerShape, [Next]_vars
    PROVE  /\ undone' = 0 => undone = 0
           /\ fails' = 0 => fails = 0
           /\ crashes' = 0 => crashes = 0
           /\ lockWaits' = 0 => lockWaits = 0
<1>1. /\ undone' = undone \/ undone' = undone + 1
      /\ fails' = fails \/ fails' = fails + 1
      /\ crashes' = crashes \/ crashes' = crashes + 1
      /\ lockWaits' = lockWaits \/ lockWaits' = lockWaits + 1
  <2>1. CASE UNCHANGED vars
    BY <2>1 DEF vars, counters
  <2>2. CASE WriteStep
    BY <2>2
    DEF WriteStep, PutProvisional, InsertBlob, StorePutFails, HealFails, RequestFails, StorePut,
        HealDedupHit, Submit, CliCommit, Unlink, DrainBegin, DrainCommit, DrainReconcile,
        DrainUnlink, DrainReconcileFails, DrainAbandon, CrashDaemon, KillCli, Fail, counters
  <2>3. CASE CleanerStep
    BY <2>3, CleanerFrame
  <2> QED
    BY <2>1, <2>2, <2>3, NextIs
<1> QED
  BY <1>1 DEF Shape, CleanerShape

LEMMA BytesInvStep ==
    ASSUME BytesInv, [Next /\ YoungHits]_vars
    PROVE  BytesInv'
<1>1. Shape /\ Fresh /\ CleanerShape /\ Protection /\ Versioned
  BY DEF BytesInv
<1>2. /\ undone' = 0 => undone = 0
      /\ fails' = 0 => fails = 0
      /\ crashes' = 0 => crashes = 0
      /\ lockWaits' = 0 => lockWaits = 0
  BY <1>1, CountersGrow
<1>3. \/ (WriteStep /\ YoungHits) \/ UNCHANGED vars
      \/ CleanerStep
  BY NextIs
<1>4. Shape' /\ Fresh' /\ CleanerShape' /\ Protection' /\ Versioned'
  <2>1. Versioned'
    BY <1>1, <1>3, VersionedStep
  <2>2. Shape' /\ Fresh' /\ CleanerShape' /\ Protection'
    BY <1>1, <1>3, ShapeStep, FreshStep, ProtectionWrite, ProtectionCleaner
  <2> QED
    BY <2>1, <2>2
<1>5. ASSUME undone' = 0, lockWaits' = 0
      PROVE  Core' /\ (fails' = 0 => NoFailure') /\ (crashes' = 0 => NoCrash')
             /\ (fails' = 0 /\ crashes' = 0 => Calm')
  <2>0. undone = 0 /\ lockWaits = 0
    BY <1>2, <1>5
  <2>1. Core /\ (fails = 0 => NoFailure) /\ (crashes = 0 => NoCrash)
        /\ (fails = 0 /\ crashes = 0 => Calm)
    BY <2>0 DEF BytesInv
  <2>2. CASE WriteStep \/ UNCHANGED vars
    <3>1. Core'
      BY <1>1, <1>5, <2>1, <2>2, CoreStep
    <3>2. fails' = 0 => NoFailure'
      BY <1>1, <1>2, <1>5, <2>1, <2>2, NoFailureStep
    <3>3. crashes' = 0 => NoCrash'
      BY <1>1, <1>2, <1>5, <2>1, <2>2, NoCrashStep
    <3>4. fails' = 0 /\ crashes' = 0 => Calm'
      BY <1>1, <1>2, <1>5, <2>1, <2>2, CalmStep
    <3> QED
      BY <3>1, <3>2, <3>3, <3>4
  <2>3. CASE CleanerStep
    BY <1>1, <1>2, <2>0, <2>1, <2>3, CoreCleaner, BytesCleaner
  <2> QED
    BY <1>3, <2>2, <2>3
<1> QED
  BY <1>4, <1>5 DEF BytesInv

LEMMA BytesInvAlways == YoungSpec => []BytesInv
  BY BytesInvInit, BytesInvStep, PTL DEF YoungSpec

(* Next to the cleaner, and whoever writes: dedup, reconcile, heal, retry  *)
(* and reclaim never lose the bytes of a queued or current write, as long  *)
(* as not both a call fails and a process crashes, no failed put is undone *)
(* by content, no DELETE of the cleaner waits, and no row-first write      *)
(* meets by dedup a row past the grace window.                             *)
THEOREM BytesAlwaysKept == YoungSpec => []NoLostBytes
<1>1. BytesInv => NoLostBytes
  <2> SUFFICES ASSUME BytesInv, fails = 0 \/ crashes = 0, undone = 0, lockWaits = 0
               PROVE  \A i \in live :
                        /\ cur[i] # None =>
                             \/ cur[i] \in files
                             \/ \E m \in queue : /\ HashOf(m.blob) = HashOf(cur[i])
                                                 /\ m.blob \in files
                             \/ Underway(cur[i])
                        /\ \A m \in queue :
                             (m.inode = i /\ ~\E v \in versions : v.vid = m.vid) =>
                                  m.blob \in files \/ Underway(m.blob)
    BY DEF NoLostBytes, BytesInv, Shape
  <2>1. /\ \A i \in live : cur[i] # None => cur[i] \in Blob
        /\ \A m \in queue : m.blob \in Blob
    BY DEF BytesInv, Shape, BlobsTypeOK
  <2>2. CASE fails = 0
    BY <2>2 DEF BytesInv, NoFailure, Evidence, Waiting, Committed
  <2>3. CASE crashes = 0
    <3>1. \A b \in Blob : IsShared(b) => b \in files \/ Underway(b)
      BY <2>3 DEF BytesInv, NoCrash, Storing, Underway
    <3> QED
      BY <2>1, <2>3, <3>1 DEF BytesInv, NoCrash, Waiting, Committed
  <2> QED
    BY <2>2, <2>3
<1> QED
  BY <1>1, BytesInvAlways, PTL

(* Likewise, whatever fails and crashes: a current version always has its  *)
(* inventory row, although the cleaner deletes rows.                       *)
THEOREM InventoryAlwaysComplete == YoungSpec => []InventoryComplete
<1>1. BytesInv => InventoryComplete
  BY DEF BytesInv, Core, Inventory, InventoryComplete
<1> QED
  BY <1>1, BytesInvAlways, PTL

(* A pass of the cleaner that deletes without waiting is invisible too:    *)
(* while nothing fails or crashes a reader is never sent to a blob without *)
(* bytes, but in the window of the drain's unlink.                         *)
THEOREM ReadersAlwaysFindBytes == YoungSpec => [](lockWaits = 0 => ReadersFindBytes)
<1>1. ASSUME BytesInv, lockWaits = 0, fails = 0, crashes = 0, NEW i \in live, NEW b,
             b = (IF overlay[i] # None THEN overlay[i].blob ELSE cur[i])
      PROVE  \/ b = None
             \/ b \in files
             \/ drain.pc = "unlink" /\ drain.mark = overlay[i]
             \/ Underway(b)
  <2>0. undone = 0
    BY <1>1 DEF BytesInv, Shape
  <2>1. Shape /\ Fresh /\ Core /\ NoFailure /\ NoCrash /\ Calm /\ i \in Inodes
    BY <1>1, <2>0 DEF BytesInv, Shape, BlobsTypeOK
  <2>2. CASE overlay[i] # None
    <3>1. overlay[i] \in queue /\ overlay[i].inode = i
      BY <2>1, <2>2 DEF Fresh, Shape, BlobsTypeOK
    <3>2. CASE Committed(overlay[i])
      BY <1>1, <2>1, <2>2, <3>1, <3>2 DEF Calm
    <3>3. CASE ~Committed(overlay[i])
      BY <1>1, <2>1, <2>2, <3>1, <3>3 DEF NoFailure, Waiting
    <3> QED
      BY <3>2, <3>3
  <2>3. CASE overlay[i] = None
    <3>1. b = cur[i] /\ cur[i] \in Blob \union {None}
      BY <1>1, <2>1, <2>3 DEF Shape, BlobsTypeOK
    <3> QED
      BY <2>1, <3>1 DEF NoCrash, Storing, Underway
  <2> QED
    BY <2>2, <2>3
<1>2. BytesInv => (lockWaits = 0 => ReadersFindBytes)
  BY <1>1 DEF ReadersFindBytes
<1> QED
  BY <1>2, BytesInvAlways, PTL

----------------------------------------------------------------------------
(* Two systems in which no row-first write meets an old row: one whose     *)
(* cleaner is off, and one where every write goes through release().       *)
LEMMA YoungWithoutCleaner ==
    ASSUME ~CleanerOn
    PROVE  Spec => YoungSpec
<1>1. BytesInv /\ [Next]_vars => [Next /\ YoungHits]_vars
  <2>1. BytesInv => old = {}
    BY DEF BytesInv, CleanerShape
  <2>2. old = {} => YoungHits
    BY DEF YoungHits
  <2> QED
    BY <2>1, <2>2
<1>2. BytesInv /\ [Next]_vars => BytesInv'
  BY <1>1, BytesInvStep
<1> QED
  BY <1>1, <1>2, BytesInvInit, PTL DEF Spec, YoungSpec

LEMMA YoungReleases ==
    ASSUME MaxInserts = 0
    PROVE  Spec => YoungSpec
<1> DEFINE J == BytesInv /\ inserts \in Nat
<1>1. Init => J
  BY BytesInvInit DEF Init
<1>2. ASSUME J, [Next]_vars
      PROVE  [Next /\ YoungHits]_vars /\ inserts' \in Nat
  <2>1. ~\E i, h, p : InsertBlob(p, i, h)
    BY <1>2, BlobsAssumption DEF InsertBlob
  <2>2. inserts' = inserts
    <3>1. CASE UNCHANGED vars
      BY <3>1 DEF vars, counters
    <3>2. CASE WriteStep
      BY <2>1, <3>2 DEF WriteStep, PutProvisional, StorePutFails, HealFails, RequestFails,
        StorePut, HealDedupHit, Submit, CliCommit, Unlink, DrainBegin, DrainCommit,
        DrainReconcile, DrainUnlink, DrainReconcileFails, DrainAbandon, CrashDaemon, KillCli,
        counters
    <3>3. CASE CleanerStep
      BY <3>3, CleanerFrame
    <3> QED
      BY <1>2, <3>1, <3>2, <3>3, NextIs
  <2>3. ASSUME NEW q \in Procs, proc[q].pc = "idle", proc'[q].pc = "heal"
        PROVE  FALSE
    <3>0. proc \in [Procs -> [pc : {"idle", "store", "heal", "finish"},
                              inode : Inodes \union {None},
                              blob : Blob \union {None}, shared : BOOLEAN]]
      BY <1>2 DEF BytesInv, Shape, BlobsTypeOK
    <3>1. \/ proc' = proc
          \/ \E p \in Procs : proc' = [proc EXCEPT ![p] = IdleProc]
          \/ \E p \in Procs : proc' = [proc EXCEPT ![p].pc = "finish"]
          \/ \E i, b, s : proc' = [proc EXCEPT !["fuse"] =
                 [pc |-> "finish", inode |-> i, blob |-> b, shared |-> s]]
      <4>1. CASE UNCHANGED vars
        BY <4>1 DEF vars
      <4>2. CASE WriteStep
        <5>1. CASE \E i \in Inodes, h \in Hashes : PutProvisional(i, h)
          BY <5>1 DEF PutProvisional
        <5>2. CASE Submit \/ CliCommit \/ CrashDaemon \/ KillCli
          BY <5>2 DEF Submit, CliCommit, CrashDaemon, KillCli, Procs
        <5>3. CASE \E p \in Procs : \/ StorePutFails(p) \/ HealFails(p) \/ RequestFails(p)
                                    \/ StorePut(p) \/ HealDedupHit(p)
          BY <5>3 DEF StorePutFails, HealFails, RequestFails, StorePut, HealDedupHit
        <5> QED
          BY <2>1, <4>2, <5>1, <5>2, <5>3 DEF WriteStep, Unlink, DrainBegin, DrainCommit,
             DrainReconcile, DrainUnlink, DrainReconcileFails, DrainAbandon
      <4>3. CASE CleanerStep
        BY <4>3, CleanerFrame
      <4> QED
        BY <1>2, <4>1, <4>2, <4>3, NextIs
    <3> QED
      BY <2>3, <3>0, <3>1 DEF IdleProc
  <2>4. YoungHits
    BY <2>3 DEF YoungHits
  <2> QED
    BY <1>2, <2>2, <2>4
<1>3. J /\ [Next]_vars => J'
  BY <1>2, BytesInvStep
<1>4. J /\ [Next]_vars => [Next /\ YoungHits]_vars
  BY <1>2
<1> HIDE DEF J
<1> QED
  BY <1>1, <1>3, <1>4, PTL DEF Spec, YoungSpec

(* Where the cleaner does not run no row is past its grace window, so the  *)
(* restriction on dedup hits is void: closes, truncates and CLI writes     *)
(* keep bytes, inventory and readers, whatever the dedup and the drain do  *)
(* to each other, under every interleaving of the model.                   *)
COROLLARY BytesKeptWithoutCleaner ==
    ASSUME ~CleanerOn
    PROVE  Spec => [](NoLostBytes /\ InventoryComplete /\ ReadersFindBytes)
<1>1. BytesInv => lockWaits = 0
  BY DEF BytesInv, CleanerShape
<1> QED
  BY <1>1, YoungWithoutCleaner, BytesInvAlways, BytesAlwaysKept, InventoryAlwaysComplete,
     ReadersAlwaysFindBytes, PTL

(* Where every write is a close, that is goes through release(), the       *)
(* cleaner needs no help from dedup: the marker such a write leaves, or    *)
(* the age of the row it just wrote, keeps the bytes from every pass.      *)
COROLLARY ReleasesKeptFromCleaner ==
    ASSUME MaxInserts = 0
    PROVE  Spec => [](NoLostBytes /\ InventoryComplete)
  BY YoungReleases, BytesAlwaysKept, InventoryAlwaysComplete, PTL
=============================================================================
