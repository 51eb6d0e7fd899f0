--------------------------- MODULE BlobLifecycle ---------------------------
(***************************************************************************)
(* Blobs from birth to reclaim: the inventory table blobs (smartfs-db      *)
(* blobs.rs), the bytes in the store, and everybody who touches them:      *)
(*   - release() writes bytes under a fresh id and queues a marker;        *)
(*   - setattr(size), symlink (in the daemon) and smartfs-cli write insert *)
(*     the inventory row first, then the bytes, then submit or commit;     *)
(*   - the drain dedups in the transaction of the version, then deals with *)
(*     the provisional copy (reconcile_provisional_blob) and unlinks;      *)
(*   - unlink frees a private blob; the cleaner (cleaner.rs) frees the     *)
(*     rows no version references, and their bytes.                        *)
(*                                                                         *)
(* A blob id is a fresh UUID for one content: <<number, hash>>.  The       *)
(* order of the queue, the gate and the overlay's races are the subject of *)
(* PendingPipeline.                                                        *)
(***************************************************************************)
EXTENDS Naturals

CONSTANTS
    Inodes,         \* files, existing at the start
    PrivateInodes,  \* those with dedup_enabled = FALSE
    Hashes,         \* contents
    MaxReleases,    \* bound: closes of modified handles
    MaxInserts,     \* bound: row-first writes (setattr, symlink, CLI)
    MaxFails,       \* bound: failing calls
    MaxCrashes,     \* bound: crashes of the daemon or the CLI
    MaxLockWaits,   \* bound: times the cleaner's DELETE waits for a row lock
    CleanerOn,      \* whether cleaner_loop runs
    None            \* the absent value

Blob == Nat \X Hashes

ASSUME BlobsAssumption ==
    /\ PrivateInodes \subseteq Inodes
    /\ {MaxReleases, MaxInserts, MaxFails, MaxCrashes, MaxLockWaits} \subseteq Nat
    /\ CleanerOn \in BOOLEAN
    /\ None \notin Blob

HashOf(b) == b[2]

Procs == {"fuse", "cli"}

VARIABLES
    rows,       \* table blobs: [blob, shared]
    files,      \* blobs whose bytes are in the store
    versions,   \* table file_versions: [vid, inode, blob]
    cur,        \* inode_registry.current_blob_id
    live,       \* inodes in inode_registry
    queue,      \* pending/queue: [vid, inode, blob, shared]
    overlay,    \* per inode, the marker that shadows the registry
    old,        \* blobs whose row is older than the grace window
    proc,       \* the FUSE thread and the CLI inside a write
    drain,      \* the drain inside commit_pending_marker
    cleaner,    \* clean_once
    next,       \* next fresh number, for blobs and versions
    undone,     \* history: failed puts whose row was deleted by content
    releases, inserts, fails, crashes, lockWaits

stored   == <<rows, files, versions, cur, live, queue>>
counters == <<undone, releases, inserts, fails, crashes, lockWaits>>
vars     == <<stored, overlay, old, proc, drain, cleaner, next, counters>>

IdleProc    == [pc |-> "idle", inode |-> None, blob |-> None, shared |-> TRUE]
IdleDrain   == [pc |-> "idle", mark |-> None, canonical |-> None, ins |-> FALSE]
IdleCleaner == [pc |-> "sleep", protected |-> {}, todo |-> {}, blob |-> None]

Init ==
    /\ rows = {}
    /\ files = {}
    /\ versions = {}
    /\ cur = [i \in Inodes |-> None]
    /\ live = Inodes
    /\ queue = {}
    /\ overlay = [i \in Inodes |-> None]
    /\ old = {}
    /\ proc = [p \in Procs |-> IdleProc]
    /\ drain = IdleDrain
    /\ cleaner = IdleCleaner
    /\ next = 1
    /\ undone = 0 /\ releases = 0 /\ inserts = 0
    /\ fails = 0 /\ crashes = 0 /\ lockWaits = 0

----------------------------------------------------------------------------
(* Helpers *)

HasRow(b) == \E r \in rows : r.blob = b
SharedRows(h) == {r \in rows : r.shared /\ HashOf(r.blob) = h}

(* file_versions.content_hash = h *)
Referenced(h) == \E v \in versions : HashOf(v.blob) = h

(* A dedup holds the lock of the shared row it met or inserted until the   *)
(* end of its transaction.                                                 *)
Locked(h) == drain.pc = "tx" /\ drain.mark.shared /\ HashOf(drain.mark.blob) = h

(* The newest queued marker of an inode, which a restart publishes.        *)
Newest(i) ==
    LET ms  == {m \in queue : m.inode = i}
        top == {m \in ms : \A o \in ms : o.vid <= m.vid}
    IN  IF top = {} THEN None ELSE CHOOSE m \in top : TRUE

Fail == fails < MaxFails /\ fails' = fails + 1

----------------------------------------------------------------------------
(* Writers *)

(* release(): the bytes go to a provisional id before anything else.       *)
PutProvisional(i, h) ==
    /\ proc["fuse"].pc = "idle"
    /\ releases < MaxReleases
    /\ i \in live
    /\ files' = files \union {<<next, h>>}
    /\ proc' = [proc EXCEPT !["fuse"] =
                  [pc |-> "finish", inode |-> i, blob |-> <<next, h>>,
                   shared |-> i \notin PrivateInodes]]
    /\ next' = next + 1
    /\ releases' = releases + 1
    /\ UNCHANGED <<rows, versions, cur, live, queue, overlay, old, drain, cleaner,
                   undone, inserts, fails, crashes, lockWaits>>

(* insert_blob: a new row, or the id of the shared row with this content.  *)
InsertBlob(p, i, h) ==
    /\ proc[p].pc = "idle"
    /\ inserts < MaxInserts
    /\ i \in live
    /\ ~Locked(h)
    /\ \/ \E r \in SharedRows(h) :
             /\ proc' = [proc EXCEPT ![p] =
                           [pc |-> "heal", inode |-> i, blob |-> r.blob, shared |-> TRUE]]
             /\ UNCHANGED <<rows, next>>
       \/ /\ SharedRows(h) = {}
          /\ rows' = rows \union {[blob |-> <<next, h>>, shared |-> TRUE]}
          /\ proc' = [proc EXCEPT ![p] =
                        [pc |-> "store", inode |-> i, blob |-> <<next, h>>, shared |-> TRUE]]
          /\ next' = next + 1
    /\ inserts' = inserts + 1
    /\ UNCHANGED <<files, versions, cur, live, queue, overlay, old, drain, cleaner,
                   undone, releases, fails, crashes, lockWaits>>

(* The bytes of a row just inserted.                                       *)
StorePut(p) ==
    /\ proc[p].pc = "store"
    /\ files' = files \union {proc[p].blob}
    /\ proc' = [proc EXCEPT ![p].pc = "finish"]
    /\ UNCHANGED <<rows, versions, cur, live, queue, overlay, old, drain, cleaner,
                   next, counters>>

(* put failed: compensate_blob_delete removes every row with this content, *)
(* once no transaction holds one.                                          *)
StorePutFails(p) ==
    /\ proc[p].pc = "store"
    /\ ~Locked(HashOf(proc[p].blob))
    /\ Fail
    /\ undone' = undone + 1
    /\ rows' = {r \in rows : HashOf(r.blob) # HashOf(proc[p].blob)}
    /\ proc' = [proc EXCEPT ![p] = IdleProc]
    /\ UNCHANGED <<files, versions, cur, live, queue, overlay, old, drain, cleaner,
                   next, releases, inserts, crashes, lockWaits>>

(* Mutant of HealDedupHit: the bytes of a dedup hit are taken for granted. *)
HealNever(p) ==
    /\ proc[p].pc = "heal"
    /\ proc' = [proc EXCEPT ![p].pc = "finish"]
    /\ UNCHANGED <<stored, overlay, old, drain, cleaner, next, counters>>

(* Dedup hit (FIX-03): write the bytes again when they are missing.        *)
HealDedupHit(p) ==
    /\ proc[p].pc = "heal"
    /\ files' = files \union {proc[p].blob}
    /\ proc' = [proc EXCEPT ![p].pc = "finish"]
    /\ UNCHANGED <<rows, versions, cur, live, queue, overlay, old, drain, cleaner,
                   next, counters>>

(* Both the check and the write ignore their errors.                       *)
HealFails(p) ==
    /\ proc[p].pc = "heal"
    /\ Fail
    /\ proc' = [proc EXCEPT ![p].pc = "finish"]
    /\ UNCHANGED <<stored, overlay, old, drain, cleaner, next,
                   undone, releases, inserts, crashes, lockWaits>>

(* pending.submit: the marker is durable and shadows the registry.         *)
Submit ==
    LET w == proc["fuse"]
        m == [vid |-> next, inode |-> w.inode, blob |-> w.blob, shared |-> w.shared]
    IN  /\ w.pc = "finish"
        /\ queue' = queue \union {m}
        /\ overlay' = [overlay EXCEPT ![w.inode] = m]
        /\ proc' = [proc EXCEPT !["fuse"] = IdleProc]
        /\ next' = next + 1
        /\ UNCHANGED <<rows, files, versions, cur, live, old, drain, cleaner, counters>>

(* The submit is refused (EAGAIN), or it or the commit fails: the request  *)
(* ends with an error and leaves what it wrote.                            *)
RequestFails(p) ==
    /\ proc[p].pc = "finish"
    /\ Fail
    /\ proc' = [proc EXCEPT ![p] = IdleProc]
    /\ UNCHANGED <<stored, overlay, old, drain, cleaner, next,
                   undone, releases, inserts, crashes, lockWaits>>

(* cow_commit of the CLI; nothing when the inode is gone.                  *)
CliCommit ==
    LET w == proc["cli"] IN
    /\ w.pc = "finish"
    /\ IF w.inode \in live
       THEN /\ versions' = versions \union
                  {[vid |-> next, inode |-> w.inode, blob |-> w.blob]}
            /\ cur' = [cur EXCEPT ![w.inode] = w.blob]
       ELSE UNCHANGED <<versions, cur>>
    /\ next' = next + 1
    /\ proc' = [proc EXCEPT !["cli"] = IdleProc]
    /\ UNCHANGED <<rows, files, live, queue, overlay, old, drain, cleaner, counters>>

(* unlink: the inode with its versions, then the bytes of a private blob;  *)
(* when that delete fails they stay.                                       *)
Unlink(i) ==
    /\ proc["fuse"].pc = "idle"
    /\ i \in live
    /\ live' = live \ {i}
    /\ versions' = {v \in versions : v.inode # i}
    /\ cur' = [cur EXCEPT ![i] = None]
    /\ \/ /\ files' = files \ {b \in files : [blob |-> b, shared |-> FALSE] \in rows
                                               /\ b = cur[i]}
          /\ UNCHANGED fails
       \/ /\ [blob |-> cur[i], shared |-> FALSE] \in rows
          /\ Fail
          /\ UNCHANGED files
    /\ UNCHANGED <<rows, queue, overlay, old, proc, drain, cleaner, next,
                   undone, releases, inserts, crashes, lockWaits>>

----------------------------------------------------------------------------
(* The drain: commit_pending_marker on one queued marker.  A failed one is *)
(* retried later, so any queued marker may be next.                        *)

(* begin and insert_blob_tx.  A private insert that meets its own row      *)
(* violates the primary key: an error, and the marker stays.               *)
DrainBegin(m) ==
    /\ drain.pc = "idle"
    /\ m.shared \/ ~HasRow(m.blob)
    /\ drain' = [IdleDrain EXCEPT !.pc = "tx", !.mark = m]
    /\ UNCHANGED <<stored, overlay, old, proc, cleaner, next, counters>>

(* The canonical blob of a marker: the shared row with its content if any. *)
Canonical(m) == IF m.shared /\ SharedRows(HashOf(m.blob)) # {}
                THEN (CHOOSE r \in SharedRows(HashOf(m.blob)) : TRUE).blob
                ELSE m.blob
Inserted(m) == ~HasRow(Canonical(m))

(* Mutant of DrainCommit: the version keeps the provisional id.            *)
DrainCommitProvisional ==
    LET m == drain.mark IN
    /\ drain.pc = "tx"
    /\ IF m.inode \in live /\ ~\E v \in versions : v.vid = m.vid
       THEN /\ versions' = versions \union
                  {[vid |-> m.vid, inode |-> m.inode, blob |-> m.blob]}
            /\ cur' = [cur EXCEPT ![m.inode] = m.blob]
            /\ rows' = rows \union (IF Inserted(m)
                                    THEN {[blob |-> m.blob, shared |-> m.shared]} ELSE {})
       ELSE UNCHANGED <<versions, cur, rows>>
    /\ drain' = [drain EXCEPT !.pc = "reconcile", !.canonical = Canonical(m),
                              !.ins = Inserted(m)]
    /\ UNCHANGED <<files, live, queue, overlay, old, proc, cleaner, next, counters>>

(* cow_commit_tx and COMMIT, or a rollback that takes the row back too.    *)
DrainCommit ==
    LET m == drain.mark IN
    /\ drain.pc = "tx"
    /\ IF m.inode \in live /\ ~\E v \in versions : v.vid = m.vid
       THEN /\ versions' = versions \union
                  {[vid |-> m.vid, inode |-> m.inode, blob |-> Canonical(m)]}
            /\ cur' = [cur EXCEPT ![m.inode] = Canonical(m)]
            /\ rows' = rows \union (IF Inserted(m)
                                    THEN {[blob |-> m.blob, shared |-> m.shared]} ELSE {})
       ELSE UNCHANGED <<versions, cur, rows>>
    /\ drain' = [drain EXCEPT !.pc = "reconcile", !.canonical = Canonical(m),
                              !.ins = Inserted(m)]
    /\ UNCHANGED <<files, live, queue, overlay, old, proc, cleaner, next, counters>>

(* Delete the redundant copy, or move it to the canonical id when the      *)
(* canonical bytes are missing.                                            *)
Reconciled(prov, canonical) ==
    IF canonical \in files THEN files \ {prov}
    ELSE IF prov \in files THEN (files \union {canonical}) \ {prov}
    ELSE files

(* Mutant of DrainReconcile: it also runs when the copy is the canonical.  *)
DrainReconcileAlways ==
    /\ drain.pc = "reconcile"
    /\ files' = Reconciled(drain.mark.blob, drain.canonical)
    /\ drain' = [drain EXCEPT !.pc = "unlink"]
    /\ UNCHANGED <<rows, versions, cur, live, queue, overlay, old, proc, cleaner,
                   next, counters>>

(* reconcile_provisional_blob *)
DrainReconcile ==
    /\ drain.pc = "reconcile"
    /\ files' = IF drain.ins \/ drain.mark.blob = drain.canonical THEN files
                ELSE Reconciled(drain.mark.blob, drain.canonical)
    /\ drain' = [drain EXCEPT !.pc = "unlink"]
    /\ UNCHANGED <<rows, versions, cur, live, queue, overlay, old, proc, cleaner,
                   next, counters>>

(* Every failure of the store here is logged and swallowed: nothing is     *)
(* done, or the canonical is healed and the copy stays.                    *)
DrainReconcileFails ==
    LET prov == drain.mark.blob IN
    /\ drain.pc = "reconcile"
    /\ ~drain.ins
    /\ prov # drain.canonical
    /\ Fail
    /\ \/ UNCHANGED files
       \/ /\ drain.canonical \notin files
          /\ prov \in files
          /\ files' = files \union {drain.canonical}
    /\ drain' = [drain EXCEPT !.pc = "unlink"]
    /\ UNCHANGED <<rows, versions, cur, live, queue, overlay, old, proc, cleaner, next,
                   undone, releases, inserts, crashes, lockWaits>>

(* queue.remove, then the overlay entry of this marker is withdrawn.       *)
DrainUnlink ==
    LET m == drain.mark IN
    /\ drain.pc = "unlink"
    /\ queue' = queue \ {m}
    /\ overlay' = [overlay EXCEPT ![m.inode] = IF @ = m THEN None ELSE @]
    /\ drain' = IdleDrain
    /\ UNCHANGED <<rows, files, versions, cur, live, old, proc, cleaner, next, counters>>

(* An error of the transaction, of COMMIT or of remove: Err, and the       *)
(* marker stays for a retry.                                               *)
DrainAbandon ==
    /\ drain.pc # "idle"
    /\ Fail
    /\ drain' = IdleDrain
    /\ UNCHANGED <<stored, overlay, old, proc, cleaner, next,
                   undone, releases, inserts, crashes, lockWaits>>

DrainStep ==
    \/ \E m \in queue : DrainBegin(m)
    \/ DrainCommit
    \/ DrainReconcile
    \/ DrainUnlink

----------------------------------------------------------------------------
(* The cleaner *)

(* The grace window of a row passes.  No request and no pass of the cleaner *)
(* is as long as the window, an hour.                                      *)
Age(r) ==
    /\ CleanerOn
    /\ cleaner.pc = "sleep"
    /\ r.blob \notin old
    /\ \A p \in Procs : proc[p].blob # r.blob
    /\ old' = old \union {r.blob}
    /\ UNCHANGED <<stored, overlay, proc, drain, cleaner, next, counters>>

(* Mutant of CleanProtect: the queue is not read.                          *)
CleanProtectNothing ==
    /\ CleanerOn
    /\ cleaner.pc = "sleep"
    /\ cleaner' = [IdleCleaner EXCEPT !.pc = "list"]
    /\ UNCHANGED <<stored, overlay, old, proc, drain, next, counters>>

(* "Read the queue FIRST."                                                 *)
CleanProtect ==
    /\ CleanerOn
    /\ cleaner.pc = "sleep"
    /\ cleaner' = [IdleCleaner EXCEPT !.pc = "list",
                                      !.protected = {HashOf(m.blob) : m \in queue}]
    /\ UNCHANGED <<stored, overlay, old, proc, drain, next, counters>>

(* Mutant of CleanList: only private blobs are proposed.                   *)
CleanListPrivateOnly ==
    /\ cleaner.pc = "list"
    /\ cleaner' = [cleaner EXCEPT !.pc = "row",
                      !.todo = {b \in old : /\ [blob |-> b, shared |-> FALSE] \in rows
                                            /\ ~Referenced(HashOf(b))}]
    /\ UNCHANGED <<stored, overlay, old, proc, drain, next, counters>>

(* list_unreferenced_blobs *)
CleanList ==
    /\ cleaner.pc = "list"
    /\ cleaner' = [cleaner EXCEPT !.pc = "row",
                      !.todo = {b \in old : HasRow(b) /\ ~Referenced(HashOf(b))}]
    /\ UNCHANGED <<stored, overlay, old, proc, drain, next, counters>>

(* Mutant of Deletable: the re-check inside the delete is dropped.         *)
DeletableAsListed(b) == HasRow(b) /\ HashOf(b) \notin cleaner.protected

(* Not protected by a marker, and still unreferenced inside the DELETE.    *)
Deletable(b) == /\ HasRow(b)
                /\ HashOf(b) \notin cleaner.protected
                /\ ~Referenced(HashOf(b))

(* delete_blob_if_unreferenced when no transaction holds the row.          *)
CleanRow(b) ==
    /\ cleaner.pc = "row"
    /\ ~Locked(HashOf(b))
    /\ IF Deletable(b)
       THEN /\ rows' = {r \in rows : r.blob # b}
            /\ cleaner' = [cleaner EXCEPT !.pc = "bytes", !.blob = b, !.todo = @ \ {b}]
       ELSE /\ cleaner' = [cleaner EXCEPT !.todo = @ \ {b}]
            /\ UNCHANGED rows
    /\ UNCHANGED <<files, versions, cur, live, queue, overlay, old, proc, drain,
                   next, counters>>

(* The DELETE meets the row while the drain's transaction holds it: it has *)
(* evaluated NOT EXISTS on its snapshot and waits.  (PostgreSQL, READ      *)
(* COMMITTED: after the wait the row is re-read, file_versions is not.)    *)
CleanWait(b) ==
    /\ cleaner.pc = "row"
    /\ lockWaits < MaxLockWaits
    /\ Locked(HashOf(b))
    /\ Deletable(b)
    /\ cleaner' = [cleaner EXCEPT !.pc = "wait", !.blob = b, !.todo = @ \ {b}]
    /\ lockWaits' = lockWaits + 1
    /\ UNCHANGED <<stored, overlay, old, proc, drain, next,
                   undone, releases, inserts, fails, crashes>>

CleanWake ==
    /\ cleaner.pc = "wait"
    /\ ~Locked(HashOf(cleaner.blob))
    /\ rows' = {r \in rows : r.blob # cleaner.blob}
    /\ cleaner' = [cleaner EXCEPT !.pc = "bytes"]
    /\ UNCHANGED <<files, versions, cur, live, queue, overlay, old, proc, drain,
                   next, counters>>

CleanBytes ==
    /\ cleaner.pc = "bytes"
    /\ files' = files \ {cleaner.blob}
    /\ old' = old \ {cleaner.blob}
    /\ cleaner' = [cleaner EXCEPT !.pc = "row", !.blob = None]
    /\ UNCHANGED <<rows, versions, cur, live, queue, overlay, proc, drain, next, counters>>

CleanBytesFails ==
    /\ cleaner.pc = "bytes"
    /\ Fail
    /\ cleaner' = [cleaner EXCEPT !.pc = "row", !.blob = None]
    /\ UNCHANGED <<stored, overlay, old, proc, drain, next,
                   undone, releases, inserts, crashes, lockWaits>>

CleanDone ==
    /\ cleaner.pc = "row"
    /\ cleaner.todo = {}
    /\ cleaner' = IdleCleaner
    /\ UNCHANGED <<stored, overlay, old, proc, drain, next, counters>>

CleanStep ==
    \/ CleanProtect
    \/ CleanList
    \/ \E b \in cleaner.todo : CleanRow(b) \/ CleanWait(b)
    \/ CleanWake
    \/ CleanBytes
    \/ CleanDone

----------------------------------------------------------------------------
(* The daemon dies and restarts: the overlay is rebuilt from the queue.    *)
CrashDaemon ==
    /\ crashes < MaxCrashes
    /\ crashes' = crashes + 1
    /\ proc' = [proc EXCEPT !["fuse"] = IdleProc]
    /\ drain' = IdleDrain
    /\ cleaner' = IdleCleaner
    /\ overlay' = [i \in Inodes |-> Newest(i)]
    /\ UNCHANGED <<stored, old, next, undone, releases, inserts, fails, lockWaits>>

KillCli ==
    /\ crashes < MaxCrashes
    /\ proc["cli"].pc # "idle"
    /\ crashes' = crashes + 1
    /\ proc' = [proc EXCEPT !["cli"] = IdleProc]
    /\ UNCHANGED <<stored, overlay, old, drain, cleaner, next,
                   undone, releases, inserts, fails, lockWaits>>

ProcStep ==
    \/ \E p \in Procs : StorePut(p) \/ HealDedupHit(p)
    \/ Submit
    \/ CliCommit

Next ==
    \/ \E i \in Inodes, h \in Hashes :
          PutProvisional(i, h) \/ \E p \in Procs : InsertBlob(p, i, h)
    \/ \E p \in Procs : StorePutFails(p) \/ HealFails(p) \/ RequestFails(p)
    \/ ProcStep
    \/ \E i \in Inodes : Unlink(i)
    \/ DrainStep
    \/ DrainReconcileFails
    \/ DrainAbandon
    \/ \E r \in rows : Age(r)
    \/ CleanStep
    \/ CleanBytesFails
    \/ CrashDaemon
    \/ KillCli

Spec == Init /\ [][Next]_vars

(* Requests run to their reply, tokio runs the drain and the cleaner's     *)
(* timer, and time passes while the cleaner sleeps between its passes.     *)
(* Requests, unlinks, crashes and failures are free.                       *)
FairSpec ==
    /\ Spec
    /\ WF_vars(ProcStep)
    /\ WF_vars(DrainStep)
    /\ WF_vars(CleanStep)
    /\ SF_vars(\E r \in rows : Age(r))

(* The environment in which the grace window does its work: no row-first  *)
(* write is told by dedup to use a row that is past it already.            *)
YoungHits ==
    \A p \in Procs : proc[p].pc = "idle" /\ proc'[p].pc = "heal" =>
                        proc'[p].blob \notin old

YoungSpec == Init /\ [][Next /\ YoungHits]_vars

----------------------------------------------------------------------------
(* Properties *)

(* The type invariant of tables, store, queue and processes.               *)
BlobsTypeOK ==
    /\ rows \subseteq [blob : Blob, shared : BOOLEAN]
    /\ files \subseteq Blob
    /\ versions \subseteq [vid : Nat, inode : Inodes, blob : Blob]
    /\ cur \in [Inodes -> Blob \union {None}]
    /\ live \subseteq Inodes
    /\ queue \subseteq [vid : Nat, inode : Inodes, blob : Blob, shared : BOOLEAN]
    /\ \A i \in Inodes : overlay[i] = None \/ overlay[i].inode = i
    /\ old \subseteq Blob
    /\ proc \in [Procs -> [pc : {"idle", "store", "heal", "finish"},
                           inode : Inodes \union {None},
                           blob : Blob \union {None}, shared : BOOLEAN]]
    /\ drain.pc \in {"idle", "tx", "reconcile", "unlink"}
    /\ cleaner.pc \in {"sleep", "list", "row", "wait", "bytes"}

(* A request is about to put the bytes of this blob.                       *)
Underway(b) == \E p \in Procs : proc[p].pc \in {"store", "heal"} /\ proc[p].blob = b

(* A write that is queued or committed never loses its bytes to dedup,     *)
(* reconcile, reclaim, a failing call or a crash: they are under the blob  *)
(* it names, or a marker still to be replayed or a request still running   *)
(* will put them there.  (Not after a crash and a failing heal together,   *)
(* nor after a failed put deleted rows by content, nor after a delete of   *)
(* the cleaner that waited for the drain's lock.)                          *)
NoLostBytes ==
    /\ BlobsTypeOK
    /\ (fails = 0 \/ crashes = 0) /\ undone = 0 /\ lockWaits = 0 =>
            \A i \in live :
                /\ cur[i] # None =>
                      \/ cur[i] \in files
                      \/ \E m \in queue : HashOf(m.blob) = HashOf(cur[i]) /\ m.blob \in files
                      \/ Underway(cur[i])
                /\ \A m \in queue :
                      (m.inode = i /\ ~\E v \in versions : v.vid = m.vid) =>
                          m.blob \in files \/ Underway(m.blob)

(* "It still gets an inventory row": the blob of every current version is  *)
(* in the inventory that the scrub and the cleaner work from.  (Not after a *)
(* compensation, which deletes by content, nor after a delete that waited.) *)
InventoryComplete ==
    (undone = 0 /\ lockWaits = 0) => \A i \in live : cur[i] # None => HasRow(cur[i])

(* Once the writes stop, the cleaner reclaims every row that no version and *)
(* no marker needs, whatever crash came between its row and its bytes.     *)
EventuallyReclaimed ==
    <>[](\A r \in rows : \/ Referenced(HashOf(r.blob))
                         \/ \E m \in queue : HashOf(m.blob) = HashOf(r.blob))

(* "never observable through the mount": while nothing failed or crashed,  *)
(* the blob a reader is sent to, in the overlay or in the registry, has    *)
(* bytes.  The exceptions are the window between reconcile and the         *)
(* withdrawal of the same marker, and a row whose writer is at its bytes.  *)
ReadersFindBytes ==
    (fails = 0 /\ crashes = 0) =>
    \A i \in live :
        LET b == IF overlay[i] # None THEN overlay[i].blob ELSE cur[i]
        IN  \/ b = None
            \/ b \in files
            \/ drain.pc = "unlink" /\ drain.mark = overlay[i]
            \/ Underway(b)
============================================================================
