-------------------------- MODULE PendingPipeline --------------------------
(***************************************************************************)
(* The two-stage write path of the daemon (crates/smartfs-fuse/pending.rs  *)
(* over crates/smartfs-store/pending.rs and crates/smartfs-db/replay.rs).  *)
(*                                                                         *)
(* A write is acknowledged once its marker is durable in pending/queue/; a *)
(* single drain task later turns the marker into a file_versions row and   *)
(* unlinks it.  Four actors interleave: the FUSE thread (one request at a  *)
(* time), the drain, the periodic scan, and crashes with restarts.         *)
(*                                                                         *)
(* A marker is [seq, hash, inode, vid]: vid is the version_id the writer   *)
(* generates (the idempotency key), numbered in the order of the writes.   *)
(* What a marker carries besides (names, modes, AST nodes, blob bytes) is  *)
(* left out; the blobs are the subject of BlobLifecycle.                   *)
(***************************************************************************)
EXTENDS Naturals, Sequences, FiniteSets

CONSTANTS
    Inodes,       \* files that exist when the model starts
    Hashes,       \* possible SHA-256 values of the contents written
    MaxEntries,   \* PendingLimits.max_entries
    MaxWrites,    \* bound: writes attempted in a behaviour
    MaxCrashes,   \* bound: crashes in a behaviour
    MaxFails,     \* bound: failed I/O or database calls in a behaviour
    None          \* the absent value (Option::None)

Marker == [seq : Nat, hash : Hashes, inode : Inodes, vid : Nat]

(* The name a marker is stored under: <seq>_<content_hash>.json.           *)
FileName(m) == <<m.seq, m.hash>>

FileNames == Nat \X Hashes

ASSUME BoundsAssumption ==
    /\ MaxEntries \in Nat \ {0}
    /\ MaxWrites \in Nat
    /\ MaxCrashes \in Nat
    /\ MaxFails \in Nat
    /\ IsFiniteSet(Inodes)

ASSUME NoneAssumption ==
    /\ None \notin Marker
    /\ None \notin FileNames
    /\ None \notin Inodes

VARIABLES
    queue,        \* durable: markers in pending/queue/
    versions,     \* durable: file_versions, per inode, in version_number order
    current,      \* durable: inode_registry.current_blob_id (0 is NULL)
    live,         \* durable: inodes still in inode_registry
    phase,        \* "down", "rebuild", "starting" or "up"
    seq,          \* PendingPipeline.seq
    outstanding,  \* Gate.outstanding
    chan,         \* names sent to the drain and not yet received
    inflight,     \* PendingPipeline.inflight
    overlay,      \* PendingOverlay.by_inode: at most one marker per inode
    writer,       \* the FUSE thread inside release() / submit()
    drain,        \* drain_loop
    scan,         \* rescan
    acked,        \* history: markers whose submit returned Ok
    newest,       \* history: per inode, the last write made durable
    nextVid,      \* next version_id
    crashes,
    fails

durable == <<queue, versions, current, live>>
ram     == <<phase, seq, outstanding, chan, inflight, overlay>>
history == <<acked, newest, nextVid, crashes, fails>>
vars    == <<durable, ram, writer, drain, scan, history>>

(* Where each actor is in its function, and the locals it still needs.     *)
WriterState == [pc : {"idle", "admit", "enqueue", "publish", "send"},
                mark : Marker \union {None}]
DrainState  == [pc : {"recv", "read", "tx", "unlink", "clear", "finish"},
                name : FileNames \union {None},
                inode : Inodes \union {None},
                mark : Marker \union {None},
                out : {"none", "some", "err"}]
ScanState   == [pc : {"sleep", "send"}, todo : SUBSET FileNames]

IdleWriter == [pc |-> "idle", mark |-> None]
IdleDrain  == [pc |-> "recv", name |-> None, inode |-> None,
               mark |-> None, out |-> "none"]
IdleScan   == [pc |-> "sleep", todo |-> {}]

Init ==
    /\ queue = {}
    /\ versions = [i \in Inodes |-> <<>>]
    /\ current = [i \in Inodes |-> 0]
    /\ live = Inodes
    /\ phase = "down"
    /\ seq = 0
    /\ outstanding = 0
    /\ chan = <<>>
    /\ inflight = {}
    /\ overlay = {}
    /\ writer = IdleWriter
    /\ drain = IdleDrain
    /\ scan = IdleScan
    /\ acked = {}
    /\ newest = [i \in Inodes |-> 0]
    /\ nextVid = 1
    /\ crashes = 0
    /\ fails = 0

----------------------------------------------------------------------------
(* Helpers *)

Rows(i) == {versions[i][k] : k \in 1 .. Len(versions[i])}

NamesIn(Q) == {FileName(m) : m \in Q}

(* queue.read(name): the markers stored under name, at most one.           *)
ReadMarker(name) == {m \in queue : FileName(m) = name}

(* What a reader of inode i is given: the overlay first, then the registry. *)
Shadow(i) == {m \in overlay : m.inode = i}
View(i) == IF Shadow(i) # {} THEN (CHOOSE m \in Shadow(i) : TRUE).vid
                             ELSE current[i]

(* A failing call uses up one of the failures of the behaviour.            *)
Fail == fails < MaxFails /\ fails' = fails + 1

(* overlay.publish, overlay.withdraw *)
Published(ov, m) == {o \in ov : o.inode # m.inode} \union {m}
Withdrawn(ov, i, name) ==
    {o \in ov : ~(o.inode = i /\ FileName(o) = name)}

(* gate.release(): saturating_sub(1) *)
Released(n) == IF n = 0 THEN 0 ELSE n - 1

----------------------------------------------------------------------------
(* The FUSE thread: release() up to submit(), and submit() itself.         *)

(* next_seq, inode_get, store.put and the marker with a fresh version_id.  *)
BeginWrite(i, h) ==
    /\ phase = "up"
    /\ writer.pc = "idle"
    /\ nextVid <= MaxWrites
    /\ i \in live
    /\ writer' = [pc   |-> "admit",
                  mark |-> [seq |-> seq, hash |-> h, inode |-> i, vid |-> nextVid]]
    /\ seq' = seq + 1
    /\ nextVid' = nextVid + 1
    /\ UNCHANGED <<durable, phase, outstanding, chan, inflight, overlay,
                   drain, scan, acked, newest, crashes, fails>>

(* The lookup or the blob store fails after the sequence number is taken.  *)
BeginWriteFail ==
    /\ phase = "up"
    /\ writer.pc = "idle"
    /\ nextVid <= MaxWrites
    /\ Fail
    /\ seq' = seq + 1
    /\ UNCHANGED <<durable, phase, outstanding, chan, inflight, overlay,
                   writer, drain, scan, acked, newest, nextVid, crashes>>

(* Mutant of Admit: off by one at the limit.                               *)
AdmitOneTooMany ==
    /\ writer.pc = "admit"
    /\ outstanding <= MaxEntries
    /\ outstanding' = outstanding + 1
    /\ writer' = [writer EXCEPT !.pc = "enqueue"]
    /\ UNCHANGED <<durable, phase, seq, chan, inflight, overlay,
                   drain, scan, history>>

(* gate.admit: a free slot is taken within the timeout.                    *)
Admit ==
    /\ writer.pc = "admit"
    /\ outstanding < MaxEntries
    /\ outstanding' = outstanding + 1
    /\ writer' = [writer EXCEPT !.pc = "enqueue"]
    /\ UNCHANGED <<durable, phase, seq, chan, inflight, overlay,
                   drain, scan, history>>

(* gate.admit: the clock ran out and the last look found no slot: EAGAIN.  *)
AdmitTimeout ==
    /\ writer.pc = "admit"
    /\ outstanding >= MaxEntries
    /\ writer' = IdleWriter
    /\ UNCHANGED <<durable, ram, drain, scan, history>>

(* queue.enqueue: the rename replaces a file of the same name.             *)
Enqueue ==
    /\ writer.pc = "enqueue"
    /\ queue' = {m \in queue : FileName(m) # FileName(writer.mark)}
                    \union {writer.mark}
    /\ newest' = [newest EXCEPT ![writer.mark.inode] = writer.mark.vid]
    /\ writer' = [writer EXCEPT !.pc = "publish"]
    /\ UNCHANGED <<versions, current, live, ram, drain, scan,
                   acked, nextVid, crashes, fails>>

(* Mutant of EnqueueFail: the slot is not given back.                      *)
EnqueueFailKeepsSlot ==
    /\ writer.pc = "enqueue"
    /\ Fail
    /\ writer' = IdleWriter
    /\ UNCHANGED <<durable, ram, drain, scan, acked, newest, nextVid, crashes>>

(* Nothing became durable: the slot goes back and the caller gets an error. *)
EnqueueFail ==
    /\ writer.pc = "enqueue"
    /\ Fail
    /\ outstanding' = Released(outstanding)
    /\ writer' = IdleWriter
    /\ UNCHANGED <<durable, phase, seq, chan, inflight, overlay, drain, scan,
                   acked, newest, nextVid, crashes>>

(* Mutant of PublishOverlay: the write is sent without being published.    *)
PublishNothing ==
    /\ writer.pc = "publish"
    /\ writer' = [writer EXCEPT !.pc = "send"]
    /\ UNCHANGED <<durable, ram, drain, scan, history>>

PublishOverlay ==
    /\ writer.pc = "publish"
    /\ overlay' = Published(overlay, writer.mark)
    /\ writer' = [writer EXCEPT !.pc = "send"]
    /\ UNCHANGED <<durable, phase, seq, outstanding, chan, inflight,
                   drain, scan, history>>

(* mark_inflight, whatever it answers, tx.send and Ok(()).                 *)
SendToDrain ==
    /\ writer.pc = "send"
    /\ inflight' = inflight \union {FileName(writer.mark)}
    /\ chan' = Append(chan, FileName(writer.mark))
    /\ acked' = acked \union {writer.mark}
    /\ writer' = IdleWriter
    /\ UNCHANGED <<durable, phase, seq, outstanding, overlay, drain, scan,
                   newest, nextVid, crashes, fails>>

(* unlink of a closed file, or the delayed delete of release(): the inode  *)
(* goes and its versions with it (ON DELETE CASCADE).                      *)
DeleteInode(i) ==
    /\ phase = "up"
    /\ writer.pc = "idle"
    /\ i \in live
    /\ live' = live \ {i}
    /\ versions' = [versions EXCEPT ![i] = <<>>]
    /\ current' = [current EXCEPT ![i] = 0]
    /\ UNCHANGED <<queue, ram, writer, drain, scan, history>>

Writer ==
    \/ \E i \in Inodes, h \in Hashes : BeginWrite(i, h)
    \/ BeginWriteFail
    \/ Admit
    \/ AdmitTimeout
    \/ Enqueue
    \/ EnqueueFail
    \/ PublishOverlay
    \/ SendToDrain

----------------------------------------------------------------------------
(* The drain: drain_loop calling commit_pending_marker.                    *)

(* rx.recv and the read that remembers the marker's inode for later.       *)
DrainRecv ==
    /\ drain.pc = "recv"
    /\ chan # <<>>
    /\ LET name  == Head(chan)
           found == ReadMarker(name)
       IN  drain' = [pc |-> "read", name |-> name, mark |-> None, out |-> "none",
                     inode |-> IF found = {} THEN None
                               ELSE (CHOOSE m \in found : TRUE).inode]
    /\ chan' = Tail(chan)
    /\ UNCHANGED <<durable, phase, seq, outstanding, inflight, overlay,
                   writer, scan, history>>

(* The same, when that read fails: ok().flatten() makes it None.           *)
DrainRecvReadFail ==
    /\ drain.pc = "recv"
    /\ chan # <<>>
    /\ Fail
    /\ drain' = [pc |-> "read", name |-> Head(chan), mark |-> None,
                 out |-> "none", inode |-> None]
    /\ chan' = Tail(chan)
    /\ UNCHANGED <<durable, phase, seq, outstanding, inflight, overlay,
                   writer, scan, acked, newest, nextVid, crashes>>

DrainRead(m) ==
    /\ drain.pc = "read"
    /\ m \in ReadMarker(drain.name)
    /\ drain' = [drain EXCEPT !.pc = "tx", !.mark = m]
    /\ UNCHANGED <<durable, ram, writer, scan, history>>

(* The marker is gone: Ok(None).                                           *)
DrainReadGone ==
    /\ drain.pc = "read"
    /\ ReadMarker(drain.name) = {}
    /\ drain' = [drain EXCEPT !.pc = "clear", !.out = "none"]
    /\ UNCHANGED <<durable, ram, writer, scan, history>>

(* The effect of cow_commit_tx and its COMMIT: nothing when the inode is   *)
(* gone or the version_id is already there (rolled back), else a new row   *)
(* at MAX+1 and the inode pointing at it.                                  *)
Inserts(m) == m.inode \in live /\ m.vid \notin Rows(m.inode)

(* Mutant of CommitRow: the insert lacks ON CONFLICT (id) DO NOTHING.      *)
CommitRowTwice(m) ==
    IF m.inode \in live
    THEN /\ versions' = [versions EXCEPT ![m.inode] = Append(@, m.vid)]
         /\ current' = [current EXCEPT ![m.inode] = m.vid]
    ELSE UNCHANGED <<versions, current>>

(* Mutant of CommitRow: the UPDATE binds no blob.                          *)
CommitRowNull(m) ==
    IF Inserts(m)
    THEN /\ versions' = [versions EXCEPT ![m.inode] = Append(@, m.vid)]
         /\ current' = [current EXCEPT ![m.inode] = None]
    ELSE UNCHANGED <<versions, current>>

CommitRow(m) ==
    IF Inserts(m)
    THEN /\ versions' = [versions EXCEPT ![m.inode] = Append(@, m.vid)]
         /\ current' = [current EXCEPT ![m.inode] = m.vid]
    ELSE UNCHANGED <<versions, current>>

DrainTx ==
    /\ drain.pc = "tx"
    /\ CommitRow(drain.mark)
    /\ drain' = [drain EXCEPT !.pc = "unlink"]
    /\ UNCHANGED <<queue, live, ram, writer, scan, history>>

(* Mutant of DrainTxFail: the marker is unlinked although nothing committed. *)
DrainTxFailUnlinks ==
    /\ drain.pc = "tx"
    /\ Fail
    /\ drain' = [drain EXCEPT !.pc = "unlink"]
    /\ UNCHANGED <<durable, ram, writer, scan, acked, newest, nextVid, crashes>>

(* Any call of the transaction fails; a failed COMMIT may have committed.  *)
DrainTxFail ==
    /\ drain.pc = "tx"
    /\ Fail
    /\ \/ CommitRow(drain.mark)
       \/ UNCHANGED <<versions, current>>
    /\ drain' = [drain EXCEPT !.pc = "clear", !.out = "err"]
    /\ UNCHANGED <<queue, live, ram, writer, scan, acked, newest, nextVid, crashes>>

(* queue.remove: the checkpoint.  Removing a missing file succeeds.        *)
DrainUnlink ==
    /\ drain.pc = "unlink"
    /\ queue' = {m \in queue : FileName(m) # drain.name}
    /\ drain' = [drain EXCEPT !.pc = "clear", !.out = "some"]
    /\ UNCHANGED <<versions, current, live, ram, writer, scan, history>>

(* A read of the marker or its removal fails: Err, the marker stays.       *)
DrainIoFail ==
    /\ drain.pc \in {"read", "unlink"}
    /\ Fail
    /\ drain' = [drain EXCEPT !.pc = "clear", !.out = "err"]
    /\ UNCHANGED <<durable, ram, writer, scan, acked, newest, nextVid, crashes>>

(* Mutant of DrainClear: a failed marker stays marked as handed over.      *)
DrainClearKeeps ==
    /\ drain.pc = "clear"
    /\ inflight' = IF drain.out = "some" THEN inflight \ {drain.name} ELSE inflight
    /\ drain' = [drain EXCEPT !.pc = "finish"]
    /\ UNCHANGED <<durable, phase, seq, outstanding, chan, overlay,
                   writer, scan, history>>

(* inflight is cleared before the outcome is acted on.                     *)
DrainClear ==
    /\ drain.pc = "clear"
    /\ inflight' = inflight \ {drain.name}
    /\ drain' = [drain EXCEPT !.pc = "finish"]
    /\ UNCHANGED <<durable, phase, seq, outstanding, chan, overlay,
                   writer, scan, history>>

(* Mutant of DrainFinish: Ok(None) gives a slot back as well.              *)
DrainFinishAlwaysReleases ==
    /\ drain.pc = "finish"
    /\ overlay' = IF drain.out # "some" \/ drain.inode = None THEN overlay
                  ELSE Withdrawn(overlay, drain.inode, drain.name)
    /\ outstanding' = IF drain.out = "err" THEN outstanding ELSE Released(outstanding)
    /\ drain' = IdleDrain
    /\ UNCHANGED <<durable, phase, seq, chan, inflight, writer, scan, history>>

(* Ok(Some): withdraw and release.  Ok(None) and Err: nothing.             *)
DrainFinish ==
    /\ drain.pc = "finish"
    /\ IF drain.out = "some"
       THEN /\ overlay' = IF drain.inode = None THEN overlay
                          ELSE Withdrawn(overlay, drain.inode, drain.name)
            /\ outstanding' = Released(outstanding)
       ELSE UNCHANGED <<overlay, outstanding>>
    /\ drain' = IdleDrain
    /\ UNCHANGED <<durable, phase, seq, chan, inflight, writer, scan, history>>

DrainStep ==
    \/ DrainRecv
    \/ \E m \in queue : DrainRead(m)
    \/ DrainReadGone
    \/ DrainTx
    \/ DrainUnlink
    \/ DrainClear
    \/ DrainFinish

DrainFailure == DrainRecvReadFail \/ DrainTxFail \/ DrainIoFail

----------------------------------------------------------------------------
(* rescan: once inside start, then on a timer.                             *)

ScanList ==
    /\ phase \in {"starting", "up"}
    /\ scan.pc = "sleep"
    /\ scan' = [pc |-> "send", todo |-> NamesIn(queue)]
    /\ UNCHANGED <<durable, ram, writer, drain, history>>

(* Mutant of ScanSend: the listing is not sorted.                          *)
ScanSendUnsorted(name) ==
    /\ scan.pc = "send"
    /\ name \in scan.todo
    /\ scan' = [scan EXCEPT !.todo = @ \ {name}]
    /\ inflight' = inflight \union {name}
    /\ chan' = IF name \in inflight THEN chan ELSE Append(chan, name)
    /\ UNCHANGED <<durable, phase, seq, outstanding, overlay, writer, drain, history>>

(* The next name in FIFO order; skipped when already handed to the drain.  *)
ScanSend(name) ==
    /\ scan.pc = "send"
    /\ name \in scan.todo
    /\ \A other \in scan.todo : name[1] <= other[1]
    /\ scan' = [scan EXCEPT !.todo = @ \ {name}]
    /\ inflight' = inflight \union {name}
    /\ chan' = IF name \in inflight THEN chan ELSE Append(chan, name)
    /\ UNCHANGED <<durable, phase, seq, outstanding, overlay, writer, drain, history>>

(* The first scan is the last step of start: then the daemon serves.       *)
ScanDone ==
    /\ scan.pc = "send"
    /\ scan.todo = {}
    /\ scan' = IdleScan
    /\ phase' = "up"
    /\ UNCHANGED <<durable, seq, outstanding, chan, inflight, overlay,
                   writer, drain, history>>

ScanStep == ScanList \/ (\E name \in scan.todo : ScanSend(name)) \/ ScanDone

----------------------------------------------------------------------------
(* start, and crashes.                                                     *)

(* list: seed the sequence above the highest name, the gate from the count. *)
StartList ==
    /\ phase = "down"
    /\ phase' = "rebuild"
    /\ \/ queue = {} /\ seq' = 1
       \/ \E last \in queue : /\ \A m \in queue : m.seq <= last.seq
                              /\ seq' = last.seq + 1
    /\ outstanding' = Cardinality(queue)
    /\ scan' = [pc |-> "sleep", todo |-> NamesIn(queue)]
    /\ UNCHANGED <<durable, chan, inflight, overlay, writer, drain, history>>

(* Mutant of StartRebuild: the overlay starts empty.                       *)
StartWithoutRebuild ==
    /\ phase = "rebuild"
    /\ phase' = "starting"
    /\ scan' = IdleScan
    /\ UNCHANGED <<durable, seq, outstanding, chan, inflight, overlay,
                   writer, drain, history>>

(* rebuild_overlay: the newest listed marker of each inode.                *)
StartRebuild ==
    /\ phase = "rebuild"
    /\ phase' = "starting"
    /\ LET listed == {m \in queue : FileName(m) \in scan.todo}
       IN  overlay' = {m \in listed : \A o \in listed :
                          o.inode = m.inode => o.seq <= m.seq}
    /\ scan' = IdleScan
    /\ UNCHANGED <<durable, seq, outstanding, chan, inflight, writer, drain, history>>

(* The process dies at any point: memory is lost, disk and database stay.  *)
Crash ==
    /\ phase # "down"
    /\ crashes < MaxCrashes
    /\ crashes' = crashes + 1
    /\ phase' = "down"
    /\ seq' = 0
    /\ outstanding' = 0
    /\ chan' = <<>>
    /\ inflight' = {}
    /\ overlay' = {}
    /\ writer' = IdleWriter
    /\ drain' = IdleDrain
    /\ scan' = IdleScan
    /\ UNCHANGED <<durable, acked, newest, nextVid, fails>>

StartStep == StartList \/ StartRebuild

Next ==
    \/ Writer
    \/ \E i \in Inodes : DeleteInode(i)
    \/ DrainStep
    \/ DrainFailure
    \/ ScanStep
    \/ StartStep
    \/ Crash

Spec == Init /\ [][Next]_vars

(* The daemon is restarted after a crash, tokio runs the drain and the     *)
(* timer of the scan, and a handler that was entered runs to its reply.    *)
(* Writes, deletions, crashes and failures are never forced.               *)
WriterStep == Admit \/ AdmitTimeout \/ Enqueue \/ PublishOverlay \/ SendToDrain

FairSpec ==
    /\ Spec
    /\ WF_vars(StartStep)
    /\ WF_vars(ScanStep)
    /\ WF_vars(DrainStep)
    /\ WF_vars(WriterStep)

----------------------------------------------------------------------------
(* Properties *)

(* The type invariant of the pipeline's durable and in-memory state.       *)
TypeOK ==
    /\ queue \in SUBSET Marker
    /\ versions \in [Inodes -> Seq(Nat)]
    /\ current \in [Inodes -> Nat]
    /\ live \in SUBSET Inodes
    /\ phase \in {"down", "rebuild", "starting", "up"}
    /\ seq \in Nat
    /\ outstanding \in Nat
    /\ chan \in Seq(FileNames)
    /\ inflight \in SUBSET FileNames
    /\ overlay \in SUBSET Marker
    /\ writer \in WriterState
    /\ drain \in DrainState
    /\ scan \in ScanState
    /\ acked \in SUBSET Marker
    /\ newest \in [Inodes -> Nat]
    /\ nextVid \in Nat
    /\ crashes \in Nat
    /\ fails \in Nat

(* submit's contract ("Ok(()) as this write survives a crash"): whatever   *)
(* crashes, failures and retries follow, an acknowledged write is still in *)
(* the queue or already a row, unless its file was deleted.                *)
DurableAck ==
    \A m \in acked : \/ m \in queue
                     \/ m.vid \in Rows(m.inode)
                     \/ m.inode \notin live

(* Slots held for something that is not a queued marker: admitted and not  *)
(* yet durable, or checkpointed and not yet released.                      *)
SlotsInTransit ==
    (IF writer.pc = "enqueue" THEN 1 ELSE 0)
    + (IF drain.pc \in {"clear", "finish"} /\ drain.out = "some" THEN 1 ELSE 0)

(* The gate never drifts: after any mix of refused and failed writes,      *)
(* retried commits and duplicate sends, its counter is the number of       *)
(* markers on disk plus the slots in transit.                              *)
SlotAccounting ==
    phase # "down" => outstanding = Cardinality(queue) + SlotsInTransit

(* Decision points 5 and 6: the disk backlog never exceeds max_entries,    *)
(* crashes and restarts included.                                          *)
BoundedBacklog == Cardinality(queue) <= MaxEntries

(* Read-after-write through the mount, between two requests: as long as the *)
(* last durable write of a file sits in the queue a reader is given it,    *)
(* whatever commits fail and are retried; and while no call has failed, a  *)
(* reader is given it however far the drain, the scan or a restart is.     *)
ReadAfterWrite ==
    phase = "up" /\ writer.pc = "idle" =>
        \A i \in live :
            fails = 0 \/ (\E m \in queue : m.inode = i /\ m.vid = newest[i])
                => View(i) = newest[i]

(* The versions of a file are numbered in the order of its writes.         *)
InWriteOrder(i) ==
    \A j, k \in 1 .. Len(versions[i]) : j < k => versions[i][j] < versions[i][k]

(* Version numbers follow write order across crashes, restarts, scans and  *)
(* duplicate sends, as long as no call has failed.                         *)
VersionOrder == fails = 0 => \A i \in Inodes : InWriteOrder(i)

(* Every durable marker is eventually checkpointed: the startup scan and   *)
(* the periodic one pick up what crashes and failed commits left behind.   *)
(* And once writes stop, the gate does come back to zero: fsync and the    *)
(* shutdown wait for ram_depth() = 0 (quiesce).                            *)
EventuallyDrained ==
    /\ (queue # {}) ~> (queue = {})
    /\ <>[](phase = "up" => outstanding = 0)

----------------------------------------------------------------------------
(* The pipeline implements WriteLog: pending are the queued writes that a  *)
(* replay would still insert.                                              *)
PendingWrites ==
    {[inode |-> m.inode, vid |-> m.vid] : m \in {q \in queue : Inserts(q)}}

Log == INSTANCE WriteLog WITH pending <- PendingWrites, log <- versions,
                              Vids <- 1 .. MaxWrites

(* Every durable write becomes a version exactly once or goes with its     *)
(* file: no crash, retry, duplicate send or failed call loses one, commits *)
(* one twice or brings one back.                                           *)
ImplementsWriteLog == Log!Spec

----------------------------------------------------------------------------
(* The inductive invariant behind DurableAck, SlotAccounting and           *)
(* BoundedBacklog, in named parts.                                         *)

(* What DurableAck asks of one marker.                                     *)
Kept(m) == m \in queue \/ m.vid \in Rows(m.inode) \/ m.inode \notin live

(* A stopped daemon has no thread: nothing of a request or a commit stays. *)
DownIsIdle ==
    /\ phase = "down" => drain.pc = "recv" /\ chan = <<>>
    /\ phase # "up" => writer.pc = "idle"
    /\ phase \in {"down", "rebuild"} => scan.pc = "sleep"

(* Names in the queue are unique, and older than any sequence number the   *)
(* running daemon will still hand out: the rename of a new marker never    *)
(* replaces another one.                                                   *)
QueueNames ==
    /\ \A m, o \in queue : FileName(m) = FileName(o) => m = o
    /\ phase # "down" => \A m \in queue : m.seq < seq

WriterMark ==
    writer.pc # "idle" =>
        /\ writer.mark \in Marker
        /\ writer.mark.seq < seq
        /\ writer.mark.inode \in live
        /\ writer.pc \in {"admit", "enqueue"} =>
               \A m \in queue : m.seq < writer.mark.seq
        /\ writer.pc \in {"publish", "send"} => Kept(writer.mark)

(* Nobody but the drain removes a marker, so what it read is still there,  *)
(* and it unlinks only what the database has or can no longer take.        *)
DrainMark ==
    /\ drain.pc # "recv" => drain.name \in FileNames
    /\ drain.pc \in {"tx", "unlink"} =>
           /\ drain.mark \in queue
           /\ FileName(drain.mark) = drain.name
    /\ drain.pc = "unlink" => ~Inserts(drain.mark)

GateBounds ==
    /\ IsFiniteSet(queue)
    /\ phase # "down" => outstanding <= MaxEntries

Inv ==
    /\ DownIsIdle
    /\ QueueNames
    /\ WriterMark
    /\ DrainMark
    /\ GateBounds
    /\ DurableAck
    /\ SlotAccounting
    /\ BoundedBacklog

(* What the proof of ImplementsWriteLog adds: identities grow with the     *)
(* writes, so a new marker was never queued or committed before.           *)
WriteIds ==
    /\ nextVid \in 1 .. MaxWrites + 1
    /\ \A i \in Inodes : newest[i] < nextVid
    /\ \A i \in Inodes : \A v \in Rows(i) : v <= newest[i]
    /\ \A m \in queue : m.vid \in 1 .. MaxWrites /\ m.vid <= newest[m.inode]
    /\ writer.pc \in {"admit", "enqueue"} =>
          /\ writer.mark.vid \in 1 .. MaxWrites
          /\ newest[writer.mark.inode] < writer.mark.vid
          /\ writer.mark.vid < nextVid

============================================================================
