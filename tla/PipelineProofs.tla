--------------------------- MODULE PipelineProofs ---------------------------
(***************************************************************************)
(* Theorems about the pending pipeline, for every set of files, every      *)
(* capacity and any number of writes, crashes and failures: durability and *)
(* the gate (PendingPipeline), the refinement of WriteLog, and the gate    *)
(* next to a recovery process (PipelineRecover).                           *)
(***************************************************************************)
EXTENDS PipelineRecover, FiniteSetTheorems, TLAPS

(* cow_commit_tx leaves well-formed rows and registry pointers.            *)
LEMMA CommitRowType ==
    ASSUME TypeOK, NEW m \in Marker, CommitRow(m)
    PROVE  versions' \in [Inodes -> Seq(Nat)] /\ current' \in [Inodes -> Nat]
<1>1. m.inode \in Inodes /\ m.vid \in Nat
  BY DEF Marker
<1>2. CASE Inserts(m)
  <2>1. Append(versions[m.inode], m.vid) \in Seq(Nat)
    BY <1>1 DEF TypeOK
  <2> QED
    BY <1>1, <1>2, <2>1 DEF TypeOK, CommitRow
<1>3. CASE ~Inserts(m)
  BY <1>3 DEF TypeOK, CommitRow
<1> QED
  BY <1>2, <1>3

(* Names of markers are names, and the name of a marker is well formed.    *)
LEMMA NamesType ==
    ASSUME TypeOK
    PROVE  /\ NamesIn(queue) \in SUBSET FileNames
           /\ \A m \in Marker : FileName(m) \in FileNames
  BY DEF TypeOK, NamesIn, FileName, FileNames, Marker

(* A write under way and a commit under way have a marker.                 *)
MarksThere ==
    /\ writer.pc # "idle" => writer.mark \in Marker
    /\ drain.pc \in {"tx", "unlink"} => drain.mark \in Marker

(* Every action keeps the types of the durable and the in-memory state.    *)
LEMMA TypeStep ==
    ASSUME TypeOK, MarksThere, IsFiniteSet(queue), [Next]_vars
    PROVE  TypeOK'
<1> USE DEF TypeOK
<1>1. CASE UNCHANGED vars
  BY <1>1 DEF vars, durable, ram, history
<1>2. ASSUME NEW i \in Inodes, NEW h \in Hashes, BeginWrite(i, h)
      PROVE  TypeOK'
  BY <1>2 DEF BeginWrite, WriterState, Marker, durable
<1>3. CASE BeginWriteFail
  BY <1>3 DEF BeginWriteFail, Fail, durable
<1>4. CASE Admit
  <2>1. writer' \in WriterState
    BY <1>4 DEF Admit, WriterState
  <2>2. outstanding' \in Nat
    BY <1>4 DEF Admit
  <2> QED
    BY <1>4, <2>1, <2>2 DEF Admit, durable, history
<1>5. CASE AdmitTimeout
  <2>1. writer' \in WriterState
    BY <1>5 DEF AdmitTimeout, IdleWriter, WriterState
  <2> QED
    BY <1>5, <2>1 DEF AdmitTimeout, durable, ram, history
<1>6. CASE Enqueue
  <2>1. writer' \in WriterState
    BY <1>6 DEF Enqueue, WriterState
  <2>2. writer.mark \in Marker /\ writer.mark.inode \in Inodes /\ writer.mark.vid \in Nat
    BY <1>6 DEF Enqueue, MarksThere, Marker
  <2>3. queue' \in SUBSET Marker /\ newest' \in [Inodes -> Nat]
    BY <1>6, <2>2 DEF Enqueue
  <2> QED
    BY <1>6, <2>1, <2>3 DEF Enqueue, ram
<1>7. CASE EnqueueFail
  <2>1. writer' \in WriterState /\ outstanding' \in Nat /\ fails' \in Nat
    BY <1>7 DEF EnqueueFail, IdleWriter, WriterState, Released, Fail
  <2> QED
    BY <1>7, <2>1 DEF EnqueueFail, durable
<1>8. CASE PublishOverlay
  <2>1. writer' \in WriterState
    BY <1>8 DEF PublishOverlay, WriterState
  <2>2. overlay' \in SUBSET Marker
    BY <1>8 DEF PublishOverlay, Published, MarksThere
  <2> QED
    BY <1>8, <2>1, <2>2 DEF PublishOverlay, durable, history
<1>9. CASE SendToDrain
  <2>1. writer' \in WriterState
    BY <1>9 DEF SendToDrain, IdleWriter, WriterState
  <2>2. writer.mark \in Marker /\ FileName(writer.mark) \in FileNames
    BY <1>9, NamesType DEF SendToDrain, MarksThere
  <2>3. inflight' \in SUBSET FileNames /\ chan' \in Seq(FileNames) /\ acked' \in SUBSET Marker
    BY <1>9, <2>2 DEF SendToDrain
  <2> QED
    BY <1>9, <2>1, <2>3 DEF SendToDrain, durable
<1>10. ASSUME NEW i \in Inodes, DeleteInode(i) PROVE TypeOK'
  BY <1>10 DEF DeleteInode, ram, history
<1>11. CASE DrainRecv
  <2>1. Head(chan) \in FileNames /\ chan' \in Seq(FileNames)
    BY <1>11 DEF DrainRecv
  <2>2. ASSUME ReadMarker(Head(chan)) # {}
        PROVE  (CHOOSE m \in ReadMarker(Head(chan)) : TRUE).inode \in Inodes
    BY <2>2 DEF ReadMarker, Marker
  <2>3. drain' \in DrainState
    BY <1>11, <2>1, <2>2 DEF DrainRecv, DrainState
  <2> QED
    BY <1>11, <2>1, <2>3 DEF DrainRecv, durable, history
<1>12. CASE DrainRecvReadFail
  <2>1. drain' \in DrainState /\ chan' \in Seq(FileNames) /\ fails' \in Nat
    BY <1>12 DEF DrainRecvReadFail, DrainState, Fail
  <2> QED
    BY <1>12, <2>1 DEF DrainRecvReadFail, durable
<1>13. ASSUME NEW m \in queue, DrainRead(m) PROVE TypeOK'
  <2>1. drain' \in DrainState
    BY <1>13 DEF DrainRead, DrainState
  <2> QED
    BY <1>13, <2>1 DEF DrainRead, durable, ram, history
<1>14. CASE DrainReadGone
  <2>1. drain' \in DrainState
    BY <1>14 DEF DrainReadGone, DrainState
  <2> QED
    BY <1>14, <2>1 DEF DrainReadGone, durable, ram, history
<1>15. CASE DrainTx
  <2>1. drain' \in DrainState
    BY <1>15 DEF DrainTx, DrainState
  <2>2. drain.mark \in Marker
    BY <1>15 DEF DrainTx, MarksThere
  <2>3. versions' \in [Inodes -> Seq(Nat)] /\ current' \in [Inodes -> Nat]
    BY <1>15, <2>2, CommitRowType DEF DrainTx
  <2> QED
    BY <1>15, <2>1, <2>3 DEF DrainTx, ram, history
<1>16. CASE DrainTxFail
  <2>1. drain' \in DrainState
    BY <1>16 DEF DrainTxFail, DrainState
  <2>4. fails' \in Nat
    BY <1>16 DEF DrainTxFail, Fail
  <2>2. drain.mark \in Marker
    BY <1>16 DEF DrainTxFail, MarksThere
  <2>3. versions' \in [Inodes -> Seq(Nat)] /\ current' \in [Inodes -> Nat]
    BY <1>16, <2>2, CommitRowType DEF DrainTxFail
  <2> QED
    BY <1>16, <2>1, <2>3, <2>4 DEF DrainTxFail, ram
<1>17. CASE DrainUnlink
  <2>1. drain' \in DrainState
    BY <1>17 DEF DrainUnlink, DrainState
  <2> QED
    BY <1>17, <2>1 DEF DrainUnlink, ram, history
<1>18. CASE DrainIoFail
  <2>1. drain' \in DrainState
    BY <1>18 DEF DrainIoFail, DrainState
  <2>4. fails' \in Nat
    BY <1>18 DEF DrainIoFail, Fail
  <2> QED
    BY <1>18, <2>1, <2>4 DEF DrainIoFail, durable, ram
<1>19. CASE DrainClear
  <2>1. drain' \in DrainState
    BY <1>19 DEF DrainClear, DrainState
  <2> QED
    BY <1>19, <2>1 DEF DrainClear, durable, history
<1>20. CASE DrainFinish
  <2>1. drain' \in DrainState
    BY <1>20 DEF DrainFinish, DrainState, IdleDrain
  <2>2. overlay' \in SUBSET Marker /\ outstanding' \in Nat
    BY <1>20 DEF DrainFinish, Withdrawn, Released
  <2> QED
    BY <1>20, <2>1, <2>2 DEF DrainFinish, durable, history
<1>21. CASE ScanList
  <2>1. scan' \in ScanState
    BY <1>21, NamesType DEF ScanList, ScanState
  <2> QED
    BY <1>21, <2>1 DEF ScanList, durable, ram, history
<1>22. ASSUME NEW name \in scan.todo, ScanSend(name) PROVE TypeOK'
  <2>1. name \in FileNames /\ scan' \in ScanState
    BY <1>22 DEF ScanSend, ScanState
  <2>2. inflight' \in SUBSET FileNames /\ chan' \in Seq(FileNames)
    BY <1>22, <2>1 DEF ScanSend
  <2> QED
    BY <1>22, <2>1, <2>2 DEF ScanSend, durable, history
<1>23. CASE ScanDone
  <2>1. scan' \in ScanState
    BY <1>23 DEF ScanDone, ScanState, IdleScan
  <2> QED
    BY <1>23, <2>1 DEF ScanDone, durable, history
<1>24. CASE StartList
  <2>1. scan' \in ScanState
    BY <1>24, NamesType DEF StartList, ScanState
  <2>2. outstanding' \in Nat
    BY <1>24, FS_CardinalityType DEF StartList
  <2>3. seq' \in Nat
    BY <1>24 DEF StartList, Marker
  <2> QED
    BY <1>24, <2>1, <2>2, <2>3 DEF StartList, durable, history
<1>25. CASE StartRebuild
  <2>1. scan' \in ScanState
    BY <1>25 DEF StartRebuild, ScanState, IdleScan
  <2>2. overlay' \in SUBSET Marker
    BY <1>25 DEF StartRebuild
  <2> QED
    BY <1>25, <2>1, <2>2 DEF StartRebuild, durable, history
<1>26. CASE Crash
  <2>1. writer' \in WriterState /\ drain' \in DrainState /\ scan' \in ScanState
    BY <1>26 DEF Crash, WriterState, DrainState, ScanState, IdleWriter, IdleDrain, IdleScan
  <2>2. chan' \in Seq(FileNames)
    BY <1>26 DEF Crash
  <2> QED
    BY <1>26, <2>1, <2>2 DEF Crash, durable
<1> QED
  BY <1>1, <1>2, <1>3, <1>4, <1>5, <1>6, <1>7, <1>8, <1>9, <1>10, <1>11, <1>12,
     <1>13, <1>14, <1>15, <1>16, <1>17, <1>18, <1>19, <1>20, <1>21, <1>22,
     <1>23, <1>24, <1>25, <1>26
  DEF Next, Writer, DrainStep, DrainFailure, ScanStep, StartStep

(* The transaction of a marker adds its version_id to the rows of its file *)
(* and touches no other file.                                              *)
LEMMA CommitRowRows ==
    ASSUME TypeOK, NEW m \in Marker, CommitRow(m), Inserts(m)
    PROVE  /\ Rows(m.inode)' = Rows(m.inode) \union {m.vid}
           /\ \A i \in Inodes : i # m.inode => Rows(i)' = Rows(i)
<1>1. m.inode \in Inodes /\ m.vid \in Nat
  BY DEF Marker
<1>2. versions' = [versions EXCEPT ![m.inode] = Append(@, m.vid)]
  BY DEF CommitRow
<1> DEFINE old == versions[m.inode]
<1>3. old \in Seq(Nat) /\ versions'[m.inode] = Append(old, m.vid)
  BY <1>1, <1>2 DEF TypeOK
<1>4. /\ Len(versions'[m.inode]) = Len(old) + 1
      /\ versions'[m.inode][Len(old) + 1] = m.vid
      /\ \A k \in 1 .. Len(old) : versions'[m.inode][k] = old[k]
      /\ Len(old) \in Nat
  BY <1>1, <1>3
<1>5. Rows(m.inode)' = Rows(m.inode) \union {m.vid}
  <2>1. \A k \in 1 .. Len(old) + 1 : k \in 1 .. Len(old) \/ k = Len(old) + 1
    BY <1>4
  <2>2. \A k \in 1 .. Len(old) : k \in 1 .. Len(old) + 1
    BY <1>4
  <2> HIDE DEF old
  <2>3. Len(old) + 1 \in 1 .. Len(old) + 1
    BY <1>4
  <2> QED
    BY <1>4, <2>1, <2>2, <2>3 DEF Rows, old
<1>6. \A i \in Inodes : i # m.inode => Rows(i)' = Rows(i)
  BY <1>1, <1>2 DEF Rows, TypeOK
<1> QED
  BY <1>5, <1>6

(* The transaction of a marker takes no version away and leaves nothing of *)
(* that marker to insert: replaying it again is a no-op.                   *)
LEMMA CommitRowKeeps ==
    ASSUME TypeOK, NEW m \in Marker, CommitRow(m),
           queue' = queue, live' = live
    PROVE  /\ \A o \in Marker : Kept(o) => Kept(o)'
           /\ ~Inserts(m)'
<1>1. CASE Inserts(m)
  BY <1>1, CommitRowRows DEF Kept, Inserts, Marker
<1>2. CASE ~Inserts(m)
  BY <1>2 DEF CommitRow, Kept, Inserts, Rows
<1> QED
  BY <1>1, <1>2

(* Kept and Inserts read nothing but the disk and the database.            *)
LEMMA SameDisk ==
    ASSUME queue' = queue, versions' = versions, live' = live
    PROVE  \A m : Kept(m)' = Kept(m) /\ Inserts(m)' = Inserts(m)
  BY DEF Kept, Inserts, Rows

(* The parts of the invariant about names, writers, the drain and what was *)
(* acknowledged are kept by every step.                                    *)
LEMMA QueueStep ==
    ASSUME TypeOK, Inv, [Next]_vars
    PROVE  (DownIsIdle /\ QueueNames /\ WriterMark /\ DrainMark /\ DurableAck)'
<1> DEFINE Goal == (DownIsIdle /\ QueueNames /\ WriterMark /\ DrainMark /\ DurableAck)'
<1>0. DownIsIdle /\ QueueNames /\ WriterMark /\ DrainMark /\ DurableAck
  BY DEF Inv
<1> USE <1>0 DEF TypeOK, DownIsIdle, QueueNames, WriterMark, DrainMark, DurableAck
<1>1. CASE UNCHANGED vars
  BY <1>1 DEF vars, durable, ram, history, Kept, Inserts, Rows
<1>2. ASSUME NEW i \in Inodes, NEW h \in Hashes, BeginWrite(i, h) PROVE Goal
  <2>1. writer'.pc = "admit" /\ writer'.mark \in Marker
    BY <1>2 DEF BeginWrite, Marker
  <2>2. writer'.mark.seq = seq /\ writer'.mark.inode = i /\ seq' = seq + 1
    BY <1>2 DEF BeginWrite
  <2>3. UNCHANGED <<queue, versions, live, phase, drain, chan, scan, acked>> /\ phase = "up"
    BY <1>2 DEF BeginWrite, durable
  <2>4. WriterMark'
    BY <1>2, <2>1, <2>2, <2>3 DEF BeginWrite, Marker
  <2>5. QueueNames'
    BY <2>2, <2>3 DEF Marker
  <2> QED
    BY <2>3, <2>4, <2>5, SameDisk DEF Kept, Rows
<1>3. CASE BeginWriteFail
  <2>1. UNCHANGED <<queue, versions, live, phase, writer, drain, chan, scan, acked>>
    BY <1>3 DEF BeginWriteFail, durable
  <2>2. seq' = seq + 1
    BY <1>3 DEF BeginWriteFail
  <2>3. WriterMark'
    BY <2>1, <2>2, SameDisk DEF Marker
  <2>4. QueueNames'
    BY <2>1, <2>2 DEF Marker
  <2> QED
    BY <2>1, <2>3, <2>4, SameDisk DEF Kept, Rows
<1>4. CASE Admit
  BY <1>4 DEF Admit, Kept, Inserts, Rows, durable, history, WriterState
<1>5. CASE AdmitTimeout
  BY <1>5 DEF AdmitTimeout, Kept, Inserts, Rows, durable, ram, history, IdleWriter
<1>6. CASE Enqueue
  <2> DEFINE w == writer.mark
  <2>1. w \in Marker /\ \A m \in queue : FileName(m) # FileName(w)
    BY <1>6 DEF Enqueue, FileName, Marker
  <2>2. queue' = queue \union {w}
    BY <1>6, <2>1 DEF Enqueue
  <2>3. writer'.pc = "publish" /\ writer'.mark = w
    BY <1>6 DEF Enqueue, WriterState
  <2>4. UNCHANGED <<versions, live, phase, seq, drain, chan, scan, acked>> /\ phase = "up"
    BY <1>6 DEF Enqueue, ram
  <2>5. \A m \in Marker : Kept(m) => Kept(m)'
    BY <2>2, <2>4 DEF Kept, Rows
  <2>6. QueueNames'
    BY <1>6, <2>1, <2>2, <2>4 DEF Enqueue
  <2>7. WriterMark'
    BY <1>6, <2>1, <2>2, <2>3, <2>4 DEF Enqueue, Kept
  <2>8. DrainMark'
    BY <2>2, <2>4 DEF Inserts, Rows
  <2> QED
    BY <2>4, <2>5, <2>6, <2>7, <2>8 DEF Kept
<1>7. CASE EnqueueFail
  BY <1>7 DEF EnqueueFail, Kept, Inserts, Rows, durable, IdleWriter
<1>8. CASE PublishOverlay
  BY <1>8 DEF PublishOverlay, Kept, Inserts, Rows, durable, history, WriterState
<1>9. CASE SendToDrain
  BY <1>9 DEF SendToDrain, Kept, Inserts, Rows, durable, IdleWriter
<1>10. ASSUME NEW i \in Inodes, DeleteInode(i) PROVE Goal
  BY <1>10 DEF DeleteInode, Kept, Inserts, Rows, ram, history
<1>11. CASE DrainRecv
  BY <1>11 DEF DrainRecv, Kept, Inserts, Rows, durable, history
<1>12. CASE DrainRecvReadFail
  BY <1>12 DEF DrainRecvReadFail, Kept, Inserts, Rows, durable
<1>13. ASSUME NEW m \in queue, DrainRead(m) PROVE Goal
  <2>1. UNCHANGED <<queue, versions, live, phase, seq, writer, chan, scan, acked>>
    BY <1>13 DEF DrainRead, durable, ram, history
  <2>2. /\ drain'.pc = "tx" /\ drain'.mark = m /\ drain'.name = drain.name
        /\ FileName(m) = drain.name /\ drain.name \in FileNames
    BY <1>13 DEF DrainRead, DrainState, ReadMarker
  <2>3. DrainMark'
    BY <2>1, <2>2
  <2>4. phase # "down"
    BY <1>13 DEF DrainRead
  <2> QED
    BY <2>1, <2>2, <2>3, <2>4, SameDisk DEF Kept, Rows
<1>14. CASE DrainReadGone
  BY <1>14 DEF DrainReadGone, Kept, Inserts, Rows, durable, ram, history, DrainState
<1>15. CASE DrainTx
  <2>1. UNCHANGED <<queue, live, phase, seq, writer, chan, scan, acked>>
    BY <1>15 DEF DrainTx, ram, history
  <2>2. /\ drain'.pc = "unlink" /\ drain'.mark = drain.mark /\ drain'.name = drain.name
        /\ drain.pc = "tx" /\ drain.mark \in Marker
    BY <1>15 DEF DrainTx, DrainState
  <2>3. CommitRow(drain.mark)
    BY <1>15 DEF DrainTx
  <2>4. \A m \in Marker : Kept(m) => Kept(m)'
    BY <2>1, <2>2, <2>3, CommitRowKeeps
  <2>5. ~Inserts(drain.mark)'
    BY <2>1, <2>2, <2>3, CommitRowKeeps
  <2>6. DrainMark'
    BY <2>1, <2>2, <2>5
  <2>7. WriterMark'
    BY <2>1, <2>4
  <2>8. DurableAck'
    BY <2>1, <2>4 DEF Kept
  <2> QED
    BY <2>1, <2>2, <2>6, <2>7, <2>8
<1>16. CASE DrainTxFail
  <2>1. UNCHANGED <<queue, live, phase, seq, writer, chan, scan, acked>>
    BY <1>16 DEF DrainTxFail, ram, history
  <2>2. /\ drain'.pc = "clear" /\ drain'.mark = drain.mark /\ drain'.name = drain.name
        /\ drain.pc = "tx" /\ drain.mark \in Marker
    BY <1>16 DEF DrainTxFail, DrainState
  <2>3. CommitRow(drain.mark) \/ UNCHANGED versions
    BY <1>16 DEF DrainTxFail
  <2>4. \A m \in Marker : Kept(m) => Kept(m)'
    BY <2>1, <2>2, <2>3, CommitRowKeeps, SameDisk
  <2>6. DrainMark'
    BY <2>1, <2>2
  <2>7. WriterMark'
    BY <2>1, <2>4
  <2>8. DurableAck'
    BY <2>1, <2>4 DEF Kept
  <2> QED
    BY <2>1, <2>2, <2>6, <2>7, <2>8
<1>17. CASE DrainUnlink
  <2>1. /\ UNCHANGED <<versions, live, phase, seq, writer, chan, scan, acked>>
        /\ queue' = {m \in queue : FileName(m) # drain.name}
        /\ drain.pc = "unlink" /\ phase # "down"
    BY <1>17 DEF DrainUnlink, ram, history
  <2>2. drain'.pc = "clear" /\ drain'.name = drain.name
    BY <1>17 DEF DrainUnlink, DrainState
  <2>3. \A m \in queue \ queue' : ~Inserts(m)
    BY <2>1
  <2>4. \A m : Kept(m) => Kept(m)'
    BY <2>1, <2>3 DEF Kept, Inserts, Rows
  <2>5. QueueNames' /\ DrainMark' /\ DownIsIdle'
    BY <2>1, <2>2
  <2>6. WriterMark' /\ DurableAck'
    BY <2>1, <2>4 DEF Kept
  <2> QED
    BY <2>5, <2>6
<1>18. CASE DrainIoFail
  BY <1>18 DEF DrainIoFail, Kept, Inserts, Rows, durable, ram, DrainState
<1>19. CASE DrainClear
  BY <1>19 DEF DrainClear, Kept, Inserts, Rows, durable, history, DrainState
<1>20. CASE DrainFinish
  BY <1>20 DEF DrainFinish, Kept, Inserts, Rows, durable, history, IdleDrain
<1>21. CASE ScanList
  BY <1>21 DEF ScanList, Kept, Inserts, Rows, durable, ram, history
<1>22. ASSUME NEW name \in scan.todo, ScanSend(name) PROVE Goal
  <2>1. UNCHANGED <<queue, versions, live, phase, seq, writer, drain, acked>>
    BY <1>22 DEF ScanSend, durable, history
  <2>2. phase \notin {"down", "rebuild"}
    BY <1>22 DEF ScanSend
  <2> QED
    BY <2>1, <2>2, SameDisk DEF Kept, Rows
<1>23. CASE ScanDone
  <2>1. UNCHANGED <<queue, versions, live, seq, writer, drain, chan, acked>>
    BY <1>23 DEF ScanDone, durable, history
  <2>2. phase # "down" /\ phase' = "up"
    BY <1>23 DEF ScanDone
  <2> QED
    BY <2>1, <2>2, SameDisk DEF Kept, Rows
<1>24. CASE StartList
  <2>1. UNCHANGED <<queue, versions, live, writer, drain, chan, acked>>
    BY <1>24 DEF StartList, durable, history
  <2>2. phase = "down" /\ phase' = "rebuild" /\ scan'.pc = "sleep"
    BY <1>24 DEF StartList
  <2>3. \A m \in queue : m.seq < seq'
    BY <1>24 DEF StartList, Marker
  <2> QED
    BY <2>1, <2>2, <2>3, SameDisk DEF Kept, Rows
<1>25. CASE StartRebuild
  BY <1>25 DEF StartRebuild, Kept, Inserts, Rows, durable, history, IdleScan
<1>26. CASE Crash
  BY <1>26 DEF Crash, Kept, Inserts, Rows, durable, IdleWriter, IdleDrain, IdleScan
<1> QED
  BY <1>1, <1>2, <1>3, <1>4, <1>5, <1>6, <1>7, <1>8, <1>9, <1>10, <1>11, <1>12, <1>13,
     <1>14, <1>15, <1>16, <1>17, <1>18, <1>19, <1>20, <1>21, <1>22, <1>23, <1>24, <1>25,
     <1>26
  DEF Next, Writer, DrainStep, DrainFailure, ScanStep, StartStep

(* The slots of the gate keep matching the queue at every step.            *)
LEMMA GateStep ==
    ASSUME TypeOK, Inv, [Next]_vars
    PROVE  (GateBounds /\ SlotAccounting /\ BoundedBacklog)'
<1> DEFINE Goal == (GateBounds /\ SlotAccounting /\ BoundedBacklog)'
<1>0. GateBounds /\ SlotAccounting /\ BoundedBacklog /\ DownIsIdle
  BY DEF Inv
<1>a. Cardinality(queue) \in Nat
  BY <1>0, FS_CardinalityType DEF GateBounds
<1>b. QueueNames /\ WriterMark /\ DrainMark
  BY DEF Inv
<1> USE <1>0, <1>a, BoundsAssumption DEF TypeOK, GateBounds, SlotAccounting,
        SlotsInTransit, BoundedBacklog
<1>1. CASE UNCHANGED vars
  BY <1>1 DEF vars, durable, ram, history
<1>2. ASSUME NEW i \in Inodes, NEW h \in Hashes, BeginWrite(i, h) PROVE Goal
  BY <1>2 DEF BeginWrite, durable
<1>3. CASE BeginWriteFail
  BY <1>3 DEF BeginWriteFail, durable
<1>4. CASE Admit
  BY <1>4 DEF Admit, durable, WriterState
<1>5. CASE AdmitTimeout
  BY <1>5 DEF AdmitTimeout, durable, ram, IdleWriter
<1>6. CASE Enqueue
  <2> DEFINE w == writer.mark
  <2>1. w \notin queue /\ \A m \in queue : FileName(m) # FileName(w)
    <3>1. \A m \in queue : m.seq < w.seq /\ m.seq \in Nat /\ w.seq \in Nat
      BY <1>6, <1>b DEF Enqueue, Marker, WriterMark
    <3>2. \A m \in queue : m.seq # w.seq
      BY <3>1
    <3> HIDE DEF w
    <3> QED
      BY <3>2 DEF FileName
  <2>2. queue' = queue \union {w}
    BY <1>6, <2>1 DEF Enqueue
  <2>3. IsFiniteSet(queue') /\ Cardinality(queue') = Cardinality(queue) + 1
    BY <2>1, <2>2, FS_AddElement
  <2>4. writer.pc = "enqueue" /\ writer'.pc = "publish" /\ phase = "up"
    BY <1>6 DEF Enqueue, WriterState, DownIsIdle
  <2>5. UNCHANGED <<phase, outstanding, drain>>
    BY <1>6 DEF Enqueue, ram
  <2>6. SlotsInTransit \in Nat \ {0} /\ SlotsInTransit' = SlotsInTransit - 1
    BY <2>4, <2>5
  <2> QED
    BY <2>3, <2>4, <2>5, <2>6
<1>7. CASE EnqueueFail
  BY <1>7 DEF EnqueueFail, durable, IdleWriter, Released
<1>8. CASE PublishOverlay
  BY <1>8 DEF PublishOverlay, durable, WriterState
<1>9. CASE SendToDrain
  BY <1>9 DEF SendToDrain, durable, IdleWriter
<1>10. ASSUME NEW i \in Inodes, DeleteInode(i) PROVE Goal
  BY <1>10 DEF DeleteInode, ram
<1>11. CASE DrainRecv
  BY <1>11 DEF DrainRecv, durable
<1>12. CASE DrainRecvReadFail
  BY <1>12 DEF DrainRecvReadFail, durable
<1>13. ASSUME NEW m \in queue, DrainRead(m) PROVE Goal
  BY <1>13 DEF DrainRead, durable, ram, DrainState
<1>14. CASE DrainReadGone
  BY <1>14 DEF DrainReadGone, durable, ram, DrainState
<1>15. CASE DrainTx
  BY <1>15 DEF DrainTx, ram, DrainState
<1>16. CASE DrainTxFail
  BY <1>16 DEF DrainTxFail, ram, DrainState
<1>17. CASE DrainUnlink
  <2> DEFINE d == drain.mark
  <2>1. d \in queue /\ FileName(d) = drain.name
    BY <1>17, <1>b DEF DrainUnlink, DrainMark
  <2>2. queue' = queue \ {d}
    BY <1>17, <1>b, <2>1 DEF DrainUnlink, QueueNames
  <2>3. IsFiniteSet(queue') /\ Cardinality(queue') = Cardinality(queue) - 1
    <3>1. /\ IsFiniteSet(queue \ {d})
          /\ Cardinality(queue \ {d}) =
                IF d \in queue THEN Cardinality(queue) - 1 ELSE Cardinality(queue)
      <4> HIDE DEF d
      <4> QED
        BY FS_RemoveElement, Zenon
    <3> QED
      BY <2>1, <2>2, <3>1
  <2>4. /\ drain.pc = "unlink" /\ phase # "down"
        /\ drain'.pc = "clear" /\ drain'.out = "some"
    BY <1>17 DEF DrainUnlink, DrainState, DownIsIdle
  <2>5. UNCHANGED <<phase, outstanding, writer>>
    BY <1>17 DEF DrainUnlink, ram
  <2>6. SlotsInTransit \in Nat /\ SlotsInTransit' = SlotsInTransit + 1
    BY <2>4, <2>5
  <2> QED
    BY <2>3, <2>4, <2>5, <2>6
<1>18. CASE DrainIoFail
  BY <1>18 DEF DrainIoFail, durable, ram, DrainState
<1>19. CASE DrainClear
  BY <1>19 DEF DrainClear, durable, DrainState
<1>20. CASE DrainFinish
  <2>1. UNCHANGED <<queue, phase, writer>> /\ drain'.pc = "recv" /\ phase # "down"
    BY <1>20 DEF DrainFinish, durable, IdleDrain, DownIsIdle
  <2>2. CASE drain.out = "some"
    <3>1. outstanding' = Released(outstanding)
      BY <1>20, <2>2 DEF DrainFinish
    <3>2. SlotsInTransit \in Nat \ {0} /\ SlotsInTransit' = SlotsInTransit - 1
      BY <1>20, <2>1, <2>2 DEF DrainFinish
    <3> QED
      BY <2>1, <3>1, <3>2 DEF Released
  <2>3. CASE drain.out # "some"
    <3>1. outstanding' = outstanding
      BY <1>20, <2>3 DEF DrainFinish
    <3>2. SlotsInTransit \in Nat /\ SlotsInTransit' = SlotsInTransit
      BY <1>20, <2>1, <2>3 DEF DrainFinish
    <3> QED
      BY <2>1, <3>1, <3>2
  <2> QED
    BY <2>2, <2>3
<1>21. CASE ScanList
  BY <1>21 DEF ScanList, durable, ram
<1>22. ASSUME NEW name \in scan.todo, ScanSend(name) PROVE Goal
  BY <1>22 DEF ScanSend, durable
<1>23. CASE ScanDone
  BY <1>23 DEF ScanDone, durable, DownIsIdle
<1>24. CASE StartList
  BY <1>24 DEF StartList, durable, DownIsIdle
<1>25. CASE StartRebuild
  BY <1>25 DEF StartRebuild, durable
<1>26. CASE Crash
  BY <1>26 DEF Crash, durable, IdleWriter, IdleDrain
<1> QED
  BY <1>1, <1>2, <1>3, <1>4, <1>5, <1>6, <1>7, <1>8, <1>9, <1>10, <1>11, <1>12, <1>13,
     <1>14, <1>15, <1>16, <1>17, <1>18, <1>19, <1>20, <1>21, <1>22, <1>23, <1>24, <1>25,
     <1>26
  DEF Next, Writer, DrainStep, DrainFailure, ScanStep, StartStep

----------------------------------------------------------------------------
(* The types and the inductive invariant hold in every reachable state.    *)
THEOREM InvariantHolds == Spec => [](TypeOK /\ Inv)
<1>1. Init => TypeOK
  BY DEF Init, TypeOK, WriterState, DrainState, ScanState,
         IdleWriter, IdleDrain, IdleScan
<1>2. Init => Inv
  BY FS_EmptySet, BoundsAssumption
  DEF Init, Inv, DownIsIdle, QueueNames, WriterMark, DrainMark, GateBounds,
      DurableAck, SlotAccounting, BoundedBacklog, IdleWriter, IdleDrain, IdleScan
<1>3. TypeOK /\ Inv /\ [Next]_vars => TypeOK' /\ Inv'
  <2>1. TypeOK /\ Inv => MarksThere /\ IsFiniteSet(queue)
    BY DEF TypeOK, Inv, MarksThere, WriterMark, DrainMark, GateBounds
  <2> QED
    BY <2>1, TypeStep, QueueStep, GateStep DEF Inv
<1> QED
  BY <1>1, <1>2, <1>3, PTL DEF Spec

(* submit's contract: however many crashes, retries and failures follow, an *)
(* acknowledged write is queued, committed, or gone with its file.         *)
THEOREM AcknowledgedIsDurable == Spec => []DurableAck
<1>1. TypeOK /\ Inv => DurableAck
  BY DEF Inv
<1> QED
  BY <1>1, InvariantHolds, PTL

(* The gate's counter is exactly the markers on disk plus those in transit: *)
(* no slot leaks and none is given back twice.                             *)
THEOREM SlotsNeverDrift == Spec => []SlotAccounting
<1>1. TypeOK /\ Inv => SlotAccounting
  BY DEF Inv
<1> QED
  BY <1>1, InvariantHolds, PTL

(* The disk backlog never exceeds max_entries.                             *)
THEOREM BacklogBounded == Spec => []BoundedBacklog
<1>1. TypeOK /\ Inv => BoundedBacklog
  BY DEF Inv
<1> QED
  BY <1>1, InvariantHolds, PTL

----------------------------------------------------------------------------
(* PendingPipeline implements WriteLog.                                    *)

(* What is known of the threads next to another process that unlinks too:  *)
(* the marker in the drain's hand may be gone, but then there is nothing   *)
(* left to insert for it, and no other marker has its name.                *)
DrainHolds ==
    /\ drain.pc # "recv" => drain.name \in FileNames
    /\ drain.pc \in {"tx", "unlink"} =>
           /\ drain.mark \in Marker /\ FileName(drain.mark) = drain.name
           /\ drain.mark \in queue \/ ~Inserts(drain.mark)
           /\ \A m \in queue : FileName(m) = drain.name => m = drain.mark
    /\ drain.pc = "unlink" => ~Inserts(drain.mark)

ThreadsOK == DownIsIdle /\ QueueNames /\ WriterMark /\ DrainHolds

(* The daemon alone is the special case in which the marker is still there. *)
LEMMA AloneThreadsOK ==
    ASSUME TypeOK, Inv
    PROVE  ThreadsOK
<1>1. DownIsIdle /\ QueueNames /\ WriterMark /\ DrainMark
  BY DEF Inv
<1> QED
  BY <1>1 DEF ThreadsOK, DrainHolds, DrainMark, QueueNames, TypeOK

(* Identities of writes are handed out in increasing order.                *)
LEMMA WriteIdsStep ==
    ASSUME TypeOK, ThreadsOK, WriteIds, [Next]_vars
    PROVE  WriteIds'
<1>0. WriterMark /\ DrainHolds /\ DownIsIdle
  BY DEF ThreadsOK
<1> USE <1>0, BoundsAssumption DEF TypeOK, WriteIds, WriterMark, DrainHolds, DownIsIdle
<1>1. CASE UNCHANGED vars
  BY <1>1 DEF vars, durable, ram, history, Rows
<1>2. ASSUME NEW i \in Inodes, NEW h \in Hashes, BeginWrite(i, h) PROVE WriteIds'
  <2>1. /\ nextVid \in 1 .. MaxWrites /\ nextVid' = nextVid + 1
        /\ writer' = [pc   |-> "admit",
                      mark |-> [seq |-> seq, hash |-> h, inode |-> i, vid |-> nextVid]]
        /\ UNCHANGED <<queue, versions, newest>>
    BY <1>2 DEF BeginWrite, durable
  <2>2. \A j \in Inodes : newest[j] \in Nat /\ newest[j] < nextVid'
    BY <2>1
  <2>3. /\ writer'.mark.vid \in 1 .. MaxWrites
        /\ newest'[writer'.mark.inode] < writer'.mark.vid
        /\ writer'.mark.vid < nextVid'
    BY <2>1
  <2>4. \A j \in Inodes : \A v \in Rows(j)' : v <= newest'[j]
    BY <2>1 DEF Rows
  <2> QED
    BY <2>1, <2>2, <2>3, <2>4
<1>3. CASE BeginWriteFail
  BY <1>3 DEF BeginWriteFail, durable, Rows
<1>4. CASE Admit
  BY <1>4 DEF Admit, durable, history, WriterState, Rows
<1>5. CASE AdmitTimeout
  BY <1>5 DEF AdmitTimeout, durable, ram, history, IdleWriter, Rows
<1>6. CASE Enqueue
  <2> DEFINE w == writer.mark
  <2>1. /\ w.inode \in Inodes /\ w.vid \in 1 .. MaxWrites
        /\ newest[w.inode] < w.vid /\ w.vid < nextVid
    BY <1>6 DEF Enqueue, Marker
  <2>2. /\ newest' = [newest EXCEPT ![w.inode] = w.vid]
        /\ UNCHANGED <<versions, nextVid>>
        /\ \A m \in queue' : m \in queue \/ m = w
        /\ writer'.pc = "publish"
    BY <1>6 DEF Enqueue, WriterState
  <2>3. \A i \in Inodes : /\ newest'[i] \in Nat
                          /\ newest[i] <= newest'[i] /\ newest'[i] < nextVid'
    BY <2>1, <2>2
  <2>4. \A m \in queue' : m.vid \in 1 .. MaxWrites /\ m.vid <= newest'[m.inode]
    <3> SUFFICES ASSUME NEW m \in queue'
                 PROVE  m.vid \in 1 .. MaxWrites /\ m.vid <= newest'[m.inode]
      OBVIOUS
    <3>1. CASE m = w
      BY <2>1, <2>2, <3>1
    <3>2. CASE m \in queue
      <4>1. m.inode \in Inodes /\ m.vid \in 1 .. MaxWrites /\ m.vid <= newest[m.inode]
        BY <3>2 DEF Marker
      <4> QED
        BY <2>3, <4>1
    <3> QED
      BY <2>2, <3>1, <3>2
  <2>5. \A i \in Inodes : \A v \in Rows(i)' : v <= newest'[i]
    <3> SUFFICES ASSUME NEW i \in Inodes, NEW v \in Rows(i) PROVE v <= newest'[i]
      BY <2>2 DEF Rows
    <3>1. v \in Nat /\ v <= newest[i]
      BY DEF Rows
    <3> QED
      BY <2>2, <2>3, <3>1
  <2> QED
    BY <2>2, <2>3, <2>4, <2>5
<1>7. CASE EnqueueFail
  BY <1>7 DEF EnqueueFail, durable, IdleWriter, Rows
<1>8. CASE PublishOverlay
  BY <1>8 DEF PublishOverlay, durable, history, WriterState, Rows
<1>9. CASE SendToDrain
  BY <1>9 DEF SendToDrain, durable, IdleWriter, Rows
<1>10. ASSUME NEW i \in Inodes, DeleteInode(i) PROVE WriteIds'
  BY <1>10 DEF DeleteInode, ram, history, Rows, Marker
<1>11. CASE DrainRecv
  BY <1>11 DEF DrainRecv, durable, history, Rows
<1>12. CASE DrainRecvReadFail
  BY <1>12 DEF DrainRecvReadFail, durable, Rows
<1>13. ASSUME NEW m \in queue, DrainRead(m) PROVE WriteIds'
  BY <1>13 DEF DrainRead, durable, ram, history, Rows
<1>14. CASE DrainReadGone
  BY <1>14 DEF DrainReadGone, durable, ram, history, Rows
<1>15. CASE DrainTx
  <2>1. UNCHANGED <<queue, newest, nextVid, writer>>
    BY <1>15 DEF DrainTx, history
  <2>2. drain.mark \in Marker /\ (drain.mark \in queue \/ ~Inserts(drain.mark))
    BY <1>15 DEF DrainTx
  <2>3. CommitRow(drain.mark)
    BY <1>15 DEF DrainTx
  <2>4. \A i \in Inodes : \A v \in Rows(i)' : v <= newest[i]
    <3>1. CASE CommitRow(drain.mark) /\ Inserts(drain.mark)
      BY <2>2, <3>1, CommitRowRows
    <3>2. CASE UNCHANGED versions
      BY <3>2 DEF Rows
    <3> QED
      BY <2>3, <3>1, <3>2 DEF CommitRow
  <2> QED
    BY <2>1, <2>4
<1>16. CASE DrainTxFail
  <2>1. UNCHANGED <<queue, newest, nextVid, writer>>
    BY <1>16 DEF DrainTxFail, history
  <2>2. drain.mark \in Marker /\ (drain.mark \in queue \/ ~Inserts(drain.mark))
    BY <1>16 DEF DrainTxFail
  <2>3. CommitRow(drain.mark) \/ UNCHANGED versions
    BY <1>16 DEF DrainTxFail
  <2>4. \A i \in Inodes : \A v \in Rows(i)' : v <= newest[i]
    <3>1. CASE CommitRow(drain.mark) /\ Inserts(drain.mark)
      BY <2>2, <3>1, CommitRowRows
    <3>2. CASE UNCHANGED versions
      BY <3>2 DEF Rows
    <3> QED
      BY <2>3, <3>1, <3>2 DEF CommitRow
  <2> QED
    BY <2>1, <2>4
<1>17. CASE DrainUnlink
  BY <1>17 DEF DrainUnlink, ram, history, Rows
<1>18. CASE DrainIoFail
  BY <1>18 DEF DrainIoFail, durable, ram, Rows
<1>19. CASE DrainClear
  BY <1>19 DEF DrainClear, durable, history, Rows
<1>20. CASE DrainFinish
  BY <1>20 DEF DrainFinish, durable, history, Rows
<1>21. CASE ScanList
  BY <1>21 DEF ScanList, durable, ram, history, Rows
<1>22. ASSUME NEW name \in scan.todo, ScanSend(name) PROVE WriteIds'
  BY <1>22 DEF ScanSend, durable, history, Rows
<1>23. CASE ScanDone
  BY <1>23 DEF ScanDone, durable, history, Rows
<1>24. CASE StartList
  BY <1>24 DEF StartList, durable, history, Rows
<1>25. CASE StartRebuild
  BY <1>25 DEF StartRebuild, durable, history, Rows
<1>26. CASE Crash
  BY <1>26 DEF Crash, durable, IdleWriter, Rows
<1> QED
  BY <1>1, <1>2, <1>3, <1>4, <1>5, <1>6, <1>7, <1>8, <1>9, <1>10, <1>11, <1>12, <1>13,
     <1>14, <1>15, <1>16, <1>17, <1>18, <1>19, <1>20, <1>21, <1>22, <1>23, <1>24, <1>25,
     <1>26
  DEF Next, Writer, DrainStep, DrainFailure, ScanStep, StartStep

(* A step that leaves queue, versions, live and newest alone is a stutter. *)
LEMMA SameLog ==
    ASSUME UNCHANGED <<queue, versions, live, newest>>
    PROVE  UNCHANGED Log!vars
  BY DEF Log!vars, PendingWrites, Inserts, Rows

(* A transaction that inserts makes exactly its own write non-insertable.  *)
LEMMA CommitInserts ==
    ASSUME TypeOK, NEW m \in Marker, CommitRow(m), Inserts(m),
           queue' = queue, live' = live, NEW o \in queue
    PROVE  Inserts(o)' <=> Inserts(o) /\ ~(o.inode = m.inode /\ o.vid = m.vid)
<1>1. o.inode \in Inodes
  BY DEF TypeOK, Marker
<1>2. /\ Rows(m.inode)' = Rows(m.inode) \union {m.vid}
      /\ \A i \in Inodes : i # m.inode => Rows(i)' = Rows(i)
  BY CommitRowRows
<1>3. CASE o.inode = m.inode
  <2>1. Rows(o.inode)' = Rows(o.inode) \union {m.vid}
    BY <1>2, <1>3
  <2> QED
    BY <1>3, <2>1 DEF Inserts
<1>4. CASE o.inode # m.inode
  <2>1. Rows(o.inode)' = Rows(o.inode)
    BY <1>1, <1>2, <1>4
  <2> QED
    BY <1>4, <2>1 DEF Inserts
<1> QED
  BY <1>3, <1>4

(* The transaction of a queued marker, whoever runs it, commits its write  *)
(* or changes nothing.                                                     *)
LEMMA CommitLogs ==
    ASSUME TypeOK, WriteIds, NEW m \in Marker, m \in queue \/ ~Inserts(m),
           CommitRow(m), UNCHANGED <<queue, live, newest>>
    PROVE  [Log!Next]_(Log!vars)
<1> DEFINE w == [inode |-> m.inode, vid |-> m.vid]
<1>1. CASE Inserts(m)
  <2>1. m \in queue /\ w \in Log!Write
    BY <1>1 DEF Log!Write, Marker, WriteIds
  <2>2. \A o \in queue : Inserts(o)' <=> Inserts(o) /\ [inode |-> o.inode, vid |-> o.vid] # w
    <3> SUFFICES ASSUME NEW o \in queue
                 PROVE  Inserts(o)' <=> Inserts(o) /\ [inode |-> o.inode, vid |-> o.vid] # w
      OBVIOUS
    <3>1. ([inode |-> o.inode, vid |-> o.vid] = w) <=> (o.inode = m.inode /\ o.vid = m.vid)
      OBVIOUS
    <3>2. Inserts(o)' <=> Inserts(o) /\ ~(o.inode = m.inode /\ o.vid = m.vid)
      BY <1>1, CommitInserts
    <3> QED
      BY <3>1, <3>2
  <2>3. w \in PendingWrites
    BY <1>1, <2>1 DEF PendingWrites
  <2>4. PendingWrites' = PendingWrites \ {w}
    BY <2>2 DEF PendingWrites
  <2>5. versions' = [versions EXCEPT ![w.inode] = Append(@, w.vid)]
    BY <1>1 DEF CommitRow
  <2>6. Log!Commit(w)
    BY <2>3, <2>4, <2>5 DEF Log!Commit
  <2> QED
    BY <2>1, <2>6 DEF Log!Next
<1>2. CASE ~Inserts(m)
  BY <1>2, SameLog DEF CommitRow
<1> QED
  BY <1>1, <1>2

(* Unlinking what a replay would not insert is a stutter.                  *)
LEMMA UnlinkLogs ==
    ASSUME NEW m, ~Inserts(m), queue' \subseteq queue, \A o \in queue \ queue' : o = m,
           UNCHANGED <<versions, live, newest>>
    PROVE  UNCHANGED Log!vars
<1>1. \A o : Inserts(o)' = Inserts(o)
  BY DEF Inserts, Rows
<1>2. {o \in queue' : Inserts(o)} = {o \in queue : Inserts(o)}
  OBVIOUS
<1>3. PendingWrites' = PendingWrites
  BY <1>1, <1>2 DEF PendingWrites
<1> QED
  BY <1>3 DEF Log!vars

(* Every step of the pipeline is a step of WriteLog or a stutter.          *)
LEMMA LogStep ==
    ASSUME TypeOK, ThreadsOK, WriteIds, [Next]_vars
    PROVE  [Log!Next]_(Log!vars)
<1>0. QueueNames /\ WriterMark /\ DrainHolds
  BY DEF ThreadsOK
<1>a. TypeOK
  OBVIOUS
<1> USE <1>0 DEF TypeOK
<1>1. CASE UNCHANGED vars
  BY <1>1, SameLog DEF vars, durable, history
<1>2. CASE Enqueue
  <2> DEFINE m == writer.mark
             w == [inode |-> m.inode, vid |-> m.vid]
  <2>1. m \in Marker /\ m.inode \in live /\ \A o \in queue : o.seq < m.seq
    BY <1>2 DEF Enqueue, WriterMark
  <2>2. queue' = queue \union {m}
    BY <1>2, <2>1 DEF Enqueue, FileName, Marker
  <2>3. UNCHANGED <<versions, live>>
    BY <1>2 DEF Enqueue
  <2>4. newest[m.inode] < m.vid /\ m.vid \in 1 .. MaxWrites
    BY <1>2 DEF Enqueue, WriteIds
  <2>5. m.vid \notin Rows(m.inode)
    BY <2>1, <2>4 DEF WriteIds, Marker
  <2>6. \A o : Inserts(o)' = Inserts(o)
    BY <2>3 DEF Inserts, Rows
  <2>7. Inserts(m)
    BY <2>1, <2>5 DEF Inserts
  <2>8. PendingWrites' = PendingWrites \union {w}
    BY <2>2, <2>6, <2>7 DEF PendingWrites
  <2>9. w \in Log!Write /\ w.inode \in live /\ w.vid > newest[w.inode]
    BY <2>1, <2>4 DEF Log!Write, Marker
  <2>10. newest' = [newest EXCEPT ![w.inode] = w.vid]
    BY <1>2 DEF Enqueue
  <2>11. Log!Accept(w)
    BY <2>3, <2>8, <2>9, <2>10 DEF Log!Accept
  <2> QED
    BY <2>9, <2>11 DEF Log!Next
<1>3. ASSUME NEW i \in Inodes, DeleteInode(i)
      PROVE  Log!Delete(i)
  <2>1. /\ i \in live /\ live' = live \ {i}
        /\ versions' = [versions EXCEPT ![i] = <<>>]
        /\ UNCHANGED <<queue, newest>>
    BY <1>3 DEF DeleteInode, history
  <2>2. \A o \in queue : o.inode # i => Inserts(o)' = Inserts(o)
    BY <2>1 DEF Inserts, Rows, Marker
  <2>3. \A o \in queue : o.inode = i => ~Inserts(o)'
    BY <2>1 DEF Inserts
  <2>4. PendingWrites' = {w \in PendingWrites : w.inode # i}
    BY <2>1, <2>2, <2>3 DEF PendingWrites
  <2> QED
    BY <2>1, <2>4 DEF Log!Delete
<1>5. CASE DrainTx
  BY <1>5, CommitLogs DEF DrainTx, DrainHolds, history
<1>6. CASE DrainTxFail
  BY <1>6, CommitLogs, SameLog DEF DrainTxFail, DrainHolds
<1>7. CASE DrainUnlink
  <2>1. ~Inserts(drain.mark) /\ \A m \in queue \ queue' : m = drain.mark
    BY <1>7 DEF DrainUnlink, DrainHolds
  <2>2. UNCHANGED <<versions, live, newest>>
    BY <1>7 DEF DrainUnlink, history
  <2>3. queue' \subseteq queue
    BY <1>7 DEF DrainUnlink
  <2> QED
    BY <2>1, <2>2, <2>3, UnlinkLogs
<1>8. ASSUME UNCHANGED <<queue, versions, live, newest>>
      PROVE  [Log!Next]_(Log!vars)
  BY <1>8, SameLog
<1>9. ASSUME NEW i \in Inodes, NEW h \in Hashes, BeginWrite(i, h)
      PROVE  UNCHANGED <<queue, versions, live, newest>>
  BY <1>9 DEF BeginWrite, durable
<1>10. ASSUME \/ BeginWriteFail \/ Admit \/ AdmitTimeout \/ EnqueueFail
              \/ PublishOverlay \/ SendToDrain
       PROVE  UNCHANGED <<queue, versions, live, newest>>
  BY <1>10 DEF BeginWriteFail, Admit, AdmitTimeout, EnqueueFail, PublishOverlay,
               SendToDrain, durable, history
<1>11. ASSUME NEW m \in queue, DrainRead(m)
       PROVE  UNCHANGED <<queue, versions, live, newest>>
  BY <1>11 DEF DrainRead, durable, history
<1>12. ASSUME \/ DrainRecv \/ DrainReadGone \/ DrainClear \/ DrainFinish
              \/ DrainRecvReadFail \/ DrainIoFail
       PROVE  UNCHANGED <<queue, versions, live, newest>>
  BY <1>12 DEF DrainRecv, DrainReadGone, DrainClear, DrainFinish,
               DrainRecvReadFail, DrainIoFail, durable, history
<1>13. ASSUME NEW name \in scan.todo, ScanSend(name)
       PROVE  UNCHANGED <<queue, versions, live, newest>>
  BY <1>13 DEF ScanSend, durable, history
<1>14. ASSUME ScanList \/ ScanDone \/ StartList \/ StartRebuild \/ Crash
       PROVE  UNCHANGED <<queue, versions, live, newest>>
  BY <1>14 DEF ScanList, ScanDone, StartList, StartRebuild, Crash, durable, history
<1>15. ASSUME NEW i \in Inodes, DeleteInode(i) PROVE [Log!Next]_(Log!vars)
  BY <1>3, <1>15 DEF Log!Next
<1> QED
  BY <1>1, <1>2, <1>5, <1>6, <1>7, <1>8, <1>9, <1>10, <1>11, <1>12, <1>13,
     <1>14, <1>15
  DEF Next, Writer, DrainStep, DrainFailure, ScanStep, StartStep

(* The write path implements WriteLog: no crash, retry, duplicate send or  *)
(* failed call loses a durable write or commits one twice.                 *)
THEOREM Refinement == Spec => ImplementsWriteLog
<1>1. Init => WriteIds
  BY BoundsAssumption DEF Init, WriteIds, Rows, IdleWriter
<1>2. Init => Log!Init
  BY DEF Init, Log!Init, PendingWrites
<1>3. TypeOK /\ Inv /\ WriteIds /\ [Next]_vars => WriteIds'
  BY AloneThreadsOK, WriteIdsStep
<1>4. TypeOK /\ Inv /\ WriteIds /\ [Next]_vars => [Log!Next]_(Log!vars)
  BY AloneThreadsOK, LogStep
<1> QED
  BY <1>1, <1>2, <1>3, <1>4, InvariantHolds, PTL
  DEF Spec, ImplementsWriteLog, Log!Spec

----------------------------------------------------------------------------
(* PipelineRecover: the gate when another process replays the queue.       *)

(* The drain unlinks the marker it has committed.                          *)
DrainsItsName ==
    drain.pc \in {"tx", "unlink"} => FileName(drain.mark) = drain.name

RecoverMarks ==
    recover.pc \in {"tx", "unlink"} => recover.mark \in Marker

(* The marker in the drain's hand is gone from the disk, and its slot will *)
(* be given back once only.                                                *)
TakenAway == IF drain.pc \in {"tx", "unlink"} /\ drain.mark \notin queue THEN 1 ELSE 0

GateCovers ==
    /\ IsFiniteSet(queue)
    /\ Cardinality(queue) <= MaxEntries
    /\ phase # "down" =>
        /\ Cardinality(queue) + SlotsInTransit + TakenAway <= outstanding
        /\ outstanding <= MaxEntries

RecoverInv ==
    /\ RecoverTypeOK /\ RecoverMarks
    /\ DownIsIdle /\ MarksThere /\ DrainsItsName
    /\ GateCovers

----------------------------------------------------------------------------
(* Unlinking a name keeps the queue finite and counts down by what was     *)
(* there.                                                                  *)
LEMMA UnlinkCounts ==
    ASSUME IsFiniteSet(queue), NEW name, NEW Q,
           Q = {m \in queue : FileName(m) # name}
    PROVE  /\ IsFiniteSet(Q) /\ Cardinality(Q) \in Nat
           /\ Cardinality(Q) <= Cardinality(queue)
           /\ \A d \in queue : FileName(d) = name => Cardinality(Q) + 1 <= Cardinality(queue)
<1>1. Q \subseteq queue /\ IsFiniteSet(Q) /\ Cardinality(Q) <= Cardinality(queue)
  BY FS_Subset
<1>2. Cardinality(Q) \in Nat /\ Cardinality(queue) \in Nat
  BY <1>1, FS_CardinalityType
<1>3. ASSUME NEW d \in queue, FileName(d) = name
      PROVE  Cardinality(Q) + 1 <= Cardinality(queue)
  <2>1. d \notin Q /\ Q \union {d} \subseteq queue
    BY <1>1, <1>3
  <2>2. Cardinality(Q \union {d}) = Cardinality(Q) + 1
    BY <1>1, <2>1, FS_AddElement
  <2> QED
    BY <2>1, <2>2, FS_Subset
<1> QED
  BY <1>1, <1>2, <1>3

(* Where the threads of the daemon are, and the markers in their hands.    *)
LEMMA PlacesStep ==
    ASSUME TypeOK, DownIsIdle, MarksThere, DrainsItsName, [Next]_vars
    PROVE  (DownIsIdle /\ MarksThere /\ DrainsItsName)'
<1> DEFINE Goal == (DownIsIdle /\ MarksThere /\ DrainsItsName)'
<1> USE DEF TypeOK, DownIsIdle, MarksThere, DrainsItsName
<1>1. CASE UNCHANGED vars
  BY <1>1 DEF vars, durable, ram, history
<1>2. ASSUME NEW i \in Inodes, NEW h \in Hashes, BeginWrite(i, h) PROVE Goal
  BY <1>2 DEF BeginWrite, Marker
<1>3. CASE BeginWriteFail
  BY <1>3 DEF BeginWriteFail
<1>4. CASE Admit \/ PublishOverlay \/ Enqueue
  BY <1>4 DEF Admit, PublishOverlay, Enqueue, ram, WriterState
<1>5. CASE AdmitTimeout \/ EnqueueFail
  BY <1>5 DEF AdmitTimeout, EnqueueFail, ram, IdleWriter
<1>6. CASE SendToDrain
  BY <1>6 DEF SendToDrain, IdleWriter
<1>7. ASSUME NEW i \in Inodes, DeleteInode(i) PROVE Goal
  BY <1>7 DEF DeleteInode, ram
<1>8. CASE DrainRecv \/ DrainRecvReadFail
  BY <1>8 DEF DrainRecv, DrainRecvReadFail
<1>9. ASSUME NEW m \in queue, DrainRead(m) PROVE Goal
  BY <1>9 DEF DrainRead, ram, DrainState, ReadMarker
<1>10. CASE DrainReadGone \/ DrainTx \/ DrainTxFail \/ DrainUnlink \/ DrainIoFail
  BY <1>10 DEF DrainReadGone, DrainTx, DrainTxFail, DrainUnlink, DrainIoFail, ram, DrainState
<1>11. CASE DrainClear
  BY <1>11 DEF DrainClear, DrainState
<1>12. CASE DrainFinish
  BY <1>12 DEF DrainFinish, IdleDrain
<1>13. CASE ScanList
  BY <1>13 DEF ScanList, ram
<1>14. ASSUME NEW name \in scan.todo, ScanSend(name) PROVE Goal
  BY <1>14 DEF ScanSend, ScanState
<1>15. CASE ScanDone
  BY <1>15 DEF ScanDone, IdleScan
<1>16. CASE StartList \/ StartRebuild
  BY <1>16 DEF StartList, StartRebuild, IdleScan
<1>17. CASE Crash
  BY <1>17 DEF Crash, IdleWriter, IdleDrain, IdleScan
<1> QED
  BY <1>1, <1>2, <1>3, <1>4, <1>5, <1>6, <1>7, <1>8, <1>9, <1>10, <1>11, <1>12,
     <1>13, <1>14, <1>15, <1>16, <1>17
  DEF Next, Writer, DrainStep, DrainFailure, ScanStep, StartStep

(* No step of the daemon gives a slot back that a marker still needs.      *)
LEMMA CoversStep ==
    ASSUME TypeOK, DownIsIdle, DrainsItsName, GateCovers, [Next]_vars
    PROVE  GateCovers'
<1>a. Cardinality(queue) \in Nat
  BY FS_CardinalityType DEF GateCovers
<1> USE <1>a, BoundsAssumption DEF TypeOK, GateCovers, SlotsInTransit, TakenAway
<1>1. CASE UNCHANGED vars
  BY <1>1 DEF vars, durable, ram, history
<1>2. ASSUME NEW i \in Inodes, NEW h \in Hashes, BeginWrite(i, h) PROVE GateCovers'
  BY <1>2 DEF BeginWrite, durable
<1>3. CASE BeginWriteFail
  BY <1>3 DEF BeginWriteFail, durable
<1>4. CASE Admit
  BY <1>4 DEF Admit, durable, WriterState
<1>5. CASE AdmitTimeout
  BY <1>5 DEF AdmitTimeout, durable, ram, IdleWriter
<1>6. CASE Enqueue
  <2> DEFINE w == writer.mark
             Q == {m \in queue : FileName(m) # FileName(w)}
  <2>1. queue' = Q \union {w}
    BY <1>6 DEF Enqueue
  <2>2. IsFiniteSet(Q) /\ Cardinality(Q) \in Nat /\ Cardinality(Q) <= Cardinality(queue)
    BY UnlinkCounts
  <2>3. /\ IsFiniteSet(queue') /\ Cardinality(queue') \in Nat
        /\ Cardinality(queue') <= Cardinality(Q) + 1
    <3> HIDE DEF Q, w
    <3>1. /\ IsFiniteSet(Q \union {w})
          /\ Cardinality(Q \union {w}) = IF w \in Q THEN Cardinality(Q) ELSE Cardinality(Q) + 1
      BY <2>2, FS_AddElement, Zenon
    <3>2. IsFiniteSet(queue') /\ Cardinality(queue') \in {Cardinality(Q), Cardinality(Q) + 1}
      BY <2>1, <3>1, Zenon
    <3> QED
      BY <2>2, <3>2
  <2>4. writer.pc = "enqueue" /\ writer'.pc = "publish" /\ phase # "down"
    BY <1>6 DEF Enqueue, WriterState, DownIsIdle
  <2>5. UNCHANGED <<phase, outstanding, drain>>
    BY <1>6 DEF Enqueue, ram
  <2>6. SlotsInTransit \in Nat \ {0} /\ SlotsInTransit' = SlotsInTransit - 1
    BY <2>4, <2>5
  <2>7. ASSUME drain.mark \in queue, drain.pc \in {"tx", "unlink"}, drain.mark \notin queue'
        PROVE  Cardinality(queue') <= Cardinality(queue)
    <3>1. FileName(drain.mark) = FileName(w)
      BY <2>1, <2>7
    <3>2. Cardinality(Q) + 1 <= Cardinality(queue)
      BY <2>7, <3>1, UnlinkCounts
    <3> QED
      BY <2>2, <2>3, <3>2
  <2>8. Cardinality(queue') + TakenAway' <= Cardinality(queue) + TakenAway + 1
    BY <2>2, <2>3, <2>5, <2>7
  <2>9. TakenAway \in Nat /\ TakenAway' \in Nat
    OBVIOUS
  <2> HIDE DEF TakenAway, SlotsInTransit, w, Q
  <2>10. Cardinality(queue) + SlotsInTransit + TakenAway <= outstanding /\ outstanding <= MaxEntries
    BY <2>4
  <2>11. Cardinality(queue') + SlotsInTransit' + TakenAway' <= outstanding
    <3> PICK c, d \in Nat : c = Cardinality(queue) /\ d = Cardinality(queue')
      BY <2>3
    <3> PICK s, t, u \in Nat : s = SlotsInTransit' /\ t = TakenAway /\ u = TakenAway'
      BY <2>6, <2>9
    <3>1. SlotsInTransit = s + 1
      BY <2>6
    <3>2. d + u <= c + t + 1 /\ c + (s + 1) + t <= outstanding /\ outstanding \in Nat
      BY <2>8, <2>10, <3>1
    <3> HIDE DEF TypeOK, GateCovers
    <3> QED
      BY <3>2
  <2>12. Cardinality(queue') <= MaxEntries
    BY <2>2, <2>3, <2>6, <2>9, <2>10, <2>11
  <2> QED
    BY <2>3, <2>5, <2>10, <2>11, <2>12
<1>7. CASE EnqueueFail
  BY <1>7 DEF EnqueueFail, durable, IdleWriter, Released
<1>8. CASE PublishOverlay
  BY <1>8 DEF PublishOverlay, durable, WriterState
<1>9. CASE SendToDrain
  BY <1>9 DEF SendToDrain, durable, IdleWriter
<1>10. ASSUME NEW i \in Inodes, DeleteInode(i) PROVE GateCovers'
  BY <1>10 DEF DeleteInode, ram
<1>11. CASE DrainRecv
  BY <1>11 DEF DrainRecv, durable
<1>12. CASE DrainRecvReadFail
  BY <1>12 DEF DrainRecvReadFail, durable
<1>13. ASSUME NEW m \in queue, DrainRead(m) PROVE GateCovers'
  BY <1>13 DEF DrainRead, durable, ram, DrainState
<1>14. CASE DrainReadGone
  BY <1>14 DEF DrainReadGone, durable, ram, DrainState
<1>15. CASE DrainTx
  BY <1>15 DEF DrainTx, ram, DrainState
<1>16. CASE DrainTxFail
  BY <1>16 DEF DrainTxFail, ram, DrainState
<1>17. CASE DrainUnlink
  <2>1. queue' = {m \in queue : FileName(m) # drain.name}
    BY <1>17 DEF DrainUnlink
  <2>2. /\ IsFiniteSet(queue') /\ Cardinality(queue') \in Nat
        /\ Cardinality(queue') <= Cardinality(queue)
        /\ drain.mark \in queue => Cardinality(queue') + 1 <= Cardinality(queue)
    BY <1>17, <2>1, UnlinkCounts DEF DrainsItsName, DrainUnlink
  <2>3. /\ drain.pc = "unlink" /\ phase # "down"
        /\ drain'.pc = "clear" /\ drain'.out = "some"
    BY <1>17 DEF DrainUnlink, DrainState, DownIsIdle
  <2>4. UNCHANGED <<phase, outstanding, writer>>
    BY <1>17 DEF DrainUnlink, ram
  <2> QED
    BY <2>2, <2>3, <2>4
<1>18. CASE DrainIoFail
  BY <1>18 DEF DrainIoFail, durable, ram, DrainState
<1>19. CASE DrainClear
  BY <1>19 DEF DrainClear, durable, DrainState
<1>20. CASE DrainFinish
  <2>1. UNCHANGED <<queue, phase, writer>> /\ drain'.pc = "recv" /\ phase # "down"
        /\ drain.pc = "finish"
    BY <1>20 DEF DrainFinish, durable, IdleDrain, DownIsIdle
  <2>2. outstanding' = IF drain.out = "some" THEN Released(outstanding) ELSE outstanding
    BY <1>20 DEF DrainFinish
  <2> QED
    BY <2>1, <2>2 DEF Released
<1>21. CASE ScanList
  BY <1>21 DEF ScanList, durable, ram
<1>22. ASSUME NEW name \in scan.todo, ScanSend(name) PROVE GateCovers'
  BY <1>22 DEF ScanSend, durable
<1>23. CASE ScanDone
  BY <1>23 DEF ScanDone, durable, DownIsIdle
<1>24. CASE StartList
  BY <1>24 DEF StartList, durable, DownIsIdle
<1>25. CASE StartRebuild
  BY <1>25 DEF StartRebuild, durable
<1>26. CASE Crash
  BY <1>26 DEF Crash, durable, IdleWriter, IdleDrain
<1> QED
  BY <1>1, <1>2, <1>3, <1>4, <1>5, <1>6, <1>7, <1>8, <1>9, <1>10, <1>11, <1>12,
     <1>13, <1>14, <1>15, <1>16, <1>17, <1>18, <1>19, <1>20, <1>21, <1>22,
     <1>23, <1>24, <1>25, <1>26
  DEF Next, Writer, DrainStep, DrainFailure, ScanStep, StartStep

----------------------------------------------------------------------------
(* The recovery process.                                                   *)

(* Its types, and the marker in its hand.                                  *)
LEMMA RecoverTyped ==
    ASSUME RecoverTypeOK, RecoverMarks, RecoverStep
    PROVE  RecoverTypeOK' /\ RecoverMarks'
<1> USE DEF RecoverTypeOK, RecoverMarks
<1>0. TypeOK /\ NamesIn(queue) \in SUBSET FileNames
  BY NamesType
<1>1. CASE RecoverList
  <2>1. TypeOK' /\ recovers' \in 0 .. MaxRecovers
    BY <1>0, <1>1, RecoversAssumption
    DEF RecoverList, vars, durable, ram, history, TypeOK
  <2> QED
    BY <1>0, <1>1, <2>1 DEF RecoverList
<1>2. ASSUME NEW name \in recover.todo, RecoverRead(name)
      PROVE  RecoverTypeOK' /\ RecoverMarks'
  <2>1. TypeOK'
    BY <1>0, <1>2 DEF RecoverRead, vars, durable, ram, history, TypeOK
  <2>2. ASSUME ReadMarker(name) # {}
        PROVE  (CHOOSE m \in ReadMarker(name) : TRUE) \in Marker
    BY <1>0, <2>2 DEF ReadMarker, TypeOK
  <2>3. name \in FileNames
    OBVIOUS
  <2> QED
    BY <1>2, <2>1, <2>2, <2>3 DEF RecoverRead
<1>3. ASSUME NEW name \in recover.todo, RecoverReadFail(name)
      PROVE  RecoverTypeOK' /\ RecoverMarks'
  <2>1. TypeOK'
    BY <1>0, <1>3 DEF RecoverReadFail, Fail, durable, ram, TypeOK
  <2> QED
    BY <1>3, <2>1 DEF RecoverReadFail
<1>4. CASE RecoverTx
  <2>1. versions' \in [Inodes -> Seq(Nat)] /\ current' \in [Inodes -> Nat]
    BY <1>0, <1>4, CommitRowType DEF RecoverTx
  <2>2. TypeOK'
    BY <1>0, <1>4, <2>1 DEF RecoverTx, ram, history, TypeOK
  <2> QED
    BY <1>4, <2>2 DEF RecoverTx
<1>5. CASE RecoverUnlink
  <2>1. TypeOK'
    BY <1>0, <1>5 DEF RecoverUnlink, ram, history, TypeOK
  <2> QED
    BY <1>5, <2>1 DEF RecoverUnlink
<1>6. CASE RecoverFail
  <2>1. versions' \in [Inodes -> Seq(Nat)] /\ current' \in [Inodes -> Nat]
    BY <1>0, <1>6, CommitRowType DEF RecoverFail, TypeOK
  <2>2. /\ UNCHANGED <<queue, live, ram, writer, drain, scan, acked, newest, nextVid, crashes>>
        /\ fails' = fails + 1
    BY <1>6 DEF RecoverFail, Fail
  <2>3. TypeOK'
    BY <1>0, <2>1, <2>2 DEF ram, TypeOK
  <2> QED
    BY <1>6, <2>3 DEF RecoverFail
<1>7. CASE RecoverExit
  <2>1. TypeOK'
    BY <1>0, <1>7 DEF RecoverExit, vars, durable, ram, history, TypeOK
  <2> QED
    BY <1>7, <2>1 DEF RecoverExit, NoRecover
<1> QED
  BY <1>1, <1>2, <1>3, <1>4, <1>5, <1>6, <1>7 DEF RecoverStep

(* It leaves the memory of the daemon alone and takes markers from the     *)
(* disk only: the gate covers what is left.                                *)
LEMMA RecoverCovers ==
    ASSUME RecoverInv, RecoverStep
    PROVE  DownIsIdle' /\ MarksThere' /\ DrainsItsName' /\ GateCovers'
<1> USE DEF RecoverInv
<1>1. UNCHANGED <<phase, outstanding, chan, writer, drain, scan>>
  BY DEF RecoverStep, RecoverList, RecoverRead, RecoverReadFail, RecoverTx, RecoverUnlink,
         RecoverFail, RecoverExit, vars, ram
<1>2. DownIsIdle' /\ MarksThere' /\ DrainsItsName' /\ SlotsInTransit' = SlotsInTransit
  BY <1>1 DEF DownIsIdle, MarksThere, DrainsItsName, SlotsInTransit
<1>3. CASE queue' = queue
  BY <1>1, <1>2, <1>3 DEF GateCovers, TakenAway
<1>4. CASE RecoverUnlink
  <2>1. queue' = {m \in queue : FileName(m) # recover.name}
    BY <1>4 DEF RecoverUnlink
  <2>2. /\ IsFiniteSet(queue') /\ Cardinality(queue') \in Nat
        /\ Cardinality(queue') <= Cardinality(queue)
        /\ \A d \in queue : FileName(d) = recover.name =>
               Cardinality(queue') + 1 <= Cardinality(queue)
    BY <2>1, UnlinkCounts DEF GateCovers
  <2>3. drain.mark \in queue /\ drain.mark \notin queue' =>
            Cardinality(queue') + 1 <= Cardinality(queue)
    BY <2>1, <2>2
  <2>4. /\ Cardinality(queue) \in Nat /\ SlotsInTransit \in Nat /\ outstanding \in Nat
        /\ TakenAway \in Nat /\ TakenAway' \in Nat
    BY FS_CardinalityType DEF GateCovers, SlotsInTransit, TakenAway, RecoverTypeOK, TypeOK
  <2>5. Cardinality(queue') + TakenAway' <= Cardinality(queue) + TakenAway
    BY <1>1, <2>2, <2>3, <2>4 DEF TakenAway
  <2>6. MaxEntries \in Nat
    BY BoundsAssumption
  <2> HIDE DEF RecoverInv
  <2>7. GateCovers
    BY DEF RecoverInv
  <2> QED
    BY <1>1, <1>2, <2>2, <2>4, <2>5, <2>6, <2>7 DEF GateCovers
<1> QED
  BY <1>3, <1>4
  DEF RecoverStep, RecoverList, RecoverRead, RecoverReadFail, RecoverTx, RecoverFail,
      RecoverExit, vars, durable

----------------------------------------------------------------------------
(* The types, the places of the threads and the gate, with both processes. *)
LEMMA RecoverInvAlways == RecoverSpec => []RecoverInv
<1>1. RecoverInit => RecoverInv
  <2> SUFFICES ASSUME RecoverInit
               PROVE  RecoverInv
    OBVIOUS
  <2>1. TypeOK
    BY DEF RecoverInit, Init, TypeOK, WriterState, DrainState, ScanState,
           IdleWriter, IdleDrain, IdleScan
  <2>2. RecoverTypeOK /\ RecoverMarks
    BY <2>1, RecoversAssumption DEF RecoverInit, NoRecover, RecoverTypeOK, RecoverMarks
  <2>3. DownIsIdle /\ MarksThere /\ DrainsItsName
    BY DEF RecoverInit, Init, DownIsIdle, MarksThere, DrainsItsName, IdleWriter,
           IdleDrain, IdleScan
  <2>4. GateCovers
    BY FS_EmptySet, BoundsAssumption DEF RecoverInit, Init, GateCovers
  <2> QED
    BY <2>2, <2>3, <2>4 DEF RecoverInv
<1>2. RecoverInv /\ [RecoverNext]_allVars => RecoverInv'
  <2> SUFFICES ASSUME RecoverInv, [RecoverNext]_allVars
               PROVE  RecoverInv'
    OBVIOUS
  <2>0. TypeOK /\ IsFiniteSet(queue)
    BY DEF RecoverInv, RecoverTypeOK, GateCovers
  <2>1. CASE [Next]_vars /\ UNCHANGED <<recover, recovers>>
    <3>1. TypeOK'
      BY <2>0, <2>1, TypeStep DEF RecoverInv
    <3>2. RecoverTypeOK' /\ RecoverMarks'
      BY <2>1, <3>1 DEF RecoverInv, RecoverTypeOK, RecoverMarks
    <3>3. DownIsIdle' /\ MarksThere' /\ DrainsItsName'
      BY <2>0, <2>1, PlacesStep DEF RecoverInv
    <3>4. GateCovers'
      BY <2>0, <2>1, CoversStep DEF RecoverInv
    <3> QED
      BY <3>2, <3>3, <3>4 DEF RecoverInv
  <2>2. CASE RecoverStep
    BY <2>2, RecoverTyped, RecoverCovers DEF RecoverInv
  <2> QED
    BY <2>1, <2>2 DEF RecoverNext, allVars
<1> QED
  BY <1>1, <1>2, PTL DEF RecoverSpec

(* With a second process that replays and unlinks, interrupted and started *)
(* again at will, the gate counts at least the markers on disk, and the    *)
(* disk never holds more than max_entries.                                 *)
THEOREM GateAlwaysCovers == RecoverSpec => []GateCoversQueue
<1>1. RecoverInv => GateCoversQueue
  <2> SUFFICES ASSUME RecoverInv, phase # "down"
               PROVE  Cardinality(queue) <= outstanding
    BY DEF RecoverInv, GateCoversQueue, GateCovers
  <2> QED
    BY FS_CardinalityType
    DEF RecoverInv, GateCovers, SlotsInTransit, TakenAway, RecoverTypeOK, TypeOK
<1> QED
  BY <1>1, RecoverInvAlways, PTL
=============================================================================
