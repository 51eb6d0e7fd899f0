------------------------- MODULE PipelineReadsProofs -------------------------
(***************************************************************************)
(* What a reader of the mount is given, for every set of files, every      *)
(* capacity and any number of writes, crashes and failures: ReadAfterWrite *)
(* and VersionOrder, for a daemon alone and for one next to a recovery     *)
(* process, which also keeps DurableAck and the refinement of WriteLog.    *)
(***************************************************************************)
EXTENDS PipelineProofs

(* The inductive invariant behind ReadAfterWrite and VersionOrder.  Two    *)
(* parts hold whatever fails: MarkOrder and Shown.  The others describe a  *)
(* daemon in which no call has failed: the drain then takes the queue in   *)
(* the order of the writes.                                                *)

(* Every marker the running daemon can still act on.                       *)
Known ==
    queue \union overlay
          \union (IF writer.pc \in {"publish", "send"} THEN {writer.mark} ELSE {})
          \union (IF drain.pc \in {"tx", "unlink"}
                     \/ (drain.pc \in {"clear", "finish"} /\ drain.out = "some")
                  THEN {drain.mark} ELSE {})

KnownNames ==
    {chan[k] : k \in 1 .. Len(chan)} \union scan.todo
        \union (IF drain.pc = "recv" THEN {} ELSE {drain.name})

(* Sequence numbers and identities grow together, and what a request under *)
(* way carries is newer than everything else.                              *)
MarkOrder ==
    /\ Known \subseteq Marker /\ KnownNames \subseteq FileNames
    /\ \A m, o \in Known : /\ m.seq < o.seq => m.vid < o.vid
                           /\ m.seq = o.seq => m = o
    /\ \A m \in Known : m.vid < nextVid /\ (phase # "down" => m.seq < seq)
    /\ phase # "down" => \A n \in KnownNames : n[1] < seq
    /\ writer.pc \in {"admit", "enqueue"} =>
          /\ \A m \in Known : m.seq < writer.mark.seq /\ m.vid < writer.mark.vid
          /\ \A n \in KnownNames : n[1] < writer.mark.seq
    /\ writer.pc \in {"publish", "send"} =>
          /\ \A m \in Known : m.seq <= writer.mark.seq
          /\ \A n \in KnownNames : n[1] <= writer.mark.seq
          /\ newest[writer.mark.inode] = writer.mark.vid

(* One overlay entry per file, and the last durable write of a file has it *)
(* as long as its marker is queued.                                        *)
Shown ==
    /\ \A m, o \in overlay : m.inode = o.inode => m = o
    /\ phase = "down" => overlay = {}
    /\ phase = "rebuild" => /\ overlay = {} /\ chan = <<>> /\ drain.pc = "recv"
                            /\ NamesIn(queue) \subseteq scan.todo
    /\ drain.pc \in {"clear", "finish"} /\ drain.out = "some" =>
          FileName(drain.mark) = drain.name /\ drain.name \notin NamesIn(queue)
    /\ phase \in {"starting", "up"} => \A m \in queue :
          m.inode \in live /\ m.vid = newest[m.inode] =>
             m \in overlay \/ (writer.pc = "publish" /\ m = writer.mark)

(* In the hand of the drain, or in its channel.                            *)
Held(name)   == drain.pc \in {"read", "tx", "unlink"} /\ drain.name = name
Handed(name) == Held(name) \/ \E k \in 1 .. Len(chan) : chan[k] = name

(* Nothing has been handed over yet.                                       *)
Quiet == phase \in {"down", "rebuild"} \/ (phase = "starting" /\ scan.pc = "sleep")

(* Still to be sent, by the request that wrote it or by the first scan.    *)
ToBeSent(m) ==
    \/ Quiet
    \/ phase = "up" /\ writer.pc \in {"publish", "send"} /\ m = writer.mark
    \/ phase = "starting" /\ scan.pc = "send" /\ FileName(m) \in scan.todo

(* Every queued marker is on its way to the drain, older ones first.       *)
InOrder ==
    /\ Quiet => chan = <<>> /\ drain.pc = "recv" /\ inflight = {}
    /\ \A m \in queue : Handed(FileName(m)) \/ ToBeSent(m)
    /\ \A n \in inflight : \/ \E k \in 1 .. Len(chan) : chan[k] = n
                           \/ drain.pc \in {"read", "tx", "unlink", "clear"} /\ drain.name = n
    /\ \A k \in 1 .. Len(chan) : \A m \in queue :
          m.seq < chan[k][1] =>
             Held(FileName(m)) \/ \E j \in 1 .. k - 1 : chan[j] = FileName(m)
    /\ drain.pc \in {"read", "tx", "unlink"} =>
          \A m \in queue : drain.name[1] <= m.seq
    /\ drain.pc \in {"clear", "finish"} => drain.name \notin NamesIn(queue)

(* Committed versions are in write order and older than what will still be *)
(* inserted; the registry points at the last one.                          *)
Committed ==
    /\ \A i \in Inodes : InWriteOrder(i)
    /\ \A m \in queue : Inserts(m) => \A v \in Rows(m.inode) : v < m.vid
    /\ \A i \in live : /\ \A v \in Rows(i) : v <= current[i]
                       /\ current[i] <= newest[i]
                       /\ \/ current[i] = newest[i]
                          \/ \E m \in queue : m.inode = i /\ m.vid = newest[i]
    /\ \A m \in queue : m.inode \in live =>
          \E o \in queue : o.inode = m.inode /\ o.vid = newest[m.inode]

(* Between two requests the overlay has the last write of a file, or has   *)
(* none because it is committed.                                           *)
Served ==
    phase \in {"starting", "up"} =>
        \A i \in live : ~(writer.pc = "publish" /\ writer.mark.inode = i) =>
            /\ \A o \in Shadow(i) : o.vid = newest[i]
            /\ Shadow(i) = {} => current[i] = newest[i]

ReadInv ==
    /\ WriteIds /\ MarkOrder /\ Shown
    /\ fails = 0 => InOrder /\ Committed /\ Served


----------------------------------------------------------------------------
(* Markers that were known and names of known markers keep their order, as *)
(* long as the sequence does not go back under a running daemon.           *)
LEMMA MarkOrderFrame ==
    ASSUME TypeOK, MarkOrder,
           Known' \subseteq Known,
           \A n \in KnownNames' : n \in KnownNames \/ \E m \in Known : n = FileName(m),
           nextVid' = nextVid,
           phase' = "down" \/ (phase # "down" /\ seq' \in Nat /\ seq <= seq'),
           \/ writer'.pc = "idle"
           \/ /\ writer'.mark = writer.mark /\ newest' = newest
              /\ \/ writer.pc = "admit" /\ writer'.pc \in {"admit", "enqueue"}
                 \/ writer.pc = "enqueue" /\ writer'.pc = "enqueue"
                 \/ writer.pc = "publish" /\ writer'.pc \in {"publish", "send"}
                 \/ writer.pc = "send" /\ writer'.pc = "send"
    PROVE  MarkOrder'
<1>1. \A m \in Known : m \in Marker /\ m.seq \in Nat /\ m.vid \in Nat
  BY DEF MarkOrder, Marker
<1>2. \A m \in Known : FileName(m) \in FileNames /\ FileName(m)[1] = m.seq
  BY <1>1 DEF FileName, FileNames, Marker
<1>3. \A n \in KnownNames' : n \in FileNames /\ n[1] \in Nat
  BY <1>2 DEF MarkOrder, FileNames
<1>4. Known' \subseteq Marker /\ KnownNames' \subseteq FileNames
  BY <1>1, <1>3
<1>5. \A m, o \in Known' : (m.seq < o.seq => m.vid < o.vid) /\ (m.seq = o.seq => m = o)
  BY DEF MarkOrder
<1>6. \A m \in Known' : m.vid < nextVid' /\ (phase' # "down" => m.seq < seq')
  <2> SUFFICES ASSUME NEW m \in Known'
               PROVE  m.vid < nextVid' /\ (phase' # "down" => m.seq < seq')
    OBVIOUS
  <2>1. m \in Known /\ m.seq \in Nat /\ m.vid < nextVid /\ (phase # "down" => m.seq < seq)
    BY <1>1 DEF MarkOrder
  <2> QED
    BY <2>1 DEF TypeOK
<1>7. phase' # "down" => \A n \in KnownNames' : n[1] < seq'
  <2> SUFFICES ASSUME phase' # "down", NEW n \in KnownNames' PROVE n[1] < seq'
    OBVIOUS
  <2>1. n[1] \in Nat /\ n[1] < seq
    BY <1>2, <1>3 DEF MarkOrder
  <2> QED
    BY <2>1 DEF TypeOK
<1>8. writer'.pc \in {"admit", "enqueue"} =>
          /\ \A m \in Known' : m.seq < writer'.mark.seq /\ m.vid < writer'.mark.vid
          /\ \A n \in KnownNames' : n[1] < writer'.mark.seq
  BY <1>2 DEF MarkOrder
<1>9. writer'.pc \in {"publish", "send"} =>
          /\ \A m \in Known' : m.seq <= writer'.mark.seq
          /\ \A n \in KnownNames' : n[1] <= writer'.mark.seq
          /\ newest'[writer'.mark.inode] = writer'.mark.vid
  BY <1>2 DEF MarkOrder
<1> QED
  BY <1>4, <1>5, <1>6, <1>7, <1>8, <1>9 DEF MarkOrder

(* What a step that only loses markers and names asks of the frame.        *)
LEMMA MarkOrderSame ==
    ASSUME TypeOK, MarkOrder,
           Known' \subseteq Known, KnownNames' \subseteq KnownNames,
           UNCHANGED <<nextVid, seq>>, phase # "down" \/ phase' = "down",
           UNCHANGED <<writer, newest>> \/ writer'.pc = "idle"
    PROVE  MarkOrder'
  BY MarkOrderFrame DEF TypeOK, WriterState

LEMMA MarkOrderStep ==
    ASSUME TypeOK, ThreadsOK, WriteIds, MarkOrder, Shown, [Next]_vars
    PROVE  MarkOrder'
<1>0. DownIsIdle /\ QueueNames /\ WriterMark /\ DrainHolds
  BY DEF ThreadsOK
<1>a. /\ TypeOK /\ MarkOrder
      /\ \A m \in Known : FileName(m) \in FileNames /\ FileName(m)[1] = m.seq
  BY DEF MarkOrder, FileName, FileNames, Marker
<1> USE <1>0 DEF DownIsIdle
<1>1. CASE UNCHANGED vars
  BY <1>1 DEF vars, durable, ram, history, MarkOrder, Known, KnownNames
<1>2. ASSUME NEW i \in Inodes, NEW h \in Hashes, BeginWrite(i, h) PROVE MarkOrder'
  <2>1. /\ writer' = [pc   |-> "admit",
                      mark |-> [seq |-> seq, hash |-> h, inode |-> i, vid |-> nextVid]]
        /\ seq' = seq + 1 /\ nextVid' = nextVid + 1 /\ phase = "up"
        /\ UNCHANGED <<queue, overlay, drain, scan, chan, phase>>
    BY <1>2 DEF BeginWrite, durable
  <2>2. Known' \subseteq Known /\ KnownNames' = KnownNames
    BY <2>1 DEF Known, KnownNames
  <2>3. \A m \in Known : m.seq \in Nat /\ m.vid \in Nat /\ m.seq < seq /\ m.vid < nextVid
    BY <2>1 DEF MarkOrder, Marker
  <2>4. \A n \in KnownNames : n[1] \in Nat /\ n[1] < seq
    BY <2>1 DEF MarkOrder, FileNames
  <2>5. seq \in Nat /\ nextVid \in Nat
    BY DEF TypeOK
  <2> QED
    BY <2>1, <2>2, <2>3, <2>4, <2>5 DEF MarkOrder
<1>3. CASE BeginWriteFail
  <2>1. /\ seq' = seq + 1 /\ nextVid' = nextVid /\ phase = "up" /\ writer.pc = "idle"
        /\ UNCHANGED <<queue, overlay, drain, scan, chan, phase, writer>>
    BY <1>3 DEF BeginWriteFail, durable
  <2>2. Known' = Known /\ KnownNames' = KnownNames
    BY <2>1 DEF Known, KnownNames
  <2> QED
    BY <1>a, <2>1, <2>2, MarkOrderFrame DEF TypeOK
<1>4. CASE Admit
  <2>1. /\ writer.pc = "admit" /\ writer'.pc = "enqueue" /\ writer'.mark = writer.mark
        /\ UNCHANGED <<queue, overlay, drain, scan, chan, phase, seq, newest, nextVid>>
    BY <1>4 DEF Admit, durable, history, TypeOK, WriterState
  <2>2. Known' = Known /\ KnownNames' = KnownNames
    BY <2>1 DEF Known, KnownNames
  <2> QED
    BY <1>a, <2>1, <2>2, MarkOrderFrame DEF TypeOK
<1>5. CASE AdmitTimeout
  <2>1. /\ writer'.pc = "idle" /\ writer.pc = "admit"
        /\ UNCHANGED <<queue, overlay, drain, scan, chan, phase, seq, newest, nextVid>>
    BY <1>5 DEF AdmitTimeout, durable, history, ram, IdleWriter
  <2>2. Known' = Known /\ KnownNames' = KnownNames
    BY <2>1 DEF Known, KnownNames
  <2> QED
    BY <1>a, <2>1, <2>2, MarkOrderSame
<1>6. CASE Enqueue
  <2> DEFINE w == writer.mark
  <2>1. /\ writer.pc = "enqueue" /\ writer'.pc = "publish" /\ writer'.mark = w
        /\ newest' = [newest EXCEPT ![w.inode] = w.vid]
        /\ \A m \in queue' : m \in queue \/ m = w
        /\ UNCHANGED <<overlay, drain, scan, chan, phase, seq, nextVid>>
    BY <1>6 DEF Enqueue, ram, TypeOK, WriterState
  <2>2. w \in Marker /\ w.seq < seq /\ w.vid < nextVid /\ w.inode \in Inodes
    BY <2>1 DEF WriterMark, WriteIds, Marker
  <2>3. KnownNames' = KnownNames /\ \A m \in Known' : m \in Known \/ m = w
    BY <2>1 DEF Known, KnownNames
  <2>4. /\ \A m \in Known : m.seq < w.seq /\ m.vid < w.vid /\ m.seq \in Nat
        /\ \A n \in KnownNames : n[1] < w.seq /\ n[1] \in Nat
    BY <2>1 DEF MarkOrder, Marker, FileNames
  <2>5. \A m, o \in Known' : (m.seq < o.seq => m.vid < o.vid) /\ (m.seq = o.seq => m = o)
    <3> SUFFICES ASSUME NEW m \in Known', NEW o \in Known'
                 PROVE  (m.seq < o.seq => m.vid < o.vid) /\ (m.seq = o.seq => m = o)
      OBVIOUS
    <3>1. CASE m \in Known /\ o \in Known
      BY <3>1 DEF MarkOrder
    <3>2. CASE m = w /\ o \in Known
      BY <2>2, <2>4, <3>2 DEF Marker
    <3>3. CASE m \in Known /\ o = w
      BY <2>2, <2>4, <3>3 DEF Marker
    <3>4. CASE m = w /\ o = w
      BY <2>2, <3>4 DEF Marker
    <3> QED
      BY <2>3, <3>1, <3>2, <3>3, <3>4
  <2>6. /\ \A m \in Known' : m \in Marker /\ m.vid < nextVid /\ m.seq < seq /\ m.seq <= w.seq
        /\ \A n \in KnownNames' : n \in FileNames /\ n[1] < seq /\ n[1] <= w.seq
    BY <2>1, <2>2, <2>3, <2>4 DEF MarkOrder, Marker
  <2>7. newest'[w.inode] = w.vid
    BY <2>1, <2>2 DEF TypeOK
  <2> QED
    BY <2>1, <2>5, <2>6, <2>7 DEF MarkOrder
<1>7. CASE EnqueueFail
  <2>1. /\ writer'.pc = "idle" /\ writer.pc = "enqueue"
        /\ UNCHANGED <<queue, overlay, drain, scan, chan, phase, seq, newest, nextVid>>
    BY <1>7 DEF EnqueueFail, durable, IdleWriter
  <2>2. Known' = Known /\ KnownNames' = KnownNames
    BY <2>1 DEF Known, KnownNames
  <2> QED
    BY <1>a, <2>1, <2>2, MarkOrderSame
<1>8. CASE PublishOverlay
  <2>1. /\ writer.pc = "publish" /\ writer'.pc = "send" /\ writer'.mark = writer.mark
        /\ overlay' \subseteq overlay \union {writer.mark}
        /\ UNCHANGED <<queue, drain, scan, chan, phase, seq, newest, nextVid>>
    BY <1>8 DEF PublishOverlay, Published, durable, history, TypeOK, WriterState
  <2>2. Known' \subseteq Known /\ KnownNames' = KnownNames
    BY <2>1 DEF Known, KnownNames
  <2> QED
    BY <1>a, <2>1, <2>2, MarkOrderFrame DEF TypeOK
<1>9. CASE SendToDrain
  <2>1. /\ writer.pc = "send" /\ writer'.pc = "idle"
        /\ chan' = Append(chan, FileName(writer.mark))
        /\ UNCHANGED <<queue, overlay, drain, scan, phase, seq, nextVid>>
    BY <1>9 DEF SendToDrain, durable, IdleWriter
  <2>2. Known' \subseteq Known /\ writer.mark \in Known
    BY <2>1 DEF Known
  <2>3. \A k \in 1 .. Len(chan') : chan'[k] \in {chan[j] : j \in 1 .. Len(chan)}
                                    \/ chan'[k] = FileName(writer.mark)
    BY <2>1 DEF TypeOK
  <2>4. \A n \in KnownNames' : n \in KnownNames \/ n = FileName(writer.mark)
    BY <2>1, <2>3 DEF KnownNames
  <2> QED
    BY <1>a, <2>1, <2>2, <2>4, MarkOrderFrame DEF TypeOK
<1>10. ASSUME NEW i \in Inodes, DeleteInode(i) PROVE MarkOrder'
  BY <1>10 DEF DeleteInode, ram, history, MarkOrder, Known, KnownNames
<1>11. CASE DrainRecv \/ DrainRecvReadFail
  <2>1. /\ chan # <<>> /\ chan' = Tail(chan) /\ drain.pc = "recv"
        /\ drain'.pc = "read" /\ drain'.name = Head(chan)
        /\ UNCHANGED <<queue, overlay, writer, scan, phase, seq, newest, nextVid>>
    BY <1>11 DEF DrainRecv, DrainRecvReadFail, durable, history
  <2>2. /\ Head(chan) \in {chan[j] : j \in 1 .. Len(chan)}
        /\ \A k \in 1 .. Len(chan') : chan'[k] \in {chan[j] : j \in 1 .. Len(chan)}
    BY <2>1 DEF TypeOK
  <2>3. Known' = Known
    BY <2>1 DEF Known
  <2>4. KnownNames' \subseteq KnownNames
    BY <2>1, <2>2 DEF KnownNames
  <2> QED
    BY <1>a, <2>1, <2>3, <2>4, MarkOrderSame
<1>13. ASSUME NEW m \in queue, DrainRead(m) PROVE MarkOrder'
  <2>1. /\ drain.pc = "read" /\ drain'.pc = "tx" /\ drain'.mark = m /\ drain'.name = drain.name
        /\ UNCHANGED <<queue, overlay, writer, scan, chan, phase, seq, newest, nextVid>>
    BY <1>13 DEF DrainRead, durable, ram, history, TypeOK, DrainState
  <2>2. Known' \subseteq Known
    BY <2>1 DEF Known
  <2>3. KnownNames' \subseteq KnownNames
    BY <2>1 DEF KnownNames
  <2> QED
    BY <1>a, <2>1, <2>2, <2>3, MarkOrderSame
<1>14. CASE DrainReadGone \/ DrainTx \/ DrainTxFail \/ DrainIoFail \/ DrainClear \/ DrainUnlink
  <2>1. /\ queue' \subseteq queue /\ drain.pc # "recv" /\ drain'.name = drain.name
        /\ drain'.mark = drain.mark /\ drain'.pc \in {"clear", "unlink", "finish"}
        /\ \/ drain.pc \in {"tx", "unlink"}
           \/ drain'.pc = "finish" /\ drain.pc = "clear" /\ drain'.out = drain.out
           \/ drain'.pc = "clear" /\ drain'.out # "some"
        /\ UNCHANGED <<overlay, writer, scan, chan, phase, seq, newest, nextVid>>
    BY <1>14 DEF DrainReadGone, DrainTx, DrainTxFail, DrainIoFail, DrainClear, DrainUnlink,
       durable, ram, history, TypeOK, DrainState
  <2>2. Known' \subseteq Known
    BY <2>1 DEF Known
  <2>3. KnownNames' \subseteq KnownNames
    BY <2>1 DEF KnownNames
  <2> QED
    BY <1>a, <2>1, <2>2, <2>3, MarkOrderSame
<1>20. CASE DrainFinish
  <2>1. /\ overlay' \subseteq overlay /\ drain'.pc = "recv" /\ drain.pc = "finish"
        /\ UNCHANGED <<queue, writer, scan, chan, phase, seq, newest, nextVid>>
    BY <1>20 DEF DrainFinish, Withdrawn, durable, history, IdleDrain
  <2>2. Known' \subseteq Known
    BY <2>1 DEF Known
  <2>3. KnownNames' \subseteq KnownNames
    BY <2>1 DEF KnownNames
  <2> QED
    BY <1>a, <2>1, <2>2, <2>3, MarkOrderSame
<1>21. CASE ScanList
  <2>1. /\ scan'.todo = NamesIn(queue) /\ phase # "down"
        /\ UNCHANGED <<queue, overlay, writer, drain, chan, phase, seq, newest, nextVid>>
    BY <1>21 DEF ScanList, durable, ram, history
  <2>2. Known' = Known /\ queue \subseteq Known
    BY <2>1 DEF Known
  <2>3. \A n \in KnownNames' : n \in KnownNames \/ \E m \in queue : n = FileName(m)
    BY <2>1 DEF KnownNames, NamesIn
  <2> QED
    BY <1>a, <2>1, <2>2, <2>3, MarkOrderFrame DEF TypeOK, WriterState
<1>22. ASSUME NEW name \in scan.todo, ScanSend(name) PROVE MarkOrder'
  <2>1. /\ scan'.todo \subseteq scan.todo /\ phase # "down"
        /\ chan' = chan \/ chan' = Append(chan, name)
        /\ UNCHANGED <<queue, overlay, writer, drain, phase, seq, newest, nextVid>>
    BY <1>22 DEF ScanSend, durable, history, TypeOK, ScanState
  <2>2. \A k \in 1 .. Len(chan') : chan'[k] \in {chan[j] : j \in 1 .. Len(chan)} \union {name}
    <3>1. CASE chan' = chan
      BY <3>1
    <3>2. CASE chan' = Append(chan, name)
      BY <3>2 DEF TypeOK, ScanState
    <3> QED
      BY <2>1, <3>1, <3>2
  <2>3. Known' = Known
    BY <2>1 DEF Known
  <2>4. KnownNames' \subseteq KnownNames
    BY <2>1, <2>2 DEF KnownNames
  <2> QED
    BY <1>a, <2>1, <2>3, <2>4, MarkOrderSame
<1>23. CASE ScanDone
  <2>1. /\ scan'.todo = {} /\ phase # "down"
        /\ phase' = "up"
        /\ UNCHANGED <<queue, overlay, writer, drain, chan, seq, newest, nextVid>>
    BY <1>23 DEF ScanDone, durable, history, IdleScan
  <2>2. Known' = Known
    BY <2>1 DEF Known
  <2>3. KnownNames' \subseteq KnownNames
    BY <2>1 DEF KnownNames
  <2> QED
    BY <1>a, <2>1, <2>2, <2>3, MarkOrderSame
<1>24. CASE StartList
  <2>1. /\ phase = "down" /\ phase' = "rebuild" /\ scan'.todo = NamesIn(queue)
        /\ \A m \in queue : m.seq < seq'
        /\ writer.pc = "idle" /\ drain.pc = "recv" /\ chan = <<>> /\ overlay = {}
        /\ UNCHANGED <<queue, overlay, writer, drain, chan, newest, nextVid>>
    BY <1>24 DEF StartList, durable, history, Shown, TypeOK, Marker
  <2>2. Known' = Known /\ Known = queue
    BY <2>1 DEF Known
  <2>3. \A n \in KnownNames' : n \in FileNames /\ \E m \in queue : n = FileName(m)
    BY <1>a, <2>1, <2>2 DEF KnownNames, NamesIn
  <2>4. \A n \in KnownNames' : n[1] < seq'
    BY <1>a, <2>1, <2>2, <2>3
  <2> QED
    BY <2>1, <2>2, <2>3, <2>4 DEF MarkOrder
<1>25. CASE StartRebuild
  <2>1. /\ scan'.todo = {} /\ phase # "down" /\ overlay' \subseteq queue
        /\ phase' = "starting"
        /\ UNCHANGED <<queue, writer, drain, chan, seq, newest, nextVid>>
    BY <1>25 DEF StartRebuild, durable, history, IdleScan
  <2>2. Known' \subseteq Known
    BY <2>1 DEF Known
  <2>3. KnownNames' \subseteq KnownNames
    BY <2>1 DEF KnownNames
  <2> QED
    BY <1>a, <2>1, <2>2, <2>3, MarkOrderSame
<1>26. CASE Crash
  <2>1. /\ scan'.todo = {} /\ overlay' = {} /\ chan' = <<>> /\ phase' = "down"
        /\ writer'.pc = "idle" /\ drain'.pc = "recv"
        /\ UNCHANGED <<queue, newest, nextVid>>
    BY <1>26 DEF Crash, durable, IdleScan, IdleWriter, IdleDrain
  <2>2. Known' \subseteq Known
    BY <2>1 DEF Known
  <2>3. KnownNames' = {}
    BY <2>1 DEF KnownNames
  <2> QED
    BY <1>a, <2>1, <2>2, <2>3, MarkOrderFrame
<1> QED
  BY <1>1, <1>2, <1>3, <1>4, <1>5, <1>6, <1>7, <1>8, <1>9, <1>10, <1>11, <1>13, <1>14,
     <1>20, <1>21, <1>22, <1>23, <1>24, <1>25, <1>26
  DEF Next, Writer, DrainStep, DrainFailure, ScanStep, StartStep

(* What a step that touches neither the overlay nor the running request    *)
(* leaves to show.                                                         *)
LEMMA ShownSame ==
    ASSUME Shown, overlay' = overlay, queue' \subseteq queue, live' \subseteq live,
           newest' = newest, phase' = phase,
           writer' = writer \/ (writer.pc # "publish" /\ writer'.pc # "publish"),
           phase = "rebuild" => UNCHANGED <<scan, chan, drain>>,
           \/ drain'.pc \notin {"clear", "finish"} \/ drain'.out # "some"
           \/ UNCHANGED drain
           \/ FileName(drain'.mark) = drain'.name /\ drain'.name \notin NamesIn(queue)'
    PROVE  Shown'
<1>1. drain'.pc \in {"clear", "finish"} /\ drain'.out = "some" =>
          FileName(drain'.mark) = drain'.name /\ drain'.name \notin NamesIn(queue')
  BY DEF Shown, NamesIn
<1>2. phase' = "rebuild" => overlay' = {} /\ chan' = <<>> /\ drain'.pc = "recv"
                             /\ NamesIn(queue') \subseteq scan'.todo
  BY DEF Shown, NamesIn
<1>3. phase' \in {"starting", "up"} => \A m \in queue' :
          m.inode \in live' /\ m.vid = newest'[m.inode] =>
             m \in overlay' \/ (writer'.pc = "publish" /\ m = writer'.mark)
  BY DEF Shown
<1> QED
  BY <1>1, <1>2, <1>3 DEF Shown

LEMMA ShownStep ==
    ASSUME TypeOK, ThreadsOK, WriteIds, MarkOrder, Shown, [Next]_vars
    PROVE  Shown'
<1>0. DownIsIdle /\ QueueNames /\ WriterMark /\ DrainHolds
  BY DEF ThreadsOK
<1>a. /\ \A m \in queue : m \in Known /\ m \in Marker /\ FileName(m)[1] = m.seq
      /\ Shown /\ TypeOK
  BY DEF Known, TypeOK, FileName
<1> USE <1>0 DEF DownIsIdle
<1>1. CASE UNCHANGED vars
  BY <1>1, <1>a, ShownSame DEF vars, durable, ram, history
<1>2. ASSUME NEW i \in Inodes, NEW h \in Hashes, BeginWrite(i, h) PROVE Shown'
  BY <1>2, <1>a, ShownSame DEF BeginWrite, durable, Shown
<1>3. CASE \/ BeginWriteFail \/ Admit \/ AdmitTimeout \/ EnqueueFail
  BY <1>3, <1>a, ShownSame
  DEF BeginWriteFail, Admit, AdmitTimeout, EnqueueFail, durable, ram, history, IdleWriter,
      TypeOK, WriterState
<1>6. CASE Enqueue
  <2> DEFINE w == writer.mark
  <2>1. /\ writer.pc = "enqueue" /\ writer'.pc = "publish" /\ writer'.mark = w
        /\ newest' = [newest EXCEPT ![w.inode] = w.vid]
        /\ \A m \in queue' : m \in queue \/ m = w
        /\ UNCHANGED <<overlay, drain, scan, phase, live>> /\ phase = "up"
    BY <1>6 DEF Enqueue, ram, TypeOK, WriterState
  <2>2. w \in Marker /\ w.inode \in Inodes /\ w.vid \in Nat /\ newest[w.inode] < w.vid
    BY <2>1 DEF WriterMark, WriteIds, Marker
  <2>3. ASSUME NEW m \in queue', m.vid = newest'[m.inode], m.inode \in live
        PROVE  m \in overlay \/ m = w
    <3>1. CASE m \in queue /\ m.inode = w.inode
      <4>1. newest'[m.inode] = w.vid /\ newest[m.inode] \in Nat /\ m.vid \in Nat
        BY <1>a, <2>1, <2>2, <3>1 DEF TypeOK, Marker
      <4>2. m.vid <= newest[m.inode]
        BY <3>1 DEF WriteIds
      <4> QED
        BY <2>2, <2>3, <3>1, <4>1, <4>2
    <3>2. CASE m \in queue /\ m.inode # w.inode
      <4>1. newest'[m.inode] = newest[m.inode]
        BY <1>a, <2>1, <2>2, <3>2 DEF TypeOK, Marker
      <4> QED
        BY <2>1, <2>3, <3>2, <4>1 DEF Shown
    <3> QED
      BY <2>1, <2>3, <3>1, <3>2
  <2>4. ASSUME drain.pc \in {"clear", "finish"}, drain.out = "some"
        PROVE  FileName(drain.mark) = drain.name /\ drain.name \notin NamesIn(queue')
    <3>1. drain.name \in KnownNames
      BY <2>4 DEF KnownNames
    <3>2. drain.name[1] \in Nat /\ drain.name[1] < w.seq /\ FileName(w)[1] = w.seq
      BY <2>1, <3>1 DEF MarkOrder, FileNames, FileName
    <3>3. drain.name # FileName(w)
      BY <2>2, <3>2 DEF Marker
    <3> QED
      BY <2>1, <2>4, <3>3 DEF Shown, NamesIn
  <2> QED
    BY <2>1, <2>3, <2>4 DEF Shown
<1>8. CASE PublishOverlay
  <2> DEFINE w == writer.mark
  <2>1. /\ writer.pc = "publish" /\ writer'.pc = "send"
        /\ overlay' = {o \in overlay : o.inode # w.inode} \union {w}
        /\ UNCHANGED <<queue, newest, drain, scan, phase, live>> /\ phase = "up"
    BY <1>8 DEF PublishOverlay, Published, durable, history, TypeOK, WriterState
  <2>2. w \in Known /\ newest[w.inode] = w.vid
    BY <2>1 DEF Known, MarkOrder
  <2>3. ASSUME NEW m \in queue, m.inode \in live, m.vid = newest[m.inode]
        PROVE  m \in overlay'
    <3>1. CASE m.inode = w.inode
      <4>1. m.vid = w.vid /\ m \in Known
        BY <1>a, <2>2, <2>3, <3>1
      <4>2. /\ m.seq \in Nat /\ w.seq \in Nat /\ m.vid \in Nat /\ w.vid \in Nat
            /\ (m.seq < w.seq => m.vid < w.vid) /\ (w.seq < m.seq => w.vid < m.vid)
            /\ (m.seq = w.seq => m = w)
        BY <2>2, <4>1 DEF MarkOrder, Marker
      <4>3. m = w
        BY <4>1, <4>2
      <4> QED
        BY <2>1, <4>3
    <3>2. CASE m.inode # w.inode
      BY <2>1, <2>3, <3>2 DEF Shown
    <3> QED
      BY <3>1, <3>2
  <2> QED
    BY <2>1, <2>3 DEF Shown, NamesIn
<1>9. CASE SendToDrain
  BY <1>9, <1>a, ShownSame DEF SendToDrain, durable, IdleWriter, Shown
<1>10. ASSUME NEW i \in Inodes, DeleteInode(i) PROVE Shown'
  BY <1>10, <1>a, ShownSame DEF DeleteInode, ram, history, Shown
<1>11. CASE DrainRecv \/ DrainRecvReadFail
  BY <1>11, <1>a, ShownSame DEF DrainRecv, DrainRecvReadFail, durable, history, Shown
<1>13. ASSUME NEW m \in queue, DrainRead(m) PROVE Shown'
  BY <1>13, <1>a, ShownSame DEF DrainRead, durable, ram, history, TypeOK, DrainState, Shown
<1>14. CASE DrainReadGone \/ DrainTx \/ DrainTxFail \/ DrainIoFail
  BY <1>14, <1>a, ShownSame
  DEF DrainReadGone, DrainTx, DrainTxFail, DrainIoFail, durable, ram, history,
      TypeOK, DrainState, Shown
<1>17. CASE DrainUnlink
  <2>1. /\ drain.pc = "unlink" /\ drain'.pc = "clear"
        /\ drain'.mark = drain.mark /\ drain'.name = drain.name
        /\ queue' = {m \in queue : FileName(m) # drain.name}
        /\ UNCHANGED <<live, overlay, newest, phase, writer>> /\ phase # "rebuild"
    BY <1>17 DEF DrainUnlink, ram, history, TypeOK, DrainState, Shown
  <2> QED
    BY <2>1, <1>a, ShownSame DEF DrainHolds, NamesIn
<1>19. CASE DrainClear
  <2>1. /\ drain.pc = "clear" /\ drain'.pc = "finish" /\ drain'.mark = drain.mark
        /\ drain'.name = drain.name /\ drain'.out = drain.out
        /\ UNCHANGED <<queue, live, overlay, newest, phase, writer, scan>>
    BY <1>19 DEF DrainClear, durable, history, TypeOK, DrainState
  <2> QED
    BY <2>1, <1>a, ShownSame DEF Shown, NamesIn
<1>20. CASE DrainFinish
  <2>1. /\ drain.pc = "finish" /\ drain'.pc = "recv" /\ overlay' \subseteq overlay
        /\ UNCHANGED <<queue, newest, scan, phase, live, writer>>
        /\ \A o \in overlay : o \notin overlay' =>
              drain.out = "some" /\ FileName(o) = drain.name
    BY <1>20 DEF DrainFinish, Withdrawn, durable, history, IdleDrain
  <2>2. \A m \in queue : m \in overlay => m \in overlay'
    BY <2>1 DEF Shown, NamesIn
  <2> QED
    BY <2>1, <2>2 DEF Shown, NamesIn
<1>21. CASE ScanList
  BY <1>21, <1>a, ShownSame DEF ScanList, durable, ram, history
<1>22. ASSUME NEW name \in scan.todo, ScanSend(name) PROVE Shown'
  BY <1>22, <1>a, ShownSame DEF ScanSend, durable, history, Shown
<1>23. CASE ScanDone
  <2>1. /\ phase \in {"starting", "up"} /\ phase' = "up"
        /\ UNCHANGED <<queue, live, overlay, newest, writer, drain>>
    BY <1>23 DEF ScanDone, durable, history, TypeOK
  <2> QED
    BY <2>1 DEF Shown, NamesIn
<1>24. CASE StartList
  BY <1>24 DEF StartList, durable, history, Shown, NamesIn
<1>25. CASE StartRebuild
  <2> DEFINE listed == {m \in queue : FileName(m) \in scan.todo}
  <2>1. /\ phase = "rebuild" /\ phase' = "starting"
        /\ overlay' = {m \in listed : \A o \in listed : o.inode = m.inode => o.seq <= m.seq}
        /\ UNCHANGED <<queue, live, newest, drain, writer>> /\ drain.pc = drain'.pc
    BY <1>25 DEF StartRebuild, durable, history
  <2>2. listed = queue
    BY <2>1 DEF Shown, NamesIn
  <2>3. \A m, o \in queue : /\ m.seq \in Nat /\ o.seq \in Nat /\ m.vid \in Nat /\ o.vid \in Nat
                            /\ m.seq < o.seq => m.vid < o.vid
                            /\ m.seq = o.seq => m = o
    BY <1>a DEF MarkOrder, Marker
  <2>4. \A m, o \in overlay' : m.inode = o.inode => m = o
    BY <2>1, <2>2, <2>3
  <2>5. ASSUME NEW m \in queue, m.vid = newest[m.inode]
        PROVE  m \in overlay'
    <3>1. ASSUME NEW o \in queue, o.inode = m.inode PROVE o.seq <= m.seq
      <4>1. o.vid <= m.vid
        BY <2>5, <3>1 DEF WriteIds
      <4> QED
        BY <2>3, <4>1
    <3> QED
      BY <2>1, <2>2, <3>1
  <2> QED
    BY <2>1, <2>4, <2>5 DEF Shown, NamesIn
<1>26. CASE Crash
  BY <1>26 DEF Crash, durable, IdleDrain, IdleWriter, Shown
<1> QED
  BY <1>1, <1>2, <1>3, <1>6, <1>8, <1>9, <1>10, <1>11, <1>13, <1>14, <1>17, <1>19,
     <1>20, <1>21, <1>22, <1>23, <1>24, <1>25, <1>26
  DEF Next, Writer, DrainStep, DrainFailure, ScanStep, StartStep

----------------------------------------------------------------------------
(* While no call fails.                                                    *)

(* What a step that hands nothing over leaves in order.                    *)
LEMMA InOrderFrame ==
    ASSUME InOrder, queue' \subseteq queue, chan' = chan, UNCHANGED <<phase, scan>>,
           \A n \in inflight' : n \in inflight
              /\ \/ drain'.pc \in {"read", "tx", "unlink", "clear"} /\ drain'.name = drain.name
                 \/ UNCHANGED drain
                 \/ n # drain.name,
           \A m \in queue' : drain.pc \in {"read", "tx", "unlink"} /\ drain.name = FileName(m)
              => drain'.pc \in {"read", "tx", "unlink"} /\ drain'.name = FileName(m),
           drain'.pc \in {"read", "tx", "unlink"} =>
              drain.pc \in {"read", "tx", "unlink"} /\ drain'.name = drain.name,
           drain'.pc \in {"clear", "finish"} => drain'.name \notin NamesIn(queue'),
           drain.pc = "recv" => drain'.pc = "recv",
           writer.pc \in {"publish", "send"} =>
              writer'.pc \in {"publish", "send"} /\ writer'.mark = writer.mark
    PROVE  InOrder'
<1>1. Quiet' = Quiet /\ \A m \in queue' : ToBeSent(m) => ToBeSent(m)'
  BY DEF Quiet, ToBeSent
<1>2. \A m \in queue' : (Held(FileName(m)) => Held(FileName(m))')
                        /\ (Handed(FileName(m)) => Handed(FileName(m))')
  BY DEF Held, Handed
<1>3. Quiet' => chan' = <<>> /\ drain'.pc = "recv" /\ inflight' = {}
  BY <1>1 DEF InOrder
<1>4. \A m \in queue' : Handed(FileName(m))' \/ ToBeSent(m)'
  BY <1>1, <1>2 DEF InOrder
<1>5. \A n \in inflight' :
         \/ \E k \in 1 .. Len(chan') : chan'[k] = n
         \/ drain'.pc \in {"read", "tx", "unlink", "clear"} /\ drain'.name = n
  BY DEF InOrder
<1>6. \A k \in 1 .. Len(chan') : \A m \in queue' :
          m.seq < chan'[k][1] =>
             Held(FileName(m))' \/ \E j \in 1 .. k - 1 : chan'[j] = FileName(m)
  BY <1>2 DEF InOrder
<1>7. drain'.pc \in {"read", "tx", "unlink"} => \A m \in queue' : drain'.name[1] <= m.seq
  BY DEF InOrder
<1> QED
  BY <1>3, <1>4, <1>5, <1>6, <1>7 DEF InOrder, NamesIn

(* What is appended to the channel keeps the order when everything older   *)
(* has been handed over.                                                   *)
LEMMA InOrderAppend ==
    ASSUME TypeOK, InOrder, NEW name \in FileNames, ~Quiet, ~Quiet',
           chan' = Append(chan, name), inflight' = inflight \union {name},
           UNCHANGED <<queue, drain>>,
           \A m \in queue : m.seq < name[1] => Handed(FileName(m)),
           \A m \in queue : ToBeSent(m) => FileName(m) = name \/ ToBeSent(m)'
    PROVE  InOrder'
<1>1. /\ Len(chan') = Len(chan) + 1 /\ Len(chan) \in Nat
      /\ \A k \in 1 .. Len(chan) : chan'[k] = chan[k]
      /\ chan'[Len(chan) + 1] = name
  BY DEF TypeOK
<1>2. \A n : Held(n)' = Held(n)
  BY DEF Held
<1>3. \A k \in 1 .. Len(chan) : k \in 1 .. Len(chan')
  BY <1>1
<1>4. Len(chan) + 1 \in 1 .. Len(chan')
  BY <1>1
<1>5. \A n : Handed(n) => Handed(n)'
  BY <1>1, <1>2, <1>3 DEF Handed
<1>6. Handed(name)'
  BY <1>1, <1>4 DEF Handed
<1>7. \A m \in queue' : Handed(FileName(m))' \/ ToBeSent(m)'
  BY <1>5, <1>6 DEF InOrder
<1>8. \A n \in inflight' :
         \/ \E k \in 1 .. Len(chan') : chan'[k] = n
         \/ drain'.pc \in {"read", "tx", "unlink", "clear"} /\ drain'.name = n
  <2> SUFFICES ASSUME NEW n \in inflight'
               PROVE  \/ \E k \in 1 .. Len(chan') : chan'[k] = n
                      \/ drain'.pc \in {"read", "tx", "unlink", "clear"} /\ drain'.name = n
    OBVIOUS
  <2>1. CASE n = name
    BY <1>1, <1>4, <2>1
  <2>2. CASE n \in inflight
    BY <1>1, <1>3, <2>2 DEF InOrder
  <2> QED
    BY <2>1, <2>2
<1>9. ASSUME NEW k \in 1 .. Len(chan'), NEW m \in queue', m.seq < chan'[k][1]
      PROVE  Held(FileName(m))' \/ \E j \in 1 .. k - 1 : chan'[j] = FileName(m)
  <2>1. CASE k \in 1 .. Len(chan)
    <3>1. Held(FileName(m)) \/ \E j \in 1 .. k - 1 : chan[j] = FileName(m)
      BY <1>1, <1>9, <2>1 DEF InOrder
    <3>2. \A j \in 1 .. k - 1 : chan'[j] = chan[j]
      BY <1>1, <2>1
    <3> QED
      BY <1>2, <3>1, <3>2
  <2>2. CASE k = Len(chan) + 1
    <3>1. Handed(FileName(m)) /\ k - 1 = Len(chan)
      BY <1>1, <1>9, <2>2
    <3> QED
      BY <1>1, <1>2, <3>1 DEF Handed
  <2> QED
    BY <1>1, <2>1, <2>2
<1> QED
  BY <1>7, <1>8, <1>9 DEF InOrder, NamesIn

LEMMA InOrderStep ==
    ASSUME TypeOK, ThreadsOK, MarkOrder, InOrder, fails = 0, fails' = 0, [Next]_vars
    PROVE  InOrder'
<1>0. DownIsIdle /\ QueueNames /\ WriterMark /\ DrainHolds
  BY DEF ThreadsOK
<1>a. /\ \A m \in queue : m \in Known /\ m \in Marker /\ m.seq \in Nat
                          /\ FileName(m) \in FileNames /\ FileName(m)[1] = m.seq
      /\ InOrder /\ TypeOK
  BY DEF Known, TypeOK, FileName, FileNames, Marker
<1> USE <1>0 DEF DownIsIdle
<1>b. ~Fail
  BY DEF Fail
<1>c. \A m \in queue : FileName(m) \in inflight => Handed(FileName(m))
  BY DEF InOrder, Handed, Held, NamesIn
<1>1. CASE UNCHANGED vars
  BY <1>1 DEF vars, durable, ram, history, InOrder, Quiet, ToBeSent, Handed, Held, NamesIn
<1>2. ASSUME NEW i \in Inodes, NEW h \in Hashes, BeginWrite(i, h) PROVE InOrder'
  <2>1. UNCHANGED <<queue, chan, phase, scan, inflight, drain>> /\ writer.pc = "idle"
    BY <1>2 DEF BeginWrite, durable
  <2> QED
    BY <1>a, <2>1, InOrderFrame DEF InOrder
<1>3. CASE Admit \/ AdmitTimeout \/ PublishOverlay
  <2>1. /\ UNCHANGED <<queue, chan, phase, scan, inflight, drain>>
        /\ writer.pc \in {"publish", "send"} =>
              writer'.pc \in {"publish", "send"} /\ writer'.mark = writer.mark
    BY <1>3 DEF Admit, AdmitTimeout, PublishOverlay, durable, ram, history, TypeOK, WriterState
  <2> QED
    BY <1>a, <2>1, InOrderFrame DEF InOrder
<1>6. CASE Enqueue
  <2> DEFINE w == writer.mark
  <2>1. /\ writer.pc = "enqueue" /\ writer'.pc = "publish" /\ writer'.mark = w
        /\ \A m \in queue' : m \in queue \/ m = w
        /\ UNCHANGED <<inflight, chan, drain, scan, phase>> /\ phase = "up"
    BY <1>6 DEF Enqueue, ram, TypeOK, WriterState
  <2>2. w \in Marker /\ w.seq \in Nat /\ FileName(w)[1] = w.seq
    BY <2>1 DEF WriterMark, Marker, FileName
  <2>3. \A n \in KnownNames : n \in FileNames /\ n[1] \in Nat /\ n[1] < w.seq /\ n # FileName(w)
    BY <2>1, <2>2 DEF MarkOrder, FileNames
  <2>4. /\ \A k \in 1 .. Len(chan) : chan[k] \in KnownNames
        /\ drain.pc # "recv" => drain.name \in KnownNames
    BY DEF KnownNames
  <2>5. \A n : Held(n)' = Held(n) /\ Handed(n)' = Handed(n)
    BY <2>1 DEF Held, Handed
  <2>6. ~Quiet /\ ~Quiet' /\ ToBeSent(w)'
    BY <2>1 DEF Quiet, ToBeSent
  <2>7. \A m \in queue : Handed(FileName(m))
    <3> SUFFICES ASSUME NEW m \in queue PROVE Handed(FileName(m))
      OBVIOUS
    <3>1. ~ToBeSent(m)
      BY <2>1, <2>6 DEF ToBeSent
    <3> QED
      BY <3>1 DEF InOrder
  <2>8. ASSUME NEW k \in 1 .. Len(chan), NEW m \in queue', m.seq < chan[k][1]
        PROVE  Held(FileName(m)) \/ \E j \in 1 .. k - 1 : chan[j] = FileName(m)
    <3>1. chan[k][1] \in Nat /\ chan[k][1] < w.seq
      BY <2>3, <2>4
    <3>2. m \in queue
      BY <2>1, <2>2, <2>8, <3>1
    <3> QED
      BY <2>8, <3>2 DEF InOrder
  <2>9. drain.pc \in {"read", "tx", "unlink"} => \A m \in queue' : drain.name[1] <= m.seq
    BY <2>1, <2>2, <2>3, <2>4 DEF InOrder
  <2>10. drain.pc \in {"clear", "finish"} => drain.name \notin NamesIn(queue')
    BY <2>1, <2>3, <2>4 DEF InOrder, NamesIn
  <2>11. \A m \in queue' : Handed(FileName(m))' \/ ToBeSent(m)'
    BY <2>1, <2>5, <2>6, <2>7
  <2>12. \A n \in inflight' :
         \/ \E k \in 1 .. Len(chan') : chan'[k] = n
         \/ drain'.pc \in {"read", "tx", "unlink", "clear"} /\ drain'.name = n
    BY <2>1 DEF InOrder
  <2> QED
    BY <2>1, <2>5, <2>6, <2>8, <2>9, <2>10, <2>11, <2>12 DEF InOrder, NamesIn
<1>9. CASE SendToDrain
  <2> DEFINE w == writer.mark
  <2>1. /\ writer.pc = "send" /\ chan' = Append(chan, FileName(w))
        /\ inflight' = inflight \union {FileName(w)}
        /\ UNCHANGED <<queue, drain, phase, scan>> /\ phase = "up"
    BY <1>9 DEF SendToDrain, durable
  <2>2. w \in Marker /\ FileName(w) \in FileNames /\ w.seq \in Nat /\ FileName(w)[1] = w.seq
    BY <2>1 DEF WriterMark, FileName, FileNames, Marker
  <2>3. ~Quiet /\ ~Quiet' /\ \A m \in queue : ToBeSent(m) => m = w
    BY <2>1 DEF Quiet, ToBeSent
  <2>4. \A m \in queue : m.seq < w.seq => Handed(FileName(m))
    BY <2>2, <2>3 DEF InOrder
  <2> HIDE DEF w
  <2> QED
    BY <1>a, <2>1, <2>2, <2>3, <2>4, InOrderAppend
<1>10. ASSUME NEW i \in Inodes, DeleteInode(i) PROVE InOrder'
  <2>1. UNCHANGED <<queue, chan, phase, scan, inflight, drain, writer>>
    BY <1>10 DEF DeleteInode, ram, history
  <2> QED
    BY <1>a, <2>1, InOrderFrame DEF InOrder
<1>11. CASE DrainRecv
  <2>1. /\ chan # <<>> /\ chan' = Tail(chan) /\ drain.pc = "recv"
        /\ drain'.pc = "read" /\ drain'.name = Head(chan)
        /\ UNCHANGED <<queue, inflight, writer, scan, phase>>
    BY <1>11 DEF DrainRecv, durable, history
  <2>2. /\ Len(chan) \in Nat /\ Len(chan) > 0 /\ Len(chan') = Len(chan) - 1
        /\ \A k \in 1 .. Len(chan') : chan'[k] = chan[k + 1]
        /\ Head(chan) = chan[1] /\ chan[1] \in FileNames
    BY <2>1 DEF TypeOK
  <2>3. \A k \in 1 .. Len(chan) : k = 1 \/ (k - 1 \in 1 .. Len(chan') /\ chan'[k - 1] = chan[k])
    BY <2>2
  <2>4. ~Quiet /\ ~Quiet' /\ \A m : ToBeSent(m)' = ToBeSent(m)
    BY <2>1 DEF Quiet, ToBeSent, InOrder
  <2>5. \A n : ~Held(n) /\ (Held(n)' <=> n = chan[1])
    BY <2>1, <2>2 DEF Held
  <2>6. \A n : Handed(n) => Handed(n)'
    BY <2>3, <2>5 DEF Handed
  <2>7. \A m \in queue' : Handed(FileName(m))' \/ ToBeSent(m)'
    BY <2>1, <2>4, <2>6 DEF InOrder
  <2>8. \A n \in inflight' :
         \/ \E k \in 1 .. Len(chan') : chan'[k] = n
         \/ drain'.pc \in {"read", "tx", "unlink", "clear"} /\ drain'.name = n
    <3> SUFFICES ASSUME NEW n \in inflight
                 PROVE  (\E k \in 1 .. Len(chan') : chan'[k] = n) \/ n = chan[1]
      BY <2>1, <2>2
    <3>1. PICK k \in 1 .. Len(chan) : chan[k] = n
      BY <2>1 DEF InOrder
    <3> QED
      BY <2>3, <3>1
  <2>9. ASSUME NEW k \in 1 .. Len(chan'), NEW m \in queue', m.seq < chan'[k][1]
        PROVE  Held(FileName(m))' \/ \E j \in 1 .. k - 1 : chan'[j] = FileName(m)
    <3>1. k + 1 \in 1 .. Len(chan) /\ m.seq < chan[k + 1][1] /\ m \in queue
      BY <2>1, <2>2, <2>9
    <3>2. PICK j \in 1 .. (k + 1) - 1 : chan[j] = FileName(m)
      BY <2>5, <3>1 DEF InOrder
    <3>3. CASE j = 1
      BY <2>5, <3>2, <3>3
    <3>4. CASE j # 1
      <4>1. j - 1 \in 1 .. k - 1 /\ chan'[j - 1] = chan[j]
        BY <2>2, <3>1, <3>2, <3>4
      <4> QED
        BY <3>2, <4>1
    <3> QED
      BY <3>3, <3>4
  <2>10. \A m \in queue' : drain'.name[1] <= m.seq
    <3> SUFFICES ASSUME NEW m \in queue, m.seq < chan[1][1] PROVE FALSE
      BY <1>a, <2>1, <2>2 DEF FileNames
    <3>1. 1 \in 1 .. Len(chan)
      BY <2>2
    <3> QED
      BY <2>5, <3>1 DEF InOrder
  <2> QED
    BY <2>1, <2>4, <2>7, <2>8, <2>9, <2>10 DEF InOrder
<1>13. ASSUME NEW m \in queue, DrainRead(m) PROVE InOrder'
  <2>1. /\ drain.pc = "read" /\ drain'.pc = "tx" /\ drain'.name = drain.name
        /\ UNCHANGED <<queue, chan, phase, scan, inflight, writer>>
    BY <1>13 DEF DrainRead, durable, ram, history, TypeOK, DrainState
  <2> QED
    BY <1>a, <2>1, InOrderFrame DEF InOrder
<1>14. CASE DrainReadGone
  <2>1. /\ drain.pc = "read" /\ drain'.pc = "clear" /\ drain'.name = drain.name
        /\ drain.name \notin NamesIn(queue)
        /\ UNCHANGED <<queue, chan, phase, scan, inflight, writer>>
    BY <1>14 DEF DrainReadGone, durable, ram, history, TypeOK, DrainState, ReadMarker, NamesIn
  <2> QED
    BY <1>a, <2>1, InOrderFrame DEF InOrder, NamesIn
<1>15. CASE DrainTx
  <2>1. /\ drain.pc = "tx" /\ drain'.pc = "unlink" /\ drain'.name = drain.name
        /\ UNCHANGED <<queue, chan, phase, scan, inflight, writer>>
    BY <1>15 DEF DrainTx, ram, history, TypeOK, DrainState
  <2> QED
    BY <1>a, <2>1, InOrderFrame DEF InOrder
<1>17. CASE DrainUnlink
  <2>1. /\ drain.pc = "unlink" /\ drain'.pc = "clear" /\ drain'.name = drain.name
        /\ queue' = {m \in queue : FileName(m) # drain.name}
        /\ UNCHANGED <<chan, phase, scan, inflight, writer>>
    BY <1>17 DEF DrainUnlink, ram, history, TypeOK, DrainState
  <2> QED
    BY <1>a, <2>1, InOrderFrame DEF InOrder, NamesIn
<1>19. CASE DrainClear
  <2>1. /\ drain.pc = "clear" /\ drain'.pc = "finish" /\ drain'.name = drain.name
        /\ inflight' = inflight \ {drain.name}
        /\ UNCHANGED <<queue, chan, phase, scan, writer>>
    BY <1>19 DEF DrainClear, durable, history, TypeOK, DrainState
  <2> QED
    BY <1>a, <2>1, InOrderFrame DEF InOrder
<1>20. CASE DrainFinish
  <2>1. /\ drain.pc = "finish" /\ drain'.pc = "recv"
        /\ UNCHANGED <<queue, chan, phase, scan, inflight, writer>>
    BY <1>20 DEF DrainFinish, durable, history, IdleDrain
  <2>2. \A n \in inflight : \E k \in 1 .. Len(chan) : chan[k] = n
    BY <2>1 DEF InOrder
  <2> QED
    BY <2>1, <2>2 DEF InOrder, Quiet, ToBeSent, Handed, Held
<1>21. CASE ScanList
  <2>1. /\ phase \in {"starting", "up"} /\ scan'.pc = "send" /\ scan'.todo = NamesIn(queue)
        /\ UNCHANGED <<queue, inflight, writer, drain, chan, phase>>
    BY <1>21 DEF ScanList, durable, ram, history
  <2>2. ~Quiet' /\ \A n : Held(n)' = Held(n) /\ Handed(n)' = Handed(n)
    BY <2>1 DEF Quiet, Held, Handed
  <2>3. \A m \in queue : ToBeSent(m) => ToBeSent(m)'
    BY <2>1 DEF ToBeSent, Quiet, NamesIn
  <2> QED
    BY <2>1, <2>2, <2>3 DEF InOrder, NamesIn
<1>22. ASSUME NEW name \in scan.todo, ScanSend(name) PROVE InOrder'
  <2>1. /\ scan.pc = "send" /\ \A other \in scan.todo : name[1] <= other[1]
        /\ scan'.todo = scan.todo \ {name} /\ scan'.pc = "send"
        /\ inflight' = inflight \union {name}
        /\ UNCHANGED <<queue, writer, drain, phase>> /\ phase \notin {"down", "rebuild"}
    BY <1>22 DEF ScanSend, durable, history, TypeOK, ScanState
  <2>2. ~Quiet /\ ~Quiet' /\ name \in FileNames /\ name[1] \in Nat
    BY <2>1 DEF Quiet, TypeOK, ScanState, FileNames
  <2>3. \A m \in queue : ToBeSent(m) => FileName(m) = name \/ ToBeSent(m)'
    BY <2>1, <2>2 DEF ToBeSent
  <2>4. CASE name \in inflight
    <3>1. chan' = chan /\ inflight' = inflight
      BY <1>22, <2>1, <2>4 DEF ScanSend
    <3>2. \A n : Held(n)' = Held(n) /\ Handed(n)' = Handed(n)
      BY <2>1, <3>1 DEF Held, Handed
    <3>3. \A m \in queue' : Handed(FileName(m))' \/ ToBeSent(m)'
      BY <1>c, <2>1, <2>3, <2>4, <3>2 DEF InOrder
    <3> QED
      BY <2>1, <2>2, <3>1, <3>2, <3>3 DEF InOrder, NamesIn
  <2>5. CASE name \notin inflight
    <3>1. chan' = Append(chan, name)
      BY <1>22, <2>5 DEF ScanSend
    <3>2. ASSUME NEW m \in queue, m.seq < name[1] PROVE Handed(FileName(m))
      <4>1. ~(writer.pc \in {"publish", "send"} /\ m = writer.mark)
        BY <1>a, <2>2, <3>2 DEF MarkOrder, KnownNames
      <4>2. FileName(m) \notin scan.todo
        BY <1>a, <2>1, <2>2, <3>2
      <4> QED
        BY <2>2, <4>1, <4>2 DEF InOrder, ToBeSent
    <3> QED
      BY <1>a, <2>1, <2>2, <2>3, <3>1, <3>2, InOrderAppend
  <2> QED
    BY <2>4, <2>5
<1>23. CASE ScanDone
  <2>1. /\ scan.pc = "send" /\ scan.todo = {} /\ phase \in {"starting", "up"} /\ phase' = "up"
        /\ UNCHANGED <<queue, inflight, writer, drain, chan>>
    BY <1>23 DEF ScanDone, durable, history, TypeOK
  <2>2. ~Quiet /\ ~Quiet' /\ \A n : Held(n)' = Held(n) /\ Handed(n)' = Handed(n)
    BY <2>1 DEF Quiet, Held, Handed
  <2>3. \A m \in queue : ToBeSent(m) => ToBeSent(m)'
    BY <2>1, <2>2 DEF ToBeSent
  <2> QED
    BY <2>1, <2>2, <2>3 DEF InOrder, NamesIn
<1>24. CASE StartList \/ StartRebuild
  <2>1. /\ phase \in {"down", "rebuild"} /\ scan'.pc = "sleep" /\ phase' \in {"rebuild", "starting"}
        /\ UNCHANGED <<queue, inflight, writer, drain, chan>>
    BY <1>24 DEF StartList, StartRebuild, durable, history, IdleScan
  <2>2. Quiet /\ Quiet' /\ \A m : ToBeSent(m)'
    BY <2>1 DEF Quiet, ToBeSent
  <2>3. chan = <<>> /\ drain.pc = "recv" /\ inflight = {}
    BY <2>2 DEF InOrder
  <2> QED
    BY <2>1, <2>2, <2>3 DEF InOrder
<1>26. CASE Crash
  <2>1. /\ phase' = "down" /\ chan' = <<>> /\ inflight' = {} /\ drain'.pc = "recv"
        /\ queue' = queue
    BY <1>26 DEF Crash, durable, IdleDrain
  <2>2. Quiet' /\ \A m : ToBeSent(m)'
    BY <2>1 DEF Quiet, ToBeSent
  <2> QED
    BY <2>1, <2>2 DEF InOrder
<1> QED
  BY <1>b, <1>1, <1>2, <1>3, <1>6, <1>9, <1>10, <1>11, <1>13, <1>14, <1>15, <1>17,
     <1>19, <1>20, <1>21, <1>22, <1>23, <1>24, <1>26
  DEF Next, Writer, DrainStep, DrainFailure, ScanStep, StartStep, BeginWriteFail,
      EnqueueFail, DrainRecvReadFail, DrainTxFail, DrainIoFail

(* The transaction of the oldest marker appends the newest version.        *)
LEMMA CommitRowOrder ==
    ASSUME TypeOK, NEW m \in Marker, CommitRow(m), Inserts(m), InWriteOrder(m.inode),
           \A v \in Rows(m.inode) : v < m.vid
    PROVE  InWriteOrder(m.inode)'
<1> DEFINE old == versions[m.inode]
<1>1. m.inode \in Inodes /\ m.vid \in Nat /\ old \in Seq(Nat)
  BY DEF Marker, TypeOK
<1>2. versions'[m.inode] = Append(old, m.vid)
  BY <1>1 DEF CommitRow, TypeOK
<1>3. /\ Len(versions'[m.inode]) = Len(old) + 1 /\ Len(old) \in Nat
      /\ versions'[m.inode][Len(old) + 1] = m.vid
      /\ \A k \in 1 .. Len(old) : versions'[m.inode][k] = old[k] /\ old[k] < m.vid
  BY <1>1, <1>2 DEF Rows
<1>4. \A j, k \in 1 .. Len(old) : j < k => old[j] < old[k]
  BY DEF InWriteOrder
<1> HIDE DEF old
<1>5. ASSUME NEW j \in 1 .. Len(old) + 1, NEW k \in 1 .. Len(old) + 1, j < k
      PROVE  versions'[m.inode][j] < versions'[m.inode][k]
  <2>1. j \in 1 .. Len(old)
    BY <1>3, <1>5
  <2>2. CASE k \in 1 .. Len(old)
    BY <1>3, <1>4, <1>5, <2>1, <2>2
  <2>3. CASE k = Len(old) + 1
    BY <1>3, <2>1, <2>3
  <2> QED
    BY <1>3, <2>2, <2>3
<1> QED
  BY <1>3, <1>5 DEF InWriteOrder

(* Queued markers, rows and the registry are of their types, and queued    *)
(* markers are in the order of their identities.                           *)
LEMMA QueueFacts ==
    ASSUME TypeOK, WriteIds, MarkOrder
    PROVE  /\ \A m \in queue : /\ m \in Known /\ m \in Marker /\ m.inode \in Inodes
                               /\ m.seq \in Nat /\ m.vid \in Nat /\ FileName(m)[1] = m.seq
           /\ \A m, o \in queue : /\ m.seq < o.seq => m.vid < o.vid
                                  /\ m.seq = o.seq => m = o
           /\ \A i \in Inodes : newest[i] \in Nat /\ current[i] \in Nat
           /\ \A i \in Inodes : \A v \in Rows(i) : v \in Nat /\ v <= newest[i]
           /\ TypeOK
<1>1. \A m \in queue : /\ m \in Known /\ m \in Marker
                       /\ FileName(m)[1] = m.seq
  BY DEF Known, MarkOrder, FileName
<1>2. \A m \in queue : m.inode \in Inodes /\ m.seq \in Nat /\ m.vid \in Nat
  BY <1>1 DEF Marker
<1>3. \A m, o \in queue : /\ m.seq < o.seq => m.vid < o.vid
                          /\ m.seq = o.seq => m = o
  BY <1>1 DEF MarkOrder
<1>4. \A i \in Inodes : newest[i] \in Nat /\ current[i] \in Nat
  BY DEF TypeOK
<1>5. \A i \in Inodes : \A v \in Rows(i) : v \in Nat /\ v <= newest[i]
  BY DEF TypeOK, WriteIds, Rows
<1> QED
  BY <1>1, <1>2, <1>3, <1>4, <1>5

(* The transaction of a marker that no queued marker precedes, whether the *)
(* drain runs it or another process.                                       *)
LEMMA CommittedTx ==
    ASSUME TypeOK, WriteIds, MarkOrder, Committed,
           NEW d \in Marker, d \in queue \/ ~Inserts(d), \A m \in queue : d.seq <= m.seq,
           CommitRow(d), UNCHANGED <<queue, live, newest>>
    PROVE  Committed'
<1>a. /\ \A m \in queue : /\ m \in Marker /\ m.inode \in Inodes
                          /\ m.seq \in Nat /\ m.vid \in Nat
      /\ \A m, o \in queue : /\ m.seq < o.seq => m.vid < o.vid
                             /\ m.seq = o.seq => m = o
      /\ \A i \in Inodes : newest[i] \in Nat /\ current[i] \in Nat
      /\ \A i \in Inodes : \A v \in Rows(i) : v \in Nat /\ v <= newest[i]
      /\ TypeOK
  BY QueueFacts
<1>1. CASE ~Inserts(d)
  BY <1>1 DEF CommitRow, Committed, InWriteOrder, Inserts, Rows
<1>2. CASE Inserts(d)
  <2>0. d \in queue /\ d.inode \in live
    BY <1>2 DEF Inserts
  <2>1. /\ Rows(d.inode)' = Rows(d.inode) \union {d.vid}
        /\ \A i \in Inodes : i # d.inode => Rows(i)' = Rows(i)
    BY <1>a, <1>2, CommitRowRows
  <2>2. \A v \in Rows(d.inode) : v < d.vid
    BY <1>2 DEF Committed
  <2>3. /\ versions' = [versions EXCEPT ![d.inode] = Append(@, d.vid)]
        /\ current' = [current EXCEPT ![d.inode] = d.vid]
    BY <1>2 DEF CommitRow
  <2>4. InWriteOrder(d.inode)'
    BY <1>a, <1>2, <2>2, CommitRowOrder DEF Committed
  <2>5. \A i \in Inodes : InWriteOrder(i)'
    <3> SUFFICES ASSUME NEW i \in Inodes, i # d.inode PROVE InWriteOrder(i)'
      BY <2>4
    <3>1. versions'[i] = versions[i]
      BY <1>a, <2>3 DEF TypeOK
    <3> QED
      BY <3>1 DEF Committed, InWriteOrder
  <2>6. ASSUME NEW m \in queue, Inserts(m)', NEW v \in Rows(m.inode)' PROVE v < m.vid
    <3>1. Inserts(m) /\ m # d
      <4>1. m.inode \in live /\ m.vid \notin Rows(m.inode)'
        BY <2>6 DEF Inserts
      <4> QED
        BY <1>a, <2>1, <4>1 DEF Inserts
    <3>2. d.vid < m.vid
      BY <1>a, <2>0, <3>1
    <3> QED
      BY <1>a, <2>1, <2>6, <3>1, <3>2 DEF Committed
  <2>7. ASSUME NEW i \in live
        PROVE  /\ \A v \in Rows(i)' : v <= current'[i]
               /\ current'[i] <= newest[i]
               /\ \/ current'[i] = newest[i]
                  \/ \E m \in queue : m.inode = i /\ m.vid = newest[i]
    <3>1. CASE i = d.inode
      <4>1. current'[i] = d.vid /\ d.vid <= newest[i] /\ d.vid \in Nat
        BY <1>a, <2>0, <2>3, <3>1 DEF TypeOK, WriteIds
      <4>2. \A v \in Rows(i)' : v <= d.vid
        BY <1>a, <2>0, <2>1, <2>2, <3>1, <4>1
      <4>3. \E m \in queue : m.inode = i /\ m.vid = newest[i]
        BY <2>0, <3>1 DEF Committed
      <4> QED
        BY <4>1, <4>2, <4>3
    <3>2. CASE i # d.inode
      BY <1>a, <2>1, <2>3, <3>2 DEF Committed, TypeOK
    <3> QED
      BY <3>1, <3>2
  <2> QED
    BY <2>5, <2>6, <2>7 DEF Committed
<1> QED
  BY <1>1, <1>2

(* The unlink of a marker that is committed and that no queued marker      *)
(* precedes.                                                               *)
LEMMA CommittedUnlink ==
    ASSUME TypeOK, WriteIds, MarkOrder, Committed,
           NEW d \in Marker, ~Inserts(d), \A m \in queue : d.seq <= m.seq,
           queue' \subseteq queue, \A m \in queue \ queue' : m = d,
           UNCHANGED <<versions, current, live, newest>>
    PROVE  Committed'
<1>a. /\ \A m \in queue : m.inode \in Inodes /\ m.seq \in Nat /\ m.vid \in Nat
      /\ \A m, o \in queue : /\ m.seq < o.seq => m.vid < o.vid
                             /\ m.seq = o.seq => m = o
      /\ \A i \in Inodes : newest[i] \in Nat /\ current[i] \in Nat
      /\ d.inode \in Inodes /\ d.seq \in Nat /\ TypeOK
  BY QueueFacts DEF Marker
<1>1. /\ \A i : Rows(i)' = Rows(i) /\ InWriteOrder(i)' = InWriteOrder(i)
      /\ \A m : Inserts(m)' = Inserts(m)
  BY DEF Rows, InWriteOrder, Inserts
<1>2. ASSUME NEW m \in queue', m.inode \in live
      PROVE  \E o \in queue' : o.inode = m.inode /\ o.vid = newest[m.inode]
  <2>1. PICK o \in queue : o.inode = m.inode /\ o.vid = newest[m.inode]
    BY <1>2 DEF Committed
  <2>2. CASE o \in queue'
    BY <2>1, <2>2
  <2>3. CASE o = d
    <3>1. m.vid <= newest[m.inode] /\ m \in queue /\ o.seq <= m.seq
      BY <2>3 DEF WriteIds
    <3>2. m = o
      BY <1>a, <2>1, <3>1
    <3> QED
      BY <2>1, <3>2
  <2> QED
    BY <2>1, <2>2, <2>3
<1>3. ASSUME NEW i \in live
      PROVE  \/ current[i] = newest[i]
             \/ \E m \in queue' : m.inode = i /\ m.vid = newest[i]
  <2>1. CASE d.inode = i /\ d.vid = newest[i]
    <3>1. d.vid \in Rows(i)
      BY <2>1 DEF Inserts
    <3> QED
      BY <1>a, <2>1, <3>1 DEF Committed, TypeOK
  <2>2. CASE ~(d.inode = i /\ d.vid = newest[i])
    BY <2>2 DEF Committed
  <2> QED
    BY <2>1, <2>2
<1> QED
  BY <1>1, <1>2, <1>3 DEF Committed

LEMMA CommittedStep ==
    ASSUME TypeOK, ThreadsOK, WriteIds, MarkOrder, InOrder, Committed,
           fails = 0, fails' = 0, [Next]_vars
    PROVE  Committed'
<1>0. DownIsIdle /\ QueueNames /\ WriterMark /\ DrainHolds
  BY DEF ThreadsOK
<1>a. /\ \A m \in queue : /\ m \in Known /\ m \in Marker /\ m.inode \in Inodes
                          /\ m.seq \in Nat /\ m.vid \in Nat /\ FileName(m)[1] = m.seq
      /\ \A m, o \in queue : /\ m.seq < o.seq => m.vid < o.vid
                             /\ m.seq = o.seq => m = o
      /\ \A i \in Inodes : newest[i] \in Nat /\ current[i] \in Nat
      /\ \A i \in Inodes : \A v \in Rows(i) : v \in Nat /\ v <= newest[i]
      /\ TypeOK
  BY QueueFacts
<1>b. ~Fail
  BY DEF Fail, TypeOK
<1>1. ASSUME UNCHANGED <<queue, versions, current, live, newest>> PROVE Committed'
  BY <1>1 DEF Committed, InWriteOrder, Inserts, Rows
<1>2. CASE Enqueue
  <2> DEFINE w == writer.mark
  <2>1. /\ writer.pc = "enqueue"
        /\ newest' = [newest EXCEPT ![w.inode] = w.vid]
        /\ queue' = {m \in queue : FileName(m) # FileName(w)} \union {w}
        /\ UNCHANGED <<versions, current, live>>
    BY <1>2 DEF Enqueue
  <2>2. /\ w \in Marker /\ w.inode \in Inodes /\ w.vid \in Nat /\ newest[w.inode] < w.vid
        /\ \A m \in queue : m.seq < w.seq /\ FileName(w)[1] = w.seq
    BY <2>1, <1>0 DEF WriterMark, WriteIds, Marker, FileName
  <2>3. queue' = queue \union {w}
    BY <1>a, <2>1, <2>2 DEF Marker
  <2>4. /\ newest'[w.inode] = w.vid
        /\ \A i \in Inodes : i # w.inode => newest'[i] = newest[i]
    BY <2>1, <2>2 DEF TypeOK
  <2>5. /\ \A i : Rows(i)' = Rows(i) /\ InWriteOrder(i)' = InWriteOrder(i)
        /\ \A m : Inserts(m)' = Inserts(m)
    BY <2>1 DEF Rows, InWriteOrder, Inserts
  <2>6. \A v \in Rows(w.inode) : v < w.vid
    BY <1>a, <2>2
  <2>7. \A m \in queue' : Inserts(m)' => \A v \in Rows(m.inode)' : v < m.vid
    BY <2>3, <2>5, <2>6 DEF Committed
  <2>8. ASSUME NEW i \in live'
        PROVE  /\ \A v \in Rows(i)' : v <= current'[i]
               /\ current'[i] <= newest'[i]
               /\ \/ current'[i] = newest'[i]
                  \/ \E m \in queue' : m.inode = i /\ m.vid = newest'[i]
    <3>1. i \in live /\ i \in Inodes /\ current[i] <= newest[i]
      BY <2>1 DEF Committed, TypeOK
    <3>2. CASE i = w.inode
      BY <1>a, <2>1, <2>2, <2>3, <2>4, <2>5, <3>1, <3>2 DEF Committed
    <3>3. CASE i # w.inode
      BY <2>1, <2>3, <2>4, <2>5, <3>1, <3>3 DEF Committed
    <3> QED
      BY <3>2, <3>3
  <2>9. ASSUME NEW m \in queue', m.inode \in live'
        PROVE  \E o \in queue' : o.inode = m.inode /\ o.vid = newest'[m.inode]
    <3>1. CASE m.inode = w.inode
      BY <2>3, <2>4, <3>1
    <3>2. CASE m.inode # w.inode
      BY <1>a, <2>1, <2>3, <2>4, <2>9, <3>2 DEF Committed
    <3> QED
      BY <3>1, <3>2
  <2> QED
    BY <2>5, <2>7, <2>8, <2>9 DEF Committed
<1>3. ASSUME NEW i \in Inodes, DeleteInode(i) PROVE Committed'
  <2>1. /\ live' = live \ {i} /\ versions' = [versions EXCEPT ![i] = <<>>]
        /\ current' = [current EXCEPT ![i] = 0]
        /\ UNCHANGED <<queue, newest>>
    BY <1>3 DEF DeleteInode, history
  <2>2. \A j \in Inodes : j # i => /\ Rows(j)' = Rows(j) /\ InWriteOrder(j)' = InWriteOrder(j)
                                   /\ current'[j] = current[j]
    BY <1>a, <2>1 DEF Rows, InWriteOrder, TypeOK
  <2>3. InWriteOrder(i)'
    BY <1>a, <2>1 DEF InWriteOrder, TypeOK
  <2>4. \A m \in queue : Inserts(m)' => m.inode # i /\ Inserts(m)
    BY <1>a, <2>1, <2>2 DEF Inserts
  <2>5. \A j \in live' : j \in live /\ j \in Inodes /\ j # i
    BY <1>a, <2>1 DEF TypeOK
  <2> QED
    BY <1>a, <2>1, <2>2, <2>3, <2>4, <2>5 DEF Committed
<1>4. CASE DrainTx
  <2>1. /\ drain.pc = "tx" /\ drain.mark \in Marker /\ FileName(drain.mark) = drain.name
        /\ drain.mark \in queue \/ ~Inserts(drain.mark)
        /\ CommitRow(drain.mark) /\ UNCHANGED <<queue, live, newest>>
    BY <1>0, <1>4 DEF DrainTx, DrainHolds, history
  <2>2. \A m \in queue : drain.mark.seq <= m.seq
    BY <2>1 DEF InOrder, FileName
  <2> QED
    BY <2>1, <2>2, CommittedTx
<1>5. CASE DrainUnlink
  <2>1. /\ drain.pc = "unlink" /\ drain.mark \in Marker /\ FileName(drain.mark) = drain.name
        /\ ~Inserts(drain.mark) /\ queue' \subseteq queue
        /\ \A m \in queue \ queue' : m = drain.mark
        /\ UNCHANGED <<versions, current, live, newest>>
    BY <1>0, <1>5 DEF DrainUnlink, DrainHolds, history
  <2>2. \A m \in queue : drain.mark.seq <= m.seq
    BY <2>1 DEF InOrder, FileName
  <2> QED
    BY <2>1, <2>2, CommittedUnlink
<1>6. CASE UNCHANGED vars
  BY <1>1, <1>6 DEF vars, durable, history
<1>7. ASSUME NEW i \in Inodes, NEW h \in Hashes, BeginWrite(i, h) PROVE Committed'
  BY <1>1, <1>7 DEF BeginWrite, durable
<1>8. CASE Admit \/ AdmitTimeout \/ PublishOverlay \/ SendToDrain
  BY <1>1, <1>8 DEF Admit, AdmitTimeout, PublishOverlay, SendToDrain, durable, history
<1>9. ASSUME NEW m \in queue, DrainRead(m) PROVE Committed'
  BY <1>1, <1>9 DEF DrainRead, durable, history
<1>10. CASE DrainRecv \/ DrainReadGone \/ DrainClear \/ DrainFinish
  BY <1>1, <1>10 DEF DrainRecv, DrainReadGone, DrainClear, DrainFinish, durable, history
<1>11. ASSUME NEW name \in scan.todo, ScanSend(name) PROVE Committed'
  BY <1>1, <1>11 DEF ScanSend, durable, history
<1>12. CASE ScanList \/ ScanDone \/ StartList \/ StartRebuild \/ Crash
  BY <1>1, <1>12 DEF ScanList, ScanDone, StartList, StartRebuild, Crash, durable, history
<1> QED
  BY <1>b, <1>2, <1>3, <1>4, <1>5, <1>6, <1>7, <1>8, <1>9, <1>10, <1>11, <1>12
  DEF Next, Writer, DrainStep, DrainFailure, ScanStep, StartStep, BeginWriteFail,
      EnqueueFail, DrainRecvReadFail, DrainTxFail, DrainIoFail

(* What is queued for a file is shadowed, unless its request is publishing. *)
LEMMA QueuedIsShadowed ==
    ASSUME Shown, Committed, phase \in {"starting", "up"}, NEW m \in queue, m.inode \in live,
           ~(writer.pc = "publish" /\ writer.mark.inode = m.inode)
    PROVE  Shadow(m.inode) # {}
<1>1. PICK o \in queue : o.inode = m.inode /\ o.vid = newest[m.inode]
  BY DEF Committed
<1>2. o \in overlay
  BY <1>1 DEF Shown
<1> QED
  BY <1>1, <1>2 DEF Shadow

(* A step that leaves overlay, registry and the requests at publish alone. *)
LEMMA ServedSame ==
    ASSUME Served, UNCHANGED <<overlay, current, newest>>, live' \subseteq live,
           phase' \in {"starting", "up"} => phase \in {"starting", "up"},
           writer.pc = "publish" => writer' = writer
    PROVE  Served'
<1>1. \A i : Shadow(i)' = Shadow(i)
  BY DEF Shadow
<1> QED
  BY <1>1 DEF Served

(* A transaction changes what the registry says of a file whose reads are  *)
(* served by the overlay.                                                  *)
LEMMA ServedTx ==
    ASSUME TypeOK, Shown, Committed, Served,
           NEW d \in Marker, d \in queue \/ ~Inserts(d), CommitRow(d),
           UNCHANGED <<overlay, newest, phase, writer, live>>
    PROVE  Served'
<1>1. \A i : Shadow(i)' = Shadow(i)
  BY DEF Shadow
<1>2. CASE ~Inserts(d)
  BY <1>1, <1>2 DEF CommitRow, Served
<1>3. CASE Inserts(d)
  <2>1. \A i \in live : i # d.inode => current'[i] = current[i]
    BY DEF CommitRow, TypeOK
  <2>2. ASSUME phase \in {"starting", "up"}, d.inode \in live,
               ~(writer.pc = "publish" /\ writer.mark.inode = d.inode)
        PROVE  Shadow(d.inode) # {}
    BY <1>3, <2>2, QueuedIsShadowed
  <2> QED
    BY <1>1, <2>1, <2>2 DEF Served
<1> QED
  BY <1>2, <1>3

LEMMA ServedStep ==
    ASSUME TypeOK, ThreadsOK, WriteIds, MarkOrder, Shown, Committed, Served, Shown',
           fails = 0, fails' = 0, [Next]_vars
    PROVE  Served'
<1>0. DownIsIdle /\ QueueNames /\ WriterMark /\ DrainHolds
  BY DEF ThreadsOK
<1>a. /\ \A m \in queue : m \in Known /\ m \in Marker /\ m.inode \in Inodes
      /\ \A m \in overlay : m \in Known /\ m \in Marker
      /\ Served /\ TypeOK
  BY DEF Known, TypeOK, Marker
<1>c. \A m, o \in Known : /\ m \in Marker /\ o \in Marker /\ m.seq \in Nat /\ o.seq \in Nat
                          /\ m.vid \in Nat /\ o.vid \in Nat
                          /\ m.seq < o.seq => m.vid < o.vid
                          /\ m.seq = o.seq => m = o
                          /\ FileName(m) = FileName(o) => m = o
                          /\ m.vid = o.vid => m = o
  BY DEF MarkOrder, Marker, FileName
<1>b. ~Fail
  BY DEF Fail, TypeOK
<1>1. CASE UNCHANGED vars
  BY <1>1, <1>a, ServedSame DEF vars, durable, ram, history
<1>2. ASSUME NEW i \in Inodes, NEW h \in Hashes, BeginWrite(i, h) PROVE Served'
  BY <1>2, <1>a, ServedSame DEF BeginWrite, durable
<1>3. CASE Admit \/ AdmitTimeout \/ SendToDrain
  BY <1>3, <1>a, ServedSame DEF Admit, AdmitTimeout, SendToDrain, durable, ram, history
<1>4. CASE Enqueue
  <2> DEFINE w == writer.mark
  <2>1. /\ writer.pc = "enqueue" /\ writer'.pc = "publish" /\ writer'.mark = w
        /\ newest' = [newest EXCEPT ![w.inode] = w.vid]
        /\ UNCHANGED <<overlay, current, live, phase>>
    BY <1>4 DEF Enqueue, ram, TypeOK, WriterState
  <2>2. \A i \in live : i # w.inode => newest'[i] = newest[i]
    BY <2>1 DEF TypeOK
  <2>3. \A i : Shadow(i)' = Shadow(i)
    BY <2>1 DEF Shadow
  <2> QED
    BY <2>1, <2>2, <2>3 DEF Served
<1>5. CASE PublishOverlay
  <2> DEFINE w == writer.mark
  <2>1. /\ writer.pc = "publish" /\ writer'.pc = "send"
        /\ overlay' = {o \in overlay : o.inode # w.inode} \union {w}
        /\ UNCHANGED <<current, newest, live, phase>>
    BY <1>5 DEF PublishOverlay, Published, durable, history, TypeOK, WriterState
  <2>2. newest[w.inode] = w.vid
    BY <2>1 DEF MarkOrder
  <2>3. \A i \in live : i # w.inode => Shadow(i)' = Shadow(i)
    BY <2>1 DEF Shadow
  <2>4. \A i \in live : i = w.inode => Shadow(i)' = {w}
    BY <2>1 DEF Shadow
  <2> HIDE DEF w
  <2>5. ASSUME phase \in {"starting", "up"}, NEW i \in live
        PROVE  /\ \A o \in Shadow(i)' : o.vid = newest[i]
               /\ Shadow(i)' = {} => current[i] = newest[i]
    <3>1. CASE i = w.inode
      BY <2>2, <2>4, <3>1
    <3>2. CASE i # w.inode
      BY <2>3, <2>5, <3>2 DEF Served, w
    <3> QED
      BY <3>1, <3>2
  <2> QED
    BY <2>1, <2>5 DEF Served
<1>6. ASSUME NEW i \in Inodes, DeleteInode(i) PROVE Served'
  <2>1. /\ live' = live \ {i} /\ current' = [current EXCEPT ![i] = 0]
        /\ UNCHANGED <<overlay, newest, phase, writer>>
    BY <1>6 DEF DeleteInode, ram, history
  <2>2. \A j \in live' : j \in live /\ current'[j] = current[j]
    BY <2>1 DEF TypeOK
  <2>3. \A j : Shadow(j)' = Shadow(j)
    BY <2>1 DEF Shadow
  <2> QED
    BY <2>1, <2>2, <2>3 DEF Served
<1>7. CASE DrainTx
  <2>1. /\ drain.mark \in Marker
        /\ drain.mark \in queue \/ ~Inserts(drain.mark)
        /\ CommitRow(drain.mark) /\ UNCHANGED <<overlay, newest, phase, writer, live>>
    BY <1>0, <1>7 DEF DrainTx, DrainHolds, ram, history
  <2> QED
    BY <2>1, ServedTx
<1>8. CASE DrainFinish
  <2>1. /\ drain.pc = "finish"
        /\ UNCHANGED <<current, newest, phase, writer, live, queue>>
        /\ overlay' \subseteq overlay
        /\ \A o \in overlay : o \notin overlay' =>
              drain.out = "some" /\ FileName(o) = drain.name
    BY <1>8 DEF DrainFinish, Withdrawn, durable, history
  <2>2. \A i : Shadow(i)' \subseteq Shadow(i)
    BY <2>1 DEF Shadow
  <2>3. ASSUME phase \in {"starting", "up"}, NEW i \in live, Shadow(i)' = {}, Shadow(i) # {},
               ~(writer.pc = "publish" /\ writer.mark.inode = i)
        PROVE  current[i] = newest[i]
    <3>1. PICK o \in overlay : o.inode = i
      BY <2>3 DEF Shadow
    <3>2. o \in Known /\ o.vid = newest[i]
      BY <1>a, <2>3, <3>1 DEF Served, Shadow
    <3>3. drain.out = "some" /\ FileName(o) = drain.name
      BY <2>1, <2>3, <3>1 DEF Shadow
    <3>4. FileName(o) \notin NamesIn(queue)
      BY <2>1, <3>3 DEF Shown
    <3>5. ASSUME NEW m \in queue, m.inode = i, m.vid = newest[i] PROVE FALSE
      <4>1. m = o
        BY <1>a, <1>c, <3>2, <3>5
      <4> QED
        BY <3>4, <4>1 DEF NamesIn
    <3> QED
      BY <3>5 DEF Committed
  <2> QED
    BY <2>1, <2>2, <2>3 DEF Served
<1>9. CASE StartRebuild
  <2> DEFINE listed == {m \in queue : FileName(m) \in scan.todo}
  <2>1. /\ phase = "rebuild" /\ phase' = "starting"
        /\ overlay' = {m \in listed : \A o \in listed : o.inode = m.inode => o.seq <= m.seq}
        /\ UNCHANGED <<queue, live, newest, current, drain, writer>> /\ writer.pc = "idle"
    BY <1>0, <1>9 DEF StartRebuild, durable, history, DownIsIdle
  <2>2. listed = queue
    BY <2>1 DEF Shown, NamesIn
  <2>3. ASSUME NEW o \in overlay', o.inode \in live PROVE o.vid = newest[o.inode]
    <3>1. o \in queue /\ \A m \in queue : m.inode = o.inode => m.seq <= o.seq
      BY <2>1, <2>2
    <3>2. PICK n \in queue : n.inode = o.inode /\ n.vid = newest[o.inode]
      BY <2>3, <3>1 DEF Committed
    <3>3. n.seq <= o.seq /\ o.vid <= n.vid
      BY <3>1, <3>2 DEF WriteIds
    <3> QED
      BY <1>a, <1>c, <3>1, <3>2, <3>3
  <2>4. ASSUME NEW i \in live, Shadow(i)' = {} PROVE current[i] = newest[i]
    <3>1. ASSUME NEW m \in queue, m.inode = i, m.vid = newest[i] PROVE FALSE
      <4>1. m \in overlay'
        BY <2>1, <3>1 DEF Shown
      <4> QED
        BY <2>4, <3>1, <4>1 DEF Shadow
    <3> QED
      BY <3>1 DEF Committed
  <2> QED
    BY <2>1, <2>3, <2>4 DEF Served, Shadow
<1>10. CASE StartList \/ Crash
  BY <1>10 DEF StartList, Crash, Served
<1>11. ASSUME NEW m \in queue, DrainRead(m) PROVE Served'
  BY <1>11, <1>a, ServedSame DEF DrainRead, durable, ram, history
<1>12. CASE DrainRecv \/ DrainReadGone \/ DrainUnlink \/ DrainClear
  BY <1>12, <1>a, ServedSame
  DEF DrainRecv, DrainReadGone, DrainUnlink, DrainClear, durable, ram, history
<1>13. ASSUME NEW name \in scan.todo, ScanSend(name) PROVE Served'
  BY <1>13, <1>a, ServedSame DEF ScanSend, durable, history
<1>14. CASE ScanList
  BY <1>14, <1>a, ServedSame DEF ScanList, durable, ram, history
<1>15. CASE ScanDone
  BY <1>0, <1>15, <1>a, ServedSame DEF ScanDone, durable, history, DownIsIdle, TypeOK
<1> QED
  BY <1>b, <1>1, <1>2, <1>3, <1>4, <1>5, <1>6, <1>7, <1>8, <1>9, <1>10, <1>11, <1>12,
     <1>13, <1>14, <1>15
  DEF Next, Writer, DrainStep, DrainFailure, ScanStep, StartStep, BeginWriteFail,
      EnqueueFail, DrainRecvReadFail, DrainTxFail, DrainIoFail

----------------------------------------------------------------------------
(* What a reader is given follows from the invariant.                      *)
LEMMA ReadInvMeans ==
    ASSUME TypeOK, ReadInv
    PROVE  ReadAfterWrite /\ VersionOrder
<1>1. ASSUME phase = "up", writer.pc = "idle", NEW i \in live, fails = 0
      PROVE  View(i) = newest[i]
  <2>1. /\ \A o \in Shadow(i) : o.vid = newest[i]
        /\ Shadow(i) = {} => current[i] = newest[i]
    BY <1>1 DEF ReadInv, Served
  <2> QED
    BY <2>1 DEF View
<1>2. ASSUME phase = "up", writer.pc = "idle", NEW i \in live,
             NEW m \in queue, m.inode = i, m.vid = newest[i]
      PROVE  View(i) = newest[i]
  <2>1. m \in Shadow(i) /\ \A o \in Shadow(i) : o = m
    BY <1>2 DEF ReadInv, Shown, Shadow
  <2> QED
    BY <1>2, <2>1 DEF View
<1> QED
  BY <1>1, <1>2 DEF ReadInv, Committed, ReadAfterWrite, VersionOrder

(* No step takes a failure back.                                           *)
LEMMA FailsGrow ==
    ASSUME TypeOK, [Next]_vars
    PROVE  fails' = 0 => fails = 0
<1>1. \/ fails' = fails \/ fails' = fails + 1
  BY DEF Next, Writer, DrainStep, DrainFailure, ScanStep, StartStep, vars, history,
         BeginWrite, BeginWriteFail, Admit, AdmitTimeout, Enqueue, EnqueueFail,
         PublishOverlay, SendToDrain, DeleteInode, DrainRecv, DrainRecvReadFail, DrainRead,
         DrainReadGone, DrainTx, DrainTxFail, DrainUnlink, DrainIoFail, DrainClear,
         DrainFinish, ScanList, ScanSend, ScanDone, StartList, StartRebuild, Crash, Fail
<1> QED
  BY <1>1 DEF TypeOK

(* Whatever fails, the order of the markers and what the overlay shows are *)
(* kept; while nothing has failed, so are the order of the drain and what  *)
(* it has committed.                                                       *)
LEMMA ReadInvHolds == Spec => [](TypeOK /\ Inv /\ ReadInv)
<1>1. Init => ReadInv
  <2> SUFFICES ASSUME Init PROVE ReadInv
    OBVIOUS
  <2>1. WriteIds
    BY BoundsAssumption DEF Init, WriteIds, Rows, IdleWriter
  <2>2. Known = {} /\ KnownNames = {}
    BY DEF Init, Known, KnownNames, IdleWriter, IdleDrain, IdleScan
  <2>3. MarkOrder /\ Shown
    BY <2>2 DEF Init, MarkOrder, Shown, IdleWriter, IdleDrain
  <2>4. InOrder /\ Committed /\ Served
    BY DEF Init, InOrder, Committed, Served, InWriteOrder, Inserts, Rows, IdleDrain, Quiet
  <2> QED
    BY <2>1, <2>3, <2>4 DEF ReadInv
<1>2. TypeOK /\ Inv /\ TypeOK' /\ ReadInv /\ [Next]_vars => ReadInv'
  <2> SUFFICES ASSUME TypeOK, TypeOK', Inv, ReadInv, [Next]_vars PROVE ReadInv'
    OBVIOUS
  <2>1. WriteIds' /\ MarkOrder' /\ Shown'
    BY AloneThreadsOK, WriteIdsStep, MarkOrderStep, ShownStep DEF ReadInv
  <2>2. fails' = 0 => fails = 0
    BY FailsGrow
  <2>3. ASSUME fails' = 0 PROVE InOrder' /\ Committed' /\ Served'
    BY <2>1, <2>2, <2>3, AloneThreadsOK, InOrderStep, CommittedStep, ServedStep DEF ReadInv
  <2> QED
    BY <2>1, <2>3 DEF ReadInv
<1> QED
  BY <1>1, <1>2, InvariantHolds, PTL DEF Spec

(* Between two requests a reader is given the last durable write of a file *)
(* as long as its marker is queued, and while no call fails also after it. *)
THEOREM ReadsSeeTheLastWrite == Spec => []ReadAfterWrite
  BY ReadInvHolds, ReadInvMeans, PTL

(* While no call fails, versions are numbered in the order of the writes.  *)
THEOREM VersionsFollowWrites == Spec => []VersionOrder
  BY ReadInvHolds, ReadInvMeans, PTL

----------------------------------------------------------------------------
(* Next to a recovery process (PipelineRecover) whose passes do not outlive *)
(* the daemon they run next to: a name it still holds is then handed out    *)
(* once, so what it unlinks under a name is the marker it committed.        *)

InHand == recover.pc \in {"tx", "unlink"}

(* Every name the recovery process can still act on.                       *)
RecoverNames == recover.todo \union (IF InHand THEN {recover.name} ELSE {})

(* Those names are older than any the daemon hands out, also after a start *)
(* during the pass; what the process holds is queued or committed, and it  *)
(* unlinks only the latter.                                                *)
RecoverHolds ==
    /\ recover.pc = "off" => recover.todo = {}
    /\ \A n \in RecoverNames :
          /\ n \in FileNames
          /\ phase = "down" => n \in NamesIn(queue)
          /\ phase # "down" => n[1] < seq
          /\ writer.pc \in {"admit", "enqueue"} => n[1] < writer.mark.seq
    /\ InHand =>
          /\ recover.mark \in Marker /\ FileName(recover.mark) = recover.name
          /\ recover.name \notin recover.todo
          /\ recover.mark \in queue \/ ~Inserts(recover.mark)
          /\ \A m \in queue : FileName(m) = recover.name => m = recover.mark
    /\ recover.pc = "unlink" => ~Inserts(recover.mark)

(* While no call fails the process takes the queue in its order as well.   *)
RecoverOrder ==
    /\ InHand => \A m \in queue : recover.name[1] <= m.seq
    /\ \A n \in recover.todo : \A m \in queue :
          m.seq < n[1] => FileName(m) \in RecoverNames

BothInv ==
    /\ ThreadsOK /\ DurableAck /\ WriteIds /\ MarkOrder /\ Shown /\ RecoverHolds
    /\ fails = 0 => InOrder /\ Committed /\ Served /\ RecoverOrder

(* What a replay has nothing to insert for stays so, and a queued marker   *)
(* leaves the queue only when that is so.                                  *)
LEMMA KeptStays ==
    ASSUME TypeOK, ThreadsOK, [Next]_vars, NEW m \in Marker
    PROVE  /\ ~Inserts(m) => ~Inserts(m)'
           /\ Kept(m) => Kept(m)'
<1>a. Kept(m) <=> m \in queue \/ ~Inserts(m)
  BY DEF Kept, Inserts
<1>b. Kept(m)' <=> m \in queue' \/ ~Inserts(m)'
  BY DEF Kept, Inserts
<1>0. DownIsIdle /\ QueueNames /\ WriterMark /\ DrainHolds
  BY DEF ThreadsOK
<1>1. ASSUME UNCHANGED <<versions, live>>, queue \subseteq queue' PROVE Kept(m) => Kept(m)'
  BY <1>1 DEF Kept, Rows
<1>2. ASSUME UNCHANGED <<versions, live>> PROVE Inserts(m)' = Inserts(m)
  BY <1>2 DEF Inserts, Rows
<1>3. ASSUME NEW d \in Marker, CommitRow(d), UNCHANGED <<queue, live>>
      PROVE  (Kept(m) => Kept(m)') /\ (~Inserts(m) => ~Inserts(m)')
  <2>1. CASE Inserts(d)
    <3>1. m.inode \in Inodes /\ \A i \in Inodes : Rows(i) \subseteq Rows(i)'
      BY <1>3, <2>1, CommitRowRows DEF Marker
    <3> QED
      BY <1>3, <3>1 DEF Kept, Inserts
  <2>2. CASE ~Inserts(d)
    BY <1>3, <2>2 DEF CommitRow, Kept, Inserts, Rows
  <2> QED
    BY <2>1, <2>2
<1>4. CASE Enqueue
  <2>1. UNCHANGED <<versions, live>> /\ queue \subseteq queue'
    BY <1>0, <1>4 DEF Enqueue, WriterMark, FileName, TypeOK, Marker
  <2> QED
    BY <1>1, <1>2, <2>1
<1>5. ASSUME NEW i \in Inodes, DeleteInode(i)
      PROVE  (Kept(m) => Kept(m)') /\ (~Inserts(m) => ~Inserts(m)')
  <2>1. /\ queue' = queue /\ live' = live \ {i}
        /\ \A j \in Inodes : j # i => Rows(j)' = Rows(j)
    BY <1>5 DEF DeleteInode, Rows, TypeOK
  <2> QED
    BY <2>1 DEF Kept, Inserts, Marker
<1>6. CASE DrainTx
  BY <1>0, <1>3, <1>6 DEF DrainTx, DrainHolds
<1>7. CASE DrainTxFail
  <2>1. drain.mark \in Marker /\ UNCHANGED <<queue, live>>
    BY <1>0, <1>7 DEF DrainTxFail, DrainHolds
  <2>2. CommitRow(drain.mark) \/ UNCHANGED versions
    BY <1>7 DEF DrainTxFail
  <2> QED
    BY <1>1, <1>2, <1>3, <2>1, <2>2
<1>8. CASE DrainUnlink
  <2>1. /\ UNCHANGED <<versions, live>> /\ ~Inserts(drain.mark)
        /\ \A o \in queue : o \in queue' \/ o = drain.mark
    BY <1>0, <1>8 DEF DrainUnlink, DrainHolds
  <2> QED
    BY <1>a, <1>b, <1>2, <2>1
<1>9. ASSUME UNCHANGED durable PROVE (Kept(m) => Kept(m)') /\ (~Inserts(m) => ~Inserts(m)')
  BY <1>1, <1>2, <1>9 DEF durable
<1>10. CASE UNCHANGED vars
  BY <1>9, <1>10 DEF vars
<1>11. ASSUME NEW i \in Inodes, NEW h \in Hashes, BeginWrite(i, h)
       PROVE (Kept(m) => Kept(m)') /\ (~Inserts(m) => ~Inserts(m)')
  BY <1>9, <1>11 DEF BeginWrite
<1>12. CASE \/ BeginWriteFail \/ Admit \/ AdmitTimeout \/ EnqueueFail
            \/ PublishOverlay \/ SendToDrain
  BY <1>9, <1>12 DEF BeginWriteFail, Admit, AdmitTimeout, EnqueueFail, PublishOverlay,
                     SendToDrain
<1>13. ASSUME NEW o \in queue, DrainRead(o)
       PROVE (Kept(m) => Kept(m)') /\ (~Inserts(m) => ~Inserts(m)')
  BY <1>9, <1>13 DEF DrainRead
<1>14. CASE \/ DrainRecv \/ DrainReadGone \/ DrainClear \/ DrainFinish
            \/ DrainRecvReadFail \/ DrainIoFail
  BY <1>9, <1>14 DEF DrainRecv, DrainReadGone, DrainClear, DrainFinish,
                     DrainRecvReadFail, DrainIoFail
<1>15. ASSUME NEW name \in scan.todo, ScanSend(name)
       PROVE (Kept(m) => Kept(m)') /\ (~Inserts(m) => ~Inserts(m)')
  BY <1>9, <1>15 DEF ScanSend
<1>16. CASE ScanList \/ ScanDone \/ StartList \/ StartRebuild \/ Crash
  BY <1>9, <1>16 DEF ScanList, ScanDone, StartList, StartRebuild, Crash
<1> QED
  BY <1>4, <1>5, <1>6, <1>7, <1>8, <1>10, <1>11, <1>12, <1>13, <1>14, <1>15, <1>16,
     <1>1, <1>2
  DEF Next, Writer, DrainStep, DrainFailure, ScanStep, StartStep

(* Every step of the daemon keeps what is known of its threads and what it *)
(* acknowledged, although its marker may be gone from the queue.           *)
LEMMA ThreadsStep ==
    ASSUME TypeOK, ThreadsOK, DurableAck, MarkOrder, [Next]_vars
    PROVE  ThreadsOK' /\ DurableAck'
<1>0. DownIsIdle /\ QueueNames /\ WriterMark /\ DrainHolds
  BY DEF ThreadsOK
<1>1. DownIsIdle'
  BY <1>0, PlacesStep DEF MarksThere, DrainsItsName, WriterMark, DrainHolds
<1>k. \A m \in Marker : (Kept(m) => Kept(m)') /\ (~Inserts(m) => ~Inserts(m)')
  BY KeptStays
<1>w. writer.pc # "idle" => writer.mark \in Marker
  BY <1>0 DEF WriterMark
<1>2. acked' \subseteq acked \union (IF writer.pc = "send" THEN {writer.mark} ELSE {})
  BY DEF Next, Writer, DrainStep, DrainFailure, ScanStep, StartStep, vars, history,
         BeginWrite, BeginWriteFail, Admit, AdmitTimeout, Enqueue, EnqueueFail,
         PublishOverlay, SendToDrain, DeleteInode, DrainRecv, DrainRecvReadFail, DrainRead,
         DrainReadGone, DrainTx, DrainTxFail, DrainUnlink, DrainIoFail, DrainClear,
         DrainFinish, ScanList, ScanSend, ScanDone, StartList, StartRebuild, Crash
<1>3. DurableAck'
  <2>1. \A m \in acked : m \in Marker /\ Kept(m)
    BY DEF DurableAck, Kept, TypeOK
  <2>2. writer.pc = "send" => writer.mark \in Marker /\ Kept(writer.mark)
    BY <1>0 DEF WriterMark
  <2>3. \A m \in acked' : Kept(m)'
    BY <1>2, <1>k, <2>1, <2>2
  <2> QED
    BY <2>3 DEF DurableAck, Kept
<1>4. QueueNames' /\ WriterMark'
  <2> USE <1>0, <1>1, <1>k DEF DownIsIdle, QueueNames, WriterMark, TypeOK
  <2>1. ASSUME queue' \subseteq queue, live' = live, phase' = phase, seq' \in Nat, seq <= seq',
               \/ writer'.pc = "idle"
               \/ UNCHANGED writer
               \/ writer.pc = "admit" /\ writer'.pc = "enqueue" /\ writer'.mark = writer.mark
               \/ writer.pc = "publish" /\ writer'.pc = "send" /\ writer'.mark = writer.mark
        PROVE  QueueNames' /\ WriterMark'
    <3>1. \A m \in Marker : m.seq \in Nat
      BY DEF Marker
    <3>2. QueueNames'
      BY <2>1, <3>1
    <3>3. ASSUME writer'.pc # "idle"
          PROVE  /\ writer'.mark = writer.mark /\ writer.pc # "idle"
                 /\ writer'.pc \in {"admit", "enqueue"} => writer.pc \in {"admit", "enqueue"}
                 /\ writer'.pc \in {"publish", "send"} => writer.pc \in {"publish", "send"}
      BY <2>1, <3>3
    <3>4. WriterMark'
      BY <2>1, <3>1, <3>3
    <3> QED
      BY <3>2, <3>4
  <2>2. ASSUME NEW i \in Inodes, NEW h \in Hashes, BeginWrite(i, h)
        PROVE  QueueNames' /\ WriterMark'
    <3>1. /\ writer'.pc = "admit" /\ writer'.mark \in Marker
          /\ writer'.mark.seq = seq /\ writer'.mark.inode = i /\ seq' = seq + 1 /\ i \in live
          /\ UNCHANGED <<queue, live, phase>> /\ phase = "up"
      BY <2>2 DEF BeginWrite, Marker, durable
    <3> QED
      BY <3>1 DEF Marker
  <2>3. CASE \/ BeginWriteFail \/ Admit \/ AdmitTimeout \/ EnqueueFail
             \/ PublishOverlay \/ SendToDrain
    BY <2>1, <2>3 DEF BeginWriteFail, Admit, AdmitTimeout, EnqueueFail, PublishOverlay,
                      SendToDrain, durable, ram, IdleWriter, WriterState
  <2>4. CASE Enqueue
    <3> DEFINE w == writer.mark
    <3>1. /\ writer'.pc = "publish" /\ writer'.mark = w /\ w \in Marker /\ w.inode \in live
          /\ w.seq < seq /\ \A m \in queue : m.seq < w.seq
          /\ \A m \in queue' : m \in queue \/ m = w
          /\ w \in queue' /\ UNCHANGED <<live, phase, seq>>
      BY <2>4 DEF Enqueue, WriterState, ram
    <3>2. \A m \in queue : FileName(m) # FileName(w)
      BY <3>1 DEF FileName, Marker
    <3>3. Kept(w)'
      BY <3>1 DEF Kept
    <3> QED
      BY <3>1, <3>2, <3>3
  <2>5. ASSUME NEW i \in Inodes, DeleteInode(i) PROVE QueueNames' /\ WriterMark'
    BY <2>5 DEF DeleteInode, ram
  <2>6. ASSUME NEW m \in queue, DrainRead(m) PROVE QueueNames' /\ WriterMark'
    BY <2>1, <2>6 DEF DrainRead, durable, ram
  <2>7. CASE \/ DrainRecv \/ DrainReadGone \/ DrainTx \/ DrainUnlink \/ DrainClear
             \/ DrainFinish \/ DrainRecvReadFail \/ DrainTxFail \/ DrainIoFail
    BY <2>1, <2>7 DEF DrainRecv, DrainReadGone, DrainTx, DrainUnlink, DrainClear, DrainFinish,
                      DrainRecvReadFail, DrainTxFail, DrainIoFail, durable, ram
  <2>8. ASSUME NEW name \in scan.todo, ScanSend(name) PROVE QueueNames' /\ WriterMark'
    BY <2>1, <2>8 DEF ScanSend, durable
  <2>9. CASE ScanList \/ UNCHANGED vars
    BY <2>1, <2>9 DEF ScanList, vars, durable, ram
  <2>10. CASE ScanDone \/ StartRebuild \/ Crash
    <3>1. /\ UNCHANGED <<queue, live>> /\ phase # "down"
          /\ \/ UNCHANGED <<writer, seq>>
             \/ phase' = "down" /\ writer'.pc = "idle"
      BY <2>10 DEF ScanDone, StartRebuild, Crash, durable, IdleWriter
    <3> QED
      BY <3>1
  <2>11. CASE StartList
    <3>1. /\ UNCHANGED <<queue, live, writer>> /\ writer.pc = "idle"
          /\ \A m \in queue : m.seq < seq'
      BY <2>11 DEF StartList, durable, Marker
    <3> QED
      BY <3>1
  <2> QED
    BY <2>2, <2>3, <2>4, <2>5, <2>6, <2>7, <2>8, <2>9, <2>10, <2>11
    DEF Next, Writer, DrainStep, DrainFailure, ScanStep, StartStep
<1>5. DrainHolds'
  <2> USE <1>0, <1>k DEF DrainHolds, TypeOK
  <2>1. ASSUME queue' \subseteq queue, drain' = drain,
               drain.pc \in {"tx", "unlink"} =>
                  drain.mark \in queue' \/ ~Inserts(drain.mark)'
        PROVE  DrainHolds'
    BY <2>1
  <2>2. ASSUME queue' \subseteq queue, drain'.name = drain.name, drain.pc # "recv",
               drain'.pc \in {"clear", "finish"}
        PROVE  DrainHolds'
    BY <2>2
  <2>3. ASSUME UNCHANGED durable, UNCHANGED drain PROVE DrainHolds'
    <3>1. \A m : Inserts(m)' = Inserts(m)
      BY <2>3, SameDisk DEF durable
    <3> QED
      BY <2>1, <2>3, <3>1 DEF durable
  <2>4. CASE UNCHANGED vars
    BY <2>3, <2>4 DEF vars
  <2>5. ASSUME NEW i \in Inodes, NEW h \in Hashes, BeginWrite(i, h) PROVE DrainHolds'
    BY <2>3, <2>5 DEF BeginWrite
  <2>6. CASE \/ BeginWriteFail \/ Admit \/ AdmitTimeout \/ EnqueueFail
             \/ PublishOverlay \/ SendToDrain
    BY <2>3, <2>6 DEF BeginWriteFail, Admit, AdmitTimeout, EnqueueFail, PublishOverlay,
                      SendToDrain
  <2>7. CASE Enqueue
    <3> DEFINE w == writer.mark
    <3>1. /\ writer.pc = "enqueue" /\ w \in Marker /\ \A m \in queue : m.seq < w.seq
          /\ \A m \in queue' : m \in queue \/ m = w
          /\ UNCHANGED <<versions, live, drain>>
          /\ queue' = {m \in queue : FileName(m) # FileName(w)} \union {w}
      BY <2>7 DEF Enqueue, WriterMark
    <3>2. \A m : Inserts(m)' = Inserts(m)
      BY <3>1 DEF Inserts, Rows
    <3>3. drain.pc # "recv" => drain.name # FileName(w)
      <4>1. drain.pc # "recv" => drain.name[1] < w.seq /\ drain.name[1] \in Nat
        BY <3>1 DEF MarkOrder, KnownNames, FileNames
      <4> QED
        BY <3>1, <4>1 DEF FileName, Marker
    <3>4. queue \subseteq queue'
      BY <3>1 DEF FileName, Marker
    <3> QED
      BY <3>1, <3>2, <3>3, <3>4
  <2>8. ASSUME NEW i \in Inodes, DeleteInode(i) PROVE DrainHolds'
    BY <2>1, <2>8 DEF DeleteInode
  <2>9. CASE DrainRecv \/ DrainRecvReadFail
    <3>1. drain'.pc = "read" /\ drain'.name = Head(chan) /\ chan # <<>>
      BY <2>9 DEF DrainRecv, DrainRecvReadFail
    <3> QED
      BY <3>1
  <2>10. ASSUME NEW m \in queue, DrainRead(m) PROVE DrainHolds'
    <3>1. /\ drain'.pc = "tx" /\ drain'.mark = m /\ drain'.name = drain.name
          /\ FileName(m) = drain.name /\ drain.pc = "read"
          /\ UNCHANGED queue
      BY <2>10 DEF DrainRead, DrainState, ReadMarker, durable
    <3> QED
      BY <3>1 DEF QueueNames
  <2>11. CASE DrainReadGone \/ DrainTxFail \/ DrainUnlink \/ DrainIoFail \/ DrainClear
    BY <2>2, <2>11 DEF DrainReadGone, DrainTxFail, DrainUnlink, DrainIoFail, DrainClear,
                       DrainState, durable
  <2>12. CASE DrainTx
    <3>1. /\ drain'.pc = "unlink" /\ drain'.mark = drain.mark /\ drain'.name = drain.name
          /\ drain.pc = "tx" /\ CommitRow(drain.mark) /\ UNCHANGED <<queue, live>>
      BY <2>12 DEF DrainTx, DrainState
    <3>2. ~Inserts(drain.mark)'
      BY <3>1, CommitRowKeeps
    <3> QED
      BY <3>1, <3>2
  <2>13. CASE DrainFinish \/ Crash
    BY <2>13 DEF DrainFinish, Crash, IdleDrain
  <2>14. ASSUME NEW name \in scan.todo, ScanSend(name) PROVE DrainHolds'
    BY <2>3, <2>14 DEF ScanSend
  <2>15. CASE ScanList \/ ScanDone \/ StartList \/ StartRebuild
    BY <2>3, <2>15 DEF ScanList, ScanDone, StartList, StartRebuild
  <2> QED
    BY <2>4, <2>5, <2>6, <2>7, <2>8, <2>9, <2>10, <2>11, <2>12, <2>13, <2>14, <2>15
    DEF Next, Writer, DrainStep, DrainFailure, ScanStep, StartStep
<1> QED
  BY <1>1, <1>3, <1>4, <1>5 DEF ThreadsOK

(* A daemon that does not die: the sequence only grows while it runs,      *)
(* starts above the queue, and a marker reaches the queue from a request.  *)
LEMMA WhileItLives ==
    ASSUME TypeOK, DownIsIdle, phase # "down" => phase' # "down", [Next]_vars
    PROVE  /\ phase # "down" => seq' \in Nat /\ seq <= seq'
           /\ phase = "down" => /\ queue' = queue /\ writer'.pc = "idle"
                                /\ phase' # "down" => \A m \in queue : m.seq < seq'
           /\ \A m \in queue' :
                 m \in queue \/ (writer.pc = "enqueue" /\ m = writer.mark)
           /\ writer'.pc \in {"admit", "enqueue"} =>
                 \/ writer.pc \in {"admit", "enqueue"} /\ writer'.mark = writer.mark
                 \/ writer'.mark.seq = seq
<1> DEFINE Goal ==
             /\ phase # "down" => seq' \in Nat /\ seq <= seq'
             /\ phase = "down" => /\ queue' = queue /\ writer'.pc = "idle"
                                  /\ phase' # "down" => \A m \in queue : m.seq < seq'
             /\ \A m \in queue' :
                   m \in queue \/ (writer.pc = "enqueue" /\ m = writer.mark)
             /\ writer'.pc \in {"admit", "enqueue"} =>
                   \/ writer.pc \in {"admit", "enqueue"} /\ writer'.mark = writer.mark
                   \/ writer'.mark.seq = seq
<1> USE DEF TypeOK, DownIsIdle
<1>1. ASSUME UNCHANGED <<queue, writer, seq>>, phase # "down" \/ phase' = phase PROVE Goal
  BY <1>1
<1>2. ASSUME NEW i \in Inodes, NEW h \in Hashes, BeginWrite(i, h) PROVE Goal
  <2>1. phase = "up" /\ queue' = queue /\ seq' = seq + 1 /\ writer'.mark.seq = seq
    BY <1>2 DEF BeginWrite, durable
  <2> QED
    BY <2>1
<1>3. CASE BeginWriteFail
  <2>1. phase = "up" /\ UNCHANGED <<queue, writer>> /\ seq' = seq + 1
    BY <1>3 DEF BeginWriteFail, durable
  <2> QED
    BY <2>1
<1>4. CASE Admit \/ AdmitTimeout \/ EnqueueFail \/ PublishOverlay \/ SendToDrain
  <2>1. /\ UNCHANGED <<phase, queue, seq>> /\ writer.pc # "idle"
        /\ writer'.pc \in {"admit", "enqueue"} =>
              writer.pc = "admit" /\ writer'.mark = writer.mark
    BY <1>4 DEF Admit, AdmitTimeout, EnqueueFail, PublishOverlay, SendToDrain,
                durable, ram, WriterState, IdleWriter
  <2> QED
    BY <2>1
<1>5. CASE Enqueue
  <2>1. /\ UNCHANGED <<phase, seq>> /\ writer.pc = "enqueue" /\ writer'.pc = "publish"
        /\ \A m \in queue' : m \in queue \/ m = writer.mark
    BY <1>5 DEF Enqueue, ram, WriterState
  <2> QED
    BY <2>1
<1>6. ASSUME NEW i \in Inodes, DeleteInode(i) PROVE Goal
  BY <1>1, <1>6 DEF DeleteInode, ram
<1>7. ASSUME NEW m \in queue, DrainRead(m) PROVE Goal
  BY <1>1, <1>7 DEF DrainRead, durable, ram
<1>8. CASE \/ DrainRecv \/ DrainReadGone \/ DrainTx \/ DrainClear \/ DrainFinish
           \/ DrainFailure \/ ScanList
  <2>1. UNCHANGED <<queue, writer, phase, seq>>
    BY <1>8 DEF DrainRecv, DrainReadGone, DrainTx, DrainClear, DrainFinish, DrainFailure,
                DrainRecvReadFail, DrainTxFail, DrainIoFail, ScanList, durable, ram
  <2> QED
    BY <1>1, <2>1
<1>9. CASE DrainUnlink
  <2>1. UNCHANGED <<writer, phase, seq>> /\ queue' \subseteq queue /\ phase # "down"
    BY <1>9 DEF DrainUnlink, ram
  <2> QED
    BY <2>1
<1>10. ASSUME NEW name \in scan.todo, ScanSend(name) PROVE Goal
  BY <1>1, <1>10 DEF ScanSend, durable
<1>11. CASE ScanDone
  BY <1>1, <1>11 DEF ScanDone, durable
<1>12. CASE StartList
  <2>1. /\ phase = "down" /\ UNCHANGED <<queue, writer>>
        /\ \A m \in queue : m.seq < seq'
    BY <1>12 DEF StartList, durable, Marker
  <2> QED
    BY <2>1
<1>13. CASE StartRebuild
  BY <1>1, <1>13 DEF StartRebuild, durable
<1>14. ~Crash
  BY DEF Crash
<1>15. CASE UNCHANGED vars
  BY <1>1, <1>15 DEF vars, durable, ram
<1> QED
  BY <1>2, <1>3, <1>4, <1>5, <1>6, <1>7, <1>8, <1>9, <1>10, <1>11, <1>12, <1>13,
     <1>14, <1>15
  DEF Next, Writer, DrainStep, ScanStep, StartStep

(* What the recovery process holds is out of the daemon's way.             *)
LEMMA RecoverHoldsStep ==
    ASSUME TypeOK, ThreadsOK, RecoverHolds, WholePasses,
           [Next]_vars, recover' = recover
    PROVE  /\ RecoverHolds'
           /\ RecoverOrder => RecoverOrder'
<1>0. DownIsIdle /\ WriterMark
  BY DEF ThreadsOK
<1>1. CASE phase # "down" /\ phase' = "down"
  <2>1. recover.pc = "off"
    BY <1>1 DEF WholePasses
  <2>2. recover.todo = {}
    BY <2>1 DEF RecoverHolds
  <2> QED
    BY <2>1, <2>2 DEF RecoverHolds, RecoverOrder, RecoverNames, InHand
<1>2. CASE phase # "down" => phase' # "down"
  <2>1. /\ phase # "down" => seq' \in Nat /\ seq <= seq'
        /\ phase = "down" => /\ queue' = queue /\ writer'.pc = "idle"
                             /\ phase' # "down" => \A m \in queue : m.seq < seq'
        /\ \A m \in queue' : m \in queue \/ (writer.pc = "enqueue" /\ m = writer.mark)
        /\ writer'.pc \in {"admit", "enqueue"} =>
              \/ writer.pc \in {"admit", "enqueue"} /\ writer'.mark = writer.mark
              \/ writer'.mark.seq = seq
    BY <1>0, <1>2, WhileItLives
  <2>2. RecoverNames' = RecoverNames /\ InHand' = InHand
    BY DEF RecoverNames, InHand
  <2>3. ASSUME NEW n \in RecoverNames
        PROVE  /\ n \in FileNames /\ n[1] \in Nat
               /\ phase = "down" => n \in NamesIn(queue)
               /\ phase # "down" => n[1] < seq
               /\ writer.pc \in {"admit", "enqueue"} => n[1] < writer.mark.seq
    BY DEF RecoverHolds, FileNames
  <2>4. ASSUME NEW m \in queue', m \notin queue, NEW n \in RecoverNames
        PROVE  n[1] < m.seq /\ FileName(m) # n /\ n[1] \in Nat /\ m.seq \in Nat
    <3>1. writer.pc = "enqueue" /\ m = writer.mark /\ m \in Marker
      BY <1>0, <2>1, <2>4 DEF WriterMark
    <3>2. n[1] < m.seq /\ n[1] \in Nat /\ m.seq \in Nat
      BY <2>3, <3>1 DEF Marker
    <3> QED
      BY <3>2 DEF FileName
  <2>5. ASSUME NEW n \in RecoverNames
        PROVE  /\ phase' = "down" => n \in NamesIn(queue')
               /\ phase' # "down" => n[1] < seq'
               /\ writer'.pc \in {"admit", "enqueue"} => n[1] < writer'.mark.seq
    <3>1. CASE phase = "down"
      <4>1. PICK m \in queue : n = FileName(m)
        BY <2>3, <3>1 DEF NamesIn
      <4> QED
        BY <2>1, <2>3, <3>1, <4>1 DEF FileName
    <3>2. CASE phase # "down"
      BY <1>2, <2>1, <2>3, <3>2 DEF TypeOK
    <3> QED
      BY <3>1, <3>2
  <2>6. ASSUME InHand
        PROVE  /\ recover.mark \in Marker /\ FileName(recover.mark) = recover.name
               /\ recover.mark \in queue' \/ ~Inserts(recover.mark)'
               /\ \A m \in queue' : FileName(m) = recover.name => m = recover.mark
    <3> DEFINE d == recover.mark
    <3>1. /\ d \in Marker /\ FileName(d) = recover.name /\ (d \in queue \/ ~Inserts(d))
          /\ \A m \in queue : FileName(m) = recover.name => m = d
      BY <2>6 DEF RecoverHolds
    <3>2. Kept(d)
      BY <3>1 DEF Kept, Inserts
    <3>3. Kept(d)'
      BY <3>1, <3>2, KeptStays
    <3>4. d' = d
      OBVIOUS
    <3>5. d \in queue' \/ ~Inserts(d)'
      BY <3>3, <3>4 DEF Kept, Inserts
    <3>6. recover.name \in RecoverNames
      BY <2>6 DEF RecoverNames
    <3> QED
      BY <2>4, <3>1, <3>5, <3>6
  <2>7. recover.pc = "unlink" => ~Inserts(recover.mark)'
    BY KeptStays DEF RecoverHolds, InHand
  <2>8. /\ InHand => recover.name \notin recover.todo
        /\ recover.pc = "off" => recover.todo = {}
    BY DEF RecoverHolds
  <2>9. RecoverHolds'
    BY <2>2, <2>3, <2>5, <2>6, <2>7, <2>8 DEF RecoverHolds, NamesIn
  <2>10. ASSUME RecoverOrder PROVE RecoverOrder'
    <3>1. ASSUME InHand, NEW m \in queue' PROVE recover.name[1] <= m.seq
      BY <2>4, <2>10, <3>1 DEF RecoverOrder, RecoverNames
    <3>2. ASSUME NEW n \in recover.todo, NEW m \in queue', m.seq < n[1]
          PROVE  FileName(m) \in RecoverNames
      BY <2>4, <2>10, <3>2 DEF RecoverOrder, RecoverNames
    <3> QED
      BY <2>2, <3>1, <3>2 DEF RecoverOrder
  <2> QED
    BY <2>9, <2>10
<1> QED
  BY <1>1, <1>2

(* A step of the recovery process leaves the memory of the daemon alone.   *)
(* It commits the marker in its hand, unlinks the name of a marker it has  *)
(* committed, or changes nothing on disk and in the database.              *)
LEMMA RecoverEffect ==
    ASSUME TypeOK, RecoverStep
    PROVE  /\ UNCHANGED <<live, ram, writer, drain, scan, acked, newest, nextVid, crashes>>
           /\ fails' = fails \/ (fails' = fails + 1 /\ fails < MaxFails)
           /\ \/ UNCHANGED durable
              \/ recover.pc = "tx" /\ CommitRow(recover.mark) /\ queue' = queue
              \/ /\ recover.pc = "unlink" /\ UNCHANGED <<versions, current>>
                 /\ queue' = {m \in queue : FileName(m) # recover.name}
<1>1. CASE RecoverList \/ RecoverExit
  BY <1>1 DEF RecoverList, RecoverExit, vars, durable, history
<1>2. ASSUME NEW name \in recover.todo, RecoverRead(name) \/ RecoverReadFail(name)
      PROVE  /\ UNCHANGED <<durable, live, ram, writer, drain, scan,
                            acked, newest, nextVid, crashes>>
             /\ fails' = fails \/ (fails' = fails + 1 /\ fails < MaxFails)
  BY <1>2 DEF RecoverRead, RecoverReadFail, Fail, vars, history, durable
<1>3. CASE RecoverTx
  BY <1>3 DEF RecoverTx, history
<1>4. CASE RecoverUnlink
  BY <1>4 DEF RecoverUnlink, history
<1>5. CASE RecoverFail
  BY <1>5 DEF RecoverFail, Fail, durable
<1> QED
  BY <1>1, <1>2, <1>3, <1>4, <1>5 DEF RecoverStep, durable

(* What the recovery process gives up, it no longer relies on.             *)
LEMMA RecoverHoldsLess ==
    ASSUME RecoverHolds, UNCHANGED <<phase, seq, writer>>, ~InHand',
           RecoverNames' \subseteq RecoverNames, recover'.pc = "off" => recover'.todo = {},
           \A n \in RecoverNames' : n \in NamesIn(queue) => n \in NamesIn(queue')
    PROVE  RecoverHolds'
<1>1. recover'.pc # "unlink"
  BY DEF InHand
<1> QED
  BY <1>1 DEF RecoverHolds, NamesIn

(* It takes names from its listing in order, and only queued markers.      *)
LEMMA RecoverHoldsTake ==
    ASSUME RecoverTypeOK, ThreadsOK, RecoverHolds, RecoverStep
    PROVE  /\ RecoverHolds'
           /\ fails' = fails /\ RecoverOrder => RecoverOrder'
<1>0. TypeOK /\ QueueNames /\ WriterMark
  BY DEF RecoverTypeOK, ThreadsOK
<1>a. /\ \A m \in queue : /\ m \in Marker /\ m.seq \in Nat
                          /\ FileName(m) \in FileNames /\ FileName(m)[1] = m.seq
      /\ \A n \in RecoverNames : n[1] \in Nat
  BY <1>0 DEF TypeOK, FileName, FileNames, Marker, RecoverHolds
<1>b. fails \in Nat
  BY <1>0 DEF TypeOK
<1>1. CASE RecoverList
  <2>1. /\ recover'.pc = "next" /\ recover'.todo = NamesIn(queue)
        /\ UNCHANGED <<queue, phase, seq, writer>>
    BY <1>1 DEF RecoverList, vars, durable, ram
  <2>2. ~InHand' /\ recover'.pc # "unlink" /\ RecoverNames' = NamesIn(queue)
    BY <2>1 DEF InHand, RecoverNames
  <2>3. ASSUME NEW m \in queue
        PROVE  /\ phase # "down" => m.seq < seq
               /\ writer.pc \in {"admit", "enqueue"} => m.seq < writer.mark.seq
    BY <1>0 DEF QueueNames, WriterMark
  <2>4. RecoverHolds'
    BY <1>a, <2>1, <2>2, <2>3 DEF RecoverHolds, NamesIn
  <2>5. RecoverOrder'
    BY <2>1, <2>2 DEF RecoverOrder, NamesIn
  <2> QED
    BY <2>4, <2>5
<1>2. ASSUME NEW name \in recover.todo, RecoverRead(name)
      PROVE  RecoverHolds' /\ (RecoverOrder => RecoverOrder')
  <2>1. /\ recover.pc = "next" /\ \A other \in recover.todo : name[1] <= other[1]
        /\ UNCHANGED <<queue, versions, live, phase, seq, writer>>
    BY <1>2 DEF RecoverRead, vars, durable, ram
  <2>2. ~InHand /\ RecoverNames = recover.todo
    BY <2>1 DEF InHand, RecoverNames
  <2>3. CASE ReadMarker(name) = {}
    <3>1. recover'.pc = "next" /\ recover'.todo = recover.todo \ {name}
      BY <1>2, <2>1, <2>3 DEF RecoverRead, RecoverTypeOK
    <3>2. ~InHand' /\ RecoverNames' = recover.todo \ {name}
      BY <3>1 DEF InHand, RecoverNames
    <3>3. RecoverHolds'
      BY <2>1, <2>2, <3>1, <3>2, RecoverHoldsLess
    <3>4. \A m \in queue : FileName(m) # name
      BY <2>3 DEF ReadMarker
    <3>5. RecoverOrder => RecoverOrder'
      BY <2>1, <2>2, <3>1, <3>2, <3>4 DEF RecoverOrder
    <3> QED
      BY <3>3, <3>5
  <2>4. CASE ReadMarker(name) # {}
    <3> DEFINE d == CHOOSE m \in ReadMarker(name) : TRUE
    <3>1. recover' = [pc |-> "tx", todo |-> recover.todo \ {name}, name |-> name, mark |-> d]
      BY <1>2, <2>4 DEF RecoverRead
    <3>2. d \in queue /\ FileName(d) = name
      BY <2>4 DEF ReadMarker
    <3>3. InHand' /\ RecoverNames' = RecoverNames /\ recover'.mark = d /\ recover'.name = name
          /\ recover'.pc = "tx" /\ recover'.todo = recover.todo \ {name}
      BY <2>2, <3>1 DEF InHand, RecoverNames
    <3> HIDE DEF d
    <3>4. \A m \in queue : FileName(m) = name => m = d
      BY <1>0, <3>2 DEF QueueNames
    <3>5. RecoverHolds'
      <4>1. name \notin recover'.todo /\ recover'.pc # "off"
        BY <3>3
      <4> QED
        BY <1>a, <2>1, <2>2, <3>2, <3>3, <3>4, <4>1 DEF RecoverHolds, NamesIn
    <3>6. ASSUME RecoverOrder, NEW m \in queue PROVE name[1] <= m.seq
      <4>1. m.seq < name[1] => FileName(m) \in recover.todo
        BY <2>2, <3>6 DEF RecoverOrder
      <4> QED
        BY <1>a, <2>1, <2>2, <4>1
    <3>7. RecoverOrder => RecoverOrder'
      BY <2>1, <3>3, <3>6 DEF RecoverOrder
    <3> QED
      BY <3>5, <3>7
  <2> QED
    BY <2>3, <2>4
<1>3. ASSUME NEW name \in recover.todo, RecoverReadFail(name)
      PROVE  RecoverHolds' /\ fails' # fails
  <2>1. /\ recover.pc = "next" /\ UNCHANGED <<queue, phase, seq, writer>> /\ fails' = fails + 1
        /\ recover'.pc = "next" /\ recover'.todo = recover.todo \ {name}
    BY <1>3 DEF RecoverReadFail, Fail, durable, ram, RecoverTypeOK
  <2>2. ~InHand' /\ RecoverNames' \subseteq RecoverNames
    BY <2>1 DEF InHand, RecoverNames
  <2> QED
    BY <1>b, <2>1, <2>2, RecoverHoldsLess
<1>4. CASE RecoverTx
  <2>1. /\ recover.pc = "tx" /\ recover'.pc = "unlink" /\ CommitRow(recover.mark)
        /\ recover'.mark = recover.mark /\ recover'.name = recover.name
        /\ recover'.todo = recover.todo
        /\ UNCHANGED <<queue, live, phase, seq, writer>>
    BY <1>4 DEF RecoverTx, ram, RecoverTypeOK
  <2>2. InHand /\ InHand' /\ RecoverNames' = RecoverNames
    BY <2>1 DEF InHand, RecoverNames
  <2>3. recover.mark \in Marker
    BY <2>2 DEF RecoverHolds
  <2>4. ~Inserts(recover.mark)'
    BY <1>0, <2>1, <2>3, CommitRowKeeps
  <2>5. RecoverHolds'
    BY <2>1, <2>2, <2>4 DEF RecoverHolds, NamesIn
  <2>6. RecoverOrder => RecoverOrder'
    BY <2>1, <2>2 DEF RecoverOrder
  <2> QED
    BY <2>5, <2>6
<1>5. CASE RecoverUnlink
  <2>1. /\ recover.pc = "unlink" /\ recover'.pc = "next" /\ recover'.todo = recover.todo
        /\ queue' = {m \in queue : FileName(m) # recover.name}
        /\ UNCHANGED <<phase, seq, writer>>
    BY <1>5 DEF RecoverUnlink, ram, RecoverTypeOK
  <2>2. ~InHand' /\ RecoverNames' = recover.todo
        /\ RecoverNames = recover.todo \union {recover.name}
    BY <2>1 DEF InHand, RecoverNames
  <2>3. RecoverHolds'
    <3>1. recover.name \notin recover.todo
      BY <2>1 DEF RecoverHolds, InHand
    <3>2. \A n \in recover.todo : n \in NamesIn(queue) => n \in NamesIn(queue')
      BY <2>1, <3>1 DEF NamesIn
    <3> QED
      BY <2>1, <2>2, <3>2, RecoverHoldsLess
  <2>4. RecoverOrder => RecoverOrder'
    BY <2>1, <2>2 DEF RecoverOrder
  <2> QED
    BY <2>3, <2>4
<1>6. CASE RecoverFail
  <2>1. /\ recover'.pc = "next" /\ recover'.todo = recover.todo
        /\ fails' = fails + 1 /\ UNCHANGED <<queue, phase, seq, writer>>
    BY <1>6 DEF RecoverFail, Fail, ram, RecoverTypeOK
  <2>2. ~InHand' /\ RecoverNames' \subseteq RecoverNames
    BY <2>1 DEF InHand, RecoverNames
  <2> QED
    BY <1>b, <2>1, <2>2, RecoverHoldsLess
<1>7. CASE RecoverExit
  <2>1. recover'.pc = "off" /\ recover'.todo = {} /\ UNCHANGED <<queue, phase, seq, writer>>
    BY <1>7 DEF RecoverExit, NoRecover, vars, durable, ram
  <2>2. ~InHand' /\ RecoverNames' = {}
    BY <2>1 DEF InHand, RecoverNames
  <2>3. RecoverHolds'
    BY <2>1, <2>2, RecoverHoldsLess
  <2>4. RecoverOrder'
    BY <2>1, <2>2 DEF RecoverOrder
  <2> QED
    BY <2>3, <2>4
<1> QED
  BY <1>1, <1>2, <1>3, <1>4, <1>5, <1>6, <1>7 DEF RecoverStep

(* A step of the recovery process keeps what is known of the daemon, of    *)
(* the reads and of what was acknowledged.                                 *)
LEMMA RecoverKeeps ==
    ASSUME TypeOK, BothInv, RecoverStep
    PROVE  /\ ThreadsOK' /\ DurableAck' /\ WriteIds' /\ MarkOrder' /\ Shown'
           /\ fails' = 0 => InOrder' /\ Committed' /\ Served'
<1> DEFINE d == recover.mark
<1>0. /\ ThreadsOK /\ DurableAck /\ WriteIds /\ MarkOrder /\ Shown /\ RecoverHolds
      /\ fails = 0 => InOrder /\ Committed /\ Served /\ RecoverOrder
      /\ DownIsIdle /\ QueueNames /\ WriterMark /\ DrainHolds
  BY DEF BothInv, ThreadsOK
<1>1. /\ UNCHANGED <<live, writer, drain, scan, acked, newest, nextVid>>
      /\ UNCHANGED <<phase, seq, outstanding, chan, inflight, overlay>>
      /\ fails' = 0 => fails = 0
  BY RecoverEffect DEF ram, TypeOK
<1>2. CASE UNCHANGED durable
  <2> USE <1>0, <1>1, <1>2 DEF durable
  <2>1. /\ \A m : Kept(m)' = Kept(m) /\ Inserts(m)' = Inserts(m)
        /\ \A i : /\ Rows(i)' = Rows(i) /\ Shadow(i)' = Shadow(i)
                  /\ InWriteOrder(i)' = InWriteOrder(i)
    BY SameDisk DEF Rows, Shadow, InWriteOrder
  <2>2. DownIsIdle' /\ QueueNames' /\ WriterMark' /\ DrainHolds'
    BY <2>1 DEF DownIsIdle, QueueNames, WriterMark, DrainHolds
  <2>3. DurableAck' /\ WriteIds'
    BY <2>1 DEF DurableAck, WriteIds
  <2>4. MarkOrder' /\ Shown'
    BY DEF MarkOrder, Known, KnownNames, Shown, NamesIn
  <2>5. fails' = 0 => InOrder'
    BY DEF InOrder, Quiet, ToBeSent, Handed, Held, NamesIn
  <2>6. fails' = 0 => Committed' /\ Served'
    BY <2>1 DEF Committed, Served
  <2> QED
    BY <2>2, <2>3, <2>4, <2>5, <2>6 DEF ThreadsOK
<1>3. CASE recover.pc = "tx" /\ CommitRow(d) /\ queue' = queue
  <2>1. d \in Marker /\ (d \in queue \/ ~Inserts(d)) /\ FileName(d) = recover.name /\ InHand
    BY <1>0, <1>3 DEF RecoverHolds, InHand
  <2>2. \A m \in Marker : (Kept(m) => Kept(m)') /\ (~Inserts(m) => ~Inserts(m)')
    <3>1. \A m \in Marker : Kept(m) => Kept(m)'
      BY <1>1, <1>3, <2>1, CommitRowKeeps
    <3>2. CASE Inserts(d)
      <4>1. \A i \in Inodes : Rows(i) \subseteq Rows(i)'
        BY <1>3, <2>1, <3>2, CommitRowRows
      <4> QED
        BY <1>1, <3>1, <4>1 DEF Inserts, Marker
    <3>3. CASE ~Inserts(d)
      BY <1>1, <1>3, <3>1, <3>3 DEF CommitRow, Inserts, Rows
    <3> QED
      BY <3>1, <3>2, <3>3
  <2>3. DownIsIdle' /\ QueueNames' /\ WriterMark'
    BY <1>0, <1>1, <1>3, <2>2 DEF DownIsIdle, QueueNames, WriterMark
  <2>4. DrainHolds'
    BY <1>0, <1>1, <1>3, <2>2 DEF DrainHolds
  <2>5. DurableAck'
    <3>1. \A m \in acked : m \in Marker /\ Kept(m)
      BY <1>0 DEF DurableAck, Kept, TypeOK
    <3> QED
      BY <1>1, <2>2, <3>1 DEF DurableAck, Kept
  <2>6. WriteIds'
    <3>1. CASE Inserts(d)
      <4>1. \A i \in Inodes :
               Rows(i)' = Rows(i) \union (IF i = d.inode THEN {d.vid} ELSE {})
        BY <1>3, <2>1, <3>1, CommitRowRows
      <4>2. d.vid <= newest[d.inode]
        BY <1>0, <2>1, <3>1 DEF WriteIds
      <4>3. \A i \in Inodes : \A v \in Rows(i)' : v <= newest'[i]
        BY <1>0, <1>1, <4>1, <4>2 DEF WriteIds
      <4> QED
        BY <1>0, <1>1, <1>3, <4>3 DEF WriteIds
    <3>2. CASE ~Inserts(d)
      BY <1>0, <1>1, <1>3, <3>2 DEF CommitRow, WriteIds, Rows
    <3> QED
      BY <3>1, <3>2
  <2>7. MarkOrder' /\ Shown'
    BY <1>0, <1>1, <1>3 DEF MarkOrder, Known, KnownNames, Shown, NamesIn
  <2>8. fails' = 0 => InOrder'
    BY <1>0, <1>1, <1>3 DEF InOrder, Quiet, ToBeSent, Handed, Held, NamesIn
  <2>9. fails' = 0 => Committed' /\ Served'
    <3> SUFFICES ASSUME fails' = 0 PROVE Committed' /\ Served'
      OBVIOUS
    <3>1. \A m \in queue : d.seq <= m.seq
      <4>1. recover.name[1] = d.seq
        BY <2>1 DEF FileName
      <4> QED
        BY <1>0, <1>1, <2>1, <4>1 DEF RecoverOrder
    <3>2. Committed'
      BY <1>0, <1>1, <1>3, <2>1, <3>1, CommittedTx
    <3>3. Served'
      BY <1>0, <1>1, <1>3, <2>1, ServedTx
    <3> QED
      BY <3>2, <3>3
  <2> QED
    BY <2>3, <2>4, <2>5, <2>6, <2>7, <2>8, <2>9 DEF ThreadsOK
<1>4. CASE /\ recover.pc = "unlink" /\ UNCHANGED <<versions, current>>
           /\ queue' = {m \in queue : FileName(m) # recover.name}
  <2>1. /\ d \in Marker /\ ~Inserts(d) /\ FileName(d) = recover.name /\ InHand
        /\ \A m \in queue : FileName(m) = recover.name => m = d
    BY <1>0, <1>4 DEF RecoverHolds, InHand
  <2>2. queue' \subseteq queue /\ (\A m \in queue \ queue' : m = d) /\ NamesIn(queue') \subseteq NamesIn(queue)
    BY <1>4, <2>1 DEF NamesIn
  <2>3. /\ \A m : Inserts(m)' = Inserts(m)
        /\ \A i : Rows(i)' = Rows(i)
    BY <1>1, <1>4 DEF Inserts, Rows
  <2>4. \A m : m = d \/ m \in queue \/ ~Inserts(m) => (m \in queue' \/ ~Inserts(m)')
    BY <2>1, <2>2, <2>3
  <2>5. \A m : Kept(m) => Kept(m)'
    BY <2>4 DEF Kept, Inserts
  <2>6. DownIsIdle' /\ QueueNames' /\ WriterMark'
    BY <1>0, <1>1, <2>2, <2>5 DEF DownIsIdle, QueueNames, WriterMark
  <2>7. DrainHolds'
    BY <1>0, <1>1, <2>2, <2>3, <2>4 DEF DrainHolds
  <2>8. DurableAck'
    BY <1>0, <1>1, <2>5 DEF DurableAck, Kept
  <2>9. WriteIds'
    BY <1>0, <1>1, <2>2, <2>3 DEF WriteIds
  <2>10. MarkOrder'
    <3>1. Known' \subseteq Known /\ KnownNames' = KnownNames
      BY <1>1, <2>2 DEF Known, KnownNames
    <3> QED
      BY <1>0, <1>1, <3>1, MarkOrderSame
  <2>11. Shown'
    <3>1. drain'.pc \in {"clear", "finish"} /\ drain'.out = "some" =>
              FileName(drain'.mark) = drain'.name /\ drain'.name \notin NamesIn(queue)'
      BY <1>0, <1>1, <2>2 DEF Shown, NamesIn
    <3> QED
      BY <1>0, <1>1, <2>2, <3>1, ShownSame
  <2>12. ASSUME fails' = 0 PROVE InOrder' /\ Committed' /\ Served'
    <3>0. InOrder /\ Committed /\ Served /\ RecoverOrder
      BY <1>0, <1>1, <2>12
    <3>1. drain.pc \in {"clear", "finish"} => drain.name \notin NamesIn(queue')
      BY <2>2, <3>0 DEF InOrder
    <3>2. InOrder'
      BY <1>1, <2>2, <3>0, <3>1, InOrderFrame DEF InOrder
    <3>3. \A m \in queue : d.seq <= m.seq
      BY <2>1, <3>0 DEF RecoverOrder, FileName
    <3>4. Committed'
      BY <1>0, <1>1, <1>4, <2>1, <2>2, <3>0, <3>3, CommittedUnlink
    <3>5. Served'
      BY <1>1, <1>4, <3>0, ServedSame
    <3> QED
      BY <3>2, <3>4, <3>5
  <2> QED
    BY <2>6, <2>7, <2>8, <2>9, <2>10, <2>11, <2>12 DEF ThreadsOK
<1> QED
  BY <1>2, <1>3, <1>4, RecoverEffect

(* A replay by the recovery process commits a queued write or changes      *)
(* nothing that WriteLog tells apart.                                      *)
LEMMA RecoverLogs ==
    ASSUME TypeOK, WriteIds, RecoverHolds, RecoverStep
    PROVE  [Log!Next]_(Log!vars)
<1> DEFINE d == recover.mark
<1>1. UNCHANGED <<live, newest>>
  BY RecoverEffect
<1>2. CASE UNCHANGED durable
  BY <1>1, <1>2, SameLog DEF durable
<1>3. CASE recover.pc = "tx" /\ CommitRow(d) /\ queue' = queue
  <2>1. d \in Marker /\ (d \in queue \/ ~Inserts(d))
    BY <1>3 DEF RecoverHolds, InHand
  <2> QED
    BY <1>1, <1>3, <2>1, CommitLogs
<1>4. CASE /\ recover.pc = "unlink" /\ UNCHANGED <<versions, current>>
           /\ queue' = {m \in queue : FileName(m) # recover.name}
  <2>1. ~Inserts(d) /\ queue' \subseteq queue /\ \A m \in queue \ queue' : m = d
    BY <1>4 DEF RecoverHolds, InHand
  <2> QED
    BY <1>1, <1>4, <2>1, UnlinkLogs
<1> QED
  BY <1>2, <1>3, <1>4, RecoverEffect

(* Its steps are steps of RecoverSpec.                                     *)
LEMMA RecoverInvWhole == WholePassSpec => []RecoverInv
<1>1. [RecoverNext /\ WholePasses]_allVars => [RecoverNext]_allVars
  OBVIOUS
<1>2. WholePassSpec => RecoverSpec
  BY <1>1, PTL DEF WholePassSpec, RecoverSpec
<1> QED
  BY <1>2, RecoverInvAlways, PTL

(* With both processes.                                                    *)
LEMMA BothInvAlways == WholePassSpec => []BothInv
<1>1. RecoverInit => BothInv
  <2> SUFFICES ASSUME RecoverInit PROVE BothInv
    OBVIOUS
  <2>0. Init /\ recover = NoRecover
    BY DEF RecoverInit
  <2>1. WriteIds
    BY <2>0, BoundsAssumption DEF Init, WriteIds, Rows, IdleWriter
  <2>2. Known = {} /\ KnownNames = {} /\ RecoverNames = {} /\ ~InHand /\ recover.pc = "off"
    BY <2>0 DEF Init, Known, KnownNames, IdleWriter, IdleDrain, IdleScan, NoRecover,
                RecoverNames, InHand
  <2>3. MarkOrder /\ Shown
    BY <2>0, <2>2 DEF Init, MarkOrder, Shown, IdleWriter, IdleDrain
  <2>4. InOrder /\ Committed /\ Served
    BY <2>0
    DEF Init, InOrder, Committed, Served, InWriteOrder, Inserts, Rows, IdleDrain, Quiet
  <2>5. ThreadsOK /\ DurableAck
    BY <2>0 DEF Init, ThreadsOK, DownIsIdle, QueueNames, WriterMark, DrainHolds, DurableAck,
                IdleWriter, IdleDrain, IdleScan
  <2>6. RecoverHolds /\ RecoverOrder
    BY <2>0, <2>2 DEF Init, RecoverHolds, RecoverOrder, NoRecover
  <2> QED
    BY <2>1, <2>3, <2>4, <2>5, <2>6 DEF BothInv
<1>2. RecoverInv /\ BothInv /\ [RecoverNext /\ WholePasses]_allVars => BothInv'
  <2> SUFFICES ASSUME RecoverInv, BothInv, [RecoverNext /\ WholePasses]_allVars PROVE BothInv'
    OBVIOUS
  <2>0. /\ RecoverTypeOK /\ TypeOK
        /\ ThreadsOK /\ DurableAck /\ WriteIds /\ MarkOrder /\ Shown /\ RecoverHolds
        /\ fails = 0 => InOrder /\ Committed /\ Served /\ RecoverOrder
    BY DEF RecoverInv, RecoverTypeOK, BothInv
  <2>1. CASE [Next]_vars /\ recover' = recover /\ (WholePasses \/ UNCHANGED allVars)
    <3>1. ThreadsOK' /\ DurableAck' /\ WriteIds' /\ MarkOrder' /\ Shown'
      BY <2>0, <2>1, ThreadsStep, WriteIdsStep, MarkOrderStep, ShownStep
    <3>2. RecoverHolds' /\ (RecoverOrder => RecoverOrder')
      <4>1. WholePasses
        BY <2>1 DEF WholePasses, allVars, vars, ram
      <4> QED
        BY <2>0, <2>1, <4>1, RecoverHoldsStep
    <3>3. ASSUME fails' = 0 PROVE InOrder' /\ Committed' /\ Served' /\ RecoverOrder'
      <4>1. fails = 0
        BY <2>0, <2>1, <3>3, FailsGrow
      <4> QED
        BY <2>0, <2>1, <3>1, <3>2, <3>3, <4>1, InOrderStep, CommittedStep, ServedStep
    <3> QED
      BY <3>1, <3>2, <3>3 DEF BothInv
  <2>2. CASE RecoverStep
    <3>1. /\ ThreadsOK' /\ DurableAck' /\ WriteIds' /\ MarkOrder' /\ Shown'
          /\ fails' = 0 => InOrder' /\ Committed' /\ Served'
      BY <2>0, <2>2, RecoverKeeps
    <3>2. RecoverHolds' /\ (fails' = fails /\ RecoverOrder => RecoverOrder')
      BY <2>0, <2>2, RecoverHoldsTake
    <3>3. fails' = 0 => fails' = fails /\ fails = 0
      BY <2>0, <2>2, RecoverEffect DEF TypeOK
    <3> QED
      BY <2>0, <3>1, <3>2, <3>3 DEF BothInv
  <2> QED
    BY <2>1, <2>2 DEF RecoverNext, allVars
<1> QED
  BY <1>1, <1>2, RecoverInvWhole, PTL DEF WholePassSpec

(* submit's contract with a second process that replays and unlinks,       *)
(* interrupted or not, while the daemon runs, starts or is down: unless    *)
(* the daemon dies in the middle of a pass, an acknowledged write is       *)
(* queued, committed, or gone with its file.                               *)
THEOREM RecoveryKeepsAcks == WholePassSpec => []DurableAck
<1>1. BothInv => DurableAck
  BY DEF BothInv
<1> QED
  BY <1>1, BothInvAlways, PTL

(* Under the same condition a reader of the mount is given the last        *)
(* durable write although the other process commits and unlinks it behind  *)
(* the back of the overlay.                                                *)
THEOREM RecoveryKeepsReads == WholePassSpec => []ReadAfterWrite
<1>1. RecoverInv /\ BothInv => ReadAfterWrite
  <2>1. BothInv => ReadInv
    BY DEF BothInv, ReadInv
  <2> QED
    BY <2>1, ReadInvMeans DEF RecoverInv, RecoverTypeOK
<1> QED
  BY <1>1, BothInvAlways, RecoverInvWhole, PTL

(* Two processes that take the same queue in order commit its markers in   *)
(* the order of the writes, as long as no call fails.                      *)
THEOREM RecoveryKeepsOrder == WholePassSpec => []VersionOrder
<1>1. RecoverInv /\ BothInv => VersionOrder
  <2>1. BothInv => ReadInv
    BY DEF BothInv, ReadInv
  <2> QED
    BY <2>1, ReadInvMeans DEF RecoverInv, RecoverTypeOK
<1> QED
  BY <1>1, BothInvAlways, RecoverInvWhole, PTL

(* Both processes together implement WriteLog: a marker that each of them  *)
(* replays becomes one version, and none is unlinked before it is one.     *)
THEOREM RecoveryRefinement == WholePassSpec => ImplementsWriteLog
<1>1. RecoverInit => Log!Init
  BY DEF RecoverInit, Init, Log!Init, PendingWrites
<1>2. RecoverInv /\ BothInv /\ [RecoverNext /\ WholePasses]_allVars => [Log!Next]_(Log!vars)
  <2> SUFFICES ASSUME RecoverInv, BothInv, [RecoverNext /\ WholePasses]_allVars
               PROVE  [Log!Next]_(Log!vars)
    OBVIOUS
  <2>0. TypeOK /\ ThreadsOK /\ WriteIds /\ RecoverHolds
    BY DEF RecoverInv, RecoverTypeOK, BothInv
  <2>1. CASE [Next]_vars
    BY <2>0, <2>1, LogStep
  <2>2. CASE RecoverStep
    BY <2>0, <2>2, RecoverLogs
  <2> QED
    BY <2>1, <2>2 DEF RecoverNext, allVars
<1> QED
  BY <1>1, <1>2, BothInvAlways, RecoverInvWhole, PTL
  DEF WholePassSpec, ImplementsWriteLog, Log!Spec

(* A daemon that is never restarted is one in which every pass is whole.   *)
THEOREM WholeWithoutRestart ==
    ASSUME MaxCrashes = 0
    PROVE  RecoverSpec => WholePassSpec
<1>1. RecoverInv /\ [RecoverNext]_allVars => [RecoverNext /\ WholePasses]_allVars
  <2> SUFFICES ASSUME RecoverInv, RecoverNext PROVE WholePasses
    OBVIOUS
  <2>1. crashes \in Nat
    BY DEF RecoverInv, RecoverTypeOK, TypeOK
  <2>2. ~Crash
    BY <2>1 DEF Crash
  <2>3. CASE RecoverStep
    BY <2>3, RecoverEffect DEF RecoverInv, RecoverTypeOK, ram, WholePasses
  <2>4. CASE Next
    BY <2>2, <2>4
    DEF Next, Writer, DrainStep, DrainFailure, ScanStep, StartStep, durable, ram, WholePasses,
        BeginWrite, BeginWriteFail, Admit, AdmitTimeout, Enqueue, EnqueueFail,
        PublishOverlay, SendToDrain, DeleteInode, DrainRecv, DrainRecvReadFail, DrainRead,
        DrainReadGone, DrainTx, DrainTxFail, DrainUnlink, DrainIoFail, DrainClear,
        DrainFinish, ScanList, ScanSend, ScanDone, StartList, StartRebuild
  <2> QED
    BY <2>3, <2>4 DEF RecoverNext
<1> QED
  BY <1>1, RecoverInvAlways, PTL DEF RecoverSpec, WholePassSpec

============================================================================
