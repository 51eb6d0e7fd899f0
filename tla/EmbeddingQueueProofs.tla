------------------------ MODULE EmbeddingQueueProofs ------------------------
(***************************************************************************)
(* Proofs about EmbeddingQueue, for any finite number of files and any     *)
(* number of nodes, versions, errors and stops: a version in processing is *)
(* held by the worker or was left by an error the code logs, a clean one   *)
(* can be found, and is_current follows the newest version.                *)
(***************************************************************************)
EXTENDS EmbeddingQueue, FiniteSetTheorems, SequenceTheorems, TLAPS

(* The worker has a batch in hand, and a version of it.                    *)
InHand == pc \in Embedding \union Finishing \union {"fail"}

ItemThere == InHand => idx <= Len(batch)

(* A version of the batch that has no row any more lost it with its file.  *)
BatchRows ==
    \A n \in DOMAIN batch : status[batch[n]] = "none" => batch[n][1] \in gone

BatchOnce == \A m, n \in DOMAIN batch : batch[m] = batch[n] => m = n

GoneEmpty == \A v \in Versions : v[1] \in gone => status[v] = "none"

(* What is not settled yet is not clean.                                   *)
RestOpen == \A v \in Held : status[v] # "clean"

BatchInv == ItemThere /\ BatchRows /\ BatchOnce /\ GoneEmpty /\ RestOpen

(* What the embedding of the version in hand has stored so far.            *)
TextStored  == pc \in {"file", "nodes"} /\ Exists => Item \in text
FilesStored == pc = "nodes" /\ Exists => Item \in files

StoredInv == TextStored /\ FilesStored /\ CleanIsSearchable

(* The version read last is the newest, unless a newer one is not clean.   *)
Unfinished(i) == Rows(i) = {} \/ \E v \in Rows(i) : status[v] # "clean"

LatestRead ==
    pc = "refresh" => /\ latest \in Versions /\ latest[1] = Item[1]
                      /\ IsLatest(latest) \/ Unfinished(latest[1])

CurrentInv == current \subseteq vecs /\ LatestRead /\ CurrentIsLatest

Inv == ProcessingHeld /\ BatchInv /\ StoredInv /\ CurrentInv

LEMMA VersionFields ==
    ASSUME NEW v \in Versions
    PROVE  /\ v[1] \in Inodes /\ v[2] \in 1 .. MaxVersion /\ v[2] \in Nat
           /\ v = <<v[1], v[2]>>
  BY EmbeddingAssumption, SMT DEF Versions

LEMMA BatchTyped ==
    ASSUME EmbeddingTypeOK
    PROVE  /\ Len(batch) \in Nat /\ DOMAIN batch = 1 .. Len(batch)
           /\ \A n \in 1 .. Len(batch) : batch[n] \in Versions
           /\ Rest \subseteq Versions /\ Held \subseteq Versions
           /\ idx <= Len(batch) => Item \in Versions /\ Item[1] \in Inodes
  <1>1. batch \in Seq(Versions) /\ idx \in Nat \ {0}
    BY DEF EmbeddingTypeOK
  <1>2. /\ Len(batch) \in Nat /\ DOMAIN batch = 1 .. Len(batch)
        /\ \A n \in 1 .. Len(batch) : batch[n] \in Versions
    BY <1>1
  <1>3. Rest \subseteq Versions
    BY <1>1, <1>2, SMT DEF Rest
  <1>4. ASSUME idx <= Len(batch)
        PROVE  Item \in Versions /\ Item[1] \in Inodes
    BY <1>1, <1>2, <1>4, VersionFields DEF Item
  <1> QED
    BY <1>2, <1>3, <1>4 DEF Held

(* A batch is a sequence of what was claimable, each version once.         *)
LEMMA ClaimedOnce ==
    ASSUME EmbeddingTypeOK, NEW f \in Orders(Claimable)
    PROVE  /\ f \in Seq(Versions) /\ Len(f) \in Nat /\ DOMAIN f = 1 .. Len(f)
           /\ {f[n] : n \in 1 .. Len(f)} = Claimable
           /\ \A m, n \in DOMAIN f : f[m] = f[n] => m = n
  <1> DEFINE k == Cardinality(Claimable)
  <1>1. IsFiniteSet(Versions)
    <2>1. IsFiniteSet(1 .. MaxVersion)
      BY EmbeddingAssumption, FS_Interval
    <2> QED
      BY <2>1, EmbeddingAssumption, FS_Product DEF Versions
  <1>2. Claimable \subseteq Versions /\ IsFiniteSet(Claimable)
    BY <1>1, FS_Subset DEF Claimable, With
  <1>3. k \in Nat
    BY <1>2, FS_CardinalityType
  <1>4. f \in [1 .. k -> Claimable] /\ \A v \in Claimable : \E n \in DOMAIN f : f[n] = v
    BY DEF Orders
  <1>5. f \in Seq(Versions) /\ Len(f) = k /\ DOMAIN f = 1 .. k
    BY <1>2, <1>3, <1>4, SeqDef
  <1>6. f \in Surjection(1 .. k, Claimable)
    BY <1>4 DEF Surjection
  <1>7. IsFiniteSet(1 .. k) /\ Cardinality(1 .. k) = k
    BY <1>3, FS_Interval
  <1>8. f \in Injection(1 .. k, Claimable)
    BY <1>2, <1>6, <1>7, FS_SurjSameCardinalityImpliesInj
  <1>9. \A m, n \in DOMAIN f : f[m] = f[n] => m = n
    BY <1>5, <1>8 DEF Injection, IsInjective
  <1> QED
    BY <1>3, <1>4, <1>5, <1>9

----------------------------------------------------------------------------
(* Types.                                                                  *)

LEMMA TypeInit ==
    ASSUME Init
    PROVE  EmbeddingTypeOK
  <1> USE DEF Init
  <1>1. status \in [Versions -> Statuses]
    BY DEF Statuses
  <1>2. arrival \in Seq(Versions) /\ batch \in Seq(Versions)
    OBVIOUS
  <1>3. /\ idx \in Nat \ {0} /\ errors \in 0 .. MaxErrors /\ stops \in 0 .. MaxStops
        /\ quiet \in BOOLEAN
    BY EmbeddingAssumption, SMT
  <1> QED
    BY <1>1, <1>2, <1>3 DEF EmbeddingTypeOK

LEMMA TypeStep ==
    ASSUME EmbeddingTypeOK, ItemThere, [Next]_vars
    PROVE  EmbeddingTypeOK'
  <1> USE DEF EmbeddingTypeOK, rows, world, local, ghost, Failing
  <1>0. /\ InHand => Item \in Versions /\ Item[1] \in Inodes
        /\ Held \subseteq Versions
        /\ idx <= Len(batch) => Item \in Versions
    BY BatchTyped DEF ItemThere
  <1>a. idx + 1 \in Nat \ {0}
    BY SMT
  <1>1. CASE UNCHANGED vars
    BY <1>1 DEF vars
  <1>2. ASSUME NEW i \in Inodes, Commit(i)
        PROVE  EmbeddingTypeOK'
    <2>1. PICK n \in 1 .. MaxVersion :
            /\ status' = [status EXCEPT ![<<i, n>>] = "pending"]
            /\ arrival' = Append(arrival, <<i, n>>)
      BY <1>2 DEF Commit
    <2>2. <<i, n>> \in Versions
      BY DEF Versions
    <2>3. status' \in [Versions -> Statuses] /\ arrival' \in Seq(Versions)
      BY <2>1, <2>2 DEF Statuses
    <2> QED
      BY <1>2, <2>3 DEF Commit
  <1>3. ASSUME NEW i \in Inodes, DeleteInode(i)
        PROVE  EmbeddingTypeOK'
    <2>1. status' \in [Versions -> Statuses]
      BY <1>3 DEF DeleteInode, Statuses
    <2> QED
      BY <1>3, <2>1 DEF DeleteInode
  <1>4. CASE NotifyWrite \/ GoQuiet \/ (\E v \in Versions : Age(v))
    BY <1>4 DEF NotifyWrite, GoQuiet, Age
  <1>5. CASE Shutdown \/ Crash
    <2>1. stops' \in 0 .. MaxStops
      BY <1>5, EmbeddingAssumption, SMT DEF Shutdown, Crash, Stopping
    <2>2. CASE Shutdown
      BY <2>1, <2>2 DEF Shutdown
    <2>3. CASE Crash
      <3>1. stranded' \subseteq Versions /\ unrefreshed' \subseteq Inodes
        BY <2>3, <1>0 DEF Crash, InHand
      <3>2. batch' \in Seq(Versions) /\ idx' \in Nat \ {0}
        BY <2>3 DEF Crash
      <3> QED
        BY <2>1, <2>3, <3>1, <3>2 DEF Crash
    <2> QED
      BY <1>5, <2>2, <2>3
  <1>6. ASSUME errors' = errors \/ Failing
        PROVE  errors' \in 0 .. MaxErrors
    BY <1>6, EmbeddingAssumption, SMT
  <1>7. CASE Start
    <2>1. [v \in Versions |-> Reap(status[v])] \in [Versions -> Statuses]
      BY DEF Reap, Statuses
    <2> QED
      BY <1>6, <1>7, <2>1 DEF Start, Step
  <1>8. CASE LookupModel \/ Valve \/ WaitForIdle \/ Stop \/ ClaimNothing \/ ClaimFails \/ WakeUp
    BY <1>6, <1>8 DEF LookupModel, Valve, WaitForIdle, Stop, ClaimNothing, ClaimFails,
                      WakeUp, Step, ValveOpen
  <1>9. CASE Claim
    <2>1. batch' \in Seq(Versions)
      BY <1>9, ClaimedOnce DEF Claim
    <2>2. status' \in [Versions -> Statuses]
      BY <1>9 DEF Claim, Statuses
    <2> QED
      BY <1>9, <2>1, <2>2 DEF Claim
  <1>10. CASE NextItem \/ Preempt \/ Reverted
    <2>1. batch' \in Seq(Versions) /\ idx' \in Nat \ {0}
      <3>1. <<>> \in Seq(Versions) /\ 1 \in Nat \ {0}
        OBVIOUS
      <3> QED
        BY <1>10, <3>1 DEF NextItem, Preempt, Reverted
    <2>2. /\ pc' \in {"top", "revert", "load"} /\ woken' \in BOOLEAN
          /\ UNCHANGED <<rows, world, force, latest, shutdown, ghost>>
      BY <1>10 DEF NextItem, Preempt, Reverted, Step
    <2> QED
      BY <2>1, <2>2 DEF Embedding
  <1>11. CASE Load \/ EmbedFile
    <2>1. Item \in Versions
      BY <1>0, <1>11 DEF Load, EmbedFile, Step, InHand, Embedding
    <2> QED
      BY <1>11, <2>1 DEF Load, EmbedFile, Step, Embedding
  <1>12. CASE EmbedNode
    <2>1. Item \in Versions
      BY <1>0, <1>12 DEF EmbedNode, InHand, Embedding
    <2> QED
      BY <1>12, <2>1 DEF EmbedNode, Vectors
  <1>13. CASE EmbedFails
    BY <1>6, <1>13 DEF EmbedFails
  <1>14. CASE MarkClean \/ MarkFailed
    <2>1. Item \in Versions
      BY <1>0, <1>14 DEF MarkClean, MarkFailed, Step, InHand, Embedding
    <2>2. errors' = errors \/ Failing
      BY <1>14 DEF MarkClean, MarkFailed, SetStatus
    <2>3. status' \in [Versions -> Statuses] /\ stranded' \subseteq Versions
      BY <1>14, <2>1 DEF MarkClean, MarkFailed, SetStatus, Statuses
    <2> QED
      BY <1>a, <1>6, <1>14, <2>2, <2>3 DEF MarkClean, MarkFailed, Step, Finishing
  <1>15. CASE ReadLatest
    <2>1. Item[1] \in Inodes /\ Rows(Item[1]) \subseteq Versions
      BY <1>0, <1>15 DEF ReadLatest, InHand, Finishing, Rows
    <2>2. errors' = errors \/ Failing
      BY <1>15 DEF ReadLatest
    <2>3. /\ idx' \in Nat \ {0} /\ latest' \in Versions \union {None}
          /\ unrefreshed' \subseteq Inodes /\ pc' \in {"refresh", "item"}
      BY <1>a, <1>15, <2>1 DEF ReadLatest
    <2> QED
      BY <1>6, <1>15, <2>2, <2>3 DEF ReadLatest, Finishing
  <1>16. CASE UpdateCurrent
    <2>1. Item[1] \in Inodes
      BY <1>0, <1>16 DEF UpdateCurrent, Step, InHand, Finishing
    <2>2. errors' = errors \/ Failing
      BY <1>16 DEF UpdateCurrent
    <2>3. current' \subseteq Vectors /\ unrefreshed' \subseteq Inodes
      BY <1>16, <2>1 DEF UpdateCurrent, Refreshed
    <2> QED
      BY <1>a, <1>6, <1>16, <2>2, <2>3 DEF UpdateCurrent, Step
  <1>17. CASE RevertItem
    <2>1. Item \in Versions
      BY <1>0, <1>17 DEF RevertItem
    <2>2. errors' = errors \/ Failing
      BY <1>17 DEF RevertItem
    <2>3. status' \in [Versions -> Statuses] /\ stranded' \subseteq Versions
      BY <1>17, <2>1 DEF RevertItem, Reap, Statuses
    <2> QED
      BY <1>a, <1>6, <1>17, <2>2, <2>3 DEF RevertItem
  <1> QED
    BY <1>1, <1>2, <1>3, <1>4, <1>5, <1>7, <1>8, <1>9, <1>10, <1>11, <1>12, <1>13,
       <1>14, <1>15, <1>16, <1>17 DEF Next, Worker

----------------------------------------------------------------------------
(* The batch.                                                              *)

(* Commit and delete, as the worker sees them.                             *)
LEMMA CommitRows ==
    ASSUME EmbeddingTypeOK, GoneEmpty, NEW i \in Inodes, Commit(i)
    PROVE  \E v \in Versions :
              /\ v[1] = i /\ i \notin gone
              /\ status' = [status EXCEPT ![v] = "pending"] /\ status'[v] = "pending"
              /\ \A w \in Versions \ {v} : status'[w] = status[w]
  <1>1. PICK n \in 1 .. MaxVersion : status' = [status EXCEPT ![<<i, n>>] = "pending"]
    BY DEF Commit
  <1>2. <<i, n>> \in Versions
    BY DEF Versions
  <1> QED
    BY <1>1, <1>2 DEF Commit, EmbeddingTypeOK

(* A step that leaves the worker's place in the batch alone, and makes no  *)
(* version clean, keeps what is known of the batch.                        *)
LEMMA BatchKept ==
    ASSUME EmbeddingTypeOK, BatchInv, GoneEmpty',
           \/ pc' = pc
           \/ Held' = Held /\ (InHand' => InHand)
           \/ Held' = {} /\ ~InHand',
           UNCHANGED <<batch, idx>>, gone \subseteq gone',
           \A v \in Versions : status'[v] = "clean" => status[v] = "clean",
           \A v \in Versions : status'[v] = "none" =>
               status[v] = "none" \/ v[1] \in gone'
    PROVE  BatchInv'
  <1>1. /\ \A n \in DOMAIN batch : batch[n] \in Versions
        /\ Held \subseteq Versions
    BY BatchTyped
  <1>2. pc' = pc => Held' = Held
    BY DEF Held, Rest
  <1>3. ItemThere' /\ BatchOnce'
    BY DEF BatchInv, ItemThere, InHand, BatchOnce
  <1>4. BatchRows'
    BY <1>1 DEF BatchInv, BatchRows
  <1>5. RestOpen'
    BY <1>1, <1>2 DEF BatchInv, RestOpen
  <1> QED
    BY <1>3, <1>4, <1>5 DEF BatchInv

(* The version in hand is done with: what follows it in the batch is left. *)
LEMMA BatchMoved ==
    ASSUME EmbeddingTypeOK, BatchInv,
           InHand \/ (pc = "revert" /\ idx <= Len(batch)),
           batch' = batch, gone' = gone,
           \/ pc' = "inode" /\ idx' = idx
           \/ pc' \in {"item", "revert"} /\ idx' = idx + 1,
           \A v \in Versions \ {Item} : status'[v] = status[v],
           status'[Item] = "none" <=> status[Item] = "none"
    PROVE  /\ BatchInv'
           /\ Held' = {batch[n] : n \in idx + 1 .. Len(batch)}
  <1>1. /\ Len(batch) \in Nat /\ DOMAIN batch = 1 .. Len(batch)
        /\ \A n \in 1 .. Len(batch) : batch[n] \in Versions
        /\ idx \in Nat \ {0} /\ idx <= Len(batch) /\ Item \in Versions
    BY BatchTyped DEF EmbeddingTypeOK, BatchInv, ItemThere
  <1>2. Held' = {batch[n] : n \in idx + 1 .. Len(batch)}
    BY DEF Held, Rest, Finishing, Embedding
  <1>3. \A v \in Held' : v \in Versions /\ v # Item /\ v \in Rest
    <2> SUFFICES ASSUME NEW n \in idx + 1 .. Len(batch)
                 PROVE  batch[n] \in Versions /\ batch[n] # batch[idx]
                        /\ (pc \notin Finishing => batch[n] \in Rest)
                        /\ (pc \in Finishing => batch[n] \in Rest)
      BY <1>2 DEF Item
    <2>1. n \in 1 .. Len(batch) /\ idx \in 1 .. Len(batch) /\ n # idx /\ n \in idx .. Len(batch)
      BY <1>1, SMT
    <2>2. batch[n] \in Rest
      BY <2>1 DEF Rest
    <2> QED
      BY <1>1, <2>1, <2>2 DEF BatchInv, BatchOnce
  <1>4. Held = Rest
    BY DEF InHand, Held
  <1>5. RestOpen'
    BY <1>3, <1>4 DEF BatchInv, RestOpen
  <1>6. BatchRows' /\ BatchOnce'
    BY <1>1 DEF BatchInv, BatchRows, BatchOnce
  <1>7. GoneEmpty'
    BY <1>1 DEF BatchInv, GoneEmpty
  <1>8. ItemThere'
    BY <1>1 DEF ItemThere, InHand, Embedding, Finishing
  <1> QED
    BY <1>2, <1>5, <1>6, <1>7, <1>8 DEF BatchInv

LEMMA BatchInit ==
    ASSUME Init
    PROVE  BatchInv
  <1>1. DOMAIN batch = {} /\ Held = {} /\ ~InHand
    BY DEF Init, Held, Embedding, Finishing, InHand
  <1> QED
    BY <1>1 DEF Init, BatchInv, ItemThere, BatchRows, BatchOnce, GoneEmpty, RestOpen

LEMMA BatchStep ==
    ASSUME EmbeddingTypeOK, BatchInv, [Next]_vars
    PROVE  BatchInv'
  <1> USE DEF rows, world, local, ghost
  <1>0. /\ status \in [Versions -> Statuses] /\ GoneEmpty
        /\ InHand => Item \in Versions
        /\ idx <= Len(batch) => Item \in Versions
    BY BatchTyped DEF EmbeddingTypeOK, BatchInv, ItemThere
  <1>1. CASE UNCHANGED vars
    <2>1. GoneEmpty'
      BY <1>0, <1>1 DEF vars, GoneEmpty
    <2> QED
      BY <1>1, <2>1, BatchKept DEF vars
  <1>2. ASSUME NEW i \in Inodes, Commit(i)
        PROVE  BatchInv'
    <2>1. PICK v \in Versions :
              /\ v[1] = i /\ i \notin gone /\ status'[v] = "pending"
              /\ \A w \in Versions \ {v} : status'[w] = status[w]
      BY <1>0, <1>2, CommitRows
    <2>2. pc' = pc /\ batch' = batch /\ idx' = idx /\ gone' = gone
      BY <1>2 DEF Commit
    <2>3. GoneEmpty'
      BY <1>0, <2>1, <2>2 DEF GoneEmpty
    <2> QED
      BY <2>1, <2>2, <2>3, BatchKept
  <1>3. ASSUME NEW i \in Inodes, DeleteInode(i)
        PROVE  BatchInv'
    <2>1. /\ pc' = pc /\ batch' = batch /\ idx' = idx /\ gone' = gone \union {i}
          /\ \A v \in Versions : status'[v] = IF v[1] = i THEN "none" ELSE status[v]
      BY <1>3 DEF DeleteInode
    <2>2. GoneEmpty'
      BY <1>0, <2>1 DEF GoneEmpty
    <2> QED
      BY <2>1, <2>2, BatchKept
  <1>4. CASE NotifyWrite \/ GoQuiet \/ (\E v \in Versions : Age(v)) \/ Shutdown \/ EmbedNode
    <2>1. pc' = pc /\ batch' = batch /\ idx' = idx /\ gone' = gone /\ status' = status
      BY <1>4 DEF NotifyWrite, GoQuiet, Age, Shutdown, EmbedNode
    <2>2. GoneEmpty'
      BY <1>0, <2>1 DEF GoneEmpty
    <2> QED
      BY <2>1, <2>2, BatchKept
  <1>5. CASE Crash \/ Reverted \/ (NextItem /\ idx > Len(batch))
    <2>1. batch' = <<>> /\ pc' \in {"down", "top"} /\ status' = status /\ gone' = gone
      BY <1>5 DEF Crash, Reverted, NextItem, Step
    <2>2. DOMAIN batch' = {} /\ Held' = {} /\ ~InHand'
      BY <2>1 DEF Held, Embedding, Finishing, InHand
    <2> QED
      BY <1>0, <2>1, <2>2 DEF BatchInv, ItemThere, BatchRows, BatchOnce, GoneEmpty, RestOpen
  <1>6. CASE Start
    <2>1. /\ pc' = "model" /\ batch' = batch /\ idx' = idx /\ gone' = gone
          /\ status' = status \/ status' = [v \in Versions |-> Reap(status[v])]
      BY <1>6 DEF Start, Step
    <2>2. Held' = {} /\ ~InHand'
      BY <2>1 DEF Held, Embedding, Finishing, InHand
    <2>3. \A v \in Versions : /\ status'[v] = "clean" => status[v] = "clean"
                              /\ status'[v] = "none" <=> status[v] = "none"
      BY <1>0, <2>1 DEF Reap
    <2>4. GoneEmpty'
      BY <1>0, <2>1, <2>3 DEF GoneEmpty
    <2> QED
      BY <2>1, <2>2, <2>3, <2>4, BatchKept
  <1>7. CASE LookupModel \/ Valve \/ WaitForIdle \/ Stop \/ ClaimNothing \/ ClaimFails \/ WakeUp
    <2>1. /\ pc' \in {"top", "down", "claim", "wait", "sleep"} /\ status' = status
          /\ batch' = batch /\ idx' = idx /\ gone' = gone
      BY <1>7 DEF LookupModel, Valve, WaitForIdle, Stop, ClaimNothing, ClaimFails,
                  WakeUp, Step
    <2>2. Held' = {} /\ ~InHand'
      BY <2>1 DEF Held, Embedding, Finishing, InHand
    <2>3. GoneEmpty'
      BY <1>0, <2>1 DEF GoneEmpty
    <2> QED
      BY <2>1, <2>2, <2>3, BatchKept
  <1>8. CASE Claim
    <2>1. /\ batch' \in Orders(Claimable) /\ idx' = 1 /\ pc' = "item" /\ gone' = gone
          /\ status' = [v \in Versions |->
                           IF v \in Claimable THEN "processing" ELSE status[v]]
      BY <1>8 DEF Claim
    <2>2. Claimable \subseteq Versions /\ \A v \in Claimable : status[v] = "pending"
      BY DEF Claimable, With
    <2>3. /\ {batch'[n] : n \in DOMAIN batch'} = Claimable
          /\ \A m, n \in DOMAIN batch' : batch'[m] = batch'[n] => m = n
          /\ DOMAIN batch' = 1 .. Len(batch')
      BY <2>1, ClaimedOnce
    <2>4. Held' = Claimable
      BY <2>1, <2>3 DEF Held, Rest, Finishing
    <2>5. \A v \in Claimable : status'[v] = "processing"
      BY <2>1, <2>2
    <2>6. BatchRows'
      BY <2>3, <2>5 DEF BatchRows
    <2>7. GoneEmpty'
      BY <1>0, <2>1, <2>2 DEF GoneEmpty
    <2>8. ItemThere' /\ RestOpen' /\ BatchOnce'
      BY <2>1, <2>3, <2>4, <2>5 DEF ItemThere, InHand, Embedding, Finishing, RestOpen, BatchOnce
    <2> QED
      BY <2>6, <2>7, <2>8 DEF BatchInv
  <1>9. CASE NextItem /\ ~(idx > Len(batch))
    <2>1. /\ pc = "item" /\ pc' \in {"revert", "load"} /\ batch' = batch /\ idx' = idx
          /\ status' = status /\ gone' = gone
      BY <1>9 DEF NextItem
    <2>2. Held' = Held
      BY <2>1 DEF Held, Rest, Finishing, Embedding
    <2>3. idx <= Len(batch)
      BY <1>9, BatchTyped, SMT DEF EmbeddingTypeOK
    <2> QED
      BY <2>1, <2>2, <2>3 DEF BatchInv, ItemThere, BatchRows, BatchOnce, GoneEmpty, RestOpen
  <1>10. CASE Load \/ EmbedFile \/ EmbedFails \/ Preempt
    <2>1. /\ pc \in Embedding /\ pc' \in {"file", "nodes", "fail", "revert"}
          /\ batch' = batch /\ idx' = idx /\ status' = status /\ gone' = gone
      BY <1>10 DEF Load, EmbedFile, EmbedFails, Preempt, Step, Embedding
    <2>2. Held' = Held /\ InHand
      BY <2>1 DEF Held, Rest, Finishing, Embedding, InHand
    <2>3. GoneEmpty'
      BY <1>0, <2>1 DEF GoneEmpty
    <2> QED
      BY <2>1, <2>2, <2>3, BatchKept
  <1>11. CASE MarkClean \/ MarkFailed
    <2>1. InHand /\ batch' = batch /\ gone' = gone
      BY <1>11 DEF MarkClean, MarkFailed, Step, InHand, Embedding
    <2>2. /\ \A v \in Versions \ {Item} : status'[v] = status[v]
          /\ status'[Item] = "none" <=> status[Item] = "none"
      BY <1>0, <1>11, <2>1 DEF MarkClean, MarkFailed, SetStatus, Exists
    <2>3. \/ pc' = "inode" /\ idx' = idx
          \/ pc' \in {"item", "revert"} /\ idx' = idx + 1
      BY <1>11 DEF MarkClean, MarkFailed, Step
    <2> QED
      BY <2>1, <2>2, <2>3, BatchMoved
  <1>12. CASE ReadLatest \/ UpdateCurrent
    <2>1. /\ pc \in Finishing /\ InHand /\ batch' = batch /\ gone' = gone /\ status' = status
          /\ \/ pc' = "refresh" /\ idx' = idx
             \/ pc' = "item" /\ idx' = idx + 1
      BY <1>12 DEF ReadLatest, UpdateCurrent, Step, Finishing, InHand
    <2>2. CASE pc' = "refresh" /\ idx' = idx
      <3>1. Held' = Held
        BY <2>1, <2>2 DEF Held, Rest, Finishing
      <3>2. GoneEmpty'
        BY <1>0, <2>1 DEF GoneEmpty
      <3> QED
        BY <2>1, <2>2, <3>1, <3>2, BatchKept
    <2>3. CASE pc' = "item" /\ idx' = idx + 1
      BY <2>1, <2>3, BatchMoved
    <2> QED
      BY <2>1, <2>2, <2>3
  <1>13. CASE RevertItem
    <2>1. /\ pc = "revert" /\ pc' = pc /\ idx <= Len(batch) /\ idx' = idx + 1
          /\ batch' = batch /\ gone' = gone
      BY <1>13 DEF RevertItem
    <2>2. /\ \A v \in Versions \ {Item} : status'[v] = status[v]
          /\ status'[Item] = "none" <=> status[Item] = "none"
      BY <1>0, <1>13, <2>1 DEF RevertItem, Reap
    <2> QED
      BY <2>1, <2>2, BatchMoved
  <1> QED
    BY <1>1, <1>2, <1>3, <1>4, <1>5, <1>6, <1>7, <1>8, <1>9, <1>10, <1>11, <1>12,
       <1>13 DEF Next, Worker

----------------------------------------------------------------------------
(* A version in processing is held or stranded.                            *)

LEMMA HeldKept ==
    ASSUME ProcessingHeld, EmbeddingTypeOK', Held \subseteq Held',
           stranded \subseteq stranded',
           \A v \in Versions : status'[v] = "processing" => status[v] = "processing"
    PROVE  ProcessingHeld'
  BY DEF ProcessingHeld, With

(* The version in hand leaves the held ones when its row is settled, or    *)
(* its statement fails.                                                    *)
LEMMA HeldMoved ==
    ASSUME ProcessingHeld, EmbeddingTypeOK', BatchInv,
           InHand \/ (pc = "revert" /\ idx <= Len(batch)),
           Held' = {batch[n] : n \in idx + 1 .. Len(batch)},
           stranded \subseteq stranded',
           status'[Item] # "processing" \/ Item \in stranded' \/ pc \in Finishing,
           \A v \in Versions \ {Item} : status'[v] = status[v],
           pc \in Finishing => status'[Item] = status[Item]
    PROVE  ProcessingHeld'
  <1>1. /\ Len(batch) \in Nat /\ idx \in Nat \ {0} /\ idx <= Len(batch)
        /\ EmbeddingTypeOK
    BY BatchTyped DEF ProcessingHeld, EmbeddingTypeOK, BatchInv, ItemThere
  <1>2. Held = Rest
    BY DEF InHand, Held
  <1>3. CASE pc \in Finishing
    <2>1. Held' = Held
      BY <1>2, <1>3 DEF Rest
    <2> QED
      BY <1>3, <2>1 DEF ProcessingHeld, With
  <1>4. CASE pc \notin Finishing
    <2>1. Held \subseteq {Item} \union Held'
      <3> SUFFICES ASSUME NEW n \in idx .. Len(batch), n # idx
                   PROVE  n \in idx + 1 .. Len(batch)
        BY <1>2, <1>4 DEF Rest, Item
      <3> QED
        BY <1>1, SMT
    <2> QED
      BY <1>4, <2>1 DEF ProcessingHeld, With
  <1> QED
    BY <1>3, <1>4

LEMMA HeldStep ==
    ASSUME ProcessingHeld, EmbeddingTypeOK', BatchInv, [Next]_vars
    PROVE  ProcessingHeld'
  <1> USE DEF rows, world, local, ghost
  <1>0. /\ EmbeddingTypeOK /\ status \in [Versions -> Statuses]
        /\ Len(batch) \in Nat /\ idx \in Nat \ {0}
        /\ InHand => Item \in Versions
        /\ idx <= Len(batch) => Item \in Versions
    BY BatchTyped DEF EmbeddingTypeOK, BatchInv, ItemThere, ProcessingHeld
  <1>1. CASE UNCHANGED vars
    <2>1. Held' = Held
      BY <1>1 DEF vars, Held, Rest
    <2> QED
      BY <1>1, <2>1, HeldKept DEF vars
  <1>2. ASSUME NEW i \in Inodes, Commit(i)
        PROVE  ProcessingHeld'
    <2>1. PICK v \in Versions :
              /\ status'[v] = "pending"
              /\ \A w \in Versions \ {v} : status'[w] = status[w]
      BY <1>0, <1>2, CommitRows DEF BatchInv
    <2>2. Held' = Held /\ stranded' = stranded
      BY <1>2 DEF Commit, Held, Rest
    <2> QED
      BY <2>1, <2>2, HeldKept
  <1>3. ASSUME NEW i \in Inodes, DeleteInode(i)
        PROVE  ProcessingHeld'
    <2>1. /\ Held' = Held /\ stranded' = stranded
          /\ \A v \in Versions : status'[v] = IF v[1] = i THEN "none" ELSE status[v]
      BY <1>3 DEF DeleteInode, Held, Rest
    <2> QED
      BY <2>1, HeldKept
  <1>4. CASE NotifyWrite \/ GoQuiet \/ (\E v \in Versions : Age(v)) \/ Shutdown \/ EmbedNode
    <2>1. pc' = pc /\ batch' = batch /\ idx' = idx /\ stranded' = stranded /\ status' = status
      BY <1>4 DEF NotifyWrite, GoQuiet, Age, Shutdown, EmbedNode
    <2>2. Held' = Held
      BY <2>1 DEF Held, Rest
    <2> QED
      BY <2>1, <2>2, HeldKept
  <1>5. CASE Crash
    <2>1. /\ stranded' = stranded \union {v \in Held : status[v] = "processing"}
          /\ status' = status
      BY <1>5 DEF Crash
    <2> QED
      BY <2>1 DEF ProcessingHeld, With
  <1>6. CASE Start
    <2>1. CASE status' = [v \in Versions |-> Reap(status[v])]
      <3>1. \A v \in Versions : status'[v] # "processing"
        BY <1>0, <2>1 DEF Reap, Statuses
      <3> QED
        BY <3>1 DEF ProcessingHeld, With
    <2>2. CASE status' = status /\ stranded' = stranded
      <3>1. pc = "down" /\ Held = {}
        BY <1>6 DEF Start, Step, Held, Embedding, Finishing
      <3> QED
        BY <2>2, <3>1, HeldKept
    <2> QED
      BY <1>6, <2>1, <2>2 DEF Start
  <1>7. CASE LookupModel \/ Valve \/ WaitForIdle \/ Stop \/ ClaimNothing \/ ClaimFails \/ WakeUp
    <2>1. /\ pc \in {"model", "top", "wait", "sleep", "claim"}
          /\ status' = status /\ stranded' = stranded
      BY <1>7 DEF LookupModel, Valve, WaitForIdle, Stop, ClaimNothing, ClaimFails,
                  WakeUp, Step
    <2>2. Held = {}
      BY <2>1 DEF Held, Embedding, Finishing
    <2> QED
      BY <2>1, <2>2, HeldKept
  <1>8. CASE Claim
    <2>1. /\ pc = "claim" /\ stranded' = stranded
          /\ batch' \in Orders(Claimable) /\ idx' = 1 /\ pc' = "item"
          /\ status' = [v \in Versions |->
                           IF v \in Claimable THEN "processing" ELSE status[v]]
      BY <1>8 DEF Claim
    <2>2. Held = {}
      BY <2>1 DEF Held, Embedding, Finishing
    <2>3. {batch'[n] : n \in 1 .. Len(batch')} = Claimable
      BY <1>0, <2>1, ClaimedOnce
    <2>4. Held' = Claimable
      BY <2>1, <2>3 DEF Held, Rest, Finishing
    <2> QED
      BY <2>1, <2>2, <2>4 DEF ProcessingHeld, With
  <1>9. CASE NextItem
    <2>1. pc = "item" /\ status' = status /\ stranded' = stranded
      BY <1>9 DEF NextItem
    <2>2. CASE idx > Len(batch)
      <3>1. idx .. Len(batch) = {}
        BY <1>0, <2>2, SMT
      <3>2. Held = {}
        BY <2>1, <3>1 DEF Held, Rest, Finishing
      <3> QED
        BY <2>1, <3>2, HeldKept
    <2>3. CASE ~(idx > Len(batch))
      <3>1. pc' \in {"revert", "load"} /\ batch' = batch /\ idx' = idx
        BY <1>9, <2>3 DEF NextItem
      <3>2. Held' = Held
        BY <2>1, <3>1 DEF Held, Rest, Finishing, Embedding
      <3> QED
        BY <2>1, <3>2, HeldKept
    <2> QED
      BY <2>2, <2>3
  <1>10. CASE Load \/ EmbedFile \/ EmbedFails \/ Preempt
    <2>1. /\ pc \in Embedding /\ pc' \in {"file", "nodes", "fail", "revert"}
          /\ batch' = batch /\ idx' = idx /\ status' = status /\ stranded' = stranded
      BY <1>10 DEF Load, EmbedFile, EmbedFails, Preempt, Step, Embedding
    <2>2. Held' = Held
      BY <2>1 DEF Held, Rest, Finishing, Embedding
    <2> QED
      BY <2>1, <2>2, HeldKept
  <1>11. CASE MarkClean \/ MarkFailed
    <2>1. InHand /\ batch' = batch /\ gone' = gone /\ Item \in Versions
      BY <1>0, <1>11 DEF MarkClean, MarkFailed, Step, InHand, Embedding
    <2>2. /\ \A v \in Versions \ {Item} : status'[v] = status[v]
          /\ status'[Item] = "none" <=> status[Item] = "none"
          /\ status'[Item] # "processing" \/ Item \in stranded'
          /\ stranded \subseteq stranded'
      BY <1>0, <1>11, <2>1 DEF MarkClean, MarkFailed, SetStatus, Exists
    <2>3. /\ pc \notin Finishing
          /\ \/ pc' = "inode" /\ idx' = idx
             \/ pc' \in {"item", "revert"} /\ idx' = idx + 1
      BY <1>11 DEF MarkClean, MarkFailed, Step, Finishing
    <2>4. Held' = {batch[n] : n \in idx + 1 .. Len(batch)}
      BY <1>0, <2>1, <2>2, <2>3, BatchMoved
    <2> QED
      BY <2>1, <2>2, <2>3, <2>4, HeldMoved
  <1>12. CASE ReadLatest \/ UpdateCurrent
    <2>1. /\ pc \in Finishing /\ InHand /\ batch' = batch /\ gone' = gone
          /\ status' = status /\ stranded' = stranded
          /\ \/ pc' = "refresh" /\ idx' = idx
             \/ pc' = "item" /\ idx' = idx + 1
      BY <1>12 DEF ReadLatest, UpdateCurrent, Step, Finishing, InHand
    <2>2. Held' = Held
      BY <2>1 DEF Held, Rest, Finishing
    <2> QED
      BY <2>1, <2>2, HeldKept
  <1>13. CASE RevertItem
    <2>1. /\ pc = "revert" /\ pc' = pc /\ idx <= Len(batch) /\ idx' = idx + 1
          /\ batch' = batch /\ gone' = gone /\ Item \in Versions
      BY <1>0, <1>13 DEF RevertItem
    <2>2. /\ \A v \in Versions \ {Item} : status'[v] = status[v]
          /\ status'[Item] = "none" <=> status[Item] = "none"
          /\ status'[Item] # "processing" \/ Item \in stranded'
          /\ stranded \subseteq stranded'
      BY <1>0, <1>13, <2>1 DEF RevertItem, Reap
    <2>3. Held' = {batch[n] : n \in idx + 1 .. Len(batch)}
      BY <1>0, <2>1, <2>2, BatchMoved
    <2> QED
      BY <2>1, <2>2, <2>3, HeldMoved DEF Finishing
  <1>14. CASE Reverted
    <2>1. pc = "revert" /\ idx > Len(batch) /\ status' = status /\ stranded' = stranded
      BY <1>14 DEF Reverted, Step
    <2>2. idx .. Len(batch) = {}
      BY <1>0, <2>1, SMT
    <2>3. Held = {}
      BY <2>1, <2>2 DEF Held, Rest, Finishing
    <2> QED
      BY <2>1, <2>3, HeldKept
  <1> QED
    BY <1>1, <1>2, <1>3, <1>4, <1>5, <1>6, <1>7, <1>8, <1>9, <1>10, <1>11, <1>12,
       <1>13, <1>14 DEF Next, Worker

----------------------------------------------------------------------------
(* A clean version can be found.                                           *)

LEMMA StoredKept ==
    ASSUME StoredInv, EmbeddingTypeOK',
           \/ pc' \notin {"file", "nodes"}
           \/ pc' = pc /\ Item' = Item /\ (status'[Item] # "none" => status[Item] # "none"),
           text \subseteq text', files \subseteq files', vecs \subseteq vecs',
           \A v \in Versions : status'[v] = "clean" => status[v] = "clean"
    PROVE  StoredInv'
  <1>1. TextStored' /\ FilesStored'
    BY DEF StoredInv, TextStored, FilesStored, Exists
  <1>2. CleanIsSearchable'
    BY DEF StoredInv, CleanIsSearchable, With
  <1> QED
    BY <1>1, <1>2 DEF StoredInv

LEMMA StoredStep ==
    ASSUME StoredInv, EmbeddingTypeOK, EmbeddingTypeOK', BatchInv, [Next]_vars
    PROVE  StoredInv'
  <1> USE DEF rows, world, local, ghost
  <1>0. /\ status \in [Versions -> Statuses]
        /\ InHand => Item \in Versions /\ idx \in DOMAIN batch
        /\ idx <= Len(batch) => Item \in Versions
    <2>1. idx <= Len(batch) => idx \in DOMAIN batch
      BY BatchTyped, SMT DEF EmbeddingTypeOK
    <2> QED
      BY <2>1, BatchTyped DEF EmbeddingTypeOK, BatchInv, ItemThere
  <1>1. CASE UNCHANGED vars
    <2>1. Item' = Item /\ pc' = pc /\ status' = status
      BY <1>1 DEF vars, Item
    <2> QED
      BY <1>1, <2>1, StoredKept DEF vars
  <1>2. ASSUME NEW i \in Inodes, Commit(i)
        PROVE  StoredInv'
    <2>1. PICK v \in Versions :
              /\ v[1] = i /\ i \notin gone /\ status'[v] = "pending"
              /\ \A w \in Versions \ {v} : status'[w] = status[w]
      BY <1>2, CommitRows DEF BatchInv
    <2>2. Item' = Item /\ pc' = pc /\ UNCHANGED <<text, files, vecs>>
      BY <1>2 DEF Commit, Item
    <2>3. ASSUME pc \in {"file", "nodes"}, status'[Item] # "none"
          PROVE  status[Item] # "none"
      <3>1. Item \in Versions /\ idx \in DOMAIN batch
        BY <1>0, <2>3 DEF InHand, Embedding
      <3> QED
        BY <2>1, <2>3, <3>1 DEF BatchInv, BatchRows, Item
    <2> QED
      BY <2>1, <2>2, <2>3, StoredKept
  <1>3. ASSUME NEW i \in Inodes, DeleteInode(i)
        PROVE  StoredInv'
    <2>1. /\ \A v \in Versions : status'[v] = IF v[1] = i THEN "none" ELSE status[v]
          /\ pc' = pc /\ Item' = Item
          /\ text' = text \ Rows(i) /\ files' = files \ Rows(i) /\ vecs' = vecs \ Of(i, vecs)
      BY <1>3 DEF DeleteInode, Item
    <2>2. \A v \in Rows(i) : v \in Versions /\ v[1] = i
      BY DEF Rows
    <2>3. TextStored' /\ FilesStored'
      <3>1. pc \in {"file", "nodes"} => Item \in Versions
        BY <1>0 DEF InHand, Embedding
      <3> QED
        BY <2>1, <2>2, <3>1 DEF StoredInv, TextStored, FilesStored, Exists
    <2>4. ASSUME NEW v \in With("clean")'
          PROVE  v \in text' /\ v \in files' /\ {v} \X Nodes \subseteq vecs'
      <3>1. v \in Versions /\ v[1] # i /\ v \in With("clean")
        BY <2>1 DEF With
      <3>2. v \in text /\ v \in files /\ {v} \X Nodes \subseteq vecs
        BY <3>1 DEF StoredInv, CleanIsSearchable
      <3> QED
        BY <2>1, <2>2, <3>1, <3>2 DEF Of
    <2>5. CleanIsSearchable'
      BY <2>4 DEF CleanIsSearchable
    <2> QED
      BY <2>3, <2>5 DEF StoredInv
  <1>4. CASE NotifyWrite \/ GoQuiet \/ (\E v \in Versions : Age(v)) \/ Shutdown \/ EmbedNode
    <2>1. pc' = pc /\ Item' = Item /\ status' = status
      BY <1>4 DEF NotifyWrite, GoQuiet, Age, Shutdown, EmbedNode, Item
    <2>2. text \subseteq text' /\ files \subseteq files' /\ vecs \subseteq vecs'
      BY <1>4 DEF NotifyWrite, GoQuiet, Age, Shutdown, EmbedNode
    <2> QED
      BY <2>1, <2>2, StoredKept
  <1>5. CASE \/ Crash \/ LookupModel \/ Valve \/ WaitForIdle \/ Stop \/ ClaimNothing
             \/ ClaimFails \/ WakeUp \/ NextItem \/ EmbedFails \/ Preempt \/ ReadLatest
             \/ UpdateCurrent \/ Reverted
    <2>1. pc' \notin {"file", "nodes"} /\ UNCHANGED <<status, text, files, vecs>>
      BY <1>5 DEF Crash, LookupModel, Valve, WaitForIdle, Stop, ClaimNothing, ClaimFails,
                  WakeUp, NextItem, EmbedFails, Preempt, ReadLatest, UpdateCurrent, Reverted,
                  Step
    <2> QED
      BY <2>1, StoredKept
  <1>6. CASE Start \/ Claim
    <2>1. pc' \notin {"file", "nodes"} /\ UNCHANGED <<text, files, vecs>>
      BY <1>6 DEF Start, Claim, Step
    <2>2. \A v \in Versions : status'[v] = "clean" => status[v] = "clean"
      BY <1>0, <1>6 DEF Start, Claim, Reap
    <2> QED
      BY <2>1, <2>2, StoredKept
  <1>7. CASE MarkFailed \/ RevertItem
    <2>1. pc' \notin {"file", "nodes"} /\ UNCHANGED <<text, files, vecs>>
      BY <1>7 DEF MarkFailed, RevertItem, Step
    <2>2. Item \in Versions
      BY <1>0, <1>7 DEF MarkFailed, RevertItem, Step, InHand
    <2>3. \A v \in Versions : status'[v] = "clean" => status[v] = "clean"
      BY <1>0, <1>7, <2>2 DEF MarkFailed, RevertItem, SetStatus, Reap
    <2> QED
      BY <2>1, <2>3, StoredKept
  <1>8. CASE Load \/ EmbedFile
    <2>1. /\ Item' = Item /\ status' = status /\ vecs' = vecs
          /\ text \subseteq text' /\ files \subseteq files'
          /\ \/ pc' = "file" /\ Item \in text'
             \/ pc = "file" /\ pc' = "nodes" /\ text' = text /\ Item \in files'
      BY <1>8 DEF Load, EmbedFile, Step, Item
    <2>2. TextStored' /\ FilesStored'
      BY <2>1 DEF StoredInv, TextStored, FilesStored, Exists
    <2>3. CleanIsSearchable'
      BY <2>1 DEF StoredInv, CleanIsSearchable, With
    <2> QED
      BY <2>2, <2>3 DEF StoredInv
  <1>9. CASE MarkClean
    <2>1. /\ pc = "nodes" /\ pc' = "inode" /\ UNCHANGED <<text, files, vecs>>
          /\ Complete /\ SetStatus("clean")
      BY <1>9 DEF MarkClean, Step
    <2>2. Item \in Versions
      BY <1>0, <2>1 DEF InHand, Embedding
    <2>3. ASSUME NEW v \in With("clean")'
          PROVE  v \in text /\ v \in files /\ {v} \X Nodes \subseteq vecs
      <3>1. v \in Versions /\ status'[v] = "clean"
        BY DEF With
      <3>2. CASE status[v] = "clean"
        BY <3>1, <3>2 DEF StoredInv, CleanIsSearchable, With
      <3>3. CASE status[v] # "clean"
        <4>1. v = Item /\ Exists
          BY <1>0, <2>1, <2>2, <3>1, <3>3 DEF SetStatus
        <4> QED
          BY <2>1, <4>1 DEF StoredInv, TextStored, FilesStored, Complete
      <3> QED
        BY <3>2, <3>3
    <2> QED
      BY <2>1, <2>3 DEF StoredInv, TextStored, FilesStored, CleanIsSearchable
  <1> QED
    BY <1>1, <1>2, <1>3, <1>4, <1>5, <1>6, <1>7, <1>8, <1>9 DEF Next, Worker

----------------------------------------------------------------------------
(* is_current marks the newest version.                                    *)

(* The two places of the worker that still concern a refresh: of the file  *)
(* of the version in hand.                                                 *)
Refreshing(i) == pc \in Finishing /\ Item[1] = i

Marked(i) == Of(i, current) = {a \in Of(i, vecs) : IsLatest(a[1])}

(* A file whose rows a step leaves in place.                               *)
LEMMA RowsKept ==
    ASSUME NEW i,
           \A v \in Versions : v[1] = i =>
               /\ status'[v] = "none" <=> status[v] = "none"
               /\ status'[v] = "clean" => status[v] = "clean"
    PROVE  /\ Unfinished(i) => Unfinished(i)'
           /\ \A v \in Versions : v[1] = i => (IsLatest(v)' <=> IsLatest(v))
  <1>1. Rows(i)' = Rows(i) /\ Rows(i) \subseteq Versions
    BY DEF Rows
  <1>2. \A v \in Versions : v[1] = i => (IsLatest(v)' <=> IsLatest(v))
    BY <1>1 DEF IsLatest
  <1>3. Unfinished(i) => Unfinished(i)'
    BY <1>1 DEF Unfinished, Rows
  <1> QED
    BY <1>2, <1>3

(* ... and its vectors and flags too.                                      *)
LEMMA FileKept ==
    ASSUME EmbeddingTypeOK, NEW i,
           \A v \in Versions : v[1] = i =>
               /\ status'[v] = "none" <=> status[v] = "none"
               /\ status'[v] = "clean" => status[v] = "clean",
           Of(i, vecs') = Of(i, vecs), Of(i, current') = Of(i, current)
    PROVE  /\ Unfinished(i) => Unfinished(i)'
           /\ Marked(i) => Marked(i)'
           /\ \A v \in Versions : v[1] = i => (IsLatest(v)' <=> IsLatest(v))
  <1>1. /\ Unfinished(i) => Unfinished(i)'
        /\ \A v \in Versions : v[1] = i => (IsLatest(v)' <=> IsLatest(v))
    BY RowsKept
  <1>2. \A a \in Of(i, vecs) : a[1] \in Versions /\ a[1][1] = i
    BY DEF Of, EmbeddingTypeOK, Vectors
  <1>3. Marked(i) => Marked(i)'
    BY <1>1, <1>2 DEF Marked
  <1> QED
    BY <1>1, <1>3

(* A step that leaves vectors and flags alone, makes no version clean and  *)
(* drops no refresh without a trace.                                       *)
LEMMA CurrentKept ==
    ASSUME EmbeddingTypeOK, CurrentInv, unrefreshed \subseteq unrefreshed',
           vecs' = vecs, current' = current,
           \A v \in Versions : /\ status'[v] = "none" <=> status[v] = "none"
                               /\ status'[v] = "clean" => status[v] = "clean",
           pc \in Finishing => \/ Item[1] \in unrefreshed'
                               \/ pc' \in Finishing /\ Item' = Item,
           pc' = "refresh" => pc = "refresh" /\ Item' = Item /\ latest' = latest
    PROVE  CurrentInv'
  <1>1. \A i \in Inodes : Of(i, vecs') = Of(i, vecs) /\ Of(i, current') = Of(i, current)
    OBVIOUS
  <1>2. LatestRead'
    <2> SUFFICES ASSUME pc' = "refresh"
                 PROVE  /\ latest' \in Versions /\ latest'[1] = Item'[1]
                        /\ IsLatest(latest)' \/ Unfinished(latest[1])'
      BY DEF LatestRead
    <2>1. /\ latest' = latest /\ Item' = Item /\ latest \in Versions /\ latest[1] = Item[1]
          /\ IsLatest(latest) \/ Unfinished(latest[1])
      BY DEF CurrentInv, LatestRead
    <2>2. Rows(latest[1])' = Rows(latest[1])
      BY <2>1 DEF Rows
    <2>3. IsLatest(latest) => IsLatest(latest)'
      BY <2>1, <2>2 DEF IsLatest
    <2>4. Unfinished(latest[1]) => Unfinished(latest[1])'
      BY <2>1, <2>2 DEF Unfinished, Rows
    <2> QED
      BY <2>1, <2>3, <2>4
  <1>3. ASSUME NEW i \in Inodes \ unrefreshed'
        PROVE  Unfinished(i)' \/ Refreshing(i)' \/ Marked(i)'
    <2>1. Unfinished(i) \/ Refreshing(i) \/ Marked(i)
      BY DEF CurrentInv, CurrentIsLatest, Unfinished, Refreshing, Marked
    <2>2. (Unfinished(i) => Unfinished(i)') /\ (Marked(i) => Marked(i)')
      BY <1>1, FileKept
    <2>3. Refreshing(i) => Refreshing(i)'
      BY DEF Refreshing
    <2> QED
      BY <2>1, <2>2, <2>3
  <1>4. CurrentIsLatest'
    BY <1>3 DEF CurrentIsLatest, Unfinished, Refreshing, Marked
  <1> QED
    BY <1>2, <1>4 DEF CurrentInv

(* Two newest versions of a file are one.                                  *)
LEMMA LatestOnce ==
    ASSUME NEW v \in Versions, NEW w \in Versions, v[1] = w[1],
           IsLatest(v), IsLatest(w)
    PROVE  v = w
  <1>1. v \in Rows(w[1]) /\ w \in Rows(v[1])
    BY DEF IsLatest
  <1>2. v[2] <= w[2] /\ w[2] <= v[2]
    BY <1>1 DEF IsLatest
  <1>3. v[2] = w[2]
    BY <1>2, VersionFields, SMT
  <1> QED
    BY <1>3, VersionFields, Zenon

(* What CurrentInv asks of a file is what the three alternatives say.      *)
LEMMA CurrentByFile ==
    ASSUME current' \subseteq vecs', LatestRead',
           \A i \in Inodes \ unrefreshed' :
               Unfinished(i)' \/ Refreshing(i)' \/ Marked(i)'
    PROVE  CurrentInv'
  BY DEF CurrentInv, CurrentIsLatest, Unfinished, Refreshing, Marked

LEMMA CurrentStep ==
    ASSUME CurrentInv, EmbeddingTypeOK, EmbeddingTypeOK', BatchInv, [Next]_vars
    PROVE  CurrentInv'
  <1> USE DEF rows, world, local, ghost
  <1>0. /\ status \in [Versions -> Statuses] /\ current \subseteq vecs
        /\ vecs \subseteq Vectors /\ LatestRead
        /\ InHand => Item \in Versions /\ Item[1] \in Inodes /\ idx \in DOMAIN batch
        /\ idx <= Len(batch) => Item \in Versions
    <2>1. idx <= Len(batch) => idx \in DOMAIN batch
      BY BatchTyped, SMT DEF EmbeddingTypeOK
    <2> QED
      BY <2>1, BatchTyped DEF EmbeddingTypeOK, BatchInv, ItemThere, CurrentInv
  <1>a. \A i \in Inodes \ unrefreshed : Unfinished(i) \/ Refreshing(i) \/ Marked(i)
    BY DEF CurrentInv, CurrentIsLatest, Unfinished, Refreshing, Marked
  <1>1. CASE UNCHANGED vars
    <2>1. UNCHANGED <<Item, pc, latest, status, vecs, current, unrefreshed>>
      BY <1>1 DEF vars, Item
    <2> QED
      BY <2>1, CurrentKept
  <1>2. ASSUME NEW j \in Inodes, Commit(j)
        PROVE  CurrentInv'
    <2>1. PICK v \in Versions :
              /\ v[1] = j /\ status'[v] = "pending"
              /\ \A w \in Versions \ {v} : status'[w] = status[w]
      BY <1>2, CommitRows DEF BatchInv
    <2>2. UNCHANGED <<Item, pc, latest, vecs, current, unrefreshed>>
      BY <1>2 DEF Commit, Item
    <2>3. Unfinished(j)'
      BY <2>1 DEF Unfinished, Rows
    <2>4. ASSUME NEW i, i # j
          PROVE  /\ Unfinished(i) => Unfinished(i)'
                 /\ Marked(i) => Marked(i)'
                 /\ \A w \in Versions : w[1] = i => (IsLatest(w)' <=> IsLatest(w))
      BY <2>1, <2>2, <2>4, FileKept DEF Of
    <2>5. LatestRead'
      BY <1>0, <2>2, <2>3, <2>4 DEF LatestRead
    <2>6. \A i : Refreshing(i) => Refreshing(i)'
      BY <2>2 DEF Refreshing
    <2> QED
      BY <1>0, <1>a, <2>2, <2>3, <2>4, <2>5, <2>6, CurrentByFile
  <1>3. ASSUME NEW j \in Inodes, DeleteInode(j)
        PROVE  CurrentInv'
    <2>1. /\ \A w \in Versions : status'[w] = IF w[1] = j THEN "none" ELSE status[w]
          /\ vecs' = vecs \ Of(j, vecs) /\ current' = current \ Of(j, current)
          /\ UNCHANGED <<Item, pc, latest, unrefreshed>>
      BY <1>3 DEF DeleteInode, Item
    <2>2. current' \subseteq vecs'
      BY <1>0, <2>1 DEF Of
    <2>3. Unfinished(j)'
      BY <2>1 DEF Unfinished, Rows
    <2>4. ASSUME NEW i, i # j
          PROVE  /\ Unfinished(i) => Unfinished(i)'
                 /\ Marked(i) => Marked(i)'
                 /\ \A w \in Versions : w[1] = i => (IsLatest(w)' <=> IsLatest(w))
      BY <2>1, <2>4, FileKept DEF Of
    <2>5. LatestRead'
      BY <1>0, <2>1, <2>3, <2>4 DEF LatestRead
    <2>6. \A i : Refreshing(i) => Refreshing(i)'
      BY <2>1 DEF Refreshing
    <2> QED
      BY <1>a, <2>1, <2>2, <2>3, <2>4, <2>5, <2>6, CurrentByFile
  <1>4. CASE NotifyWrite \/ GoQuiet \/ (\E v \in Versions : Age(v)) \/ Shutdown
    <2>1. UNCHANGED <<Item, pc, latest, status, vecs, current, unrefreshed>>
      BY <1>4 DEF NotifyWrite, GoQuiet, Age, Shutdown, Item
    <2> QED
      BY <2>1, CurrentKept
  <1>5. CASE \/ LookupModel \/ Valve \/ WaitForIdle \/ Stop \/ ClaimNothing
             \/ ClaimFails \/ WakeUp \/ NextItem \/ EmbedFails \/ Preempt
             \/ Reverted \/ Load \/ EmbedFile
    <2>1. /\ pc \notin Finishing /\ pc' # "refresh"
          /\ UNCHANGED <<status, vecs, current, unrefreshed>>
      BY <1>5 DEF LookupModel, Valve, WaitForIdle, Stop, ClaimNothing, ClaimFails,
                  WakeUp, NextItem, EmbedFails, Preempt, Reverted, Load, EmbedFile,
                  Step, Finishing, Embedding
    <2> QED
      BY <2>1, CurrentKept
  <1>6. CASE Start \/ Claim
    <2>1. /\ pc \notin Finishing /\ pc' # "refresh"
          /\ UNCHANGED <<vecs, current, unrefreshed>>
      BY <1>6 DEF Start, Claim, Step, Finishing
    <2>2. \A v \in Versions : /\ status'[v] = "none" <=> status[v] = "none"
                              /\ status'[v] = "clean" => status[v] = "clean"
      BY <1>0, <1>6 DEF Start, Claim, Reap, Claimable, With
    <2> QED
      BY <2>1, <2>2, CurrentKept
  <1>7. CASE MarkFailed \/ RevertItem
    <2>1. /\ pc \notin Finishing /\ pc' # "refresh" /\ Item \in Versions
          /\ UNCHANGED <<vecs, current, unrefreshed>>
      BY <1>0, <1>7 DEF MarkFailed, RevertItem, Step, InHand, Finishing
    <2>2. \A v \in Versions : /\ status'[v] = "none" <=> status[v] = "none"
                              /\ status'[v] = "clean" => status[v] = "clean"
      BY <1>0, <1>7, <2>1 DEF MarkFailed, RevertItem, SetStatus, Reap, Exists
    <2> QED
      BY <2>1, <2>2, CurrentKept
  <1>8. CASE EmbedNode
    <2>1. PICK n \in Nodes : /\ vecs' = vecs \union {<<Item, n>>}
                             /\ current' = current \union {<<Item, n>>}
      BY <1>8 DEF EmbedNode
    <2>2. pc = "nodes" /\ Exists /\ UNCHANGED <<Item, pc, status, unrefreshed>>
      BY <1>8 DEF EmbedNode, Item
    <2>3. Item \in Versions /\ idx \in idx .. Len(batch)
      <3>1. InHand /\ idx <= Len(batch)
        BY <2>2 DEF InHand, Embedding, BatchInv, ItemThere
      <3> QED
        BY <1>0, <3>1, BatchTyped, SMT DEF EmbeddingTypeOK
    <2>4. Item \in Held
      BY <2>2, <2>3 DEF Held, Rest, Embedding, Finishing, Item
    <2>5. Unfinished(Item[1])'
      BY <2>2, <2>3, <2>4 DEF BatchInv, RestOpen, Unfinished, Rows, Exists
    <2>6. ASSUME NEW i, i # Item[1]
          PROVE  (Unfinished(i) => Unfinished(i)') /\ (Marked(i) => Marked(i)')
      <3>1. Of(i, vecs') = Of(i, vecs) /\ Of(i, current') = Of(i, current)
        BY <2>1, <2>6 DEF Of
      <3> QED
        BY <2>2, <3>1, FileKept
    <2>7. \A i : ~Refreshing(i)
      BY <2>2 DEF Refreshing, Finishing
    <2>8. current' \subseteq vecs' /\ LatestRead'
      BY <1>0, <2>1, <2>2 DEF LatestRead
    <2> QED
      BY <1>a, <2>2, <2>5, <2>6, <2>7, <2>8, CurrentByFile
  <1>9. CASE MarkClean
    <2>1. /\ pc = "nodes" /\ pc' = "inode" /\ SetStatus("clean")
          /\ UNCHANGED <<Item, vecs, current, unrefreshed>>
      BY <1>9 DEF MarkClean, Step, Item
    <2>2. Item \in Versions
      BY <1>0, <2>1 DEF InHand, Embedding
    <2>3. /\ \A v \in Versions \ {Item} : status'[v] = status[v]
          /\ status'[Item] = "none" <=> status[Item] = "none"
      BY <1>0, <2>1, <2>2 DEF SetStatus, Exists
    <2>4. Refreshing(Item[1])'
      BY <2>1 DEF Refreshing, Finishing
    <2>5. ASSUME NEW i, i # Item[1]
          PROVE  (Unfinished(i) => Unfinished(i)') /\ (Marked(i) => Marked(i)')
      BY <2>1, <2>3, <2>5, FileKept DEF Of
    <2>6. \A i : ~Refreshing(i)
      BY <2>1 DEF Refreshing, Finishing
    <2>7. current' \subseteq vecs' /\ LatestRead'
      BY <1>0, <2>1 DEF LatestRead
    <2> QED
      BY <1>a, <2>1, <2>4, <2>5, <2>6, <2>7, CurrentByFile
  <1>10. CASE Crash
    <2>1. /\ pc' = "down" /\ UNCHANGED <<status, vecs, current>>
          /\ unrefreshed' = IF pc \in Finishing
                            THEN unrefreshed \union {Item[1]} ELSE unrefreshed
      BY <1>10 DEF Crash
    <2> QED
      BY <2>1, CurrentKept
  <1>11. CASE ReadLatest
    <2>1. /\ pc = "inode" /\ batch' = batch
          /\ UNCHANGED <<status, vecs, current>>
      BY <1>11 DEF ReadLatest
    <2>2. Item \in Versions /\ idx \in DOMAIN batch
      BY <1>0, <2>1 DEF InHand, Finishing
    <2>3. \A i : /\ Unfinished(i) => Unfinished(i)'
                 /\ Marked(i) => Marked(i)'
      BY <2>1, FileKept
    <2>4. \A i : Refreshing(i) => i = Item[1]
      BY DEF Refreshing
    <2>5. CASE /\ pc' = "refresh" /\ UNCHANGED <<idx, unrefreshed>>
               /\ \E v \in Rows(Item[1]) : IsLatest(v) /\ latest' = v
      <3>1. Item' = Item
        BY <2>1, <2>5 DEF Item
      <3>2. /\ latest' \in Versions /\ latest'[1] = Item[1]
            /\ \E v \in Versions : latest' = v /\ IsLatest(v)
        BY <2>5 DEF Rows
      <3>3. \A v \in Versions : IsLatest(v) => IsLatest(v)'
        BY <2>1, FileKept
      <3>4. IsLatest(latest)'
        BY <2>1, <3>2 DEF IsLatest, Rows
      <3>5. LatestRead'
        BY <3>1, <3>2, <3>4 DEF LatestRead
      <3>6. \A i : Refreshing(i) => Refreshing(i)'
        BY <2>5, <3>1 DEF Refreshing, Finishing
      <3> QED
        BY <1>0, <1>a, <2>1, <2>3, <2>5, <3>5, <3>6, CurrentByFile
    <2>6. CASE ~Exists /\ pc' = "item" /\ unrefreshed' = unrefreshed
      <3>1. Item[1] \in gone
        BY <2>2, <2>6 DEF BatchInv, BatchRows, Exists, Item
      <3>2. Unfinished(Item[1])
        BY <3>1 DEF BatchInv, GoneEmpty, Unfinished, Rows
      <3>3. LatestRead'
        BY <2>6 DEF LatestRead
      <3> QED
        BY <1>0, <1>a, <2>1, <2>3, <2>4, <2>6, <3>2, <3>3, CurrentByFile
    <2>7. CASE pc' = "item" /\ unrefreshed' = unrefreshed \union {Item[1]}
      BY <2>1, <2>7, CurrentKept
    <2> QED
      BY <1>11, <2>5, <2>6, <2>7 DEF ReadLatest
  <1>12. CASE UpdateCurrent
    <2>1. pc = "refresh" /\ pc' = "item" /\ UNCHANGED <<status, vecs>>
      BY <1>12 DEF UpdateCurrent, Step
    <2>2. CASE current' = current /\ unrefreshed' = unrefreshed \union {Item[1]}
      BY <2>1, <2>2, CurrentKept
    <2>3. CASE current' = Refreshed(Item[1]) /\ unrefreshed' = unrefreshed \ {Item[1]}
      <3>0. PICK k \in Inodes : k = Item[1]
        BY <1>0, <2>1 DEF InHand, Finishing
      <3>1. /\ latest \in Versions /\ latest[1] = k
            /\ IsLatest(latest) \/ Unfinished(k)
        BY <1>0, <2>1, <3>0 DEF LatestRead
      <3>2. ASSUME NEW i, i # k
            PROVE  (Unfinished(i) => Unfinished(i)') /\ (Marked(i) => Marked(i)')
        <4>1. Of(i, current') = Of(i, current)
          BY <1>0, <2>3, <3>0, <3>2 DEF Of, Refreshed
        <4> QED
          BY <2>1, <4>1, FileKept
      <3>3. Unfinished(k) => Unfinished(k)'
        BY <2>1, RowsKept
      <3>4. ASSUME IsLatest(latest)
            PROVE  Marked(k)'
        <4>1. \A a \in Of(k, vecs) : a[1] \in Versions /\ a[1][1] = k
          BY <1>0 DEF Of, Vectors
        <4>2. \A v \in Versions : v[1] = k => (IsLatest(v)' <=> IsLatest(v))
          BY <2>1, RowsKept
        <4>3. \A a \in Of(k, vecs) : IsLatest(a[1]) <=> a[1] = latest
          BY <3>1, <3>4, <4>1, LatestOnce
        <4>4. Of(k, current') = {a \in Of(k, vecs) : a[1] = latest}
          BY <2>3, <3>0, <3>1 DEF Of, Refreshed
        <4>5. {a \in Of(k, vecs) : a[1] = latest} = {a \in Of(k, vecs) : IsLatest(a[1])'}
          BY <4>1, <4>2, <4>3
        <4> QED
          BY <2>1, <4>4, <4>5 DEF Marked
      <3>5. current' \subseteq vecs' /\ LatestRead'
        BY <1>0, <2>1, <2>3 DEF LatestRead, Refreshed
      <3>6. \A i : Refreshing(i) => i = k
        BY <3>0 DEF Refreshing
      <3> QED
        BY <1>a, <2>3, <3>0, <3>1, <3>2, <3>3, <3>4, <3>5, <3>6, CurrentByFile
    <2> QED
      BY <1>12, <2>2, <2>3 DEF UpdateCurrent
  <1> QED
    BY <1>1, <1>2, <1>3, <1>4, <1>5, <1>6, <1>7, <1>8, <1>9, <1>10, <1>11,
       <1>12 DEF Next, Worker

----------------------------------------------------------------------------
LEMMA InvInit ==
    ASSUME Init
    PROVE  Inv
  <1>1. EmbeddingTypeOK /\ BatchInv
    BY TypeInit, BatchInit
  <1>2. \A s \in Statuses \ {"none"} : With(s) = {}
    BY DEF Init, With
  <1>3. ProcessingHeld /\ CleanIsSearchable
    BY <1>1, <1>2 DEF ProcessingHeld, CleanIsSearchable, Statuses
  <1>4. TextStored /\ FilesStored /\ LatestRead
    BY DEF Init, TextStored, FilesStored, LatestRead
  <1>5. CurrentIsLatest /\ current \subseteq vecs
    BY DEF Init, CurrentIsLatest, Rows
  <1> QED
    BY <1>1, <1>3, <1>4, <1>5 DEF Inv, StoredInv, CurrentInv

LEMMA InvStep ==
    ASSUME Inv, [Next]_vars
    PROVE  Inv'
  <1>1. EmbeddingTypeOK /\ ItemThere
    BY DEF Inv, ProcessingHeld, BatchInv
  <1>2. EmbeddingTypeOK'
    BY <1>1, TypeStep
  <1>3. BatchInv'
    BY <1>1, BatchStep DEF Inv
  <1>4. ProcessingHeld'
    BY <1>2, HeldStep DEF Inv
  <1>5. StoredInv'
    BY <1>1, <1>2, StoredStep DEF Inv
  <1>6. CurrentInv'
    BY <1>1, <1>2, CurrentStep DEF Inv
  <1> QED
    BY <1>3, <1>4, <1>5, <1>6 DEF Inv

(* The four parts of the invariant hold together: a refresh is only begun  *)
(* for a version of the batch, and a version is only marked clean after    *)
(* all that embed_version stores.                                          *)
THEOREM InvAlways == Spec => []Inv
  <1>1. Init => Inv
    BY InvInit
  <1>2. Inv /\ [Next]_vars => Inv'
    BY InvStep
  <1> QED
    BY <1>1, <1>2, PTL DEF Spec

(* Whatever is interrupted, fails or is killed, a version in processing is *)
(* one the worker will settle, or one that the next start takes back.      *)
THEOREM HeldAlways == Spec => []ProcessingHeld
  <1>1. Inv => ProcessingHeld
    BY DEF Inv
  <1> QED
    BY <1>1, InvAlways, PTL

(* A clean version can be found by its text, its file vector and the       *)
(* vector of each of its nodes.                                            *)
THEOREM SearchableAlways == Spec => []CleanIsSearchable
  <1>1. Inv => CleanIsSearchable
    BY DEF Inv, StoredInv
  <1> QED
    BY <1>1, InvAlways, PTL

(* In whatever order the versions of a file are embedded, once all are     *)
(* clean is_current marks the vectors of the newest version and no others, *)
(* unless a refresh was lost to an error or a kill.                        *)
THEOREM CurrentAlways == Spec => []CurrentIsLatest
  <1>1. Inv => CurrentIsLatest
    BY DEF Inv, CurrentInv
  <1> QED
    BY <1>1, InvAlways, PTL
=============================================================================
