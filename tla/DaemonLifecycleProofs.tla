----------------------- MODULE DaemonLifecycleProofs -----------------------
(***************************************************************************)
(* Theorems about DaemonLifecycle, for any processes, writes, failures,    *)
(* kills and unmounts: only processes that passed the mount check together *)
(* serve one mount point, the ready file belongs to a daemon that serves,  *)
(* and the last of a daemon that ends by itself takes its files with it.   *)
(***************************************************************************)
EXTENDS DaemonLifecycle, FiniteSetTheorems, SequenceTheorems, TLAPS

Steps == {"none", "serving", "exited", "dead"} \union Startup \union Readiness \union Shutdown

Typed ==
    /\ pc \in [Procs -> Steps]
    /\ code \in [Procs -> {None, 0, 2, 3, 4, 5, 6, 7}]
    /\ \A i \in Procs : code[i] # None <=> pc[i] = "exited"
    /\ handed \in [Procs -> SUBSET Writes] /\ slots \in [Procs -> Nat]
    /\ mounts \in Seq(Procs)
    /\ signalled \subseteq Procs /\ together \subseteq Procs
    /\ raced \subseteq Procs /\ detached \subseteq Procs
    /\ pidFile \in Procs \union {None} /\ readyFile \in Procs \union {None}
    /\ db \in BOOLEAN /\ queue \subseteq Writes /\ written \in 0 .. MaxWrites
    /\ fails \in 0 .. MaxFails /\ kills \in 0 .. MaxKills /\ unmounts \in 0 .. MaxUnmounts

(* Where a process has no mount: not yet, or no longer.                    *)
Past == {"none", "exited"} \union Startup

(* It has passed the mount check, and will mount unless it stops first.    *)
Inside == Startup \ {"mountpoint"}

Distinct(s) == \A k, l \in DOMAIN s : s[k] = s[l] => k = l

(* Behind OneServer: a process mounts once, and whoever is past the check  *)
(* while another is, or has mounted, passed it before that one mounted.    *)
MountsInv ==
    /\ Distinct(mounts)
    /\ \A i \in Mounted : pc[i] \notin Past
    /\ \A i, j \in Procs : i # j /\ pc[i] \in Startup /\ pc[j] \in Startup => i \in raced
    /\ \A i \in Procs, j \in Mounted : pc[i] \in Inside => {i, j} \subseteq raced
    /\ \A i, j \in Mounted : i # j => i \in raced

(* Where a process has its pid file, its ready file, and its mount.        *)
HasPid   == {"ready", "signals", "serving", "drain", "drop", "rmpid"}
HasReady == {"signals", "serving", "drain", "drop", "rmpid", "rmready"}
Serves   == {"quiesce", "pid", "ready", "signals", "serving", "drain", "drop"}

(* Nobody else wrote or removed its files, or took its mount away.         *)
Alone(i) == i \notin together \union detached

(* A file names a process only where it should, or where the process died; *)
(* a process that is alone has what it has made.                           *)
FilesOf(i) ==
    /\ pidFile = i => pc[i] \in HasPid \union {"dead", "exited"}
    /\ readyFile = i => pc[i] \in HasReady \union {"dead", "exited"}
    /\ code[i] = 0 => i \notin {pidFile, readyFile}
    /\ Alone(i) => /\ pc[i] \in HasPid => pidFile = i
                   /\ pc[i] \in HasReady => readyFile = i
                   /\ pc[i] \in Serves => i \in Mounted

(* Behind ReadyMeansServing and NothingLeft.                               *)
FilesInv ==
    /\ \A i, j \in Procs : i # j /\ Live(i) /\ Live(j) => i \in together
    /\ \A i \in Procs : FilesOf(i)

(***************************************************************************)
(* The stack of mounts.                                                    *)
(***************************************************************************)

(* Dropping a mount takes one element out and keeps the others.            *)
LEMMA WithoutMountIs ==
    ASSUME mounts \in Seq(Procs), Distinct(mounts), NEW i
    PROVE  /\ WithoutMount(i) \in Seq(Procs)
           /\ Distinct(WithoutMount(i))
           /\ {WithoutMount(i)[k] : k \in DOMAIN WithoutMount(i)} = Mounted \ {i}
<1>1. CASE i \notin Mounted
  BY <1>1 DEF WithoutMount, Mounted
<1>2. CASE i \in Mounted
  <2> DEFINE n == Len(mounts)
  <2>1. n \in Nat /\ DOMAIN mounts = 1 .. n /\ \A k \in 1 .. n : mounts[k] \in Procs
    BY LenProperties, ElementOfSeq
  <2>2. PICK p \in 1 .. n : p = CHOOSE k \in DOMAIN mounts : mounts[k] = i
    BY <1>2, <2>1 DEF Mounted
  <2>3. mounts[p] = i
    BY <1>2, <2>1, <2>2 DEF Mounted
  <2> DEFINE front == SubSeq(mounts, 1, p - 1)
             rear  == SubSeq(mounts, p + 1, n)
             r     == front \o rear
  <2>4. /\ front \in Seq(Procs) /\ Len(front) = p - 1
        /\ \A k \in 1 .. p - 1 : front[k] = mounts[k]
    <3>1. \A k \in 1 .. p - 1 : mounts[k] \in Procs
      BY <2>1
    <3>2. /\ front \in Seq(Procs)
          /\ Len(front) = IF 1 <= p - 1 THEN p - 1 - 1 + 1 ELSE 0
          /\ \A k \in 1 .. p - 1 - 1 + 1 : front[k] = mounts[1 + k - 1]
      BY <3>1, SubSeqProperties
    <3>3. ASSUME NEW k \in 1 .. p - 1 PROVE front[k] = mounts[k]
      <4>1. k \in 1 .. p - 1 - 1 + 1 /\ 1 + k - 1 = k
        OBVIOUS
      <4> QED
        BY <3>2, <4>1
    <3> HIDE DEF front
    <3> QED
      BY <3>2, <3>3
  <2>5. /\ rear \in Seq(Procs) /\ Len(rear) = n - p
        /\ \A k \in 1 .. n - p : rear[k] = mounts[k + p]
    <3>1. \A k \in p + 1 .. n : mounts[k] \in Procs
      BY <2>1
    <3>2. /\ rear \in Seq(Procs)
          /\ Len(rear) = IF p + 1 <= n THEN n - (p + 1) + 1 ELSE 0
          /\ \A k \in 1 .. n - (p + 1) + 1 : rear[k] = mounts[p + 1 + k - 1]
      BY <2>1, <3>1, SubSeqProperties
    <3>3. ASSUME NEW k \in 1 .. n - p PROVE rear[k] = mounts[k + p]
      <4>1. k \in 1 .. n - (p + 1) + 1 /\ p + 1 + k - 1 = k + p
        BY <2>1
      <4> QED
        BY <3>2, <4>1
    <3>4. Len(rear) = n - p
      <4>1. p \in 1 .. n /\ n \in Nat
        BY <2>1
      <4> HIDE DEF rear, n
      <4> QED
        BY <3>2, <4>1
    <3> HIDE DEF rear
    <3> QED
      BY <3>2, <3>3, <3>4
  <2>6. /\ r \in Seq(Procs) /\ Len(r) = n - 1 /\ DOMAIN r = 1 .. n - 1
        /\ \A k \in 1 .. n - 1 : r[k] = IF k < p THEN mounts[k] ELSE mounts[k + 1]
    <3> HIDE DEF front, rear
    <3>1. /\ r \in Seq(Procs) /\ Len(r) = Len(front) + Len(rear)
          /\ \A k \in 1 .. Len(front) + Len(rear) :
                r[k] = IF k <= Len(front) THEN front[k] ELSE rear[k - Len(front)]
      BY <2>4, <2>5, ConcatProperties
    <3>2. DOMAIN r = 1 .. Len(r)
      BY <3>1, LenProperties
    <3>3. Len(front) + Len(rear) = n - 1
      BY <2>1, <2>4, <2>5
    <3>4. ASSUME NEW k \in 1 .. n - 1
          PROVE  r[k] = IF k < p THEN mounts[k] ELSE mounts[k + 1]
      <4>1. r[k] = IF k <= p - 1 THEN front[k] ELSE rear[k - (p - 1)]
        BY <2>4, <3>1, <3>3
      <4>2. CASE k < p
        BY <2>4, <4>1, <4>2
      <4>3. CASE ~ (k < p)
        <5>1. k - (p - 1) \in 1 .. n - p /\ k - (p - 1) + p = k + 1
          BY <2>1, <4>3
        <5> QED
          BY <2>5, <4>1, <4>3, <5>1
      <4> QED
        BY <4>2, <4>3
    <3> HIDE DEF r
    <3> QED
      BY <3>1, <3>2, <3>3, <3>4
  <2>7. WithoutMount(i) = r
    BY <1>2, <2>2 DEF WithoutMount, RemoveAt
  <2> HIDE DEF front, rear, r
  <2>8. Distinct(r)
    <3> SUFFICES ASSUME NEW k \in 1 .. n - 1, NEW l \in 1 .. n - 1, r[k] = r[l], k < l
                 PROVE  FALSE
      BY <2>1, <2>6 DEF Distinct
    <3> DEFINE at(j) == IF j < p THEN j ELSE j + 1
    <3>1. at(k) \in 1 .. n /\ at(l) \in 1 .. n /\ at(k) # at(l)
      BY <2>1
    <3>2. r[k] = mounts[at(k)] /\ r[l] = mounts[at(l)]
      BY <2>6
    <3> QED
      BY <2>1, <3>1, <3>2 DEF Distinct
  <2>9. \A k \in 1 .. n : k # p => mounts[k] # i
    BY <2>1, <2>3 DEF Distinct
  <2>10. \A k \in 1 .. n - 1 : r[k] \in Mounted \ {i}
    <3> SUFFICES ASSUME NEW k \in 1 .. n - 1 PROVE r[k] \in Mounted \ {i}
      OBVIOUS
    <3>1. CASE k < p
      <4>1. k \in 1 .. n /\ k # p
        BY <2>1, <3>1
      <4> QED
        BY <2>1, <2>6, <2>9, <3>1, <4>1 DEF Mounted
    <3>2. CASE ~ (k < p)
      <4>1. k + 1 \in 1 .. n /\ k + 1 # p
        BY <2>1, <3>2
      <4> QED
        BY <2>1, <2>6, <2>9, <3>2, <4>1 DEF Mounted
    <3> QED
      BY <3>1, <3>2
  <2>11. \A j \in Mounted \ {i} : \E k \in 1 .. n - 1 : r[k] = j
    <3> SUFFICES ASSUME NEW k \in 1 .. n, k # p PROVE \E l \in 1 .. n - 1 : r[l] = mounts[k]
      BY <2>1, <2>3 DEF Mounted
    <3> QED
      <4>1. CASE k < p
        BY <2>1, <2>6, <4>1
      <4>2. CASE k > p
        <5>1. k - 1 \in 1 .. n - 1 /\ ~ (k - 1 < p) /\ (k - 1) + 1 = k
          BY <2>1, <4>2
        <5> QED
          BY <2>6, <5>1
      <4> QED
        BY <2>1, <4>1, <4>2
  <2>12. {r[k] : k \in DOMAIN r} = Mounted \ {i}
    <3>1. DOMAIN r = 1 .. n - 1
      BY <2>6
    <3> QED
      BY <2>10, <2>11, <3>1, Zenon
  <2>13. r \in Seq(Procs)
    BY <2>6
  <2> QED
    BY <2>7, <2>8, <2>12, <2>13, Zenon
<1> QED
  BY <1>1, <1>2

(* What the lemmas on the mounts need to know of the state.                *)
LEMMA MountedInProcs ==
    ASSUME Typed PROVE Mounted \subseteq Procs
BY LenProperties, ElementOfSeq DEF Typed, Mounted

(* A process goes on, or dies, and mounts nothing.                         *)
LEMMA MountsStay ==
    ASSUME Typed, MountsInv, NEW i \in Procs, NEW next,
           pc' = [pc EXCEPT ![i] = next],
           pc[i] # "none" /\ pc[i] # "exited",
           (next \in Inside /\ pc[i] \in Startup) \/ next \notin Past,
           next \in Inside /\ pc[i] \notin Inside => mounts = <<>>,
           mounts' = mounts, raced' = raced
    PROVE  MountsInv'
<1>1. Mounted' = Mounted /\ Mounted \subseteq Procs
  BY MountedInProcs DEF Mounted
<1>2. \A j \in Procs : pc'[j] = IF j = i THEN next ELSE pc[j]
  BY DEF Typed
<1>3. \A j \in Mounted : pc'[j] \notin Past
  BY <1>1, <1>2 DEF MountsInv, Past, Inside
<1>4. \A j, k \in Procs : j # k /\ pc'[j] \in Startup /\ pc'[k] \in Startup => j \in raced'
  BY <1>2 DEF MountsInv, Past, Inside
<1>5. \A j \in Procs, k \in Mounted : pc'[j] \in Inside => {j, k} \subseteq raced'
  <2>1. mounts = <<>> => Mounted = {}
    BY DEF Mounted
  <2> QED
    BY <1>1, <1>2, <2>1 DEF MountsInv, Past, Inside
<1> QED
  BY <1>1, <1>3, <1>4, <1>5 DEF MountsInv

(* A process exits, or only its mount goes.                                *)
LEMMA MountsDrop ==
    ASSUME Typed, MountsInv, NEW i \in Procs,
           \/ pc' = pc
           \/ \E next \in {"exited", "rmpid"} : pc' = [pc EXCEPT ![i] = next],
           mounts' = WithoutMount(i), raced' = raced
    PROVE  /\ MountsInv' /\ mounts' \in Seq(Procs)
           /\ Mounted' = Mounted \ {i}
<1>1. /\ mounts' \in Seq(Procs) /\ Distinct(mounts')
      /\ Mounted' = Mounted \ {i} /\ Mounted \subseteq Procs
  <2>1. mounts \in Seq(Procs) /\ Distinct(mounts) /\ Mounted \subseteq Procs
    BY MountedInProcs DEF Typed, MountsInv
  <2>2. Mounted' = {mounts'[k] : k \in DOMAIN mounts'}
    BY DEF Mounted
  <2> QED
    BY <2>1, <2>2, WithoutMountIs
<1>2. \A j \in Procs \ {i} : pc'[j] = pc[j]
  BY DEF Typed
<1>3. pc'[i] \in Startup => pc'[i] = pc[i]
  BY DEF Typed, Startup
<1>4. pc'[i] \in Inside => pc'[i] = pc[i]
  BY <1>3 DEF Inside
<1>5. \A j \in Mounted' : pc'[j] \notin Past
  BY <1>1, <1>2 DEF MountsInv
<1>6. \A j, k \in Procs : j # k /\ pc'[j] \in Startup /\ pc'[k] \in Startup => j \in raced'
  BY <1>2, <1>3 DEF MountsInv
<1>7. \A j \in Procs, k \in Mounted' : pc'[j] \in Inside => {j, k} \subseteq raced'
  BY <1>1, <1>2, <1>4 DEF MountsInv
<1>8. \A j, k \in Mounted' : j # k => j \in raced'
  BY <1>1 DEF MountsInv
<1> QED
  BY <1>1, <1>5, <1>6, <1>7, <1>8 DEF MountsInv

(* MountsInv is kept by every step.                                        *)
LEMMA MountsStep ==
    ASSUME Typed, MountsInv, [Next]_vars
    PROVE  MountsInv'
<1> USE DEF daemon, files, queued, history, bounds
<1>1. CASE UNCHANGED <<pc, mounts, raced>>
  BY <1>1 DEF MountsInv, Mounted
<1>2. ASSUME NEW i \in Procs, Start(i) PROVE MountsInv'
  <2>1. /\ pc[i] = "none" /\ pc' = [pc EXCEPT ![i] = "mountpoint"]
        /\ raced' = raced \union WithCompany(i, {j \in Procs : pc[j] \in Startup})
        /\ mounts' = mounts
    BY <1>2 DEF Start, Go
  <2>2. Mounted' = Mounted /\ Mounted \subseteq Procs /\ i \notin Mounted
    BY <2>1, MountedInProcs DEF Mounted, MountsInv, Past
  <2>3. \A j \in Procs : pc'[j] = IF j = i THEN "mountpoint" ELSE pc[j]
    BY <2>1 DEF Typed
  <2>4. \A j, k \in Procs : j # k /\ pc'[j] \in Startup /\ pc'[k] \in Startup => j \in raced'
    BY <2>1, <2>3 DEF MountsInv, WithCompany
  <2> QED
    BY <2>1, <2>2, <2>3, <2>4 DEF MountsInv, Past, Inside
<1>3. ASSUME NEW i \in Procs, pc[i] = "mount", Go(i, "semantic"),
             mounts' = Append(mounts, i), raced' = raced
      PROVE  MountsInv'
  <2>1. /\ pc[i] = "mount" /\ pc' = [pc EXCEPT ![i] = "semantic"] /\ raced' = raced
    BY <1>3 DEF Go
  <2>2. /\ Len(mounts) \in Nat /\ DOMAIN mounts = 1 .. Len(mounts)
        /\ Len(mounts') = Len(mounts) + 1 /\ DOMAIN mounts' = 1 .. Len(mounts) + 1
        /\ \A k \in 1 .. Len(mounts) : mounts'[k] = mounts[k]
        /\ mounts'[Len(mounts) + 1] = i
    BY <1>3, AppendProperties, LenProperties DEF Typed
  <2>3. Mounted' = Mounted \union {i} /\ Mounted \subseteq Procs /\ i \notin Mounted
    <3>1. i \notin Mounted /\ Mounted \subseteq Procs
      BY <2>1, MountedInProcs DEF MountsInv, Past, Startup
    <3>2. \A k \in 1 .. Len(mounts) + 1 : mounts'[k] \in Mounted \union {i}
      BY <2>2 DEF Mounted
    <3>3. \A j \in Mounted \union {i} : \E k \in 1 .. Len(mounts) + 1 : mounts'[k] = j
      BY <2>2 DEF Mounted
    <3> QED
      BY <2>2, <3>1, <3>2, <3>3 DEF Mounted
  <2>4. Distinct(mounts')
    BY <2>2, <2>3 DEF Distinct, MountsInv, Mounted
  <2>5. \A j \in Procs : pc'[j] = IF j = i THEN "semantic" ELSE pc[j]
    BY <2>1 DEF Typed
  <2>6. \A j \in Mounted' : pc'[j] \notin Past
    BY <2>3, <2>5 DEF MountsInv, Past, Startup
  <2>7. \A j, k \in Procs : j # k /\ pc'[j] \in Startup /\ pc'[k] \in Startup => j \in raced'
    BY <2>1, <2>5 DEF MountsInv, Startup
  <2>8. pc[i] \in Startup /\ pc[i] \in Inside
    BY <2>1 DEF Startup, Inside
  <2>9. \A j \in Procs, k \in Mounted' : pc'[j] \in Inside => {j, k} \subseteq raced'
    <3> SUFFICES ASSUME NEW j \in Procs, NEW k \in Mounted', pc'[j] \in Inside
                 PROVE  {j, k} \subseteq raced
      BY <2>1
    <3>1. j # i /\ pc[j] \in Inside /\ pc[j] \in Startup
      BY <2>5 DEF Inside, Startup
    <3>2. CASE k = i
      BY <2>8, <3>1, <3>2 DEF MountsInv
    <3>3. CASE k \in Mounted
      BY <3>1, <3>3 DEF MountsInv
    <3> QED
      BY <2>3, <3>2, <3>3
  <2>10. \A j, k \in Mounted' : j # k => j \in raced'
    BY <2>1, <2>3, <2>8 DEF MountsInv
  <2> QED
    BY <2>4, <2>6, <2>7, <2>9, <2>10 DEF MountsInv
<1>4. ASSUME NEW i \in Procs, NEW c, Exit(i, c), pc[i] # "none", raced' = raced PROVE MountsInv'
  BY <1>4, MountsDrop DEF Exit
<1>5. ASSUME NEW i \in Procs, NEW c, Fails(i, c), pc[i] # "none", raced' = raced PROVE MountsInv'
  BY <1>4, <1>5 DEF Fails
<1>6. ASSUME NEW i \in Procs, NEW next, Passes(i, next), raced' = raced,
             pc[i] # "none" /\ pc[i] # "exited",
             (next \in Inside /\ pc[i] \in Startup) \/ next \notin Past,
             next \in Inside /\ pc[i] \notin Inside => mounts = <<>>
      PROVE  MountsInv'
  BY <1>6, MountsStay DEF Passes, Go
<1> USE DEF Past, Inside, Startup
<1>7. ASSUME NEW i \in Procs, Step(i) PROVE MountsInv'
  <2>1. CASE ValidateMountpoint(i)
    BY <1>4, <1>5, <1>6, <2>1 DEF ValidateMountpoint
  <2>2. CASE ValidateStorePath(i)
    BY <1>4, <1>5, <1>6, <2>2 DEF ValidateStorePath
  <2>3. CASE ConnectDb(i)
    BY <1>4, <1>5, <1>6, <2>3 DEF ConnectDb
  <2>4. CASE CheckSchema(i)
    BY <1>4, <1>5, <1>6, <2>4 DEF CheckSchema
  <2>5. CASE OpenStore(i)
    BY <1>5, <1>6, <2>5 DEF OpenStore
  <2>6. CASE StartPipeline(i)
    BY <1>5, <1>6, <2>6 DEF StartPipeline
  <2>7. CASE Mount(i)
    BY <1>3, <1>5, <2>7 DEF Mount
  <2>8. CASE StartSupervisors(i)
    BY <2>8, MountsStay DEF StartSupervisors, Go
  <2>9. CASE WaitUntilServing(i)
    BY <1>4, <1>6, <2>9 DEF WaitUntilServing
  <2>10. CASE ReplayedOrTimeout(i)
    BY <2>10, MountsStay DEF ReplayedOrTimeout, Go
  <2>11. CASE WritePidFile(i)
    BY <1>5, <1>6, <2>11 DEF WritePidFile
  <2>12. CASE WriteReadyFile(i)
    BY <1>5, <1>6, <2>12 DEF WriteReadyFile
  <2>13. CASE InstallHandlers(i)
    BY <1>5, <1>6, <2>13 DEF InstallHandlers
  <2>14. CASE Stop(i)
    BY <2>14, MountsStay DEF Stop, Go
  <2>15. CASE DrainedOrTimeout(i)
    BY <2>15, MountsStay DEF DrainedOrTimeout, Go
  <2>16. CASE DropSession(i)
    BY <2>16, MountsDrop DEF DropSession, Go
  <2>17. CASE RemovePidFile(i)
    BY <2>17, MountsStay DEF RemovePidFile, Go
  <2>18. CASE RemoveReadyFile(i)
    BY <2>18, MountsStay DEF RemoveReadyFile, Go
  <2>19. CASE ClosePool(i)
    BY <1>4, <2>19 DEF ClosePool
  <2> QED
    BY <1>7, <2>1, <2>2, <2>3, <2>4, <2>5, <2>6, <2>7, <2>8, <2>9, <2>10, <2>11, <2>12,
       <2>13, <2>14, <2>15, <2>16, <2>17, <2>18, <2>19 DEF Step
<1>8. ASSUME NEW i \in Procs, Pipeline(i) PROVE MountsInv'
  BY <1>1, <1>8 DEF Pipeline, Accept, Drain, DrainFails, Rescan
<1>9. ASSUME NEW i \in Procs, Signal(i) \/ Kill(i) PROVE MountsInv'
  <2>1. /\ mounts' = mounts /\ raced' = raced /\ pc[i] # "none" /\ pc[i] # "exited"
        /\ pc' = pc \/ pc' = [pc EXCEPT ![i] = "dead"]
    BY <1>9 DEF Signal, Kill, Live, Readiness, Shutdown, Go
  <2> QED
    BY <1>1, <2>1, MountsStay
<1>10. ASSUME NEW i \in Procs, AutoUnmount(i) PROVE MountsInv'
  BY <1>10, MountsDrop DEF AutoUnmount
<1>11. CASE Unmount
  <2>1. Top \in Mounted
    BY <1>11, EmptySeq DEF Unmount, Top, Mounted, Typed
  <2>2. PICK i \in Procs : i = Top
    BY <2>1, MountedInProcs
  <2> QED
    BY <1>11, <2>2, MountsDrop DEF Unmount
<1>12. CASE DbDown \/ DbUp
  BY <1>1, <1>12 DEF DbDown, DbUp
<1> QED
  BY <1>1, <1>2, <1>7, <1>8, <1>9, <1>10, <1>11, <1>12 DEF Next, vars

----------------------------------------------------------------------------
(* Types.                                                                  *)

LEMMA ExitTyped ==
    ASSUME Typed, MountsInv, NEW i \in Procs, NEW c \in {0, 2, 3, 4, 5, 6, 7}, Exit(i, c)
    PROVE  /\ pc' \in [Procs -> Steps]
           /\ code' \in [Procs -> {None, 0, 2, 3, 4, 5, 6, 7}]
           /\ \A j \in Procs : code'[j] # None <=> pc'[j] = "exited"
           /\ mounts' \in Seq(Procs)
<1>1. c # None
  BY DaemonAssumption
<1>2. mounts' \in Seq(Procs)
  BY WithoutMountIs DEF Exit, Typed, MountsInv
<1> QED
  BY <1>1, <1>2 DEF Exit, Typed, Steps

LEMMA GoTyped ==
    ASSUME Typed, NEW i \in Procs, NEW next \in Steps \ {"exited"}, Go(i, next),
           pc[i] # "exited", code' = code, mounts' = mounts
    PROVE  /\ pc' \in [Procs -> Steps]
           /\ code' \in [Procs -> {None, 0, 2, 3, 4, 5, 6, 7}]
           /\ \A j \in Procs : code'[j] # None <=> pc'[j] = "exited"
           /\ mounts' \in Seq(Procs)
BY DEF Typed, Go

LEMMA FiniteQueue == ASSUME Typed PROVE Cardinality(queue) \in Nat
<1>1. IsFiniteSet(Writes)
  BY FS_Interval, DaemonAssumption DEF Writes
<1> QED
  BY <1>1, FS_Subset, FS_CardinalityType DEF Typed

(* Typed is kept by every step.                                            *)
LEMMA TypedStep ==
    ASSUME Typed, MountsInv, [Next]_vars
    PROVE  Typed'
<1> USE DaemonAssumption DEF daemon, files, queued, history, bounds
<1>1. CASE UNCHANGED vars
  BY <1>1 DEF Typed, vars
<1>2. ASSUME NEW i \in Procs, Start(i) PROVE Typed'
  <2>1. /\ WithCompany(i, {j \in Procs : Live(j)}) \subseteq Procs
        /\ WithCompany(i, {j \in Procs : pc[j] \in Startup}) \subseteq Procs
    BY DEF WithCompany
  <2>2. pc[i] = "none" /\ Go(i, "mountpoint") /\ code' = code /\ mounts' = mounts
    BY <1>2 DEF Start
  <2> QED
    BY <1>2, <2>1, <2>2, GoTyped DEF Start, Typed, Steps, Startup
<1>3. ASSUME NEW i \in Procs, Step(i) PROVE Typed'
  <2> DEFINE Rest ==
        /\ UNCHANGED <<signalled, db, queue, written, history, kills, unmounts>>
        /\ \/ UNCHANGED <<handed, slots>>
           \/ /\ slots' = [slots EXCEPT ![i] = Cardinality(queue)]
              /\ handed' = [handed EXCEPT ![i] = queue]
        /\ pidFile' \in {pidFile, i, None} /\ readyFile' \in {readyFile, i, None}
        /\ fails' = fails \/ (fails < MaxFails /\ fails' = fails + 1)
  <2> DEFINE Moves ==
        \/ pc[i] # "exited" /\ mounts' = Append(mounts, i) /\ Go(i, "semantic") /\ code' = code
        \/ \E c \in {0, 2, 3, 4, 5, 6, 7} : Exit(i, c)
        \/ mounts' = WithoutMount(i) /\ Go(i, "rmpid") /\ pc[i] # "exited" /\ code' = code
        \/ /\ pc[i] # "exited" /\ code' = code /\ mounts' = mounts
           /\ \E next \in Steps \ {"exited"} : Go(i, next)
  <2>1. ASSUME Rest, Moves PROVE Typed'
    <3>1. /\ pc' \in [Procs -> Steps]
          /\ code' \in [Procs -> {None, 0, 2, 3, 4, 5, 6, 7}]
          /\ \A j \in Procs : code'[j] # None <=> pc'[j] = "exited"
          /\ mounts' \in Seq(Procs)
      <4>1. CASE /\ pc[i] # "exited" /\ mounts' = Append(mounts, i)
                 /\ Go(i, "semantic") /\ code' = code
        BY <4>1, AppendProperties DEF Typed, Go, Steps, Readiness
      <4>2. CASE \E c \in {0, 2, 3, 4, 5, 6, 7} : Exit(i, c)
        BY <4>2, ExitTyped
      <4>3. CASE mounts' = WithoutMount(i) /\ Go(i, "rmpid") /\ pc[i] # "exited" /\ code' = code
        <5>1. mounts' \in Seq(Procs)
          BY <4>3, WithoutMountIs DEF Typed, MountsInv
        <5> QED
          BY <4>3, <5>1 DEF Typed, Go, Steps, Shutdown
      <4>4. CASE pc[i] # "exited" /\ code' = code /\ mounts' = mounts
                 /\ \E next \in Steps \ {"exited"} : Go(i, next)
        BY <4>4, GoTyped
      <4> QED
        BY <2>1, <4>1, <4>2, <4>3, <4>4
    <3>2. handed' \in [Procs -> SUBSET Writes] /\ slots' \in [Procs -> Nat]
      BY <2>1, FiniteQueue DEF Typed
    <3>3. pidFile' \in Procs \union {None} /\ readyFile' \in Procs \union {None}
      BY <2>1 DEF Typed
    <3>4. fails' \in 0 .. MaxFails
      BY <2>1 DEF Typed
    <3> QED
      BY <2>1, <3>1, <3>2, <3>3, <3>4 DEF Typed
  <2>2. Rest
    BY <1>3 DEF Step, ValidateMountpoint, ValidateStorePath, ConnectDb, CheckSchema, OpenStore,
       StartPipeline, Mount, StartSupervisors, WaitUntilServing, ReplayedOrTimeout, WritePidFile,
       WriteReadyFile, InstallHandlers, Stop, DrainedOrTimeout, DropSession, RemovePidFile,
       RemoveReadyFile, ClosePool, Passes, Fails
  <2>3. Moves
    <3> USE DEF Go, Passes, Fails, Steps, Startup, Readiness, Shutdown
    <3> QED
      BY <1>3 DEF Step, ValidateMountpoint, ValidateStorePath, ConnectDb, CheckSchema, OpenStore,
         StartPipeline, Mount, StartSupervisors, WaitUntilServing, ReplayedOrTimeout, WritePidFile,
         WriteReadyFile, InstallHandlers, Stop, DrainedOrTimeout, DropSession, RemovePidFile,
         RemoveReadyFile, ClosePool
  <2> QED
    BY <2>1, <2>2, <2>3
<1>4. ASSUME NEW i \in Procs, Accept(i) PROVE Typed'
  <2>1. written' \in 0 .. MaxWrites /\ written' \in Writes
    BY <1>4 DEF Accept, Typed, Writes
  <2>2. handed' \in [Procs -> SUBSET Writes] /\ queue' \subseteq Writes
    BY <1>4, <2>1 DEF Accept, Typed
  <2>3. slots' \in [Procs -> Nat]
    BY <1>4 DEF Accept, Typed
  <2> QED
    BY <1>4, <2>1, <2>2, <2>3 DEF Accept, Typed
<1>5. ASSUME NEW i \in Procs, Drain(i) PROVE Typed'
  <2>1. PICK w : w = Oldest(handed[i])
    OBVIOUS
  <2>2. /\ handed' = [handed EXCEPT ![i] = @ \ {w}]
        /\ queue' = queue \ {w}
        /\ slots' = [slots EXCEPT ![i] = IF w \in queue /\ @ > 0 THEN @ - 1 ELSE @]
        /\ UNCHANGED <<daemon, mounts, files, db, written, history, bounds>>
    BY <1>5, <2>1 DEF Drain
  <2>3. slots' \in [Procs -> Nat]
    BY <2>2 DEF Typed
  <2>4. handed' \in [Procs -> SUBSET Writes] /\ queue' \subseteq Writes
    BY <2>2 DEF Typed
  <2> QED
    BY <2>2, <2>3, <2>4 DEF Typed
<1>6. ASSUME NEW i \in Procs, DrainFails(i) PROVE Typed'
  <2>1. PICK w : w = Oldest(handed[i])
    OBVIOUS
  <2>2. handed' = [handed EXCEPT ![i] = @ \ {w}]
    BY <1>6, <2>1 DEF DrainFails
  <2> QED
    BY <1>6, <2>2 DEF DrainFails, Typed
<1>7. ASSUME NEW i \in Procs, Rescan(i) PROVE Typed'
  BY <1>7 DEF Rescan, Typed
<1>8. ASSUME NEW i \in Procs, Signal(i) \/ Kill(i) PROVE Typed'
  <2>1. /\ UNCHANGED <<code, mounts, files, db, queued, history, fails, unmounts>>
        /\ pc[i] # "exited" /\ (pc' = pc \/ Go(i, "dead"))
        /\ signalled' \subseteq signalled \union {i}
        /\ (kills' = kills \/ (kills < MaxKills /\ kills' = kills + 1))
    BY <1>8 DEF Signal, Kill, Live, Startup, Readiness, Shutdown
  <2>2. kills' \in 0 .. MaxKills
    BY <2>1 DEF Typed
  <2>3. pc' \in [Procs -> Steps] /\ \A j \in Procs : pc'[j] = "exited" <=> pc[j] = "exited"
    BY <2>1 DEF Typed, Go, Steps
  <2> QED
    BY <2>1, <2>2, <2>3 DEF Typed
<1>9. ASSUME NEW i \in Procs, AutoUnmount(i) PROVE Typed'
  <2>1. mounts' \in Seq(Procs)
    BY <1>9, WithoutMountIs DEF AutoUnmount, Typed, MountsInv
  <2> QED
    BY <1>9, <2>1 DEF AutoUnmount, Typed
<1>10. CASE Unmount
  <2>1. Top \in Procs /\ mounts' \in Seq(Procs)
    BY <1>10, EmptySeq, ElementOfSeq, WithoutMountIs DEF Unmount, Top, Typed, MountsInv
  <2>2. detached' \subseteq Procs
    BY <1>10, <2>1 DEF Unmount, Typed
  <2> QED
    BY <1>10, <2>1, <2>2 DEF Unmount, Typed
<1>11. CASE DbDown \/ DbUp
  <2>1. db' \in BOOLEAN /\ fails' \in 0 .. MaxFails
    <3>1. MaxFails \in Nat
      OBVIOUS
    <3>2. CASE DbDown
      <4>1. fails \in 0 .. MaxFails /\ fails < MaxFails /\ fails' = fails + 1
        BY <3>2 DEF DbDown, Typed
      <4>2. db' \in BOOLEAN
        BY <3>2 DEF DbDown
      <4> QED
        BY <3>1, <4>1, <4>2
    <3>3. CASE DbUp
      BY <3>3 DEF DbUp, Typed
    <3> QED
      BY <1>11, <3>2, <3>3
  <2> QED
    BY <1>11, <2>1 DEF DbDown, DbUp, Typed
<1> QED
  BY <1>1, <1>2, <1>3, <1>4, <1>5, <1>6, <1>7, <1>8, <1>9, <1>10, <1>11
     DEF Next, Pipeline

----------------------------------------------------------------------------
(* The files.                                                              *)

LiveSteps == Startup \union Readiness \union {"serving"} \union Shutdown

(* A step of one live process, seen by the others.                         *)
LEMMA FilesOfOthers ==
    ASSUME Typed, FilesInv, NEW i \in Procs, Live(i),
           \A j \in Procs \ {i} : pc'[j] = pc[j] /\ code'[j] = code[j],
           together' = together, detached' = detached,
           Mounted \ {i} \subseteq Mounted',
           pidFile' \in {pidFile, i, None}, readyFile' \in {readyFile, i, None},
           FilesOf(i)'
    PROVE  FilesInv'
<1> USE DaemonAssumption
<1>1. \A j \in Procs \ {i} : pc[j] \in LiveSteps => j \in together
  BY DEF FilesInv, Live, LiveSteps
<1>2. ASSUME NEW j \in Procs, j # i PROVE FilesOf(j)'
  <2>1. FilesOf(j) /\ j \notin {i, None}
    BY <1>2 DEF FilesInv, Procs
  <2>2. pc'[j] = pc[j] /\ code'[j] = code[j] /\ (j \in Mounted => j \in Mounted')
    BY <1>2
  <2>3. HasPid \subseteq LiveSteps /\ HasReady \subseteq LiveSteps
    BY DEF HasPid, HasReady, LiveSteps, Startup, Readiness, Shutdown
  <2>4. (pidFile' = j => pidFile = j) /\ (readyFile' = j => readyFile = j)
    BY <2>1
  <2> QED
    BY <1>1, <1>2, <2>1, <2>2, <2>3, <2>4 DEF FilesOf, Alone
<1>3. \A j, k \in Procs : j # k /\ Live(j)' /\ Live(k)' => j \in together'
  <2>1. \A j \in Procs : Live(j)' => Live(j)
    BY DEF Live
  <2> QED
    BY <2>1 DEF FilesInv
<1> QED
  BY <1>2, <1>3 DEF FilesInv

(* A step that leaves the files and the mounts alone.                      *)
LEMMA FilesKept ==
    ASSUME Typed, FilesInv, NEW i \in Procs, NEW next, Live(i), Go(i, next),
           UNCHANGED <<code, files, mounts, together, detached>>,
           pidFile = i => next \in HasPid \union {"dead", "exited"},
           readyFile = i => next \in HasReady \union {"dead", "exited"},
           next \in HasPid => pc[i] \in HasPid,
           next \in HasReady => pc[i] \in HasReady,
           next \in Serves /\ pc[i] \notin Serves => i \in together \union detached \union Mounted
    PROVE  FilesInv'
<1>1. Mounted' = Mounted
  BY DEF Mounted
<1>2. \A j \in Procs : pc'[j] = IF j = i THEN next ELSE pc[j]
  BY DEF Typed, Go
<1>3. FilesOf(i)'
  BY <1>1, <1>2 DEF FilesInv, FilesOf, Alone, files
<1> QED
  BY <1>1, <1>2, <1>3, FilesOfOthers DEF files

(* run() returns, or the session is dropped.                               *)
LEMMA FilesExit ==
    ASSUME Typed, MountsInv, FilesInv, NEW i \in Procs, NEW c \in {0, 2, 3, 4, 5, 6, 7},
           Live(i), Exit(i, c), UNCHANGED <<files, raced, together, detached>>,
           c = 0 => pc[i] = "close"
    PROVE  FilesInv'
<1>1. Mounted' = Mounted \ {i}
  BY MountsDrop DEF Exit
<1>2. /\ \A j \in Procs \ {i} : pc'[j] = pc[j] /\ code'[j] = code[j]
      /\ pc'[i] = "exited" /\ code'[i] = c
  BY DEF Typed, Exit
<1>3. FilesOf(i)'
  BY <1>1, <1>2 DEF FilesInv, FilesOf, Alone, files, HasPid, HasReady, Serves
<1> QED
  BY <1>1, <1>2, <1>3, FilesOfOthers DEF files

(* FilesInv is kept by every step.                                         *)
LEMMA FilesStep ==
    ASSUME Typed, MountsInv, FilesInv, [Next]_vars
    PROVE  FilesInv'
<1> USE DaemonAssumption
<1>0. None # 0 /\ \A i \in Procs : pc[i] # "exited" => code[i] # 0
  <2>1. None # 0
    OBVIOUS
  <2> QED
    BY <2>1 DEF Typed
<1>1. CASE UNCHANGED <<daemon, files, mounts, together, detached>>
  BY <1>1 DEF FilesInv, FilesOf, Alone, Live, Mounted, daemon, files
<1>2. ASSUME NEW i \in Procs, Start(i) PROVE FilesInv'
  <2>1. /\ pc[i] = "none" /\ \A j \in Procs : pc'[j] = IF j = i THEN "mountpoint" ELSE pc[j]
        /\ together' = together \union WithCompany(i, {j \in Procs : Live(j)})
        /\ UNCHANGED <<code, files, mounts, detached>>
    BY <1>2 DEF Start, Go, Typed
  <2>2. \A j, k \in Procs : j # k /\ Live(j)' /\ Live(k)' => j \in together'
    <3>1. \A j \in Procs \ {i} : Live(j)' = Live(j)
      BY <2>1 DEF Live
    <3> QED
      BY <2>1, <3>1 DEF FilesInv, WithCompany
  <2>3. Mounted' = Mounted
    BY <2>1 DEF Mounted
  <2>4. ASSUME NEW j \in Procs PROVE FilesOf(j)'
    <3>1. FilesOf(j) /\ (Alone(j)' => Alone(j))
      BY <2>1 DEF FilesInv, Alone
    <3>2. CASE j = i
      <4>1. pc'[j] = "mountpoint" /\ pidFile # j /\ readyFile # j
        BY <2>1, <3>1, <3>2 DEF FilesOf, HasPid, HasReady
      <4> QED
        BY <2>1, <4>1 DEF FilesOf, HasPid, HasReady, Serves, files
    <3>3. CASE j # i
      BY <2>1, <2>3, <3>1, <3>3 DEF FilesOf, files
    <3> QED
      BY <3>2, <3>3
  <2> QED
    BY <2>2, <2>4 DEF FilesInv
<1>3. ASSUME NEW i \in Procs, NEW c \in {2, 3, 4, 5, 6, 7}, Live(i), UNCHANGED <<files, history>>,
             Exit(i, c) \/ Fails(i, c)
      PROVE  FilesInv'
  BY <1>3, FilesExit DEF Fails, history
<1> DEFINE Early == {"mountpoint", "store", "db", "schema", "open", "pipeline", "mount",
                     "semantic", "wait", "quiesce"}
<1>4. ASSUME NEW i \in Procs, NEW next, pc[i] \in Early, next \in Early \union {"pid"},
             UNCHANGED <<files, history>>, Passes(i, next),
             next \in Serves /\ pc[i] \notin Serves => i \in together \union detached \union Mounted
      PROVE  FilesInv'
  <2>1. Live(i) /\ pc[i] \notin HasPid \union HasReady \union {"dead", "exited"}
    BY <1>4 DEF Live, HasPid, HasReady, Startup, Readiness
  <2>2. pidFile # i /\ readyFile # i /\ next \notin HasPid /\ next \notin HasReady
    BY <1>4, <2>1 DEF FilesInv, FilesOf, HasPid, HasReady
  <2> QED
    BY <1>4, <2>1, <2>2, FilesKept DEF Passes, history
<1>5. ASSUME NEW i \in Procs, Step(i) PROVE FilesInv'
  <2>0. Live(i)
    BY <1>5 DEF Step, ValidateMountpoint, ValidateStorePath, ConnectDb, CheckSchema, OpenStore,
       StartPipeline, Mount, StartSupervisors, WaitUntilServing, ReplayedOrTimeout, WritePidFile,
       WriteReadyFile, InstallHandlers, Stop, DrainedOrTimeout, DropSession, RemovePidFile,
       RemoveReadyFile, ClosePool, Live, Startup, Readiness, Shutdown
  <2>1. CASE ValidateMountpoint(i)
    BY <1>3, <1>4, <2>0, <2>1 DEF ValidateMountpoint, Serves
  <2>2. CASE ValidateStorePath(i)
    BY <1>3, <1>4, <2>0, <2>2 DEF ValidateStorePath, Serves
  <2>3. CASE ConnectDb(i)
    BY <1>3, <1>4, <2>0, <2>3 DEF ConnectDb, Serves
  <2>4. CASE CheckSchema(i)
    BY <1>3, <1>4, <2>0, <2>4 DEF CheckSchema, Serves
  <2>5. CASE OpenStore(i)
    BY <1>3, <1>4, <2>0, <2>5 DEF OpenStore, Serves
  <2>6. CASE StartPipeline(i)
    BY <1>3, <1>4, <2>0, <2>6 DEF StartPipeline, Serves
  <2>7. CASE Mount(i)
    <3>1. ASSUME Go(i, "semantic"), mounts' = Append(mounts, i), UNCHANGED <<code, fails>>
          PROVE  FilesInv'
      <4>1. /\ \A j \in Procs : pc'[j] = IF j = i THEN "semantic" ELSE pc[j]
            /\ pc[i] = "mount" /\ UNCHANGED <<files, history>>
        BY <2>7, <3>1 DEF Mount, Go, Typed
      <4>2. Mounted \subseteq Mounted'
        <5>1. /\ DOMAIN mounts = 1 .. Len(mounts) /\ DOMAIN mounts' = 1 .. Len(mounts) + 1
              /\ Len(mounts) \in Nat
              /\ \A k \in 1 .. Len(mounts) : mounts'[k] = mounts[k]
          BY <3>1, AppendProperties, LenProperties DEF Typed
        <5> QED
          BY <5>1 DEF Mounted
      <4>3. FilesOf(i)'
        BY <3>1, <4>1 DEF FilesInv, FilesOf, HasPid, HasReady, Serves, files
      <4> QED
        BY <2>0, <3>1, <4>1, <4>2, <4>3, FilesOfOthers DEF files, history
    <3> QED
      BY <1>3, <2>0, <2>7, <3>1 DEF Mount
  <2>8. CASE StartSupervisors(i)
    BY <1>4, <2>8 DEF StartSupervisors, Serves, Passes, bounds
  <2>9. CASE WaitUntilServing(i)
    <3>1. CASE Answered /\ Passes(i, "quiesce")
      <4>1. Top \in Mounted /\ Top \in Procs /\ Live(Top)
        BY <3>1, EmptySeq, ElementOfSeq DEF Answered, Top, Mounted, Typed
      <4>2. i \in together \union Mounted
        BY <2>0, <4>1 DEF FilesInv
      <4> QED
        BY <1>4, <2>9, <3>1, <4>2 DEF WaitUntilServing
    <3> QED
      BY <1>3, <2>0, <2>9, <3>1 DEF WaitUntilServing
  <2>10. CASE ReplayedOrTimeout(i)
    BY <1>4, <2>10 DEF ReplayedOrTimeout, Serves, Passes, bounds
  <2>11. CASE WritePidFile(i)
    <3>1. ASSUME pidFile' = i, Passes(i, "ready") PROVE FilesInv'
      <4>1. /\ \A j \in Procs : pc'[j] = IF j = i THEN "ready" ELSE pc[j]
            /\ pc[i] = "pid" /\ readyFile' = readyFile /\ code' = code
            /\ Mounted' = Mounted /\ UNCHANGED history
        BY <2>11, <3>1 DEF WritePidFile, Passes, Go, Typed, Mounted
      <4>2. code[i] # 0
        BY <1>0, <4>1
      <4>3. FilesOf(i)'
        BY <3>1, <4>1, <4>2 DEF FilesInv, FilesOf, Alone, HasPid, HasReady, Serves, history
      <4> QED
        BY <2>0, <3>1, <4>1, <4>3, FilesOfOthers DEF history
    <3> QED
      BY <1>3, <2>0, <2>11, <3>1 DEF WritePidFile, files
  <2>12. CASE WriteReadyFile(i)
    <3>1. ASSUME readyFile' = i, Passes(i, "signals") PROVE FilesInv'
      <4>1. /\ \A j \in Procs : pc'[j] = IF j = i THEN "signals" ELSE pc[j]
            /\ pc[i] = "ready" /\ pidFile' = pidFile /\ code' = code
            /\ Mounted' = Mounted /\ UNCHANGED history
        BY <2>12, <3>1 DEF WriteReadyFile, Passes, Go, Typed, Mounted
      <4>2. code[i] # 0
        BY <1>0, <4>1
      <4>3. FilesOf(i)'
        BY <3>1, <4>1, <4>2 DEF FilesInv, FilesOf, Alone, HasPid, HasReady, Serves, history
      <4> QED
        BY <2>0, <3>1, <4>1, <4>3, FilesOfOthers DEF history
    <3> QED
      BY <1>3, <2>0, <2>12, <3>1 DEF WriteReadyFile, files
  <2>13. CASE InstallHandlers(i)
    <3>1. ASSUME Passes(i, "serving") PROVE FilesInv'
      BY <2>0, <2>13, <3>1, FilesKept DEF InstallHandlers, Passes, HasPid, HasReady, Serves, history
    <3> QED
      BY <1>3, <2>0, <2>13, <3>1 DEF InstallHandlers
  <2>14. CASE Stop(i)
    BY <2>0, <2>14, FilesKept DEF Stop, HasPid, HasReady, Serves, history
  <2>15. CASE DrainedOrTimeout(i)
    BY <2>0, <2>15, FilesKept DEF DrainedOrTimeout, HasPid, HasReady, Serves, history
  <2>16. CASE DropSession(i)
    <3>1. /\ \A j \in Procs : pc'[j] = IF j = i THEN "rmpid" ELSE pc[j]
          /\ pc[i] = "drop" /\ UNCHANGED <<code, files, history>>
      BY <2>16 DEF DropSession, Go, Typed
    <3>2. Mounted' = Mounted \ {i}
      BY <2>16, MountsDrop DEF DropSession, Go, history
    <3>3. FilesOf(i)'
      BY <3>1 DEF FilesInv, FilesOf, Alone, HasPid, HasReady, Serves, files, history
    <3> QED
      BY <2>0, <3>1, <3>2, <3>3, FilesOfOthers DEF files, history
  <2>17. CASE RemovePidFile(i)
    <3>1. /\ \A j \in Procs : pc'[j] = IF j = i THEN "rmready" ELSE pc[j]
          /\ pc[i] = "rmpid" /\ pidFile' = None /\ UNCHANGED <<code, readyFile, history>>
          /\ Mounted' = Mounted
      BY <2>17 DEF RemovePidFile, Go, Typed, Mounted
    <3>2. code[i] # 0 /\ i # None
      BY <1>0, <3>1 DEF Procs
    <3>3. FilesOf(i)'
      BY <3>1, <3>2 DEF FilesInv, FilesOf, Alone, HasPid, HasReady, Serves, history
    <3> QED
      BY <2>0, <3>1, <3>3, FilesOfOthers DEF history
  <2>18. CASE RemoveReadyFile(i)
    <3>1. /\ \A j \in Procs : pc'[j] = IF j = i THEN "close" ELSE pc[j]
          /\ pc[i] = "rmready" /\ readyFile' = None /\ UNCHANGED <<code, pidFile, history>>
          /\ Mounted' = Mounted
      BY <2>18 DEF RemoveReadyFile, Go, Typed, Mounted
    <3>2. code[i] # 0 /\ i # None
      BY <1>0, <3>1 DEF Procs
    <3>3. FilesOf(i)'
      BY <3>1, <3>2 DEF FilesInv, FilesOf, Alone, HasPid, HasReady, Serves, history
    <3> QED
      BY <2>0, <3>1, <3>3, FilesOfOthers DEF history
  <2>19. CASE ClosePool(i)
    BY <2>0, <2>19, FilesExit DEF ClosePool, history
  <2> QED
    BY <1>5, <2>1, <2>2, <2>3, <2>4, <2>5, <2>6, <2>7, <2>8, <2>9, <2>10, <2>11, <2>12,
       <2>13, <2>14, <2>15, <2>16, <2>17, <2>18, <2>19 DEF Step
<1>6. ASSUME NEW i \in Procs, Pipeline(i) PROVE FilesInv'
  BY <1>1, <1>6 DEF Pipeline, Accept, Drain, DrainFails, Rescan, history
<1>7. ASSUME NEW i \in Procs, Signal(i) \/ Kill(i) PROVE FilesInv'
  <2>1. /\ UNCHANGED <<code, files, mounts, together, detached>> /\ Live(i)
        /\ (pc' = pc \/ Go(i, "dead"))
    BY <1>7 DEF Signal, Kill, history
  <2>2. CASE pc' = pc
    BY <2>1, <2>2 DEF FilesInv, FilesOf, Alone, Live, Mounted, files
  <2>3. CASE Go(i, "dead")
    BY <2>1, <2>3, FilesKept DEF HasPid, HasReady, Serves
  <2> QED
    BY <2>1, <2>2, <2>3
<1>8. ASSUME NEW i \in Procs, AutoUnmount(i) PROVE FilesInv'
  <2>1. /\ Mounted' = Mounted \ {i} /\ pc[i] = "dead"
        /\ UNCHANGED <<daemon, files, together, detached>>
    BY <1>8, MountsDrop DEF AutoUnmount, daemon, history
  <2> QED
    BY <2>1 DEF FilesInv, FilesOf, Alone, Live, daemon, files, Serves
<1>9. CASE Unmount
  <2>1. Top \in Procs
    BY <1>9, EmptySeq, ElementOfSeq DEF Unmount, Top, Typed
  <2>2. PICK i \in Procs : i = Top
    BY <2>1
  <2>3. /\ Mounted' = Mounted \ {i} /\ UNCHANGED <<daemon, files, together>>
        /\ detached' = IF pc[i] \in {"semantic", "wait"} THEN detached ELSE detached \union {i}
    BY <1>9, <2>2, MountsDrop DEF Unmount, daemon
  <2> QED
    BY <2>3 DEF FilesInv, FilesOf, Alone, Live, daemon, files, Serves
<1>10. CASE DbDown \/ DbUp
  BY <1>1, <1>10 DEF DbDown, DbUp, history
<1> QED
  BY <1>1, <1>2, <1>5, <1>6, <1>7, <1>8, <1>9, <1>10 DEF Next, vars, history

----------------------------------------------------------------------------
(* The theorems.                                                           *)

LEMMA DaemonInitially == Init => Typed /\ MountsInv /\ FilesInv
<1> SUFFICES ASSUME Init PROVE Typed /\ MountsInv /\ FilesInv
  OBVIOUS
<1> USE DaemonAssumption DEF Init
<1>1. Mounted = {} /\ mounts \in Seq(Procs)
  BY EmptySeq DEF Mounted
<1>2. Typed
  BY <1>1 DEF Typed, Steps
<1>3. MountsInv
  BY <1>1 DEF MountsInv, Startup, Inside, Distinct
<1>4. FilesInv
  BY DEF FilesInv, FilesOf, Live, Startup, Readiness, Shutdown, HasPid, HasReady, Serves, Procs
<1> QED
  BY <1>2, <1>3, <1>4

(* The inductive invariant of the lifecycle.                               *)
THEOREM DaemonInvariant == Spec => [](Typed /\ MountsInv /\ FilesInv)
<1>1. Typed /\ MountsInv /\ FilesInv /\ [Next]_vars => (Typed /\ MountsInv /\ FilesInv)'
  BY TypedStep, MountsStep, FilesStep
<1> QED
  BY <1>1, DaemonInitially, PTL DEF Spec

(* Two processes serve one mountpoint only if both were started before     *)
(* either had mounted (validate_mountpoint).                               *)
THEOREM OneServerAlways == Spec => []OneServer
<1>1. Typed /\ MountsInv => OneServer
  <2> SUFFICES ASSUME Typed, MountsInv PROVE OneServer
    OBVIOUS
  <2>1. Mounted \subseteq Procs
    BY MountedInProcs
  <2>2. DaemonTypeOK
    BY <2>1 DEF Typed, DaemonTypeOK, Steps
  <2>3. ASSUME NEW k \in DOMAIN mounts, NEW l \in DOMAIN mounts, k < l
        PROVE  mounts[k] # mounts[l] /\ {mounts[k], mounts[l]} \subseteq raced
    <3>1. k # l
      BY <2>3, LenProperties DEF Typed
    <3> QED
      BY <3>1 DEF MountsInv, Distinct, Mounted
  <2> QED
    BY <2>2, <2>3 DEF OneServer
<1> QED
  BY <1>1, DaemonInvariant, PTL

(* A process that is alone has its mount and its files while it serves.    *)
THEOREM ReadyMeansServingAlways == Spec => []ReadyMeansServing
<1>1. Typed /\ FilesInv => ReadyMeansServing
  BY DEF Typed, FilesInv, FilesOf, Alone, ReadyMeansServing, Live, HasPid, HasReady, Serves,
     Startup, Readiness, Shutdown
<1> QED
  BY <1>1, DaemonInvariant, PTL

(* No exit leaves the mount, no clean one a file of its own.               *)
THEOREM NothingLeftAlways == Spec => []NothingLeft
<1>1. MountsInv /\ FilesInv => NothingLeft
  BY DEF MountsInv, FilesInv, FilesOf, NothingLeft, Past
<1> QED
  BY <1>1, DaemonInvariant, PTL
=============================================================================
