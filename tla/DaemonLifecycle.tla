-------------------------- MODULE DaemonLifecycle --------------------------
(***************************************************************************)
(* smartfsd from start to exit (smartfs-daemon: main.rs, startup.rs): the  *)
(* gates of the start, readiness, the signals, the shutdown; several       *)
(* processes over time, or side by side, for one mountpoint, one store and *)
(* one pair of pid and ready files, with PostgreSQL going away in between. *)
(*                                                                         *)
(* The pipeline is seen from outside: the markers on disk, and for each    *)
(* process those handed to its drain and the slots it counts.  Its inside  *)
(* is PendingPipeline, two of them on one queue are PipelineRecover.       *)
(***************************************************************************)
EXTENDS Naturals, Sequences, FiniteSets, SequencesExt

CONSTANTS
    MaxStarts,   \* bound: processes started
    MaxWrites,   \* bound: writes through the mount
    MaxFails,    \* bound: failing system calls and losses of PostgreSQL
    MaxKills,    \* bound: SIGKILLs
    MaxUnmounts, \* bound: unmounts by somebody else
    None         \* the absent value

ASSUME DaemonAssumption ==
    /\ MaxStarts \in Nat \ {0}
    /\ {MaxWrites, MaxFails, MaxKills, MaxUnmounts} \subseteq Nat
    /\ None \notin Nat

Procs  == 1 .. MaxStarts
Writes == 1 .. MaxWrites

VARIABLES
    pc,        \* where run() of each process is
    code,      \* the exit code of each process, None as long as it has none
    signalled, \* processes with a SIGTERM or SIGINT received by the handler
    mounts,    \* mounts at the mountpoint: a later one shadows the earlier
    pidFile,   \* the process the file names, None without a file
    readyFile,
    db,        \* PostgreSQL answers
    queue,     \* markers on disk
    written,   \* writes accepted so far
    handed,    \* markers in the channel of the drain of each process
    slots,     \* ram_depth of each process
    together,  \* processes that at some time were not alone
    raced,     \* processes started while another had not mounted yet, and that one
    detached,  \* processes whose mount somebody else removed after step 10
    fails, kills, unmounts

daemon  == <<pc, code, signalled>>
files   == <<pidFile, readyFile>>
queued  == <<queue, written, handed, slots>>
history == <<together, raced, detached>>
bounds  == <<fails, kills, unmounts>>
vars    == <<daemon, mounts, files, db, queued, history, bounds>>

Init ==
    /\ pc = [i \in Procs |-> "none"] /\ code = [i \in Procs |-> None]
    /\ signalled = {}
    /\ mounts = <<>> /\ pidFile = None /\ readyFile = None /\ db = TRUE
    /\ queue = {} /\ written = 0
    /\ handed = [i \in Procs |-> {}] /\ slots = [i \in Procs |-> 0]
    /\ together = {} /\ raced = {} /\ detached = {}
    /\ fails = 0 /\ kills = 0 /\ unmounts = 0

----------------------------------------------------------------------------
Startup   == {"mountpoint", "store", "db", "schema", "open", "pipeline", "mount"}
Readiness == {"semantic", "wait", "quiesce", "pid", "ready", "signals"}
Shutdown  == {"drain", "drop", "rmpid", "rmready", "close"}

Live(i)    == pc[i] \in Startup \union Readiness \union {"serving"} \union Shutdown
Mounted    == {mounts[k] : k \in DOMAIN mounts}
Top        == mounts[Len(mounts)]

(* A process mounts once.                                                  *)
WithoutMount(i) ==
    IF i \in Mounted
    THEN RemoveAt(mounts, CHOOSE k \in DOMAIN mounts : mounts[k] = i)
    ELSE mounts

(* The drain of i runs: from step 8 until the process is gone.             *)
Drains(i) == Live(i) /\ pc[i] \notin Startup \ {"mount"}

(* A call on the mountpoint is answered: getattr of the root reads its row.*)
Answered == mounts # <<>> /\ Live(Top) /\ db

Go(i, next) == pc' = [pc EXCEPT ![i] = next]

(* Mutant of Exit: the process exits where the gate fails, and the mount   *)
(* of the session stays.                                                   *)
ExitAtOnce(i, c) ==
    /\ pc' = [pc EXCEPT ![i] = "exited"]
    /\ code' = [code EXCEPT ![i] = c]
    /\ UNCHANGED mounts

(* run() returns, which drops the session if there is one, then main exits.*)
Exit(i, c) ==
    /\ pc' = [pc EXCEPT ![i] = "exited"]
    /\ code' = [code EXCEPT ![i] = c]
    /\ mounts' = WithoutMount(i)

(* A gate: on to the next step, or out with the code of the gate.          *)
Passes(i, next) == Go(i, next) /\ UNCHANGED <<code, mounts, fails>>

Fails(i, c) == fails < MaxFails /\ fails' = fails + 1 /\ Exit(i, c)

----------------------------------------------------------------------------
(* Starting.                                                               *)

WithCompany(i, S) == IF S = {} THEN {} ELSE S \union {i}

Start(i) ==
    /\ pc[i] = "none" /\ \A j \in 1 .. i - 1 : pc[j] # "none"
    /\ Go(i, "mountpoint")
    /\ together' = together \union WithCompany(i, {j \in Procs : Live(j)})
    /\ raced' = raced \union WithCompany(i, {j \in Procs : pc[j] \in Startup})
    /\ UNCHANGED <<code, signalled, mounts, files, db, queued, detached, bounds>>

(* Mutant of ValidateMountpoint: an empty directory is enough.             *)
EmptyDirectory(i) ==
    /\ pc[i] = "mountpoint"
    /\ \/ (mounts # <<>> => Live(Top)) /\ Passes(i, "store")
       \/ mounts # <<>> /\ ~Live(Top) /\ Exit(i, 2) /\ UNCHANGED fails
       \/ Fails(i, 2)
    /\ UNCHANGED <<signalled, files, db, queued, history, kills, unmounts>>

(* validate_mountpoint: stat of a mount nobody serves fails, and what is a *)
(* mount is refused.                                                       *)
ValidateMountpoint(i) ==
    /\ pc[i] = "mountpoint"
    /\ \/ mounts = <<>> /\ Passes(i, "store")
       \/ mounts # <<>> /\ Exit(i, 2) /\ UNCHANGED fails
       \/ Fails(i, 2)
    /\ UNCHANGED <<signalled, files, db, queued, history, kills, unmounts>>

(* validate_store_path: the probe file is written and deleted.             *)
ValidateStorePath(i) ==
    /\ pc[i] = "store"
    /\ Passes(i, "db") \/ Fails(i, 3)
    /\ UNCHANGED <<signalled, files, db, queued, history, kills, unmounts>>

(* connect_and_probe_db: no retry.                                         *)
ConnectDb(i) ==
    /\ pc[i] = "db"
    /\ \/ db /\ Passes(i, "schema")
       \/ ~db /\ Exit(i, 4) /\ UNCHANGED fails
    /\ UNCHANGED <<signalled, files, db, queued, history, kills, unmounts>>

(* check_schema: tables, migration markers, no refcount.                   *)
CheckSchema(i) ==
    /\ pc[i] = "schema"
    /\ \/ db /\ Passes(i, "open")
       \/ ~db /\ Exit(i, 5) /\ UNCHANGED fails
       \/ Fails(i, 5)
    /\ UNCHANGED <<signalled, files, db, queued, history, kills, unmounts>>

OpenStore(i) ==
    /\ pc[i] = "open"
    /\ Passes(i, "pipeline") \/ Fails(i, 6)
    /\ UNCHANGED <<signalled, files, db, queued, history, kills, unmounts>>

(* PendingPipeline::start: every marker takes a slot and goes to the drain.*)
StartPipeline(i) ==
    /\ pc[i] = "pipeline"
    /\ \/ /\ Passes(i, "mount")
          /\ slots' = [slots EXCEPT ![i] = Cardinality(queue)]
          /\ handed' = [handed EXCEPT ![i] = queue]
       \/ Fails(i, 6) /\ UNCHANGED <<slots, handed>>
    /\ UNCHANGED <<signalled, files, db, queue, written, history, kills, unmounts>>

(* spawn_mount_smartfs: the kernel mounts over what is there by now.       *)
Mount(i) ==
    /\ pc[i] = "mount"
    /\ \/ Go(i, "semantic") /\ mounts' = Append(mounts, i) /\ UNCHANGED <<code, fails>>
       \/ Fails(i, 7)
    /\ UNCHANGED <<signalled, files, db, queued, history, kills, unmounts>>

(* Step 9 and the spawning of scrub and cleaner: ok, degraded or off, the  *)
(* start goes on.                                                          *)
StartSupervisors(i) ==
    /\ pc[i] = "semantic"
    /\ Go(i, "wait")
    /\ UNCHANGED <<code, signalled, mounts, files, db, queued, history, bounds>>

(* Mutant of WaitUntilServing: the end of the timeout is taken for an      *)
(* answer.                                                                 *)
WaitForTimeout(i) ==
    /\ pc[i] = "wait"
    /\ Passes(i, "quiesce")
    /\ UNCHANGED <<signalled, files, db, queued, history, kills, unmounts>>

(* wait_until_serving: whoever answers; without an answer for 15 s, out.   *)
WaitUntilServing(i) ==
    /\ pc[i] = "wait"
    /\ \/ Answered /\ Passes(i, "quiesce")
       \/ ~Answered /\ Exit(i, 7) /\ UNCHANGED fails
    /\ UNCHANGED <<signalled, files, db, queued, history, kills, unmounts>>

(* quiesce(5 s) before readiness: drained or not, the start goes on.       *)
ReplayedOrTimeout(i) ==
    /\ pc[i] = "quiesce"
    /\ Go(i, "pid")
    /\ UNCHANGED <<code, signalled, mounts, files, db, queued, history, bounds>>

WritePidFile(i) ==
    /\ pc[i] = "pid"
    /\ \/ pidFile' = i /\ Passes(i, "ready")
       \/ UNCHANGED pidFile /\ Fails(i, 7)
    /\ UNCHANGED <<signalled, readyFile, db, queued, history, kills, unmounts>>

WriteReadyFile(i) ==
    /\ pc[i] = "ready"
    /\ \/ readyFile' = i /\ Passes(i, "signals")
       \/ UNCHANGED readyFile /\ Fails(i, 7)
    /\ UNCHANGED <<signalled, pidFile, db, queued, history, kills, unmounts>>

(* Step 11: until here a SIGTERM kills.                                    *)
InstallHandlers(i) ==
    /\ pc[i] = "signals"
    /\ Passes(i, "serving") \/ Fails(i, 7)
    /\ UNCHANGED <<signalled, files, db, queued, history, kills, unmounts>>

----------------------------------------------------------------------------
(* Stopping.                                                               *)

(* The tasks are aborted; ram_depth decides whether there is a drain.      *)
Stop(i) ==
    /\ pc[i] = "serving" /\ i \in signalled
    /\ Go(i, IF slots[i] > 0 THEN "drain" ELSE "drop")
    /\ UNCHANGED <<code, signalled, mounts, files, db, queued, history, bounds>>

(* Mutant of DrainedOrTimeout: no timeout.                                 *)
Drained(i) ==
    /\ pc[i] = "drain" /\ slots[i] = 0
    /\ Go(i, "drop")
    /\ UNCHANGED <<code, signalled, mounts, files, db, queued, history, bounds>>

(* quiesce(30 s); the mount goes on accepting writes.                      *)
DrainedOrTimeout(i) ==
    /\ pc[i] = "drain"
    /\ Go(i, "drop")
    /\ UNCHANGED <<code, signalled, mounts, files, db, queued, history, bounds>>

DropSession(i) ==
    /\ pc[i] = "drop"
    /\ Go(i, "rmpid")
    /\ mounts' = WithoutMount(i)
    /\ UNCHANGED <<code, signalled, files, db, queued, history, bounds>>

(* remove_file goes by path: whoever wrote the file.                       *)
RemovePidFile(i) ==
    /\ pc[i] = "rmpid"
    /\ Go(i, "rmready")
    /\ pidFile' = None
    /\ UNCHANGED <<code, signalled, mounts, readyFile, db, queued, history, bounds>>

RemoveReadyFile(i) ==
    /\ pc[i] = "rmready"
    /\ Go(i, "close")
    /\ readyFile' = None
    /\ UNCHANGED <<code, signalled, mounts, pidFile, db, queued, history, bounds>>

ClosePool(i) ==
    /\ pc[i] = "close"
    /\ Exit(i, 0)
    /\ UNCHANGED <<signalled, files, db, queued, history, bounds>>

----------------------------------------------------------------------------
(* The pipeline.                                                           *)

(* release() of a written file: the marker is on disk, then in the channel.*)
Accept(i) ==
    /\ mounts # <<>> /\ i = Top /\ Live(i) /\ db
    /\ written < MaxWrites
    /\ written' = written + 1
    /\ queue' = queue \union {written'}
    /\ handed' = [handed EXCEPT ![i] = @ \union {written'}]
    /\ slots' = [slots EXCEPT ![i] = @ + 1]
    /\ UNCHANGED <<daemon, mounts, files, db, history, bounds>>

Oldest(S) == CHOOSE w \in S : \A v \in S : w <= v

(* drain_loop: a marker another process committed is passed over, and one  *)
(* of another process gives back a slot that was not taken here.           *)
Drain(i) ==
    /\ Drains(i) /\ handed[i] # {} /\ db
    /\ LET w == Oldest(handed[i])
       IN  /\ handed' = [handed EXCEPT ![i] = @ \ {w}]
           /\ queue' = queue \ {w}
           /\ slots' = [slots EXCEPT ![i] = IF w \in queue /\ @ > 0 THEN @ - 1 ELSE @]
    /\ UNCHANGED <<daemon, mounts, files, db, written, history, bounds>>

DrainFails(i) ==
    /\ Drains(i) /\ handed[i] # {} /\ ~db
    /\ handed' = [handed EXCEPT ![i] = @ \ {Oldest(@)}]
    /\ UNCHANGED <<daemon, mounts, files, db, queue, written, slots, history, bounds>>

(* Mutant of Rescan: only what already is in the channel.                  *)
RescanHanded(i) ==
    /\ Drains(i) /\ ~ (queue \subseteq handed[i])
    /\ handed' = [handed EXCEPT ![i] = @ \intersect queue]
    /\ UNCHANGED <<daemon, mounts, files, db, queue, written, slots, history, bounds>>

(* The periodic scan hands over again what is not in the channel.          *)
Rescan(i) ==
    /\ Drains(i) /\ ~ (queue \subseteq handed[i])
    /\ handed' = [handed EXCEPT ![i] = @ \union queue]
    /\ UNCHANGED <<daemon, mounts, files, db, queue, written, slots, history, bounds>>

----------------------------------------------------------------------------
(* Everything around.                                                      *)

(* SIGTERM or SIGINT: handled once step 11 is reached.                     *)
Signal(i) ==
    /\ Live(i) /\ pc[i] \notin Shutdown /\ i \notin signalled
    /\ IF pc[i] = "serving"
       THEN signalled' = signalled \union {i} /\ UNCHANGED <<pc, kills>>
       ELSE /\ kills < MaxKills /\ kills' = kills + 1
            /\ Go(i, "dead") /\ UNCHANGED signalled
    /\ UNCHANGED <<code, mounts, files, db, queued, history, fails, unmounts>>

Kill(i) ==
    /\ Live(i) /\ kills < MaxKills
    /\ kills' = kills + 1
    /\ Go(i, "dead")
    /\ UNCHANGED <<code, signalled, mounts, files, db, queued, history, fails, unmounts>>

(* AutoUnmount: a helper of fuse removes the mount of a dead process.      *)
AutoUnmount(i) ==
    /\ pc[i] = "dead" /\ i \in Mounted
    /\ mounts' = WithoutMount(i)
    /\ UNCHANGED <<daemon, files, db, queued, history, bounds>>

(* fusermount -u by somebody else: the process does not notice.            *)
Unmount ==
    /\ mounts # <<>> /\ unmounts < MaxUnmounts
    /\ unmounts' = unmounts + 1
    /\ mounts' = WithoutMount(Top)
    /\ detached' = IF pc[Top] \in {"semantic", "wait"} THEN detached
                   ELSE detached \union {Top}
    /\ UNCHANGED <<daemon, files, db, queued, together, raced, fails, kills>>

DbDown ==
    /\ db /\ fails < MaxFails
    /\ fails' = fails + 1
    /\ db' = FALSE
    /\ UNCHANGED <<daemon, mounts, files, queued, history, kills, unmounts>>

DbUp ==
    /\ ~db /\ db' = TRUE
    /\ UNCHANGED <<daemon, mounts, files, queued, history, bounds>>

Step(i) ==
    \/ ValidateMountpoint(i) \/ ValidateStorePath(i) \/ ConnectDb(i) \/ CheckSchema(i)
    \/ OpenStore(i) \/ StartPipeline(i) \/ Mount(i) \/ StartSupervisors(i)
    \/ WaitUntilServing(i) \/ ReplayedOrTimeout(i) \/ WritePidFile(i) \/ WriteReadyFile(i)
    \/ InstallHandlers(i)
    \/ Stop(i) \/ DrainedOrTimeout(i) \/ DropSession(i) \/ RemovePidFile(i)
    \/ RemoveReadyFile(i) \/ ClosePool(i)

Pipeline(i) == Accept(i) \/ Drain(i) \/ DrainFails(i) \/ Rescan(i)

Next ==
    \/ \E i \in Procs : \/ Start(i) \/ Step(i) \/ Pipeline(i)
                        \/ Signal(i) \/ Kill(i) \/ AutoUnmount(i)
    \/ Unmount \/ DbDown \/ DbUp

Spec == Init /\ [][Next]_vars

(* tokio runs the tasks of a process; nobody has to start one, to send a   *)
(* signal, or to bring PostgreSQL back.                                    *)
FairSpec ==
    /\ Spec
    /\ \A i \in Procs : WF_vars(Step(i)) /\ WF_vars(Drain(i)) /\ WF_vars(Rescan(i))

----------------------------------------------------------------------------
(* Types of the state; ram_depth never falls below zero, whoever commits   *)
(* the markers (drain_loop).                                               *)
DaemonTypeOK ==
    /\ \A i \in Procs :
         /\ pc[i] \in {"none", "serving", "exited", "dead"}
                      \union Startup \union Readiness \union Shutdown
         /\ code[i] \in {None, 0, 2, 3, 4, 5, 6, 7}
         /\ code[i] # None <=> pc[i] = "exited"
         /\ handed[i] \subseteq Writes /\ slots[i] \in Nat
    /\ Mounted \union signalled \union together \union raced \union detached \subseteq Procs
    /\ {pidFile, readyFile} \subseteq Procs \union {None}
    /\ db \in BOOLEAN /\ queue \subseteq Writes /\ written \in 0 .. MaxWrites
    /\ fails \in 0 .. MaxFails /\ kills \in 0 .. MaxKills /\ unmounts \in 0 .. MaxUnmounts

(* Two processes have the mountpoint mounted only when both were started   *)
(* before either had mounted: validate_mountpoint keeps out every later    *)
(* one, that of a killed predecessor included.                             *)
OneServer ==
    /\ DaemonTypeOK
    /\ \A k, l \in DOMAIN mounts : k < l =>
          /\ mounts[k] # mounts[l]
          /\ {mounts[k], mounts[l]} \subseteq raced

(* A process that ran alone, and whose mount nobody else removed, has the  *)
(* mount and both files as long as it serves, and a ready file names it    *)
(* only with the mount in place until the session is dropped (step 10,     *)
(* write_atomic).                                                          *)
ReadyMeansServing ==
    \A i \in Procs \ (together \union detached) :
        /\ pc[i] = "serving" => pidFile = i /\ readyFile = i
        /\ readyFile = i /\ Live(i) /\ pc[i] \notin {"rmpid", "rmready"} => i \in Mounted

(* No exit, clean or by a gate, leaves the mount behind; a clean one       *)
(* leaves no file that names the process (drop of the session, step 11).   *)
NothingLeft ==
    \A i \in Procs : pc[i] = "exited" =>
        /\ i \notin Mounted
        /\ code[i] = 0 => i \notin {pidFile, readyFile}

(* A start ends in a serving daemon or in an exit, and a signal that is    *)
(* handled ends the process: nothing waits without a timeout, whatever     *)
(* PostgreSQL and a backlog that cannot be drained do.                     *)
StartsAndStops ==
    \A i \in Procs :
        /\ pc[i] = "mountpoint" ~> pc[i] \in {"serving", "exited", "dead"}
        /\ i \in signalled ~> pc[i] \in {"exited", "dead"}

(* What was accepted, also by a process that is gone, is committed as soon *)
(* as a daemon serves long enough with PostgreSQL up (start, rescan).      *)
EventuallyCommitted ==
    (<>[](db /\ \E i \in Procs : pc[i] = "serving")) => <>[](queue = {})
=============================================================================
