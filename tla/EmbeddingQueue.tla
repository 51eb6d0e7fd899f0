--------------------------- MODULE EmbeddingQueue ---------------------------
(***************************************************************************)
(* The embedding worker: run_worker_supervisor of smartfs-ai (worker.rs)   *)
(* over the status column of file_versions (smartfs-db, worker.rs and      *)
(* embeddings.rs) and the ActivityMonitor (activity.rs).                   *)
(*                                                                         *)
(* Each SQL statement is a step, as the worker holds no transaction across *)
(* them; commits, deletions and writes of the mount fall in between.  A    *)
(* version is identified by its inode and its version_number.  One worker  *)
(* runs at a time, but it may be stopped or killed at any step and started *)
(* again.  The vectors themselves are not modelled, only which exist.      *)
(***************************************************************************)
EXTENDS Naturals, Sequences, FiniteSets

CONSTANTS
    Inodes,         \* files
    Nodes,          \* the AST nodes of each version
    MaxVersion,     \* bound: versions committed per file
    BatchSize,      \* the batch_size the supervisor is given
    Backlog,        \* the pending rows above which the valve opens (1000)
    SteadyWrites,   \* TRUE: writes never pause for the debounce of 500 ms
    MaxErrors,      \* bound: failing statements, reads and inferences
    MaxStops,       \* bound: shutdowns and crashes
    None            \* the absent value

Versions == Inodes \X (1 .. MaxVersion)

Vectors == Versions \X Nodes

Statuses == {"none", "pending", "processing", "clean", "failed"}

ASSUME EmbeddingAssumption ==
    /\ IsFiniteSet(Inodes)
    /\ MaxVersion \in Nat
    /\ BatchSize \in Nat \ {0}
    /\ Backlog \in Nat
    /\ SteadyWrites \in BOOLEAN
    /\ MaxErrors \in Nat
    /\ MaxStops \in Nat
    /\ None \notin Versions

VARIABLES
    status,       \* file_versions.status, "none" when there is no row
    arrival,      \* the versions in the order of created_at
    text,         \* versions whose search_text is set
    files,        \* versions with a row in embeddings_1024_qwen
    vecs,         \* AST nodes with a row in ast_embeddings_1536
    current,      \* those whose is_current is TRUE
    gone,         \* inodes that were deleted
    aged,         \* versions older than 60 s
    quiet,        \* no write in the last 500 ms
    pc,           \* where the worker is
    force,        \* run_worker_supervisor: force
    batch,        \* run_worker_supervisor: batch
    idx,          \* run_worker_supervisor: i, preempt_idx once preempted
    woken,        \* a write was signalled to write_activity_detected
    latest,       \* refresh_is_current: latest_vid
    shutdown,     \* the shutdown watch holds TRUE
    stranded,     \* history: rows left in processing by an error or a stop
    unrefreshed,  \* history: inodes whose last refresh failed or was cut off
    errors, stops

rows  == <<status, arrival, text, files, vecs, current, gone>>
world == <<aged, quiet>>
local == <<pc, force, batch, idx, woken, latest>>
ghost == <<stranded, unrefreshed, errors, stops>>
vars  == <<rows, world, local, shutdown, ghost>>

Embedding == {"load", "file", "nodes"}
Finishing == {"inode", "refresh"}

Init ==
    /\ status = [v \in Versions |-> "none"]
    /\ arrival = <<>>
    /\ text = {} /\ files = {} /\ vecs = {} /\ current = {} /\ gone = {}
    /\ aged = {}
    /\ quiet = ~SteadyWrites
    /\ pc = "down"
    /\ force = FALSE
    /\ batch = <<>>
    /\ idx = 1
    /\ woken = FALSE
    /\ latest = None
    /\ shutdown = FALSE
    /\ stranded = {} /\ unrefreshed = {} /\ errors = 0 /\ stops = 0

With(s)  == {v \in Versions : status[v] = s}
Rows(i)  == {v \in Versions : v[1] = i /\ status[v] # "none"}
Of(i, S) == {a \in S : a[1][1] = i}

(* The newest version of a file by version_number.                         *)
IsLatest(v) == v \in Rows(v[1]) /\ \A w \in Rows(v[1]) : w[2] <= v[2]

Failing ==
    /\ errors < MaxErrors
    /\ errors' = errors + 1

----------------------------------------------------------------------------
(* The rest of the system: commits, deletions and writes.                  *)

(* cow_commit_tx inserts a version with its AST nodes; the status column   *)
(* defaults to pending.                                                    *)
Commit(i) ==
    /\ i \notin gone
    /\ \E n \in 1 .. MaxVersion :
        /\ n = Cardinality(Rows(i)) + 1
        /\ status' = [status EXCEPT ![<<i, n>>] = "pending"]
        /\ arrival' = Append(arrival, <<i, n>>)
    /\ UNCHANGED <<text, files, vecs, current, gone, world, local, shutdown,
                   ghost>>

(* Deleting the inode cascades to its versions, nodes and vectors.         *)
DeleteInode(i) ==
    /\ Rows(i) # {}
    /\ gone' = gone \union {i}
    /\ status' = [v \in Versions |-> IF v[1] = i THEN "none" ELSE status[v]]
    /\ text' = text \ Rows(i)
    /\ files' = files \ Rows(i)
    /\ vecs' = vecs \ Of(i, vecs)
    /\ current' = current \ Of(i, current)
    /\ UNCHANGED <<arrival, world, local, shutdown, ghost>>

(* notify_write: the debounce restarts and a listening embed is signalled. *)
NotifyWrite ==
    /\ quiet' = FALSE
    /\ woken' = (woken \/ pc \in Embedding)
    /\ UNCHANGED <<rows, aged, pc, force, batch, idx, latest, shutdown, ghost>>

(* 500 ms pass without a write.                                            *)
GoQuiet ==
    /\ ~SteadyWrites
    /\ quiet' = TRUE
    /\ UNCHANGED <<rows, aged, local, shutdown, ghost>>

(* A version becomes older than 60 s.                                      *)
Age(v) ==
    /\ v \notin aged /\ status[v] # "none"
    /\ aged' = aged \union {v}
    /\ UNCHANGED <<rows, quiet, local, shutdown, ghost>>

----------------------------------------------------------------------------
(* The worker, one step per statement.                                     *)

Step(from, to) == pc = from /\ pc' = to

(* The startup reaper takes every row back that a dead worker left; when   *)
(* it fails the error is logged and the worker goes on.                    *)
Reap(s) == IF s = "processing" THEN "pending" ELSE s

Start ==
    /\ Step("down", "model")
    /\ shutdown' = FALSE
    /\ \/ /\ status' = [v \in Versions |-> Reap(status[v])]
          /\ stranded' = {}
          /\ UNCHANGED errors
       \/ Failing /\ UNCHANGED <<status, stranded>>
    /\ UNCHANGED <<arrival, text, files, vecs, current, gone, world, force,
                   batch, idx, woken, latest, unrefreshed, stops>>

(* Without a default model the supervisor returns.                         *)
LookupModel ==
    /\ pc = "model"
    /\ \/ pc' = "top" /\ UNCHANGED errors
       \/ pc' = "down" /\ Failing
    /\ UNCHANGED <<rows, world, force, batch, idx, woken, latest, shutdown,
                   stranded, unrefreshed, stops>>

(* should_embed_despite_activity: an old pending row or a long backlog.    *)
ValveOpen ==
    \/ With("pending") \intersect aged # {}
    \/ Cardinality(With("pending")) > Backlog

Valve ==
    /\ ~shutdown
    /\ force' = ValveOpen
    /\ Step("top", IF ValveOpen THEN "claim" ELSE "wait")
    /\ UNCHANGED <<rows, world, batch, idx, woken, latest, shutdown, ghost>>

(* wait_for_idle returns once no write came for the debounce.              *)
WaitForIdle ==
    /\ quiet
    /\ Step("wait", "claim")
    /\ UNCHANGED <<rows, world, force, batch, idx, woken, latest, shutdown,
                   ghost>>

(* The three places that look at the shutdown watch: the top of the loop,  *)
(* and the two selects that wait.                                          *)
Stop ==
    /\ shutdown
    /\ pc \in {"top", "wait", "sleep"}
    /\ pc' = "down"
    /\ UNCHANGED <<rows, world, force, batch, idx, woken, latest, shutdown,
                   ghost>>

(* The oldest BatchSize pending rows.                                      *)
Claimable ==
    {v \in With("pending") :
        \E n \in DOMAIN arrival :
            /\ arrival[n] = v
            /\ Cardinality({w \in With("pending") :
                   \E m \in 1 .. n : arrival[m] = w}) <= BatchSize}

Orders(S) ==
    {f \in [1 .. Cardinality(S) -> S] : \A v \in S : \E n \in DOMAIN f : f[n] = v}

(* claim_pending_to_processing: one statement; RETURNING has no order.     *)
Claim ==
    /\ pc = "claim"
    /\ Claimable # {}
    /\ batch' \in Orders(Claimable)
    /\ status' = [v \in Versions |->
                    IF v \in Claimable THEN "processing" ELSE status[v]]
    /\ idx' = 1
    /\ pc' = "item"
    /\ UNCHANGED <<arrival, text, files, vecs, current, gone, world, force,
                   woken, latest, shutdown, ghost>>

ClaimNothing ==
    /\ Claimable = {}
    /\ Step("claim", "sleep")
    /\ UNCHANGED <<rows, world, force, batch, idx, woken, latest, shutdown,
                   ghost>>

ClaimFails ==
    /\ Failing
    /\ Step("claim", "top")
    /\ UNCHANGED <<rows, world, force, batch, idx, woken, latest, shutdown,
                   stranded, unrefreshed, stops>>

WakeUp ==
    /\ Step("sleep", "top")
    /\ UNCHANGED <<rows, world, force, batch, idx, woken, latest, shutdown,
                   ghost>>

(* The next version of the batch, or the end of the batch; a shutdown      *)
(* gives the rest back.  The locals of the loop go out of scope with it.   *)
NextItem ==
    /\ pc = "item"
    /\ pc' = IF idx > Len(batch) THEN "top"
             ELSE IF shutdown THEN "revert" ELSE "load"
    /\ batch' = IF idx > Len(batch) THEN <<>> ELSE batch
    /\ idx' = IF idx > Len(batch) THEN 1 ELSE idx
    /\ woken' = FALSE
    /\ UNCHANGED <<rows, world, force, latest, shutdown, ghost>>

Item == batch[idx]

Exists == status[Item] # "none"

(* embed_version reads the version and its bytes and stores search_text.   *)
Load ==
    /\ Step("load", "file")
    /\ Exists
    /\ text' = text \union {Item}
    /\ UNCHANGED <<status, arrival, files, vecs, current, gone, world, force,
                   batch, idx, woken, latest, shutdown, ghost>>

(* The file embedding; a retry finds its row there already.                *)
EmbedFile ==
    /\ Step("file", "nodes")
    /\ Exists
    /\ files' = files \union {Item}
    /\ UNCHANGED <<status, arrival, text, vecs, current, gone, world, force,
                   batch, idx, woken, latest, shutdown, ghost>>

(* A new row is current by default, a row that is there keeps its flag.    *)
EmbedNode ==
    /\ pc = "nodes"
    /\ Exists
    /\ \E n \in Nodes :
        /\ <<Item, n>> \notin vecs
        /\ vecs' = vecs \union {<<Item, n>>}
        /\ current' = current \union {<<Item, n>>}
    /\ UNCHANGED <<status, arrival, text, files, gone, world, local, shutdown,
                   ghost>>

(* Mutant of EmbedFails: the error of the file embedding is only logged.   *)
EmbedFailsIgnored ==
    /\ pc \in Embedding
    /\ pc' = IF pc = "file" /\ Exists THEN "nodes" ELSE "fail"
    /\ \/ ~Exists /\ UNCHANGED errors
       \/ Failing
    /\ UNCHANGED <<rows, world, force, batch, idx, woken, latest, shutdown,
                   stranded, unrefreshed, stops>>

(* A failing read, inference or insert ends embed_version with an error,   *)
(* as does a version that was deleted meanwhile.                           *)
EmbedFails ==
    /\ pc \in Embedding
    /\ pc' = "fail"
    /\ \/ ~Exists /\ UNCHANGED errors
       \/ Failing
    /\ UNCHANGED <<rows, world, force, batch, idx, woken, latest, shutdown,
                   stranded, unrefreshed, stops>>

(* Mutant of AllowPreempt: the forced batch is preempted like any other.   *)
AllowPreemptAlways == TRUE

(* In force mode the first version of a batch is not preemptible.          *)
AllowPreempt == ~force \/ idx > 1

(* Mutant of Preempt: gives back only what follows the preempted version.  *)
PreemptSkips ==
    /\ pc \in Embedding
    /\ woken
    /\ AllowPreempt
    /\ pc' = "revert"
    /\ idx' = idx + 1
    /\ UNCHANGED <<rows, world, force, batch, woken, latest, shutdown, ghost>>

(* The embed is dropped where it stands and the batch is given back.       *)
Preempt ==
    /\ pc \in Embedding
    /\ woken
    /\ AllowPreempt
    /\ pc' = "revert"
    /\ UNCHANGED <<rows, world, force, batch, idx, woken, latest, shutdown,
                   ghost>>

(* A status statement that fails leaves the row where it is.               *)
SetStatus(s) ==
    \/ /\ status' = [status EXCEPT ![Item] = IF Exists THEN s ELSE "none"]
       /\ UNCHANGED <<stranded, errors>>
    \/ /\ Failing
       /\ stranded' = stranded \union {Item}
       /\ UNCHANGED status

(* finish_embed, success: mark_clean, then refresh_is_current whatever     *)
(* mark_clean returned.                                                    *)
Complete == \A n \in Nodes : <<Item, n>> \in vecs

MarkClean ==
    /\ Step("nodes", "inode")
    /\ Complete
    /\ SetStatus("clean")
    /\ UNCHANGED <<arrival, text, files, vecs, current, gone, world, force,
                   batch, idx, woken, latest, shutdown, unrefreshed, stops>>

MarkFailed ==
    /\ Step("fail", "item")
    /\ SetStatus("failed")
    /\ idx' = idx + 1
    /\ UNCHANGED <<arrival, text, files, vecs, current, gone, world, force,
                   batch, woken, latest, shutdown, unrefreshed, stops>>

(* refresh_is_current, first the newest version of the inode ...           *)
ReadLatest ==
    /\ pc = "inode"
    /\ \/ /\ Exists
          /\ \E v \in Rows(Item[1]) : IsLatest(v) /\ latest' = v
          /\ pc' = "refresh"
          /\ UNCHANGED <<idx, unrefreshed, errors>>
       \/ /\ ~Exists
          /\ pc' = "item"
          /\ idx' = idx + 1
          /\ UNCHANGED <<latest, unrefreshed, errors>>
       \/ /\ Failing
          /\ pc' = "item"
          /\ idx' = idx + 1
          /\ unrefreshed' = unrefreshed \union {Item[1]}
          /\ UNCHANGED latest
    /\ UNCHANGED <<rows, world, force, batch, woken, shutdown, stranded, stops>>

(* Mutant of Refreshed: marks the version just embedded, not the newest.   *)
RefreshedItem(i) ==
    {a \in vecs : IF a[1][1] = i THEN a[1] = Item ELSE a \in current}

(* ... then one UPDATE over every vector of the inode.                     *)
Refreshed(i) == {a \in vecs : IF a[1][1] = i THEN a[1] = latest ELSE a \in current}

UpdateCurrent ==
    /\ Step("refresh", "item")
    /\ idx' = idx + 1
    /\ \/ /\ current' = Refreshed(Item[1])
          /\ unrefreshed' = unrefreshed \ {Item[1]}
          /\ UNCHANGED errors
       \/ /\ Failing
          /\ unrefreshed' = unrefreshed \union {Item[1]}
          /\ UNCHANGED current
    /\ latest' = None
    /\ UNCHANGED <<status, arrival, text, files, vecs, gone, world, force,
                   batch, woken, shutdown, stranded, stops>>

(* revert_to_pending for the rest of the batch, one statement each; an     *)
(* error is ignored.                                                       *)
RevertItem ==
    /\ pc = "revert"
    /\ idx <= Len(batch)
    /\ \/ /\ status' = [status EXCEPT ![Item] = Reap(@)]
          /\ UNCHANGED <<stranded, errors>>
       \/ /\ Failing
          /\ stranded' = stranded \union {Item}
          /\ UNCHANGED status
    /\ idx' = idx + 1
    /\ UNCHANGED <<arrival, text, files, vecs, current, gone, world, pc, force,
                   batch, woken, latest, shutdown, unrefreshed, stops>>

Reverted ==
    /\ idx > Len(batch)
    /\ Step("revert", "top")
    /\ batch' = <<>>
    /\ idx' = 1
    /\ woken' = FALSE
    /\ UNCHANGED <<rows, world, force, latest, shutdown, ghost>>

----------------------------------------------------------------------------
Stopping ==
    /\ stops < MaxStops
    /\ stops' = stops + 1

Shutdown ==
    /\ ~shutdown /\ pc # "down"
    /\ shutdown' = TRUE
    /\ Stopping
    /\ UNCHANGED <<rows, world, local, stranded, unrefreshed, errors>>

(* The rows of the batch that no statement has settled yet.                *)
Rest == {batch[n] : n \in (IF pc \in Finishing THEN idx + 1 ELSE idx) .. Len(batch)}

Held == IF pc \in Embedding \union Finishing \union {"item", "fail", "revert"}
        THEN Rest ELSE {}

(* The process is killed: what it claimed stays in processing.             *)
Crash ==
    /\ pc # "down"
    /\ pc' = "down"
    /\ Stopping
    /\ stranded' = stranded \union {v \in Held : status[v] = "processing"}
    /\ unrefreshed' = IF pc \in Finishing
                      THEN unrefreshed \union {Item[1]} ELSE unrefreshed
    /\ force' = FALSE /\ batch' = <<>> /\ idx' = 1
    /\ woken' = FALSE /\ latest' = None
    /\ UNCHANGED <<rows, world, shutdown, errors>>

Worker ==
    \/ Start \/ LookupModel \/ Valve \/ Stop
    \/ Claim \/ ClaimNothing \/ ClaimFails \/ WakeUp
    \/ NextItem \/ Load \/ EmbedFile \/ EmbedNode \/ EmbedFails
    \/ Preempt \/ MarkClean \/ MarkFailed \/ ReadLatest \/ UpdateCurrent
    \/ RevertItem \/ Reverted

Next ==
    \/ Worker
    \/ WaitForIdle
    \/ \E i \in Inodes : Commit(i) \/ DeleteInode(i)
    \/ NotifyWrite \/ GoQuiet
    \/ \E v \in Versions : Age(v)
    \/ Shutdown \/ Crash

Spec == Init /\ [][Next]_vars

(* The executor runs the worker and the process is restarted (WF); writes  *)
(* pause for 500 ms again and again unless SteadyWrites (SF); time passes. *)
Fairness ==
    /\ WF_vars(Worker)
    /\ SF_vars(WaitForIdle)
    /\ WF_vars(GoQuiet)
    /\ \A v \in Versions : WF_vars(Age(v))

FairSpec == Spec /\ Fairness

----------------------------------------------------------------------------
EmbeddingTypeOK ==
    /\ status \in [Versions -> Statuses]
    /\ arrival \in Seq(Versions)
    /\ text \subseteq Versions
    /\ files \subseteq Versions
    /\ vecs \subseteq Vectors
    /\ current \subseteq Vectors
    /\ gone \subseteq Inodes
    /\ aged \subseteq Versions
    /\ quiet \in BOOLEAN
    /\ pc \in Embedding \union Finishing \union
          {"down", "model", "top", "wait", "claim", "sleep", "item", "fail",
           "revert"}
    /\ force \in BOOLEAN
    /\ batch \in Seq(Versions)
    /\ idx \in Nat \ {0}
    /\ woken \in BOOLEAN
    /\ latest \in Versions \union {None}
    /\ shutdown \in BOOLEAN
    /\ stranded \subseteq Versions
    /\ unrefreshed \subseteq Inodes
    /\ errors \in 0 .. MaxErrors
    /\ stops \in 0 .. MaxStops

(* A version in processing is one the running worker will still settle, or *)
(* one a failed statement or a kill left there for the next start's reaper *)
(* (worker.rs, preempt_idx and revert_to_pending).                         *)
ProcessingHeld ==
    /\ EmbeddingTypeOK
    /\ With("processing") \subseteq Held \union stranded

(* A clean version has its search_text, its file vector and the vector of  *)
(* every AST node, whatever was preempted, failed, reaped or retried       *)
(* before (embed_version, finish_embed).                                   *)
CleanIsSearchable ==
    \A v \in With("clean") :
        v \in text /\ v \in files /\ {v} \X Nodes \subseteq vecs

(* Once every version of a file is clean and no refresh is under way or    *)
(* was lost, is_current marks the vectors of its newest version and no     *)
(* others, in whatever order the versions were embedded                    *)
(* (refresh_is_current).                                                   *)
CurrentIsLatest ==
    \A i \in Inodes \ unrefreshed :
        \/ Rows(i) = {} \/ \E v \in Rows(i) : status[v] # "clean"
        \/ pc \in Finishing /\ Item[1] = i
        \/ Of(i, current) = {a \in Of(i, vecs) : IsLatest(a[1])}

(* Every pending version is settled, even when writes preempt the worker   *)
(* for ever: the valve opens for a version older than 60 s and the first   *)
(* version of a forced batch is not preempted (run_worker_supervisor).     *)
Settles ==
    \A v \in Versions :
        status[v] = "pending" ~>
            status[v] \in {"clean", "failed", "none"} \/ v \in stranded
=============================================================================
