-------------------------- MODULE PipelineRecover --------------------------
(***************************************************************************)
(* The pipeline of the daemon together with `smartfs-cli recover`          *)
(* (crates/smartfs-cli/commands/recover.rs), a second process that replays *)
(* the same pending/queue/ into the same database with the same            *)
(* commit_pending_marker.  It shares the disk and the database with the    *)
(* daemon and none of its memory: neither gate, overlay nor inflight set.  *)
(***************************************************************************)
EXTENDS PendingPipeline

CONSTANT MaxRecovers   \* bound: recovery passes in a behaviour

ASSUME RecoversAssumption == MaxRecovers \in Nat

VARIABLES
    recover,    \* the recovery process: pc, names still to replay, current one
    recovers    \* passes started

allVars == <<vars, recover, recovers>>

NoRecover == [pc |-> "off", todo |-> {}, name |-> None, mark |-> None]

RecoverInit == Init /\ recover = NoRecover /\ recovers = 0

(* replay_pending_queue: one listing at the start of the pass.             *)
RecoverList ==
    /\ recover.pc = "off"
    /\ recovers < MaxRecovers
    /\ recovers' = recovers + 1
    /\ recover' = [pc |-> "next", todo |-> NamesIn(queue), name |-> None, mark |-> None]
    /\ UNCHANGED vars

(* The next listed name in FIFO order is read; a missing one is skipped.   *)
RecoverRead(name) ==
    /\ recover.pc = "next"
    /\ name \in recover.todo
    /\ \A other \in recover.todo : name[1] <= other[1]
    /\ recover' = IF ReadMarker(name) = {}
                  THEN [recover EXCEPT !.todo = @ \ {name}]
                  ELSE [pc |-> "tx", todo |-> recover.todo \ {name}, name |-> name,
                        mark |-> CHOOSE m \in ReadMarker(name) : TRUE]
    /\ UNCHANGED <<vars, recovers>>

(* The read fails, or finds no valid JSON: the marker is left in place.    *)
RecoverReadFail(name) ==
    /\ recover.pc = "next"
    /\ \A other \in recover.todo : name[1] <= other[1]
    /\ Fail
    /\ recover' = [recover EXCEPT !.todo = @ \ {name}]
    /\ UNCHANGED <<durable, ram, writer, drain, scan,
                   acked, newest, nextVid, crashes, recovers>>

RecoverTx ==
    /\ recover.pc = "tx"
    /\ CommitRow(recover.mark)
    /\ recover' = [recover EXCEPT !.pc = "unlink"]
    /\ UNCHANGED <<queue, live, ram, writer, drain, scan, history, recovers>>

RecoverUnlink ==
    /\ recover.pc = "unlink"
    /\ queue' = {m \in queue : FileName(m) # recover.name}
    /\ recover' = [recover EXCEPT !.pc = "next", !.name = None, !.mark = None]
    /\ UNCHANGED <<versions, current, live, ram, writer, drain, scan,
                   history, recovers>>

(* Mutant of RecoverFail: a marker that failed is unlinked all the same.   *)
RecoverFailUnlinks ==
    /\ recover.pc = "tx"
    /\ Fail
    /\ queue' = {m \in queue : FileName(m) # recover.name}
    /\ recover' = [recover EXCEPT !.pc = "next", !.name = None, !.mark = None]
    /\ UNCHANGED <<versions, current, live, ram, writer, drain, scan,
                   acked, newest, nextVid, crashes, recovers>>

(* A failing marker is left in place and the pass continues.  A COMMIT that *)
(* reported an error may have committed.                                   *)
RecoverFail ==
    /\ recover.pc \in {"tx", "unlink"}
    /\ Fail
    /\ IF recover.pc = "tx"
       THEN CommitRow(recover.mark) \/ UNCHANGED <<versions, current>>
       ELSE UNCHANGED <<versions, current>>
    /\ recover' = [recover EXCEPT !.pc = "next", !.name = None, !.mark = None]
    /\ UNCHANGED <<queue, live, ram, writer, drain, scan,
                   acked, newest, nextVid, crashes, recovers>>

(* The pass ends, or the operator interrupts it between two steps.         *)
RecoverExit ==
    /\ recover.pc # "off"
    /\ recover' = NoRecover
    /\ UNCHANGED <<vars, recovers>>

RecoverStep ==
    \/ RecoverList
    \/ \E name \in recover.todo : RecoverRead(name) \/ RecoverReadFail(name)
    \/ RecoverTx
    \/ RecoverUnlink
    \/ RecoverFail
    \/ RecoverExit

RecoverNext == (Next /\ UNCHANGED <<recover, recovers>>) \/ RecoverStep

RecoverSpec == RecoverInit /\ [][RecoverNext]_allVars

(* The environment in which no name in the hand of a pass is given out     *)
(* again: the daemon does not die in the middle of one.                    *)
WholePasses == phase # "down" /\ phase' = "down" => recover.pc = "off"

WholePassSpec == RecoverInit /\ [][RecoverNext /\ WholePasses]_allVars

----------------------------------------------------------------------------
(* Properties *)

(* The type invariant of the two processes together.                       *)
RecoverTypeOK ==
    /\ TypeOK
    /\ recover \in [pc : {"off", "next", "tx", "unlink"}, todo : SUBSET FileNames,
                    name : FileNames \union {None}, mark : Marker \union {None}]
    /\ recovers \in 0 .. MaxRecovers

(* The daemon never underestimates its backlog because of a concurrent     *)
(* recovery: the gate counts at least the markers on disk, so max_entries  *)
(* holds although two processes unlink markers and one of them releases.   *)
GateCoversQueue ==
    /\ RecoverTypeOK
    /\ phase # "down" =>
        /\ Cardinality(queue) <= outstanding
        /\ Cardinality(queue) <= MaxEntries
============================================================================
