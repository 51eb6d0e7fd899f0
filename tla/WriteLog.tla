------------------------------ MODULE WriteLog ------------------------------
(***************************************************************************)
(* What the write path promises, without queue, drain, scan or process:    *)
(* a write that was made durable is committed once, or its file is deleted *)
(* first.  There is no action for a crash, a restart or a failed call: none *)
(* of them may change this state.                                          *)
(***************************************************************************)
EXTENDS Naturals, Sequences

CONSTANTS
    Inodes,
    Vids        \* identities of writes, in the order in which they are made

VARIABLES
    pending,    \* durable writes that are not yet versions: [inode, vid]
    log,        \* per inode, its versions in commit order
    live,       \* inodes that exist
    newest      \* per inode, the last write made durable

vars == <<pending, log, live, newest>>

Write == [inode : Inodes, vid : Vids]

Init ==
    /\ pending = {}
    /\ log = [i \in Inodes |-> <<>>]
    /\ live = Inodes
    /\ newest = [i \in Inodes |-> 0]

(* A write becomes durable; its identity was never used before.            *)
Accept(w) ==
    /\ w.inode \in live
    /\ w.vid > newest[w.inode]
    /\ pending' = pending \union {w}
    /\ newest' = [newest EXCEPT ![w.inode] = w.vid]
    /\ UNCHANGED <<log, live>>

(* A durable write becomes a version and stops being pending.              *)
Commit(w) ==
    /\ w \in pending
    /\ pending' = pending \ {w}
    /\ log' = [log EXCEPT ![w.inode] = Append(@, w.vid)]
    /\ UNCHANGED <<live, newest>>

(* A file is deleted with its versions and its pending writes.             *)
Delete(i) ==
    /\ i \in live
    /\ live' = live \ {i}
    /\ log' = [log EXCEPT ![i] = <<>>]
    /\ pending' = {w \in pending : w.inode # i}
    /\ UNCHANGED newest

Next ==
    \/ \E w \in Write : Accept(w)
    \/ \E w \in Write : Commit(w)
    \/ \E i \in Inodes : Delete(i)

Spec == Init /\ [][Next]_vars
============================================================================
