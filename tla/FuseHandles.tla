---------------------------- MODULE FuseHandles ----------------------------
(***************************************************************************)
(* Open files of the mount: the handlers of crates/smartfs-fuse/fs.rs that *)
(* create, open, read, write, truncate, close, unlink and rename regular   *)
(* files of one directory, over FuseStateManager (state.rs).               *)
(*                                                                         *)
(* fuser delivers one request at a time and only the handlers touch the    *)
(* state manager, so a handler is one step; requests of different          *)
(* processes interleave.  submit is taken at its contract, which           *)
(* PendingPipeline establishes: it makes the write durable and visible to  *)
(* readers (pend), or it is refused and nothing happened.  The drain moves *)
(* a pending write into the registry at any later time.                    *)
(***************************************************************************)
EXTENDS Naturals, Sequences, FiniteSets

CONSTANTS
    Inodes,       \* identities of files, used once each
    Names,        \* names in the directory
    CodeNames,    \* the names whose extension has a syntax plugin
    Bytes,        \* what a write writes
    BadBytes,     \* a file containing one of these does not parse
    Zero,         \* the fill byte of resize
    MaxLen,       \* the 2 GiB limit on a file
    MaxOpens,     \* bound: handles allocated between two starts
    MaxWrites,    \* bound: write and setattr(size) requests in a behaviour
    MaxRenames,   \* bound: renames in a behaviour
    MaxFails,     \* bound: failing calls in a behaviour
    MaxCrashes,   \* bound: crashes in a behaviour
    None          \* the absent value

Fhs == 1 .. MaxOpens

Data == UNION {[1 .. n -> Bytes \union {Zero}] : n \in 0 .. MaxLen}

Handle == [inode : Inodes, buffer : Data \union {None}, modified : BOOLEAN]

ASSUME HandlesAssumption ==
    /\ MaxLen \in Nat
    /\ MaxOpens \in Nat
    /\ MaxWrites \in Nat
    /\ MaxRenames \in Nat
    /\ MaxFails \in Nat
    /\ MaxCrashes \in Nat
    /\ CodeNames \subseteq Names
    /\ BadBytes \subseteq Bytes
    /\ None \notin Handle /\ None \notin Names /\ None \notin Data

VARIABLES
    name,       \* durable: inode_registry.name, None when there is no row
    reg,        \* durable: bytes of current_blob_id, None when it is NULL
    pend,       \* durable: bytes of the newest queued write, None when drained
    handles,    \* FuseStateManager.handles
    fds,        \* InodeState.open_fd_count, 0 when there is no entry
    marked,     \* inodes with InodeState.marked_for_deletion
    nextFh,     \* FuseStateManager.next_fh
    unlinked,   \* history: inodes whose unlink, or replacement, was answered Ok
    fresh,      \* identities not used yet
    writes, renames, fails, crashes

disk    == <<name, reg, pend>>
memory  == <<handles, fds, marked, nextFh>>
history == <<unlinked, fresh, writes, renames, fails, crashes>>
vars    == <<disk, memory, history>>

Init ==
    /\ name = [i \in Inodes |-> None]
    /\ reg = [i \in Inodes |-> None]
    /\ pend = [i \in Inodes |-> None]
    /\ handles = [f \in Fhs |-> None]
    /\ fds = [i \in Inodes |-> 0]
    /\ marked = {}
    /\ nextFh = 1
    /\ unlinked = {}
    /\ fresh = Inodes
    /\ writes = 0
    /\ renames = 0
    /\ fails = 0
    /\ crashes = 0

----------------------------------------------------------------------------
(* Helpers *)

OpenFhs == {f \in Fhs : handles[f] # None}
FhsOf(i) == {f \in OpenFhs : handles[f].inode = i}

Visible(i) == name[i] # None /\ i \notin marked

(* load_current_bytes: the overlay first, then the registry.               *)
Content(i) == IF pend[i] # None THEN pend[i]
              ELSE IF reg[i] # None THEN reg[i] ELSE <<>>

(* Mutant of Resized: resize counts from zero.                             *)
ResizedOffByOne(data, n) ==
    [k \in 1 .. n + 1 |-> IF k <= Len(data) THEN data[k] ELSE Zero]

(* Vec::resize(n, 0) *)
Resized(data, n) == [k \in 1 .. n |-> IF k <= Len(data) THEN data[k] ELSE Zero]

(* buffer[offset .. offset + 1] = b after growing the buffer.              *)
Patched(data, off, b) ==
    [Resized(data, IF off + 1 > Len(data) THEN off + 1 ELSE Len(data))
        EXCEPT ![off + 1] = b]

(* The parser's verdict on a whole file (external: tree-sitter).           *)
Parses(data) == \A k \in 1 .. Len(data) : data[k] \notin BadBytes

(* What the first read or write of a handle leaves in its buffer.          *)
Loads(f) == handles[f].buffer # None \/ name[handles[f].inode] # None
Loaded(f) == IF handles[f].buffer = None THEN Content(handles[f].inode)
             ELSE handles[f].buffer

Request == writes < MaxWrites /\ writes' = writes + 1
Fail == fails < MaxFails /\ fails' = fails + 1

----------------------------------------------------------------------------
(* create, open, read, write *)

(* allocate_fh: a buffer given at birth counts as modified.                *)
Allocate(i, buffer) ==
    /\ nextFh \in Fhs
    /\ handles' = [handles EXCEPT ![nextFh] =
                      [inode |-> i, buffer |-> buffer, modified |-> buffer # None]]
    /\ fds' = [fds EXCEPT ![i] = @ + 1]
    /\ nextFh' = nextFh + 1
    /\ UNCHANGED marked

(* UNIQUE (parent_id, name) refuses a name whose row still exists.         *)
Create(n, i) ==
    /\ i \in fresh
    /\ \A j \in Inodes : name[j] # n
    /\ name' = [name EXCEPT ![i] = n]
    /\ fresh' = fresh \ {i}
    /\ Allocate(i, <<>>)
    /\ UNCHANGED <<reg, pend, unlinked, writes, renames, fails, crashes>>

Open(i) ==
    /\ Visible(i)
    /\ Allocate(i, None)
    /\ UNCHANGED <<disk, history>>

(* A read loads the whole file once.  A write beyond the limit does the    *)
(* same and is answered EFBIG.                                             *)
Read(f) ==
    /\ f \in OpenFhs
    /\ handles[f].buffer = None
    /\ Loads(f)
    /\ handles' = [handles EXCEPT ![f].buffer = Loaded(f)]
    /\ UNCHANGED <<disk, fds, marked, nextFh, history>>

Write(f, off, b) ==
    /\ f \in OpenFhs
    /\ Loads(f)
    /\ off + 1 <= MaxLen
    /\ Request
    /\ handles' = [handles EXCEPT ![f] =
                      [@ EXCEPT !.buffer = Patched(Loaded(f), off, b),
                                !.modified = TRUE]]
    /\ UNCHANGED <<disk, fds, marked, nextFh, unlinked, fresh, renames, fails, crashes>>

----------------------------------------------------------------------------
(* setattr with a size *)

(* Every handle of i gets the buffer data; truncation marks it modified.   *)
Truncated(i, data) ==
    [f \in Fhs |-> IF f \in FhsOf(i)
                   THEN [handles[f] EXCEPT !.buffer = data, !.modified = TRUE]
                   ELSE handles[f]]

(* ftruncate(fh, 0): only the buffer of that handle.                       *)
SetSizeZeroFh(f) ==
    /\ f \in OpenFhs
    /\ name[handles[f].inode] # None
    /\ Request
    /\ handles' = [handles EXCEPT ![f] = [@ EXCEPT !.buffer = <<>>, !.modified = TRUE]]
    /\ UNCHANGED <<disk, fds, marked, nextFh, unlinked, fresh, renames, fails, crashes>>

(* With open handles and no fh, or a size above 0: all of them; above 0    *)
(* their new buffer is the stored content, resized.                        *)
SetSizeOpen(i, n) ==
    /\ name[i] # None
    /\ fds[i] > 0
    /\ Request
    /\ handles' = Truncated(i, IF n = 0 THEN <<>> ELSE Resized(Content(i), n))
    /\ UNCHANGED <<disk, fds, marked, nextFh, unlinked, fresh, renames, fails, crashes>>

(* Without open handles the truncated content is submitted as a write.     *)
SetSizeClosed(i, n) ==
    /\ name[i] # None
    /\ fds[i] = 0
    /\ n # Len(Content(i)) \/ reg[i] = None
    /\ Request
    /\ pend' = [pend EXCEPT ![i] = Resized(Content(i), n)]
    /\ UNCHANGED <<name, reg, memory, unlinked, fresh, renames, fails, crashes>>

----------------------------------------------------------------------------
(* release *)

(* Mutants of ShouldDelete: the mark is ignored; the count is ignored.     *)
ShouldDeleteNever(f) == FALSE
ShouldDeleteAnyClose(f) == handles[f].inode \in marked

(* close_handle: the last handle of an inode marked for deletion.          *)
ShouldDelete(f) == fds[handles[f].inode] = 1 /\ handles[f].inode \in marked

(* Mutant of CloseHandle: a closed handle is still counted.                *)
CloseHandleKeepsCount(f) ==
    /\ handles' = [handles EXCEPT ![f] = None]
    /\ UNCHANGED <<fds, marked, nextFh>>

CloseHandle(f) ==
    LET i == handles[f].inode IN
    /\ handles' = [handles EXCEPT ![f] = None]
    /\ fds' = [fds EXCEPT ![i] = @ - 1]
    /\ marked' = IF fds[i] = 1 THEN marked \ {i} ELSE marked
    /\ UNCHANGED nextFh

(* A modified buffer is submitted, then a delayed delete is carried out.   *)
Release(f) ==
    LET h == handles[f] IN
    /\ f \in OpenFhs
    /\ h.modified => name[h.inode] # None
    /\ CloseHandle(f)
    /\ pend' = IF h.modified THEN [pend EXCEPT ![h.inode] = h.buffer] ELSE pend
    /\ name' = IF ShouldDelete(f) THEN [name EXCEPT ![h.inode] = None] ELSE name
    /\ UNCHANGED <<reg, history>>

(* inode_get finds no row: an error, and nothing to delete.                *)
ReleaseGone(f) ==
    /\ f \in OpenFhs
    /\ handles[f].modified
    /\ name[handles[f].inode] = None
    /\ CloseHandle(f)
    /\ UNCHANGED <<disk, history>>

(* The lookup, the blob store or submit fails: the error is returned before *)
(* the delayed delete.                                                     *)
ReleaseRefused(f) ==
    /\ f \in OpenFhs
    /\ handles[f].modified
    /\ Fail
    /\ CloseHandle(f)
    /\ UNCHANGED <<disk, unlinked, fresh, writes, renames, crashes>>

(* The write is queued and the delayed delete fails; its result is ignored. *)
ReleaseDeleteFails(f) ==
    LET h == handles[f] IN
    /\ f \in OpenFhs
    /\ ShouldDelete(f)
    /\ h.modified => name[h.inode] # None
    /\ Fail
    /\ CloseHandle(f)
    /\ pend' = IF h.modified THEN [pend EXCEPT ![h.inode] = h.buffer] ELSE pend
    /\ UNCHANGED <<name, reg, unlinked, fresh, writes, renames, crashes>>

----------------------------------------------------------------------------
(* unlink and rename *)

(* mark_for_deletion: an open file keeps its row until its last close.     *)
Unlink(i) ==
    /\ Visible(i)
    /\ IF fds[i] = 0
       THEN name' = [name EXCEPT ![i] = None] /\ UNCHANGED marked
       ELSE marked' = marked \union {i} /\ UNCHANGED name
    /\ unlinked' = unlinked \union {i}
    /\ UNCHANGED <<reg, pend, handles, fds, nextFh, fresh, writes, renames, fails, crashes>>

(* inode_rename: the row under the new name is deleted in the same         *)
(* transaction.  The syntax check reads the registry's blob.               *)
Rename(i, n) ==
    LET targets == {j \in Inodes \ {i} : name[j] = n} IN
    /\ Visible(i)
    /\ name[i] # n
    /\ renames < MaxRenames
    /\ n \in CodeNames => Parses(IF reg[i] = None THEN <<>> ELSE reg[i])
    /\ name' = [j \in Inodes |-> IF j = i THEN n
                                 ELSE IF j \in targets THEN None ELSE name[j]]
    /\ unlinked' = unlinked \union targets
    /\ renames' = renames + 1
    /\ UNCHANGED <<reg, pend, memory, fresh, writes, fails, crashes>>

(* The drain commits the queued write, or drops it with its row.           *)
Drain(i) ==
    /\ pend[i] # None
    /\ pend' = [pend EXCEPT ![i] = None]
    /\ reg' = IF name[i] = None THEN reg ELSE [reg EXCEPT ![i] = pend[i]]
    /\ UNCHANGED <<name, memory, history>>

(* The process dies: every handle, count and mark is lost.                 *)
Crash ==
    /\ OpenFhs # {}
    /\ crashes < MaxCrashes
    /\ crashes' = crashes + 1
    /\ handles' = [f \in Fhs |-> None]
    /\ fds' = [i \in Inodes |-> 0]
    /\ marked' = {}
    /\ nextFh' = 1
    /\ UNCHANGED <<disk, unlinked, fresh, writes, renames, fails>>

Next ==
    \/ \E i \in Inodes :
          \/ \E n \in Names : Create(n, i) \/ Rename(i, n)
          \/ \E n \in 0 .. MaxLen : SetSizeOpen(i, n) \/ SetSizeClosed(i, n)
          \/ Open(i)
          \/ Unlink(i)
          \/ Drain(i)
    \/ \E f \in Fhs :
          \/ Read(f)
          \/ \E off \in 0 .. MaxLen - 1, b \in Bytes : Write(f, off, b)
          \/ SetSizeZeroFh(f)
          \/ Release(f)
          \/ ReleaseGone(f)
          \/ ReleaseRefused(f)
          \/ ReleaseDeleteFails(f)
    \/ Crash

Spec == Init /\ [][Next]_vars

----------------------------------------------------------------------------
(* Properties *)

(* The type invariant; a buffer never exceeds the file size limit.         *)
HandlesTypeOK ==
    /\ name \in [Inodes -> Names \union {None}]
    /\ reg \in [Inodes -> Data \union {None}]
    /\ pend \in [Inodes -> Data \union {None}]
    /\ handles \in [Fhs -> Handle \union {None}]
    /\ fds \in [Inodes -> Nat]
    /\ marked \subseteq Inodes
    /\ nextFh \in 1 .. MaxOpens + 1
    /\ unlinked \subseteq Inodes
    /\ fresh \subseteq Inodes
    /\ writes \in Nat /\ renames \in Nat /\ fails \in Nat /\ crashes \in Nat

(* open_fd_count decides when an unlinked file is deleted: after any mix of *)
(* opens, closes, refused closes and unlinks it is the number of open      *)
(* handles, and only open files are marked.                                *)
FdCountsExact ==
    \A i \in Inodes : /\ fds[i] = Cardinality(FhsOf(i))
                      /\ i \in marked => fds[i] > 0

(* What makes FdCountsExact inductive: a number that next_fh will still    *)
(* give out belongs to no open handle.                                     *)
FreshFhs == \A f \in OpenFhs : f < nextFh

(* What makes UnlinkedGone inductive: an identity that is still unused has *)
(* no row and was never unlinked.                                          *)
FreshUnused == \A i \in fresh : name[i] = None /\ i \notin unlinked

(* "deletion must be delayed until release()": while no call has failed and *)
(* the daemon has not died, an unlinked file is gone, or hidden and still  *)
(* open, and never comes back under its name.                              *)
UnlinkedGone ==
    (fails = 0 /\ crashes = 0) =>
        \A i \in unlinked : name[i] = None \/ (i \in marked /\ fds[i] > 0)

(* "Delay CASCADE delete until open_fd_count reaches 0 in release()": as   *)
(* long as a process holds a file open, its row is there to read and write, *)
(* through unlinks, refused closes and crashes (a rename over an open file *)
(* deletes its row at once).                                               *)
OpenFilesKept ==
    renames = 0 => \A f \in OpenFhs : name[handles[f].inode] # None
============================================================================
