----------------------------- MODULE Namespace -----------------------------
(***************************************************************************)
(* The directory tree: inode_registry (migration 001, smartfs-db inodes.rs)*)
(* under the directory handlers of the mount (smartfs-fuse fs.rs) and the  *)
(* path walk of smartfs-cli import (path.rs).                              *)
(*                                                                         *)
(* The mount serves one request at a time; import runs in another process  *)
(* and only creates.  A handler is therefore one step unless a row that    *)
(* import inserts between two of its statements makes a difference, as in  *)
(* rmdir, or it is several requests, as a listing is.  What the MCP server *)
(* deletes is the subject of McpTools, the bytes of files of other modules.*)
(***************************************************************************)
EXTENDS Naturals, Sequences, FiniteSets

CONSTANTS
    Names,       \* names of entries
    MaxIno,      \* bound: the last value of inode_registry_ino_seq
    MaxFds,      \* bound: files open at once
    PageSize,    \* entries that fit a readdir reply
    ImportPath,  \* the relative path of what import brings in
    None         \* the absent value

Root == 1
Inos == 2 .. MaxIno

Row == [parent : 1 .. MaxIno, name : Names, dir : BOOLEAN]

ASSUME NamespaceAssumption ==
    /\ MaxIno \in Nat \ {0}
    /\ MaxFds \in Nat
    /\ PageSize \in Nat \ {0}
    /\ ImportPath \in Seq(Names) /\ ImportPath # <<>>
    /\ None \notin Row \union Inos \union {Root}

VARIABLES
    tab,       \* inode_registry: the row of each ino, None when there is none
    nextIno,   \* inode_registry_ino_seq
    fds,       \* FuseStateManager: the inodes with open_fd_count > 0
    marked,    \* FuseStateManager: marked_for_deletion
    req,       \* the directory rmdir is about to delete
    list,      \* the listing a process is reading page by page
    cli,       \* the walk of import, None when it does not run
    raced      \* history: rows import put below the directory rmdir has checked

disk   == <<tab, nextIno>>
memory == <<fds, marked>>
vars   == <<disk, memory, req, list, cli, raced>>

Init ==
    /\ tab = [i \in Inos |-> None]
    /\ nextIno = 2
    /\ fds = {} /\ marked = {}
    /\ req = None /\ list = None /\ cli = None
    /\ raced = {}

----------------------------------------------------------------------------
(* The tree.                                                               *)

Rows == {i \in Inos : tab[i] # None}

IsDir(i) == i = Root \/ (i \in Rows /\ tab[i].dir)

Kids(d) == {i \in Rows : tab[i].parent = d}

(* inode_lookup; the entry a row carries may be hidden from the mount.     *)
Entry(d, n) == {i \in Kids(d) : tab[i].name = n}

(* lookup and readdir do not show what is marked.                          *)
Found(d, n) == Entry(d, n) \ marked
Visible(d)  == Kids(d) \ marked

(* What ON DELETE CASCADE takes along with i: the least set of rows that   *)
(* contains i and every row whose parent it contains.                      *)
ClosedBelow(S) == \A k \in Rows : tab[k].parent \in S => k \in S

(* Mutant of Below: the foreign key does not cascade.                      *)
BelowNothing(i) == {i} \intersect Rows

Below(i) ==
    {j \in Rows : \A S \in SUBSET Rows :
                      {i} \intersect Rows \subseteq S /\ ClosedBelow(S) => j \in S}

Without(S) == [i \in Inos |-> IF i \in S THEN None ELSE tab[i]]

(* inode_create: the foreign key wants the parent, the unique constraint a *)
(* name no row of the directory has, not even a hidden one.                *)
CanInsert(d, n) == IsDir(d) /\ Entry(d, n) = {} /\ nextIno <= MaxIno

Insert(d, n, dir) ==
    /\ CanInsert(d, n)
    /\ tab' = [tab EXCEPT ![nextIno] = [parent |-> d, name |-> n, dir |-> dir]]
    /\ nextIno' = nextIno + 1

(* What the steps of others do to a listing under way: an entry left the   *)
(* directory, or one that is not new joined it.  Such a listing promises   *)
(* nothing any more and is not followed further.                           *)
Shifts ==
    LET before == Visible(list.dir)
        after  == {i \in Inos \ marked' : tab'[i] # None /\ tab'[i].parent = list.dir}
    IN  before \ after # {} \/ (after \ before) \intersect 2 .. (nextIno - 1) # {}

Watched == list' = IF list = None THEN None ELSE IF Shifts THEN None ELSE list

----------------------------------------------------------------------------
(* Requests of the mount.                                                  *)

Idle == req = None

Mkdir(d, n) ==
    /\ Idle
    /\ Insert(d, n, TRUE)
    /\ UNCHANGED <<memory, req, cli, raced>>
    /\ Watched

(* Whatever is not a directory is a row of the same kind here.             *)
Mknod(d, n) ==
    /\ Idle
    /\ Insert(d, n, FALSE)
    /\ UNCHANGED <<memory, req, cli, raced>>
    /\ Watched

(* symlink submits its target as a write after the row; when submit        *)
(* refuses, the row stays.                                                 *)
Symlink(d, n) ==
    /\ Idle
    /\ Insert(d, n, FALSE)
    /\ UNCHANGED <<memory, req, cli, raced>>
    /\ Watched

(* create also opens the file.                                             *)
Create(d, n) ==
    /\ Idle /\ Cardinality(fds) < MaxFds
    /\ Insert(d, n, FALSE)
    /\ fds' = fds \union {nextIno}
    /\ UNCHANGED <<marked, req, cli, raced>>
    /\ Watched

Open(i) ==
    /\ Idle /\ Cardinality(fds) < MaxFds
    /\ i \in (Rows \ marked) \ fds /\ ~IsDir(i)
    /\ fds' = fds \union {i}
    /\ UNCHANGED <<disk, marked, req, list, cli, raced>>

(* The last close carries out a delayed deletion.                          *)
Release(i) ==
    /\ Idle
    /\ i \in fds
    /\ fds' = fds \ {i}
    /\ tab' = IF i \in marked THEN Without(Below(i)) ELSE tab
    /\ marked' = marked \ {i}
    /\ UNCHANGED <<nextIno, req, cli, raced>>
    /\ Watched

Unlink(d, n) ==
    /\ Idle
    /\ \E i \in Found(d, n) :
        /\ ~IsDir(i)
        /\ \/ i \notin fds /\ tab' = Without(Below(i)) /\ UNCHANGED marked
           \/ i \in fds /\ marked' = marked \union {i} /\ UNCHANGED tab
    /\ UNCHANGED <<nextIno, fds, req, cli, raced>>
    /\ Watched

(* Mutant of Removable: rmdir looks at the inode alone.                    *)
RemovableAnyDir(i) == IsDir(i)

(* rmdir lists the children, and refuses when one is not hidden ...        *)
Removable(i) == IsDir(i) /\ Visible(i) = {}

RmdirCheck(d, n) ==
    /\ Idle
    /\ \E i \in Found(d, n) : Removable(i) /\ req' = i
    /\ UNCHANGED <<disk, memory, list, cli, raced>>

(* ... and then deletes the row, which no handle keeps; or fails to.       *)
RmdirDelete ==
    /\ req # None
    /\ req' = None
    /\ raced' = {}
    /\ tab' \in {tab, Without(Below(req))}
    /\ UNCHANGED <<nextIno, memory, cli>>
    /\ Watched

(* What the kernel sees to before it asks for a rename of s over target t: *)
(* neither contains the other, and both or neither are directories.        *)
KernelAllows(s, t, e) ==
    /\ e \notin Below(s)
    /\ \A i \in t : s \notin Below(i)
    /\ \A i \in t \ marked : IsDir(i) <=> IsDir(s)

(* inode_rename: one transaction deletes the row that has the new name,    *)
(* with everything below it, and moves the source there.                   *)
Moved(s, t, e, m) ==
    [i \in Inos |->
        IF \E k \in t \ {s} : i \in Below(k) THEN None
        ELSE IF i = s THEN [tab[s] EXCEPT !.parent = e, !.name = m]
        ELSE tab[i]]

Rename(d, n, e, m) ==
    /\ Idle
    /\ IsDir(e) /\ <<d, n>> # <<e, m>>
    /\ \E s \in Found(d, n) :
        /\ KernelAllows(s, Entry(e, m), e)
        /\ tab' = Moved(s, Entry(e, m), e, m)
    /\ UNCHANGED <<nextIno, memory, req, cli, raced>>
    /\ Watched

(* Mutant of InOrder: the newest entry comes first.                        *)
InReverse(S) == [n \in 1 .. Cardinality(S) |->
    CHOOSE i \in S : Cardinality({j \in S : j >= i}) = n]

(* A listing: each readdir request lists the directory again, ordered by   *)
(* ino, and continues at the offset the last one reached.  The two entries *)
(* for the directory and its parent always come first and are left out.    *)
InOrder(S) == [n \in 1 .. Cardinality(S) |->
    CHOOSE i \in S : Cardinality({j \in S : j <= i}) = n]

Page == LET all == InOrder(Visible(list.dir))
            end == Len(list.seen) + PageSize
        IN  SubSeq(all, Len(list.seen) + 1, IF end < Len(all) THEN end ELSE Len(all))

(* limit: rows numbered below it were there when the listing began.        *)
ListBegin(d) ==
    /\ Idle /\ list = None
    /\ IsDir(d)
    /\ list' = [dir |-> d, limit |-> nextIno, seen |-> <<>>, done |-> FALSE]
    /\ UNCHANGED <<disk, memory, req, cli, raced>>

ListPage ==
    /\ Idle
    /\ list # None /\ ~list.done
    /\ list' = IF ~IsDir(list.dir) THEN None
               ELSE [list EXCEPT !.seen = @ \o Page, !.done = (Page = <<>>)]
    /\ UNCHANGED <<disk, memory, req, cli, raced>>

ListEnd ==
    /\ list # None
    /\ list' = None
    /\ UNCHANGED <<disk, memory, req, cli, raced>>

(* The daemon is killed: the mount, its handles and its marks are gone.    *)
Crash ==
    /\ fds' = {} /\ marked' = {}
    /\ req' = None /\ list' = None
    /\ raced' = {}
    /\ UNCHANGED <<disk, cli>>

----------------------------------------------------------------------------
(* smartfs-cli import: resolve_or_create_file_path and its sibling for     *)
(* directories, one segment after the other, a lookup and, when it finds   *)
(* nothing, an insert.                                                     *)

ImportBegin(dir) ==
    /\ cli = None
    /\ cli' = [at |-> Root, todo |-> ImportPath, dir |-> dir, step |-> "lookup"]
    /\ UNCHANGED <<disk, memory, req, list, raced>>

Final == Len(cli.todo) = 1

Enter(i) == IF Final THEN None
            ELSE [cli EXCEPT !.at = i, !.todo = Tail(@), !.step = "lookup"]

(* A row of the wrong type on the way is a conflict and ends the import.   *)
ImportLookup ==
    /\ cli # None /\ cli.step = "lookup"
    /\ \/ \E i \in Entry(cli.at, Head(cli.todo)) :
            cli' = IF IsDir(i) THEN Enter(i) ELSE None
       \/ /\ Entry(cli.at, Head(cli.todo)) = {}
          /\ cli' = [cli EXCEPT !.step = "create"]
    /\ UNCHANGED <<disk, memory, req, list, raced>>

UnderRemoval(d) == req # None /\ d \in Below(req)

(* The insert fails when the directory is gone or another took the name.   *)
ImportCreate ==
    /\ cli # None /\ cli.step = "create"
    /\ \/ /\ Insert(cli.at, Head(cli.todo), ~Final \/ cli.dir)
          /\ cli' = Enter(nextIno)
          /\ raced' = IF UnderRemoval(cli.at) THEN raced \union {nextIno} ELSE raced
       \/ /\ ~CanInsert(cli.at, Head(cli.todo))
          /\ cli' = None
          /\ UNCHANGED <<disk, raced>>
    /\ UNCHANGED <<memory, req>>
    /\ Watched

(* The requests that change entries, and those that list them.             *)
Changes ==
    \/ \E d \in 1 .. MaxIno, n \in Names :
        \/ Mkdir(d, n) \/ Mknod(d, n) \/ Symlink(d, n) \/ Create(d, n)
        \/ Unlink(d, n) \/ RmdirCheck(d, n)
        \/ \E e \in 1 .. MaxIno, m \in Names : Rename(d, n, e, m)
    \/ RmdirDelete
    \/ \E i \in Inos : Open(i) \/ Release(i)

Requests ==
    \/ Changes
    \/ \E d \in 1 .. MaxIno : ListBegin(d)
    \/ ListPage \/ ListEnd

Next ==
    \/ Requests \/ Crash
    \/ \E dir \in BOOLEAN : ImportBegin(dir)
    \/ ImportLookup \/ ImportCreate

Spec == Init /\ [][Next]_vars

----------------------------------------------------------------------------
(* Types of the state.                                                     *)
NamespaceTypeOK ==
    /\ tab \in [Inos -> Row \union {None}]
    /\ nextIno \in 2 .. MaxIno + 1
    /\ Rows \subseteq 2 .. nextIno - 1
    /\ fds \subseteq Inos /\ marked \subseteq Inos /\ raced \subseteq Inos
    /\ req \in Inos \union {None}
    /\ cli \in [at : 1 .. MaxIno, todo : Seq(Names) \ {<<>>}, dir : BOOLEAN,
                step : {"lookup", "create"}] \union {None}

(* Every row hangs off the root: its parent is a directory that exists,    *)
(* and no set of rows has all its parents in itself; and no two rows of a  *)
(* directory have one name.  Cascades, renames over an entry and inserts   *)
(* of the other process keep it so (inodes.rs, unique_name_per_directory). *)
Parented == \A i \in Rows : IsDir(tab[i].parent)

Rooted == \A S \in SUBSET Rows : S # {} => \E i \in S : tab[i].parent \notin S

NamesUnique ==
    \A i, j \in Rows :
        tab[i].parent = tab[j].parent /\ tab[i].name = tab[j].name => i = j

TreeOK == NamespaceTypeOK /\ Parented /\ Rooted /\ NamesUnique

(* A name is hidden only while the file behind it is open: whatever ends   *)
(* the last handle ends the hiding (mark_for_deletion, close_handle).      *)
HiddenAreOpen == marked \subseteq fds

(* A listing that no entry left and none was moved into returns every      *)
(* entry it began with, and none twice, although each page queries the     *)
(* directory again while others create entries in it (readdir).            *)
ListingExact ==
    list # None =>
        /\ list \in [dir : 1 .. MaxIno, limit : 2 .. MaxIno + 1, seen : Seq(Inos),
                    done : BOOLEAN]
        /\ \A m, n \in DOMAIN list.seen : list.seen[m] = list.seen[n] => m = n
        /\ list.done => \A i \in Visible(list.dir) :
                i < list.limit => \E n \in DOMAIN list.seen : list.seen[n] = i

(* A row disappears only as a file that was unlinked, as the directory     *)
(* rmdir was asked to remove or a row import created below it in between,  *)
(* or with the entry a rename replaced (unlink, rmdir, release, rename).   *)
Vanished == {i \in Rows : tab'[i] = None}

Replaced ==
    {k \in Vanished : \E s \in Rows \ Vanished :
        tab'[s].parent = tab[k].parent /\ tab'[s].name = tab[k].name}

LossExplained ==
    [][\A i \in Vanished :
         \/ i \in marked \union raced \/ i = req
         \/ Vanished = {i} /\ ~IsDir(i) /\ Idle
         \/ \E k \in Replaced : i \in Below(k)]_vars
=============================================================================
