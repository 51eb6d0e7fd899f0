------------------------- MODULE FuseHandlesProofs -------------------------
(***************************************************************************)
(* Theorems about FuseHandles: types, and the exactness of open_fd_count,  *)
(* for any number of files, handles, requests, failures and crashes.       *)
(***************************************************************************)
EXTENDS FuseHandles, FiniteSetTheorems, TLAPS

(* A buffer is a sequence of at most MaxLen bytes.                         *)
LEMMA DataLen ==
    ASSUME NEW d \in Data
    PROVE  /\ Len(d) \in 0 .. MaxLen
           /\ d \in [1 .. Len(d) -> Bytes \union {Zero}]
<1>1. PICK n \in 0 .. MaxLen : d \in [1 .. n -> Bytes \union {Zero}]
  BY DEF Data
<1>2. n \in Nat
  BY HandlesAssumption
<1>3. d \in Seq(Bytes \union {Zero}) /\ Len(d) = n
  BY <1>1, <1>2
<1> QED
  BY <1>1, <1>3

(* Vec::resize to an admissible size yields a buffer.                      *)
LEMMA ResizedType ==
    ASSUME NEW d \in Data, NEW n \in 0 .. MaxLen
    PROVE  Resized(d, n) \in Data /\ Resized(d, n) \in [1 .. n -> Bytes \union {Zero}]
<1>1. Len(d) \in Nat /\ n \in Nat
  BY DataLen, HandlesAssumption
<1>2. \A k \in 1 .. n : k <= Len(d) => d[k] \in Bytes \union {Zero}
  BY DataLen, <1>1
<1>3. Resized(d, n) \in [1 .. n -> Bytes \union {Zero}]
  BY <1>2 DEF Resized
<1> QED
  BY <1>3 DEF Data

LEMMA EmptyType == <<>> \in Data
<1>1. 0 \in 0 .. MaxLen
  BY HandlesAssumption
<1>2. <<>> \in [1 .. 0 -> Bytes \union {Zero}]
  OBVIOUS
<1> QED
  BY <1>1, <1>2 DEF Data

LEMMA PatchedType ==
    ASSUME NEW d \in Data, NEW off \in Nat, off + 1 <= MaxLen, NEW b \in Bytes
    PROVE  Patched(d, off, b) \in Data
<1> DEFINE n == IF off + 1 > Len(d) THEN off + 1 ELSE Len(d)
<1>1. n \in 0 .. MaxLen /\ off + 1 \in 1 .. n
  BY DataLen, HandlesAssumption
<1>2. Resized(d, n) \in [1 .. n -> Bytes \union {Zero}]
  BY <1>1, ResizedType
<1>3. Patched(d, off, b) \in [1 .. n -> Bytes \union {Zero}]
  BY <1>1, <1>2 DEF Patched
<1> QED
  BY <1>1, <1>3 DEF Data

LEMMA ContentType ==
    ASSUME HandlesTypeOK, NEW i \in Inodes
    PROVE  Content(i) \in Data
BY EmptyType DEF Content, HandlesTypeOK

LEMMA HandleOf ==
    ASSUME HandlesTypeOK, NEW f \in OpenFhs
    PROVE  f \in Fhs /\ handles[f] \in Handle /\ handles[f].inode \in Inodes
BY DEF OpenFhs, HandlesTypeOK, Handle

----------------------------------------------------------------------------
(* Types *)

(* allocate_fh yields a well-typed table.                                  *)
LEMMA AllocateType ==
    ASSUME HandlesTypeOK, NEW i \in Inodes, NEW d \in Data \union {None}, Allocate(i, d)
    PROVE  /\ handles' \in [Fhs -> Handle \union {None}]
           /\ fds' \in [Inodes -> Nat]
           /\ marked' \subseteq Inodes
           /\ nextFh' \in 1 .. MaxOpens + 1
<1>1. [inode |-> i, buffer |-> d, modified |-> d # None] \in Handle
  BY DEF Handle
<1>2. handles' \in [Fhs -> Handle \union {None}]
  BY <1>1 DEF Allocate, HandlesTypeOK
<1>3. fds' \in [Inodes -> Nat]
  BY DEF Allocate, HandlesTypeOK
<1> QED
  BY <1>2, <1>3, HandlesAssumption DEF Allocate, HandlesTypeOK, Fhs

(* A new buffer for an open handle keeps the table well-typed.             *)
LEMMA BufferType ==
    ASSUME HandlesTypeOK, NEW f \in OpenFhs, NEW d \in Data
    PROVE  /\ [handles[f] EXCEPT !.buffer = d] \in Handle
           /\ [handles[f] EXCEPT !.buffer = d, !.modified = TRUE] \in Handle
BY HandleOf DEF Handle

(* What a handle loads is a buffer.                                        *)
LEMMA LoadedType ==
    ASSUME HandlesTypeOK, NEW f \in OpenFhs
    PROVE  Loaded(f) \in Data
BY HandleOf, ContentType DEF Loaded, Handle

(* close_handle never takes a count below zero.                            *)
LEMMA CloseType ==
    ASSUME HandlesTypeOK, FdCountsExact, NEW f \in OpenFhs, CloseHandle(f)
    PROVE  /\ handles' \in [Fhs -> Handle \union {None}]
           /\ fds' \in [Inodes -> Nat]
           /\ marked' \subseteq Inodes
           /\ nextFh' \in 1 .. MaxOpens + 1
<1> DEFINE i == handles[f].inode
<1>1. i \in Inodes /\ f \in FhsOf(i) /\ f \in Fhs
  BY HandleOf DEF FhsOf
<1>2. IsFiniteSet(FhsOf(i))
  <2>1. IsFiniteSet(Fhs)
    BY FS_Interval, HandlesAssumption DEF Fhs
  <2> QED
    BY <2>1, FS_Subset DEF FhsOf, OpenFhs
<1>3. Cardinality(FhsOf(i)) \in Nat /\ Cardinality(FhsOf(i)) # 0
  BY <1>1, <1>2, FS_CardinalityType, FS_EmptySet
<1>4. fds[i] \in Nat /\ fds[i] > 0
  BY <1>1, <1>3 DEF FdCountsExact
<1>5. fds' \in [Inodes -> Nat]
  BY <1>1, <1>4 DEF CloseHandle, HandlesTypeOK
<1> QED
  BY <1>1, <1>5 DEF CloseHandle, HandlesTypeOK

(* Every step keeps the types.  FdCountsExact is needed for the close.     *)
LEMMA TypeStep ==
    ASSUME HandlesTypeOK, FdCountsExact, [Next]_vars
    PROVE  HandlesTypeOK'
<1> USE DEF disk, memory, history
<1>1. ASSUME NEW i \in Inodes, NEW n \in Names, Create(n, i)
      PROVE  HandlesTypeOK'
  <2>1. name' \in [Inodes -> Names \union {None}]
    BY <1>1 DEF Create, HandlesTypeOK
  <2>2. Allocate(i, <<>>)
    BY <1>1 DEF Create
  <2> QED
    BY <1>1, <2>1, <2>2, AllocateType, EmptyType DEF Create, HandlesTypeOK
<1>2. ASSUME NEW i \in Inodes, NEW n \in Names, Rename(i, n)
      PROVE  HandlesTypeOK'
  <2>1. name' \in [Inodes -> Names \union {None}]
    BY <1>2 DEF Rename, HandlesTypeOK
  <2>2. unlinked' \subseteq Inodes /\ renames' \in Nat
    BY <1>2 DEF Rename, HandlesTypeOK
  <2> QED
    BY <1>2, <2>1, <2>2 DEF Rename, HandlesTypeOK
<1>3. ASSUME NEW i \in Inodes, NEW n \in 0 .. MaxLen, SetSizeOpen(i, n)
      PROVE  HandlesTypeOK'
  <2> DEFINE d == IF n = 0 THEN <<>> ELSE Resized(Content(i), n)
  <2>1. d \in Data
    BY EmptyType, ContentType, ResizedType
  <2> HIDE DEF d
  <2>2. \A f \in OpenFhs : [handles[f] EXCEPT !.buffer = d, !.modified = TRUE] \in Handle
    BY <2>1, BufferType
  <2>3. Truncated(i, d) \in [Fhs -> Handle \union {None}]
    BY <2>2 DEF Truncated, FhsOf, HandlesTypeOK
  <2>4. handles' = Truncated(i, d)
    BY <1>3 DEF SetSizeOpen, d
  <2> QED
    BY <1>3, <2>3, <2>4 DEF SetSizeOpen, Request, HandlesTypeOK
<1>4. ASSUME NEW i \in Inodes, NEW n \in 0 .. MaxLen, SetSizeClosed(i, n)
      PROVE  HandlesTypeOK'
  <2>1. Resized(Content(i), n) \in Data
    BY ContentType, ResizedType
  <2>2. pend' \in [Inodes -> Data \union {None}]
    BY <1>4, <2>1 DEF SetSizeClosed, HandlesTypeOK
  <2> QED
    BY <1>4, <2>2 DEF SetSizeClosed, Request, HandlesTypeOK
<1>5. ASSUME NEW i \in Inodes, Open(i)
      PROVE  HandlesTypeOK'
  <2>1. Allocate(i, None)
    BY <1>5 DEF Open
  <2> QED
    BY <1>5, <2>1, AllocateType DEF Open, HandlesTypeOK
<1>6. ASSUME NEW i \in Inodes, Unlink(i)
      PROVE  HandlesTypeOK'
  BY <1>6 DEF Unlink, HandlesTypeOK
<1>7. ASSUME NEW i \in Inodes, Drain(i)
      PROVE  HandlesTypeOK'
  <2>1. pend[i] \in Data
    BY <1>7 DEF Drain, HandlesTypeOK
  <2> QED
    BY <1>7, <2>1 DEF Drain, HandlesTypeOK
<1>8. ASSUME NEW f \in Fhs, Read(f)
      PROVE  HandlesTypeOK'
  <2>1. f \in OpenFhs
    BY <1>8 DEF Read
  <2>2. [handles[f] EXCEPT !.buffer = Loaded(f)] \in Handle
    BY <2>1, LoadedType, BufferType
  <2>3. handles' \in [Fhs -> Handle \union {None}]
    BY <1>8, <2>2 DEF Read, HandlesTypeOK
  <2> QED
    BY <1>8, <2>3 DEF Read, HandlesTypeOK
<1>9. ASSUME NEW f \in Fhs, NEW off \in 0 .. MaxLen - 1, NEW b \in Bytes, Write(f, off, b)
      PROVE  HandlesTypeOK'
  <2>1. f \in OpenFhs /\ off \in Nat /\ off + 1 <= MaxLen
    BY <1>9 DEF Write
  <2> DEFINE d == Patched(Loaded(f), off, b)
  <2>2. d \in Data
    BY <2>1, LoadedType, PatchedType
  <2>3. handles' = [handles EXCEPT ![f] = [@ EXCEPT !.buffer = d, !.modified = TRUE]]
    BY <1>9 DEF Write
  <2> HIDE DEF d
  <2>4. [handles[f] EXCEPT !.buffer = d, !.modified = TRUE] \in Handle
    BY <2>1, <2>2, BufferType
  <2>5. handles' \in [Fhs -> Handle \union {None}]
    BY <2>3, <2>4 DEF HandlesTypeOK
  <2> QED
    BY <1>9, <2>5 DEF Write, Request, HandlesTypeOK
<1>10. ASSUME NEW f \in Fhs, SetSizeZeroFh(f)
       PROVE  HandlesTypeOK'
  <2>1. [handles[f] EXCEPT !.buffer = <<>>, !.modified = TRUE] \in Handle
    BY <1>10, EmptyType, BufferType DEF SetSizeZeroFh
  <2>2. handles' \in [Fhs -> Handle \union {None}]
    BY <1>10, <2>1 DEF SetSizeZeroFh, HandlesTypeOK
  <2> QED
    BY <1>10, <2>2 DEF SetSizeZeroFh, Request, HandlesTypeOK
<1>11. ASSUME NEW f \in Fhs, \/ Release(f) \/ ReleaseGone(f)
                              \/ ReleaseRefused(f) \/ ReleaseDeleteFails(f)
       PROVE  HandlesTypeOK'
  <2>1. f \in OpenFhs /\ CloseHandle(f)
    BY <1>11 DEF Release, ReleaseGone, ReleaseRefused, ReleaseDeleteFails
  <2>2. handles[f] \in Handle /\ handles[f].inode \in Inodes
    BY <2>1, HandleOf
  <2>3. handles[f].buffer \in Data \union {None}
    BY <2>2 DEF Handle
  <2>4. pend' \in [Inodes -> Data \union {None}]
    BY <1>11, <2>2, <2>3
    DEF Release, ReleaseGone, ReleaseRefused, ReleaseDeleteFails, HandlesTypeOK
  <2>5. name' \in [Inodes -> Names \union {None}]
    BY <1>11, <2>2
    DEF Release, ReleaseGone, ReleaseRefused, ReleaseDeleteFails, HandlesTypeOK
  <2>6. reg' = reg /\ unlinked' = unlinked /\ fresh' = fresh /\ writes' = writes
        /\ renames' = renames /\ crashes' = crashes /\ fails' \in Nat
    BY <1>11
    DEF Release, ReleaseGone, ReleaseRefused, ReleaseDeleteFails, Fail, HandlesTypeOK
  <2> QED
    BY <2>1, <2>4, <2>5, <2>6, CloseType DEF HandlesTypeOK
<1>12. CASE Crash
  <2>1. nextFh' \in 1 .. MaxOpens + 1
    BY <1>12, HandlesAssumption DEF Crash
  <2> QED
    BY <1>12, <2>1 DEF Crash, HandlesTypeOK
<1>13. CASE UNCHANGED vars
  BY <1>13 DEF vars, HandlesTypeOK
<1> QED
  BY <1>1, <1>2, <1>3, <1>4, <1>5, <1>6, <1>7, <1>8, <1>9, <1>10, <1>11, <1>12, <1>13
  DEF Next

----------------------------------------------------------------------------
(* The open counts *)

(* The handles of a file are finitely many.                                *)
LEMMA FhsFinite ==
    ASSUME NEW i \in Inodes
    PROVE  IsFiniteSet(FhsOf(i)) /\ Cardinality(FhsOf(i)) \in Nat
<1>1. IsFiniteSet(Fhs)
  BY FS_Interval, HandlesAssumption DEF Fhs
<1>2. IsFiniteSet(FhsOf(i))
  BY <1>1, FS_Subset DEF FhsOf, OpenFhs
<1> QED
  BY <1>2, FS_CardinalityType

(* A step that leaves every handle with its inode, and no handle opened or *)
(* closed, leaves the handles of every file.                               *)
LEMMA SameHandles ==
    ASSUME \A f \in Fhs : /\ handles'[f] = None <=> handles[f] = None
                          /\ handles[f] # None => handles'[f].inode = handles[f].inode
    PROVE  OpenFhs' = OpenFhs /\ \A i \in Inodes : FhsOf(i)' = FhsOf(i)
<1>1. OpenFhs' = OpenFhs
  BY DEF OpenFhs
<1>2. \A i \in Inodes : FhsOf(i)' = FhsOf(i)
  BY <1>1 DEF FhsOf, OpenFhs
<1> QED
  BY <1>1, <1>2

(* The steps that only change buffers.                                     *)
BufferStep ==
    \/ \E f \in Fhs : \/ Read(f)
                      \/ \E off \in 0 .. MaxLen - 1, b \in Bytes : Write(f, off, b)
                      \/ SetSizeZeroFh(f)
    \/ \E i \in Inodes, n \in 0 .. MaxLen : SetSizeOpen(i, n)

(* A step that only changes buffers opens and closes nothing.              *)
LEMMA BufferStepSame ==
    ASSUME HandlesTypeOK, BufferStep
    PROVE  /\ \A f \in Fhs : /\ handles'[f] = None <=> handles[f] = None
                             /\ handles[f] # None => handles'[f].inode = handles[f].inode
           /\ UNCHANGED <<disk, fds, marked, nextFh, unlinked, fresh, renames, fails, crashes>>
<1> USE DEF disk, history
<1> DEFINE Same == \A f \in Fhs :
              /\ handles'[f] = None <=> handles[f] = None
              /\ handles[f] # None => handles'[f].inode = handles[f].inode
<1>1. ASSUME NEW f \in Fhs, Read(f)
      PROVE  Same
  <2>1. f \in OpenFhs /\ handles' = [handles EXCEPT ![f].buffer = Loaded(f)]
    BY <1>1 DEF Read
  <2>2. [handles[f] EXCEPT !.buffer = Loaded(f)] \in Handle
    BY <2>1, LoadedType, BufferType
  <2>3. [handles[f] EXCEPT !.buffer = Loaded(f)].inode = handles[f].inode
    BY <2>1, HandleOf DEF Handle
  <2> QED
    BY <2>1, <2>2, <2>3, HandlesAssumption DEF OpenFhs, HandlesTypeOK
<1>2. ASSUME NEW f \in OpenFhs, NEW d \in Data,
             handles' = [handles EXCEPT ![f] = [@ EXCEPT !.buffer = d, !.modified = TRUE]]
      PROVE  Same
  <2>1. [handles[f] EXCEPT !.buffer = d, !.modified = TRUE] \in Handle
    BY BufferType
  <2>2. [handles[f] EXCEPT !.buffer = d, !.modified = TRUE].inode = handles[f].inode
    BY HandleOf DEF Handle
  <2> QED
    BY <1>2, <2>1, <2>2, HandlesAssumption DEF OpenFhs, HandlesTypeOK
<1>3. ASSUME NEW f \in Fhs, NEW off \in 0 .. MaxLen - 1, NEW b \in Bytes, Write(f, off, b)
      PROVE  Same
  <2>1. f \in OpenFhs /\ off \in Nat /\ off + 1 <= MaxLen
    BY <1>3 DEF Write
  <2>2. Patched(Loaded(f), off, b) \in Data
    BY <2>1, LoadedType, PatchedType
  <2> QED
    BY <1>2, <1>3, <2>1, <2>2 DEF Write
<1>4. ASSUME NEW f \in Fhs, SetSizeZeroFh(f)
      PROVE  Same
  BY <1>2, <1>4, EmptyType DEF SetSizeZeroFh
<1>5. ASSUME NEW i \in Inodes, NEW n \in 0 .. MaxLen, SetSizeOpen(i, n)
      PROVE  Same
  <2> DEFINE d == IF n = 0 THEN <<>> ELSE Resized(Content(i), n)
  <2>1. d \in Data
    BY EmptyType, ContentType, ResizedType
  <2>2. handles' = Truncated(i, d)
    BY <1>5 DEF SetSizeOpen
  <2> HIDE DEF d
  <2>3. \A f \in OpenFhs :
           /\ [handles[f] EXCEPT !.buffer = d, !.modified = TRUE] # None
           /\ [handles[f] EXCEPT !.buffer = d, !.modified = TRUE].inode = handles[f].inode
    BY <2>1, BufferType, HandleOf, HandlesAssumption DEF Handle
  <2> QED
    BY <2>2, <2>3 DEF Truncated, FhsOf, OpenFhs
<1>6. Same
  BY <1>1, <1>3, <1>4, <1>5 DEF BufferStep
<1> QED
  BY <1>6 DEF BufferStep, Read, Write, SetSizeZeroFh, SetSizeOpen

(* allocate_fh adds one handle to one file.                                *)
LEMMA AllocateCounts ==
    ASSUME HandlesTypeOK, FreshFhs, FdCountsExact,
           NEW i \in Inodes, NEW d \in Data \union {None}, Allocate(i, d)
    PROVE  FreshFhs' /\ FdCountsExact'
<1> DEFINE h == [inode |-> i, buffer |-> d, modified |-> d # None]
<1>1. h \in Handle /\ h # None /\ h.inode = i
  <2>1. h \in Handle
    BY DEF Handle
  <2> QED
    BY <2>1, HandlesAssumption
<1>2. nextFh \in Fhs /\ nextFh \in Nat /\ nextFh' = nextFh + 1
  BY DEF Allocate, HandlesTypeOK, Fhs
<1>3. handles' = [handles EXCEPT ![nextFh] = h]
  BY DEF Allocate
<1> HIDE DEF h
<1>4. OpenFhs' = OpenFhs \union {nextFh}
  BY <1>1, <1>2, <1>3 DEF OpenFhs, HandlesTypeOK
<1>5. nextFh \notin OpenFhs
  BY <1>2 DEF FreshFhs
<1>6. \A f \in Fhs : f \in Nat
  BY DEF Fhs
<1>7. FreshFhs'
  BY <1>2, <1>4, <1>6 DEF FreshFhs, OpenFhs
<1>8. FhsOf(i)' = FhsOf(i) \union {nextFh}
  BY <1>1, <1>2, <1>3, <1>4, <1>5 DEF FhsOf, HandlesTypeOK, OpenFhs
<1>9. \A j \in Inodes \ {i} : FhsOf(j)' = FhsOf(j)
  BY <1>1, <1>2, <1>3, <1>4, <1>5 DEF FhsOf, HandlesTypeOK, OpenFhs
<1>10. Cardinality(FhsOf(i)') = Cardinality(FhsOf(i)) + 1
  <2>1. nextFh \notin FhsOf(i)
    BY <1>5 DEF FhsOf
  <2> QED
    BY <1>8, <2>1, FhsFinite, FS_AddElement
<1>11. fds' = [fds EXCEPT ![i] = @ + 1] /\ marked' = marked
  BY DEF Allocate
<1>12. ASSUME NEW j \in Inodes
       PROVE  fds'[j] = Cardinality(FhsOf(j)') /\ (j \in marked' => fds'[j] > 0)
  <2>1. CASE j = i
    BY <2>1, <1>10, <1>11, FhsFinite DEF FdCountsExact, HandlesTypeOK
  <2>2. CASE j # i
    BY <2>2, <1>9, <1>11 DEF FdCountsExact, HandlesTypeOK
  <2> QED
    BY <2>1, <2>2
<1> QED
  BY <1>7, <1>12 DEF FdCountsExact

(* close_handle takes one handle from one file.                            *)
LEMMA CloseCounts ==
    ASSUME HandlesTypeOK, FreshFhs, FdCountsExact, NEW f \in OpenFhs, CloseHandle(f)
    PROVE  FreshFhs' /\ FdCountsExact'
<1>0. PICK i \in Inodes : i = handles[f].inode
  BY HandleOf
<1>1. i \in Inodes /\ f \in Fhs /\ f \in FhsOf(i)
  BY <1>0, HandleOf DEF FhsOf
<1>2. handles' = [handles EXCEPT ![f] = None] /\ nextFh' = nextFh
  BY DEF CloseHandle
<1>3. fds' = [fds EXCEPT ![i] = @ - 1]
      /\ marked' = IF fds[i] = 1 THEN marked \ {i} ELSE marked
  BY <1>0 DEF CloseHandle
<1>4. OpenFhs' = OpenFhs \ {f}
  BY <1>1, <1>2 DEF OpenFhs, HandlesTypeOK
<1>5. FreshFhs'
  BY <1>2, <1>4 DEF FreshFhs
<1>6. FhsOf(i)' = FhsOf(i) \ {f}
  BY <1>1, <1>2, <1>4 DEF FhsOf, HandlesTypeOK, OpenFhs
<1>7. \A j \in Inodes \ {i} : FhsOf(j)' = FhsOf(j)
  BY <1>0, <1>1, <1>2, <1>4 DEF FhsOf, HandlesTypeOK, OpenFhs
<1>8. Cardinality(FhsOf(i)') = Cardinality(FhsOf(i)) - 1
  BY <1>1, <1>6, FhsFinite, FS_RemoveElement
<1>9. Cardinality(FhsOf(i)) # 0
  BY <1>1, FhsFinite, FS_EmptySet
<1>10. ASSUME NEW j \in Inodes
       PROVE  fds'[j] = Cardinality(FhsOf(j)') /\ (j \in marked' => fds'[j] > 0)
  <2>1. CASE j = i
    <3>1. fds[i] = Cardinality(FhsOf(i)) /\ fds[i] \in Nat
      BY <1>1, FhsFinite DEF FdCountsExact
    <3>2. fds'[i] = fds[i] - 1
      BY <1>1, <1>3 DEF HandlesTypeOK
    <3>3. i \in marked' => fds[i] # 1
      BY <1>3
    <3> QED
      BY <2>1, <1>8, <1>9, <3>1, <3>2, <3>3
  <2>2. CASE j # i
    BY <2>2, <1>3, <1>7 DEF FdCountsExact, HandlesTypeOK
  <2> QED
    BY <2>1, <2>2
<1> QED
  BY <1>5, <1>10 DEF FdCountsExact

(* Every step keeps the counts exact.                                      *)
LEMMA CountStep ==
    ASSUME HandlesTypeOK, FreshFhs, FdCountsExact, HandlesTypeOK', [Next]_vars
    PROVE  FreshFhs' /\ FdCountsExact'
<1> USE DEF disk, memory, history
<1>1. ASSUME NEW i \in Inodes, NEW n \in Names, Create(n, i)
      PROVE  FreshFhs' /\ FdCountsExact'
  BY <1>1, AllocateCounts, EmptyType DEF Create
<1>2. ASSUME NEW i \in Inodes, Open(i)
      PROVE  FreshFhs' /\ FdCountsExact'
  BY <1>2, AllocateCounts DEF Open
<1>3. ASSUME NEW f \in Fhs, \/ Release(f) \/ ReleaseGone(f)
                             \/ ReleaseRefused(f) \/ ReleaseDeleteFails(f)
      PROVE  FreshFhs' /\ FdCountsExact'
  BY <1>3, CloseCounts DEF Release, ReleaseGone, ReleaseRefused, ReleaseDeleteFails
<1>4. ASSUME \A f \in Fhs : /\ handles'[f] = None <=> handles[f] = None
                            /\ handles[f] # None => handles'[f].inode = handles[f].inode,
             fds' = fds, nextFh' = nextFh,
             \A i \in marked' : i \in marked \/ fds[i] # 0
      PROVE  FreshFhs' /\ FdCountsExact'
  <2>1. OpenFhs' = OpenFhs /\ \A i \in Inodes : FhsOf(i)' = FhsOf(i)
    BY <1>4, SameHandles
  <2>2. \A i \in Inodes : fds[i] \in Nat
    BY DEF HandlesTypeOK
  <2>3. FdCountsExact'
    BY <1>4, <2>1, <2>2 DEF FdCountsExact
  <2>4. FreshFhs'
    BY <1>4, <2>1 DEF FreshFhs
  <2> QED
    BY <2>3, <2>4
<1>5. CASE BufferStep
  BY <1>4, <1>5, BufferStepSame
<1>6. ASSUME NEW i \in Inodes, Unlink(i)
      PROVE  FreshFhs' /\ FdCountsExact'
  BY <1>4, <1>6 DEF Unlink
<1>7. ASSUME UNCHANGED memory
      PROVE  FreshFhs' /\ FdCountsExact'
  BY <1>4, <1>7
<1>8. CASE Crash
  <2>1. OpenFhs' = {} /\ \A i \in Inodes : FhsOf(i)' = {}
    BY <1>8 DEF Crash, OpenFhs, FhsOf
  <2>2. \A i \in Inodes : fds'[i] = 0 /\ i \notin marked'
    BY <1>8 DEF Crash
  <2> QED
    BY <2>1, <2>2, FS_EmptySet DEF FreshFhs, FdCountsExact
<1> QED
  <2>1. ASSUME NEW i \in Inodes,
               \/ \E n \in Names : Rename(i, n)
               \/ \E n \in 0 .. MaxLen : SetSizeClosed(i, n)
               \/ Drain(i)
        PROVE  UNCHANGED memory
    BY <2>1 DEF Rename, SetSizeClosed, Drain
  <2>2. CASE UNCHANGED vars
    BY <2>2, <1>7 DEF vars
  <2> QED
    BY <1>1, <1>2, <1>3, <1>5, <1>6, <1>7, <1>8, <2>1, <2>2 DEF Next, BufferStep

----------------------------------------------------------------------------
(* Delayed deletion *)

(* A count of zero: no handle is left.                                     *)
LEMMA NoHandleLeft ==
    ASSUME FdCountsExact, NEW i \in Inodes, fds[i] = 0
    PROVE  FhsOf(i) = {}
BY FhsFinite, FS_EmptySet DEF FdCountsExact

(* A count of one: the handle being closed is the last.                    *)
LEMMA LastHandle ==
    ASSUME HandlesTypeOK, FdCountsExact, NEW f \in OpenFhs, fds[handles[f].inode] = 1
    PROVE  FhsOf(handles[f].inode) = {f}
<1>1. PICK i \in Inodes : i = handles[f].inode
  BY HandleOf
<1>2. f \in FhsOf(i) /\ Cardinality(FhsOf(i)) = 1
  BY <1>1 DEF FhsOf, FdCountsExact
<1>3. IsFiniteSet(FhsOf(i) \ {f}) /\ Cardinality(FhsOf(i) \ {f}) = 0
  BY <1>2, FhsFinite, FS_RemoveElement
<1>4. FhsOf(i) \ {f} = {}
  BY <1>3, FS_EmptySet
<1> QED
  BY <1>1, <1>2, <1>4

(* While there was no rename, a row goes only when nobody has it open.     *)
LEMMA KeptStep ==
    ASSUME HandlesTypeOK, FdCountsExact, OpenFilesKept, [Next]_vars, renames' = 0
    PROVE  \A g \in OpenFhs' : name'[handles'[g].inode] # None
<1> USE DEF disk, memory, history
<1>1. renames = 0 /\ ~\E i \in Inodes, n \in Names : Rename(i, n)
  <2>1. renames' = renames \/ renames' = renames + 1
    BY BufferStepSame DEF Next, vars, BufferStep, Create, SetSizeClosed, Open, Unlink, Drain,
       Release, ReleaseGone, ReleaseRefused, ReleaseDeleteFails, Crash, Rename
  <2>2. renames \in Nat
    BY DEF HandlesTypeOK
  <2> QED
    BY <2>1, <2>2 DEF Rename
<1>2. \A g \in OpenFhs : name[handles[g].inode] # None
  BY <1>1 DEF OpenFilesKept
<1>3. ASSUME NEW i \in Inodes, NEW d \in Data \union {None}, Allocate(i, d), name'[i] # None,
             \A j \in Inodes : name[j] # None => name'[j] # None
      PROVE  \A g \in OpenFhs' : name'[handles'[g].inode] # None
  <2>1. handles' = [handles EXCEPT ![nextFh] =
                      [inode |-> i, buffer |-> d, modified |-> d # None]]
    BY <1>3 DEF Allocate
  <2> QED
    BY <1>2, <1>3, <2>1, HandleOf DEF OpenFhs, HandlesTypeOK
<1>4. ASSUME NEW i \in Inodes, NEW n \in Names, Create(n, i)
      PROVE  \A g \in OpenFhs' : name'[handles'[g].inode] # None
  <2>1. name'[i] # None /\ \A j \in Inodes : name[j] # None => name'[j] # None
    BY <1>4, HandlesAssumption DEF Create, HandlesTypeOK
  <2> QED
    BY <1>3, <1>4, <2>1, EmptyType DEF Create
<1>5. ASSUME NEW i \in Inodes, Open(i)
      PROVE  \A g \in OpenFhs' : name'[handles'[g].inode] # None
  BY <1>3, <1>5 DEF Open, Visible
<1>6. CASE BufferStep
  BY <1>2, <1>6, BufferStepSame DEF OpenFhs
<1>7. ASSUME NEW i \in Inodes, Unlink(i)
      PROVE  \A g \in OpenFhs' : name'[handles'[g].inode] # None
  <2>1. handles' = handles /\ OpenFhs' = OpenFhs
    BY <1>7 DEF Unlink, OpenFhs
  <2>2. CASE fds[i] = 0
    <3>1. \A g \in OpenFhs : handles[g].inode # i
      BY <2>2, NoHandleLeft DEF FhsOf
    <3>2. name' = [name EXCEPT ![i] = None]
      BY <1>7, <2>2 DEF Unlink
    <3> QED
      BY <1>2, <2>1, <3>1, <3>2, HandleOf DEF HandlesTypeOK
  <2>3. CASE fds[i] # 0
    BY <1>2, <1>7, <2>1, <2>3 DEF Unlink
  <2> QED
    BY <2>2, <2>3
<1>8. ASSUME NEW f \in OpenFhs, CloseHandle(f),
             \/ name' = name
             \/ ShouldDelete(f) /\ name' = [name EXCEPT ![handles[f].inode] = None]
      PROVE  \A g \in OpenFhs' : name'[handles'[g].inode] # None
  <2>1. \A g \in OpenFhs' : g \in OpenFhs /\ g # f /\ handles'[g] = handles[g]
    BY <1>8, HandleOf DEF CloseHandle, OpenFhs, HandlesTypeOK
  <2>2. CASE name' = name
    BY <1>2, <2>1, <2>2
  <2>3. CASE ShouldDelete(f) /\ name' = [name EXCEPT ![handles[f].inode] = None]
    <3>1. FhsOf(handles[f].inode) = {f}
      BY <2>3, LastHandle DEF ShouldDelete
    <3>2. \A g \in OpenFhs' : handles[g].inode # handles[f].inode
      BY <2>1, <3>1 DEF FhsOf
    <3> QED
      BY <1>2, <2>1, <2>3, <3>2, HandleOf DEF HandlesTypeOK
  <2> QED
    BY <1>8, <2>2, <2>3
<1>9. ASSUME NEW f \in Fhs, \/ Release(f) \/ ReleaseGone(f)
                             \/ ReleaseRefused(f) \/ ReleaseDeleteFails(f)
      PROVE  \A g \in OpenFhs' : name'[handles'[g].inode] # None
  BY <1>8, <1>9 DEF Release, ReleaseGone, ReleaseRefused, ReleaseDeleteFails
<1>10. CASE Crash
  BY <1>10 DEF Crash, OpenFhs
<1>11. ASSUME UNCHANGED <<name, handles>>
       PROVE  \A g \in OpenFhs' : name'[handles'[g].inode] # None
  BY <1>2, <1>11 DEF OpenFhs
<1>12. ASSUME NEW i \in Inodes, (\E n \in 0 .. MaxLen : SetSizeClosed(i, n)) \/ Drain(i)
       PROVE  \A g \in OpenFhs' : name'[handles'[g].inode] # None
  BY <1>11, <1>12 DEF SetSizeClosed, Drain
<1>13. CASE UNCHANGED vars
  BY <1>11, <1>13 DEF vars
<1> QED
  BY <1>1, <1>4, <1>5, <1>6, <1>7, <1>9, <1>10, <1>12, <1>13 DEF Next, BufferStep

(* Unused identities stay unused until create takes them.                  *)
LEMMA FreshStep ==
    ASSUME HandlesTypeOK, FreshUnused, [Next]_vars
    PROVE  FreshUnused'
<1> USE DEF disk, memory, history, FreshUnused
<1>1. ASSUME NEW i \in Inodes, NEW n \in Names, Create(n, i)
      PROVE  FreshUnused'
  BY <1>1 DEF Create, HandlesTypeOK
<1>2. ASSUME NEW i \in Inodes, NEW n \in Names, Rename(i, n)
      PROVE  FreshUnused'
  <2>1. n # None
    BY HandlesAssumption
  <2>2. i \notin fresh /\ \A j \in Inodes : name[j] = n => j \notin fresh
    BY <1>2, <2>1 DEF Rename, Visible
  <2> QED
    BY <1>2, <2>2 DEF Rename, HandlesTypeOK
<1>3. ASSUME NEW i \in Inodes, Unlink(i)
      PROVE  FreshUnused'
  <2>1. i \notin fresh /\ fresh' = fresh /\ unlinked' = unlinked \union {i}
    BY <1>3 DEF Unlink, Visible
  <2>2. name' = name \/ name' = [name EXCEPT ![i] = None]
    BY <1>3 DEF Unlink
  <2> QED
    BY <2>1, <2>2 DEF HandlesTypeOK
<1>4. ASSUME NEW f \in Fhs, \/ Release(f) \/ ReleaseGone(f)
                             \/ ReleaseRefused(f) \/ ReleaseDeleteFails(f)
      PROVE  FreshUnused'
  <2>1. UNCHANGED <<fresh, unlinked>>
    BY <1>4 DEF Release, ReleaseGone, ReleaseRefused, ReleaseDeleteFails
  <2>2. name' = name \/ name' = [name EXCEPT ![handles[f].inode] = None]
    BY <1>4 DEF Release, ReleaseGone, ReleaseRefused, ReleaseDeleteFails
  <2> QED
    BY <2>1, <2>2 DEF HandlesTypeOK
<1>5. CASE BufferStep
  BY <1>5, BufferStepSame
<1>6. ASSUME UNCHANGED <<name, fresh, unlinked>>
      PROVE  FreshUnused'
  BY <1>6
<1>7. CASE Crash
  BY <1>6, <1>7 DEF Crash
<1>8. ASSUME NEW i \in Inodes, \/ \E n \in 0 .. MaxLen : SetSizeClosed(i, n)
                               \/ Open(i) \/ Drain(i)
      PROVE  FreshUnused'
  BY <1>6, <1>8 DEF SetSizeClosed, Open, Drain
<1>9. CASE UNCHANGED vars
  BY <1>6, <1>9 DEF vars
<1> QED
  BY <1>1, <1>2, <1>3, <1>4, <1>5, <1>7, <1>8, <1>9 DEF Next, BufferStep

(* While nothing failed and the daemon lives, an unlinked file does not    *)
(* come back.                                                              *)
LEMMA UnlinkedStep ==
    ASSUME HandlesTypeOK, FdCountsExact, FreshUnused, UnlinkedGone, [Next]_vars,
           fails' = 0, crashes' = 0
    PROVE  \A j \in unlinked' : name'[j] = None \/ (j \in marked' /\ fds'[j] > 0)
<1> USE DEF disk, memory, history
<1> DEFINE Gone(j) == name[j] = None \/ (j \in marked /\ fds[j] > 0)
           GoneNext == \A j \in unlinked' : name'[j] = None \/ (j \in marked' /\ fds'[j] > 0)
<1>1. fails = 0 /\ crashes = 0 /\ ~Crash
      /\ \A f \in Fhs : ~ReleaseRefused(f) /\ ~ReleaseDeleteFails(f)
  <2>1. fails' \in {fails, fails + 1} /\ crashes' \in {crashes, crashes + 1}
    BY BufferStepSame DEF Next, vars, BufferStep, Create, SetSizeClosed, Open, Unlink, Drain,
       Release, ReleaseGone, ReleaseRefused, ReleaseDeleteFails, Fail, Crash, Rename
  <2>2. fails \in Nat /\ crashes \in Nat
    BY DEF HandlesTypeOK
  <2> QED
    BY <2>1, <2>2 DEF Crash, ReleaseRefused, ReleaseDeleteFails, Fail
<1>2. \A j \in unlinked : Gone(j)
  BY <1>1 DEF UnlinkedGone
<1>3. unlinked \subseteq Inodes /\ \A j \in Inodes : fds[j] \in Nat
  BY DEF HandlesTypeOK
<1>4. ASSUME NEW i \in Inodes, NEW n \in Names, Create(n, i)
      PROVE  GoneNext
  <2>1. i \notin unlinked /\ unlinked' = unlinked /\ marked' = marked
    BY <1>4 DEF Create, Allocate, FreshUnused
  <2>2. \A j \in unlinked : name'[j] = name[j] /\ fds'[j] = fds[j]
    BY <1>3, <1>4, <2>1 DEF Create, Allocate, HandlesTypeOK
  <2> QED
    BY <1>2, <2>1, <2>2
<1>5. ASSUME NEW i \in Inodes, Open(i)
      PROVE  GoneNext
  <2>1. unlinked' = unlinked /\ marked' = marked /\ name' = name
    BY <1>5 DEF Open, Allocate
  <2>2. \A j \in unlinked : fds'[j] >= fds[j] /\ fds'[j] \in Nat
    BY <1>3, <1>5 DEF Open, Allocate, HandlesTypeOK
  <2> QED
    BY <1>2, <1>3, <2>1, <2>2
<1>6. ASSUME NEW i \in Inodes, Unlink(i)
      PROVE  GoneNext
  <2>1. unlinked' = unlinked \union {i} /\ fds' = fds
    BY <1>6 DEF Unlink
  <2>2. CASE fds[i] = 0
    BY <1>2, <1>3, <1>6, <2>1, <2>2 DEF Unlink, HandlesTypeOK
  <2>3. CASE fds[i] # 0
    <3>1. fds[i] > 0
      BY <1>3, <2>3
    <3> QED
      BY <1>2, <1>6, <2>1, <2>3, <3>1 DEF Unlink
  <2> QED
    BY <2>2, <2>3
<1>7. ASSUME NEW i \in Inodes, NEW n \in Names, Rename(i, n)
      PROVE  GoneNext
  <2>1. i \notin unlinked
    BY <1>2, <1>7 DEF Rename, Visible
  <2>2. unlinked' = unlinked \union {j \in Inodes \ {i} : name[j] = n}
        /\ marked' = marked /\ fds' = fds
    BY <1>7 DEF Rename
  <2>3. \A j \in Inodes \ {i} : name'[j] = IF name[j] = n THEN None ELSE name[j]
    BY <1>7 DEF Rename
  <2> QED
    BY <1>2, <1>3, <2>1, <2>2, <2>3
<1>8. CASE BufferStep
  BY <1>2, <1>8, BufferStepSame
<1>9. ASSUME NEW f \in OpenFhs, CloseHandle(f), unlinked' = unlinked,
             name' = IF ShouldDelete(f) THEN [name EXCEPT ![handles[f].inode] = None] ELSE name
      PROVE  GoneNext
  <2>1. PICK i \in Inodes : i = handles[f].inode
    BY HandleOf
  <2>2. fds' = [fds EXCEPT ![i] = @ - 1]
        /\ marked' = IF fds[i] = 1 THEN marked \ {i} ELSE marked
    BY <1>9, <2>1 DEF CloseHandle
  <2>3. ASSUME NEW j \in unlinked, j # i
        PROVE  name'[j] = None \/ (j \in marked' /\ fds'[j] > 0)
    <3>1. name'[j] = name[j] /\ fds'[j] = fds[j] /\ (j \in marked => j \in marked')
      BY <1>3, <1>9, <2>1, <2>2, <2>3 DEF HandlesTypeOK
    <3> QED
      BY <1>2, <3>1
  <2>4. ASSUME i \in unlinked
        PROVE  name'[i] = None \/ (i \in marked' /\ fds'[i] > 0)
    <3>1. CASE name[i] = None
      BY <1>9, <2>1, <3>1 DEF HandlesTypeOK
    <3>2. CASE i \in marked /\ fds[i] = 1
      BY <1>9, <2>1, <3>2 DEF ShouldDelete, HandlesTypeOK
    <3>3. CASE i \in marked /\ fds[i] > 0 /\ fds[i] # 1
      <4>1. fds'[i] = fds[i] - 1 /\ fds[i] \in Nat /\ i \in marked'
        BY <2>2, <1>3, <3>3 DEF HandlesTypeOK
      <4> QED
        BY <3>3, <4>1
    <3> QED
      BY <1>2, <2>4, <3>1, <3>2, <3>3
  <2> QED
    BY <1>9, <2>3, <2>4
<1>10. ASSUME NEW f \in Fhs, Release(f)
       PROVE  GoneNext
  BY <1>9, <1>10 DEF Release
<1>11. ASSUME NEW f \in Fhs, ReleaseGone(f)
       PROVE  GoneNext
  <2>1. f \in OpenFhs /\ CloseHandle(f) /\ unlinked' = unlinked
        /\ name' = name /\ name[handles[f].inode] = None
    BY <1>11 DEF ReleaseGone
  <2>2. [name EXCEPT ![handles[f].inode] = None] = name
    BY <2>1, HandleOf DEF HandlesTypeOK
  <2> QED
    BY <1>9, <2>1, <2>2
<1>12. ASSUME UNCHANGED <<name, unlinked, marked, fds>>
       PROVE  GoneNext
  BY <1>2, <1>12
<1>13. ASSUME NEW i \in Inodes, (\E n \in 0 .. MaxLen : SetSizeClosed(i, n)) \/ Drain(i)
       PROVE  GoneNext
  BY <1>12, <1>13 DEF SetSizeClosed, Drain
<1>14. CASE UNCHANGED vars
  BY <1>12, <1>14 DEF vars
<1> QED
  BY <1>1, <1>4, <1>5, <1>6, <1>7, <1>8, <1>10, <1>11, <1>13, <1>14 DEF Next, BufferStep

----------------------------------------------------------------------------
(* Theorems *)

(* Types, unused handle numbers and exact counts hold together in every    *)
(* state of the mount.                                                     *)
THEOREM HandlesInvariant ==
    Spec => [](HandlesTypeOK /\ FreshFhs /\ FdCountsExact)
<1> DEFINE HInv == HandlesTypeOK /\ FreshFhs /\ FdCountsExact
<1>1. Init => HInv
  <2> SUFFICES ASSUME Init PROVE HInv
    OBVIOUS
  <2>1. HandlesTypeOK
    BY HandlesAssumption DEF Init, HandlesTypeOK
  <2>2. OpenFhs = {} /\ \A i \in Inodes : FhsOf(i) = {}
    BY DEF Init, OpenFhs, FhsOf
  <2>3. FdCountsExact
    BY <2>2, FS_EmptySet DEF Init, FdCountsExact
  <2> QED
    BY <2>1, <2>2, <2>3 DEF FreshFhs
<1>2. HInv /\ [Next]_vars => HInv'
  BY TypeStep, CountStep
<1> QED
  BY <1>1, <1>2, PTL DEF Spec

(* Every buffer stays within the size limit and every count is a natural   *)
(* number: no close takes open_fd_count below zero.                        *)
THEOREM HandlesTyped == Spec => []HandlesTypeOK
BY HandlesInvariant, PTL

(* open_fd_count of a file is the number of its open handles, and a file   *)
(* marked for deletion is open, for any number of files, handles, requests, *)
(* refused closes and crashes.                                             *)
THEOREM FdCountsAreExact == Spec => []FdCountsExact
BY HandlesInvariant, PTL

(* A file that a process holds open keeps its row, whatever unlinks, closes, *)
(* refused closes and crashes happen, as long as no rename replaces it.    *)
THEOREM OpenFilesAreKept == Spec => []OpenFilesKept
<1>1. Init => OpenFilesKept
  BY DEF Init, OpenFilesKept, OpenFhs
<1>2. HandlesTypeOK /\ FdCountsExact /\ OpenFilesKept /\ [Next]_vars => OpenFilesKept'
  BY KeptStep DEF OpenFilesKept
<1> QED
  BY <1>1, <1>2, HandlesInvariant, PTL DEF Spec

(* An unlinked file is gone, or marked and open; it never comes back, as   *)
(* long as no call fails and the daemon lives.                             *)
THEOREM UnlinkedIsGone == Spec => []UnlinkedGone
<1>1. Init => FreshUnused /\ UnlinkedGone
  BY DEF Init, FreshUnused, UnlinkedGone
<1>2. HandlesTypeOK /\ FreshUnused /\ [Next]_vars => FreshUnused'
  BY FreshStep
<1>3. HandlesTypeOK /\ FdCountsExact /\ FreshUnused /\ UnlinkedGone /\ [Next]_vars
         => UnlinkedGone'
  BY UnlinkedStep DEF UnlinkedGone
<1> QED
  BY <1>1, <1>2, <1>3, HandlesInvariant, PTL DEF Spec
============================================================================
