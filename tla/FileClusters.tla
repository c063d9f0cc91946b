---------------------------- MODULE FileClusters ----------------------------
(***************************************************************************)
(* The clusters of files (sofs17/src/ilayers/fileclusters) on top of       *)
(* FreeClusters: six direct references in the inode, i1 to a cluster of    *)
(* references, i2 to a cluster of references to clusters of references.    *)
(* The actions are the operations of the layer with the arguments the test *)
(* tool (tools/testtool) lets its user choose; they follow one another,    *)
(* each runs under one mutex when it is reached by way of a mount.         *)
(*                                                                         *)
(* An operation works on a state st: the superblock with the bitmap, one   *)
(* inode as the inode dealer holds it, the contents of the clusters, the   *)
(* cluster number it hands over, and ok, FALSE once an exception is thrown *)
(* (whatever had been done until then stays done).  File contents are      *)
(* zeros, labelled with the file cluster they were written for.  free()    *)
(* and malloc() are not modelled: soFreeIndirectFileClusters reads a whole *)
(* cluster into a buffer of one block, and the model lets it survive that. *)
(***************************************************************************)
EXTENDS FreeClusters, FiniteSetsExt

CONSTANTS
    Files,                 \* inode handlers
    CTotal,                \* clusters of the volume
    N_DIRECT,
    ReferencesPerCluster,  \* 512; also the BlockSize that soGetFileCluster counts with
    ReferencesPerBlock,    \* 128
    Positions,             \* bound: the file cluster numbers asked for
    MaxOps                 \* bound: how many operations follow one another

ASSUME FileClustersAssumption ==
    /\ CTotal \in Nat \ {0} /\ N_DIRECT \in Nat \ {0} /\ MaxOps \in Nat
    /\ ReferencesPerCluster \in Nat \ {0}
    /\ ReferencesPerBlock \in 1 .. ReferencesPerCluster
    /\ IsFiniteSet(Files)

VARIABLES
    sb,        \* the superblock and the bitmap
    inode,     \* the clusters part of each inode
    store,     \* what each cluster holds
    written,   \* history: the file clusters written and not released
    failed,    \* history: has an operation thrown an exception?
    ops        \* history: how many operations there have been
vars == <<sb, inode, store, written, failed, ops>>

Clusters == 0 .. CTotal - 1
Refs == 0 .. ReferencesPerCluster - 1
NullRefs == [r \in Refs |-> NullReference]
FirstDouble == N_DIRECT + ReferencesPerCluster
FileClusterNumbers == 0 .. FirstDouble + ReferencesPerCluster * ReferencesPerCluster - 1
ASSUME PositionsAssumption == Positions \subseteq FileClusterNumbers

(* soReadCluster and soWriteCluster throw behind the end of the device.    *)
Exists(cn) == cn \in Clusters
Zeros == [kind |-> "zeros"]
Table(refs) == [kind |-> "references", ref |-> refs]
Content(f, fcn) == [kind |-> "data", of |-> <<f, fcn>>]
(* A cluster of data read as references is zeros.                          *)
RefsIn(content) == IF content.kind = "references" THEN content.ref ELSE [r \in Refs |-> 0]

NewInode == [d |-> [n \in 0 .. N_DIRECT - 1 |-> NullReference],
             i1 |-> NullReference, i2 |-> NullReference, clucnt |-> 0]

Init ==
    /\ sb = fillInFreeClusterTable(fillInSuperBlock(CTotal))
    /\ inode = [f \in Files |-> NewInode]
    /\ store = [c \in Clusters |-> Zeros]
    /\ written = {}
    /\ failed = FALSE
    /\ ops = 0

(***************************************************************************)
(* soGetFileCluster, and whether it throws: the second level is read       *)
(* without a test for NullReference.                                       *)
(***************************************************************************)
Second(ip, st, n) == RefsIn(st[ip.i2])[n \div ReferencesPerCluster]

GetThrows(ip, st, fcn) ==
    \/ /\ fcn \in N_DIRECT .. FirstDouble - 1
       /\ ip.i1 # NullReference
       /\ ~Exists(ip.i1)
    \/ /\ fcn >= FirstDouble
       /\ ip.i2 # NullReference
       /\ ~Exists(ip.i2) \/ ~Exists(Second(ip, st, fcn - FirstDouble))

soGetFileCluster(ip, st, fcn) ==
    CASE fcn < N_DIRECT -> ip.d[fcn]
      [] fcn \in N_DIRECT .. FirstDouble - 1 ->
            IF ip.i1 = NullReference THEN NullReference
            ELSE RefsIn(st[ip.i1])[fcn - N_DIRECT]
      [] OTHER ->
            IF ip.i2 = NullReference THEN NullReference
            ELSE RefsIn(st[Second(ip, st, fcn - FirstDouble)])
                       [(fcn - FirstDouble) % ReferencesPerCluster]

(***************************************************************************)
(* soAllocFileCluster.                                                     *)
(***************************************************************************)
State(f) == [sb |-> sb, ip |-> inode[f], store |-> store, cn |-> NullReference,
             refs |-> NullRefs, refs2 |-> NullRefs, total |-> inode[f].clucnt, ok |-> TRUE]
Throw(st) == [st EXCEPT !.ok = FALSE]

(* soAllocCluster.                                                         *)
Took(st, a) == [st EXCEPT !.sb = a.sb, !.cn = a.cn]
Take(st) ==
    IF ~st.ok \/ NoSpace(st.sb) THEN Throw(st) ELSE Took(st, soAllocCluster(st.sb))

Count(st) == IF st.ok THEN [st EXCEPT !.ip.clucnt = @ + 1] ELSE st
WriteRefs(st, cn, refs) ==
    IF st.ok /\ Exists(cn) THEN [st EXCEPT !.store[cn] = Table(refs)] ELSE Throw(st)

(* soReadCluster of a table of references, which is cleared when it is new.*)
ReadRefs(st, cn) == IF Exists(cn) THEN [st EXCEPT !.refs = RefsIn(st.store[cn])] ELSE Throw(st)
NewRefs(st) == IF Exists(st.cn) THEN [st EXCEPT !.refs = NullRefs] ELSE Throw(st)

SetDirect(st, fcn) == IF st.ok THEN [st EXCEPT !.ip.d[fcn] = st.cn] ELSE st
AllocDirect(st, fcn) == SetDirect(Count(Take(st)), fcn)

(* The first level: a new table when there is none, and two free clusters. *)
SetI1(st) == IF st.ok THEN NewRefs([st EXCEPT !.ip.i1 = st.cn]) ELSE st
(* A mutant of AllocI1: the cluster of references is not counted.          *)
AllocI1Uncounted(st) == IF st.sb.cfree > 1 THEN SetI1(Take(st)) ELSE Throw(st)
AllocI1(st) == IF st.sb.cfree > 1 THEN SetI1(Count(Take(st))) ELSE Throw(st)

(* A mutant of Enter: the other references are cleared.                    *)
EnterCleared(st, n) ==
    IF st.ok THEN WriteRefs(st, st.ip.i1, [NullRefs EXCEPT ![n] = st.cn]) ELSE st
Enter(st, n) ==
    IF st.ok THEN WriteRefs(st, st.ip.i1, [st.refs EXCEPT ![n] = st.cn]) ELSE st

soAllocIndirectFileCluster(st, n) ==
    Enter(Count(Take(IF st.ip.i1 = NullReference THEN AllocI1(st) ELSE ReadRefs(st, st.ip.i1))), n)

(* The second level: a new table when there is none, and three free        *)
(* clusters; a new table for the part of n; then the cluster itself, the   *)
(* table of the part, and the table of tables.                             *)
SetI2(st) == IF st.ok THEN NewRefs([st EXCEPT !.ip.i2 = st.cn]) ELSE st
AllocI2(st) == IF st.sb.cfree > 2 THEN SetI2(Take(Count(st))) ELSE Throw(st)

SetPart(st, a) ==
    IF st.ok THEN NewRefs([st EXCEPT !.refs2 = [st.refs EXCEPT ![a] = st.cn]]) ELSE st
Part(st, a) ==
    IF ~st.ok THEN st
    ELSE IF st.refs[a] = NullReference THEN SetPart(Take(Count(st)), a)
    ELSE ReadRefs([st EXCEPT !.refs2 = st.refs], st.refs[a])

EnterBoth(st, a, b) ==
    IF st.ok
    THEN WriteRefs(WriteRefs(st, st.refs2[a], [st.refs EXCEPT ![b] = st.cn]), st.ip.i2, st.refs2)
    ELSE st

soAllocDoubleIndirectFileCluster(st, n) ==
    LET a == n \div ReferencesPerCluster
        b == n % ReferencesPerCluster
    IN EnterBoth(Count(Take(
           Part(IF st.ip.i2 = NullReference THEN AllocI2(st) ELSE ReadRefs(st, st.ip.i2), a))),
           a, b)

soAllocFileCluster(st, fcn) ==
    CASE fcn < N_DIRECT                    -> AllocDirect(st, fcn)
      [] fcn \in N_DIRECT .. FirstDouble - 1 -> soAllocIndirectFileCluster(st, fcn - N_DIRECT)
      [] OTHER -> soAllocDoubleIndirectFileCluster(st, fcn - FirstDouble)

(***************************************************************************)
(* soFreeFileClusters.  total is the local copy of clucnt, an int; the     *)
(* unsigned clucnt it is stored in has wrapped when it is negative.  At    *)
(* the end it saves and closes the inode, though its caller does that,     *)
(* too: what becomes of the handle is in Testtool's freeFileClusters.      *)
(***************************************************************************)
(* soFreeCluster of what is not null, then total--.                        *)
Release(st, cn) ==
    IF cn = NullReference THEN st
    ELSE IF ~st.ok \/ Invalid(st.sb, cn) THEN Throw(st)
    ELSE [st EXCEPT !.sb = soFreeCluster(@, cn), !.total = @ - 1]
ReleaseEach(st, refs) == FoldLeft(Release, st, refs)

(* The references of a cluster from the given one on, in its first block.  *)
Tail1(refs, from) ==
    [k \in 1 .. ReferencesPerBlock |-> IF k > from THEN refs[k - 1] ELSE NullReference]

(* The references, then the cluster itself; ip->i1 is cleared also when    *)
(* the cluster hangs from i2.                                              *)
ClearI1(st) == IF st.ok THEN [st EXCEPT !.ip.i1 = NullReference] ELSE st
soFreeIndirectFileClusters(st, i1, from) ==
    IF ~st.ok \/ i1 = NullReference THEN st
    ELSE IF ~Exists(i1) THEN Throw(st)
    ELSE ClearI1(Release(ReleaseEach(st, Tail1(RefsIn(st.store[i1]), from)), i1))

FreeTable(st, ref) == soFreeIndirectFileClusters(st, ref, 0)
FreeTables(st, refs) == FoldLeft(FreeTable, st, refs)
ClearI2(st) == IF st.ok THEN [st EXCEPT !.ip.i2 = NullReference] ELSE st
soFreeDoubleIndirectFileClusters(st, from) ==
    LET i2 == st.ip.i2
    IN IF ~st.ok \/ i2 = NullReference THEN st
       ELSE IF ~Exists(i2) THEN Throw(st)
       ELSE ClearI2(Release(FreeTables(st, Tail1(RefsIn(st.store[i2]), from)), i2))

(* Each direct reference that is not null is cleared, whatever ffcn is,    *)
(* and what is given back is its place, counted from one.                  *)
FreeDirect(st) ==
    LET places == [k \in 1 .. N_DIRECT |-> IF st.ip.d[k - 1] = NullReference THEN NullReference
                                                                            ELSE k]
        given == {n \in DOMAIN st.ip.d : st.ip.d[n] # NullReference /\ ~Invalid(st.sb, n + 1)}
    IN [ReleaseEach(st, places) EXCEPT
          !.ip.d = [n \in DOMAIN @ |-> IF n \in given THEN NullReference ELSE @[n]],
          !.sb.damage = IF given = {} THEN @ ELSE @ \union {"gaveBackPlace"}]

FreeRest(st) ==
    LET s == IF st.total > 0 THEN soFreeIndirectFileClusters(st, st.ip.i1, 0) ELSE st
    IN IF s.total > 0 THEN soFreeDoubleIndirectFileClusters(s, 0) ELSE s

SetCount(st) == IF st.ok THEN [st EXCEPT !.ip.clucnt = st.total] ELSE st
soFreeFileClusters(st, ffcn) ==
    SetCount(CASE ffcn < N_DIRECT -> FreeRest(FreeDirect(st))
               [] ffcn \in N_DIRECT .. FirstDouble - 1 ->
                    soFreeDoubleIndirectFileClusters(
                        soFreeIndirectFileClusters(st, st.ip.i1, ffcn - N_DIRECT), 0)
               [] OTHER ->
                    soFreeDoubleIndirectFileClusters(st, ffcn - N_DIRECT - ReferencesPerBlock))

(***************************************************************************)
(* The operations.                                                         *)
(***************************************************************************)
Done(f, st) ==
    /\ sb' = st.sb
    /\ inode' = [inode EXCEPT ![f] = st.ip]
    /\ store' = st.store
    /\ failed' = (failed \/ ~st.ok)

Reachable(f) == {n \in FileClusterNumbers :
                    /\ ~GetThrows(inode[f], store, n)
                    /\ soGetFileCluster(inode[f], store, n) # NullReference}

(* A reference that is there already is overwritten, and its cluster lost. *)
AllocFileCluster(f, fcn) ==
    /\ Done(f, soAllocFileCluster(State(f), fcn))
    /\ written' = written \ {<<f, fcn>>}

(* What is still reachable after the release is still to be read.          *)
FreeFileClusters(f, ffcn) ==
    /\ Done(f, soFreeFileClusters(State(f), ffcn))
    /\ written' = {w \in written : w[1] # f \/ w[2] \in Reachable(f)'}

(* soWriteFileCluster: the cluster is allocated when there is none.        *)
WriteFileCluster(f, fcn) ==
    LET get == soGetFileCluster(inode[f], store, fcn)
        st == IF GetThrows(inode[f], store, fcn) THEN Throw(State(f))
              ELSE IF get = NullReference THEN soAllocFileCluster(State(f), fcn)
              ELSE [State(f) EXCEPT !.cn = get]
    IN IF st.ok /\ Exists(st.cn)
       THEN /\ Done(f, [st EXCEPT !.store[st.cn] = Content(f, fcn)])
            /\ written' = written \union {<<f, fcn>>}
       ELSE /\ Done(f, Throw(st))
            /\ UNCHANGED written

(* soReadFileCluster clears the buffer for a file cluster that does not    *)
(* exist, and then reads cluster NullReference, which throws.              *)
ReadThrows(f, fcn) ==
    \/ GetThrows(inode[f], store, fcn)
    \/ ~Exists(soGetFileCluster(inode[f], store, fcn))
soReadFileCluster(f, fcn) == store[soGetFileCluster(inode[f], store, fcn)]

Replenish == /\ sb' = soReplenish(sb)
             /\ UNCHANGED <<inode, store, written, failed>>
Deplete == /\ sb' = soDeplete(sb)
           /\ UNCHANGED <<inode, store, written, failed>>

Operation ==
    \/ \E f \in Files, fcn \in Positions :
          \/ AllocFileCluster(f, fcn)
          \/ FreeFileClusters(f, fcn)
          \/ WriteFileCluster(f, fcn)
    \/ Replenish
    \/ Deplete

Next == ops < MaxOps /\ ops' = ops + 1 /\ Operation

Spec == Init /\ [][Next]_vars

(***************************************************************************)
(* Properties                                                              *)
(***************************************************************************)
(* Nothing has happened yet that the code gets wrong: no reference was put *)
(* back into the bitmap (soDeplete sets other bits), no direct clusters    *)
(* were released (their places are given back, not their numbers), none    *)
(* was taken from an empty cache, and no exception was thrown half way.    *)
Undamaged == sb.damage = {} /\ ~failed

(* The insertion cache holds references up to idx and nothing behind it.   *)
(* As long as nothing went wrong no inode has released more clusters than  *)
(* it had counted.                                                         *)
Reference == Nat \union {NullReference}
TypeOK ==
    /\ sb.cfree \in Nat /\ sb.rmidx \in 0 .. BytesPerBlock /\ sb.map \subseteq Nat
    /\ sb.rcache.idx \in 0 .. CacheSize /\ sb.icache.idx \in 0 .. CacheSize
    /\ \A j \in Slots : /\ sb.rcache.ref[j] \in Reference
                        /\ sb.icache.ref[j] \in Reference
                        /\ sb.icache.ref[j] = NullReference <=> j >= sb.icache.idx
    /\ \A f \in Files : /\ inode[f].clucnt \in Int /\ (Undamaged => inode[f].clucnt >= 0)
                        /\ inode[f].i1 \in Reference /\ inode[f].i2 \in Reference
    /\ written \subseteq Files \X FileClusterNumbers

(* The clusters an inode leads to, each with its place.                    *)
Places(f) ==
    LET ip == inode[f]
        table(cn) == IF Exists(cn) THEN RefsIn(store[cn]) ELSE NullRefs
        all == {<<"d", 0, n, ip.d[n]>> : n \in DOMAIN ip.d}
               \union {<<"i1", 0, 0, ip.i1>>, <<"i2", 0, 0, ip.i2>>}
               \union {<<"r", 0, n, table(ip.i1)[n]>> : n \in Refs}
               \union {<<"t", 0, n, table(ip.i2)[n]>> : n \in Refs}
               \union {<<"r", n + 1, m, table(table(ip.i2)[n])[m]>> : n, m \in Refs}
    IN {<<f, p>> : p \in {q \in all : q[4] # NullReference}}
Pool ==
    {<<"map", <<"", 0, 0, p>>>> : p \in sb.map}
    \union {<<"rcache", <<"", 0, j, sb.rcache.ref[j]>>>> : j \in {k \in Slots : k >= sb.rcache.idx}}
    \union {<<"icache", <<"", 0, j, sb.icache.ref[j]>>>> : j \in {k \in Slots : k < sb.icache.idx}}
InUse == UNION {Places(f) : f \in Files}

Sound ==
    \A p, q \in InUse \union Pool :
        p[2][4] = q[2][4] /\ p[2][4] # NullReference => p = q

(* Until then a cluster is in one place at most: in the bitmap, in a cache,*)
(* or used by one file at one place (all of soAlloc*FileCluster and of     *)
(* soReplenish, and the release of indirect clusters).                     *)
SoundUntilDamage == Undamaged => Sound

(* The counts of two structures agree, in spite of all that goes wrong:    *)
(* what the superblock counts as free and what the inodes count as theirs  *)
(* are all clusters but the root's.  After an exception clusters may be    *)
(* counted twice, never forgotten.                                         *)
Accounting ==
    LET counted == MapThenSumSet(LAMBDA f : inode[f].clucnt, Files)
    IN /\ sb.cfree + counted >= CTotal - 1
       /\ failed \/ sb.cfree + counted = CTotal - 1

(* A file cluster that was written and is still there can be read and has  *)
(* what was written for it, whichever file clusters were allocated and     *)
(* written after it and on whichever level (soGetFileCluster and           *)
(* soAllocFileCluster divide a file cluster number alike).                 *)
FileIntact ==
    Undamaged =>
        \A w \in written : /\ ~ReadThrows(w[1], w[2])
                           /\ soReadFileCluster(w[1], w[2]) = Content(w[1], w[2])
=============================================================================
