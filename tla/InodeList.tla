----------------------------- MODULE InodeList -----------------------------
(***************************************************************************)
(* The free inodes of SOFS17 (sofs17/src/ilayers/freelists: soAllocInode,  *)
(* soFreeInode) as mksofs leaves them (fillInInodeTable, fillInSuperBlock).*)
(* They form a double-linked list through the inode table; its head and    *)
(* its length are in the superblock, its tail is the head's predecessor.   *)
(* An inode in use keeps its times where a free one keeps its links.       *)
(*                                                                         *)
(* sofsmount.cpp runs one system call at a time, so an operation is one    *)
(* step.  An inode that is freed is in use (soRmdir has just traversed a   *)
(* path to it); soFreeInode itself does not look.                          *)
(***************************************************************************)
EXTENDS Integers, Sequences, FiniteSets

CONSTANTS
    ITotal,          \* itotal: the inodes of the table
    InodesPerBlock,
    NullReference,
    Time             \* any value of mtime or ctime: not the number of an inode

Inodes == 0 .. ITotal - 1

ASSUME InodeAssumption ==
    /\ ITotal \in Nat /\ InodesPerBlock \in Nat
    /\ 2 <= InodesPerBlock /\ InodesPerBlock <= ITotal
    /\ NullReference \notin 0 .. ITotal
    /\ Time \notin 0 .. ITotal

VARIABLES
    free,          \* the bit INODE_FREE of mode
    next, prev,    \* the fields next/mtime and prev/ctime
    ihead, ifree   \* fields of the superblock

vars == <<free, next, prev, ihead, ifree>>

FreeInodes == {in \in Inodes : free[in]}
tail == IF ifree = 0 THEN NullReference ELSE prev[ihead]

\* Inode 0 is the root directory.  The first block of the table is linked on its own,
\* without looking for the end of the table.
FirstNext(in) == IF in + 2 > ITotal /\ in >= InodesPerBlock THEN 1 ELSE in + 1
FirstPrev(in) == IF in = 1 THEN ITotal - 1 ELSE in - 1

Init ==
    /\ free = [in \in Inodes |-> in # 0]
    /\ next = [in \in Inodes |-> IF in = 0 THEN Time ELSE FirstNext(in)]
    /\ prev = [in \in Inodes |-> IF in = 0 THEN Time ELSE FirstPrev(in)]
    /\ ihead = 1
    /\ ifree = ITotal - 1

-----------------------------------------------------------------------------
(* soAllocInode: the head leaves the list.  With no free inode it throws   *)
(* ENOSPC and changes nothing.                                             *)

\* The new mode and times of the head.
Occupy ==
    /\ ifree > 0
    /\ free' = [free EXCEPT ![ihead] = FALSE]
    /\ ifree' = ifree - 1

AllocOfMany ==
    LET n == next[ihead]
    IN  /\ ifree > 2
        /\ Occupy
        /\ ihead' = n
        /\ next' = [next EXCEPT ![ihead] = Time, ![tail] = n]
        /\ prev' = [prev EXCEPT ![ihead] = Time, ![n] = tail]

AllocOfTwo ==
    LET n == next[ihead]
    IN  /\ ifree = 2
        /\ Occupy
        /\ ihead' = n
        /\ next' = [next EXCEPT ![ihead] = Time, ![n] = n]
        /\ prev' = [prev EXCEPT ![ihead] = Time, ![n] = tail]

\* Mutant: the head keeps the number of the last inode.
AllocKeepsHead ==
    /\ ifree = 1
    /\ Occupy
    /\ next' = [next EXCEPT ![ihead] = Time]
    /\ prev' = [prev EXCEPT ![ihead] = Time]
    /\ UNCHANGED ihead

AllocOfOne ==
    /\ ifree = 1
    /\ Occupy
    /\ ihead' = NullReference
    /\ next' = [next EXCEPT ![ihead] = Time]
    /\ prev' = [prev EXCEPT ![ihead] = Time]

soAllocInode == AllocOfMany \/ AllocOfTwo \/ AllocOfOne

-----------------------------------------------------------------------------
(* soFreeInode: the inode becomes the tail of the list.                    *)

Release(in) ==
    /\ ~free[in]
    /\ free' = [free EXCEPT ![in] = TRUE]
    /\ ifree' = ifree + 1

FreeToNone(in) ==
    /\ ifree = 0
    /\ Release(in)
    /\ ihead' = in
    /\ next' = [next EXCEPT ![in] = in]
    /\ prev' = [prev EXCEPT ![in] = in]

FreeToOne(in) ==
    /\ ifree = 1
    /\ Release(in)
    /\ next' = [next EXCEPT ![ihead] = in, ![in] = ihead]
    /\ prev' = [prev EXCEPT ![ihead] = in, ![in] = ihead]
    /\ UNCHANGED ihead

\* Mutant: the head does not learn that its predecessor has changed.
FreeWithoutHead(in) ==
    /\ ifree > 1
    /\ Release(in)
    /\ next' = [next EXCEPT ![tail] = in, ![in] = ihead]
    /\ prev' = [prev EXCEPT ![in] = tail]
    /\ UNCHANGED ihead

\* Mutant: the inode becomes the head instead of the tail.
FreeAsHead(in) ==
    /\ ifree > 1
    /\ Release(in)
    /\ next' = [next EXCEPT ![tail] = in, ![in] = ihead]
    /\ prev' = [prev EXCEPT ![in] = tail, ![ihead] = in]
    /\ ihead' = in

FreeToMany(in) ==
    /\ ifree > 1
    /\ Release(in)
    /\ next' = [next EXCEPT ![tail] = in, ![in] = ihead]
    /\ prev' = [prev EXCEPT ![in] = tail, ![ihead] = in]
    /\ UNCHANGED ihead

soFreeInode(in) == FreeToNone(in) \/ FreeToOne(in) \/ FreeToMany(in)

Next == soAllocInode \/ \E in \in Inodes : soFreeInode(in)

Spec == Init /\ [][Next]_vars

-----------------------------------------------------------------------------
(* Properties. *)

\* Type invariant.  A link of the first block may point one past the table.
TypeOK ==
    /\ free \in [Inodes -> BOOLEAN]
    /\ next \in [Inodes -> (0 .. ITotal) \union {Time}]
    /\ prev \in [Inodes -> Inodes \union {Time}]
    /\ ihead \in Inodes \union {NullReference}
    /\ ifree \in 0 .. ITotal
    /\ ihead = NullReference <=> ifree = 0

\* The list links exactly the free inodes: the superblock counts them, head and tail are
\* free, every one but the tail is linked to another free inode and back, and so is every
\* one but the head the other way round.  Tail and head are linked too, except in a table
\* of one block before its first use (soAllocInode, soFreeInode).
FreeListLinked ==
    /\ ifree = Cardinality(FreeInodes)
    /\ ifree > 0 => ihead \in FreeInodes /\ tail \in FreeInodes
    /\ \A in \in FreeInodes \ {tail} :
          next[in] \in FreeInodes \ {ihead} /\ prev[next[in]] = in
    /\ \A in \in FreeInodes \ {ihead} :
          prev[in] \in FreeInodes \ {tail} /\ next[prev[in]] = in
    /\ ifree > 0 /\ ITotal > InodesPerBlock => next[tail] = ihead

\* The free inodes from the head on.
FreeList ==
    CHOOSE q \in [1 .. ifree -> FreeInodes] :
        /\ ifree > 0 => q[1] = ihead
        /\ \A k \in 1 .. ifree - 1 : q[k + 1] = next[q[k]]

Queue == INSTANCE InodeQueue WITH
            Initially <- [k \in 1 .. ITotal - 1 |-> k],
            unused <- FreeList, inUse <- Inodes \ FreeInodes

\* Allocation and release are those of a queue of unused inodes: never an inode that is
\* in use, always the one unused for longest, none lost.
ImplementsInodeQueue == Queue!Spec
=============================================================================
