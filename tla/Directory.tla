----------------------------- MODULE Directory -----------------------------
(***************************************************************************)
(* The root directory of a formatted volume and the operations on its      *)
(* entries (sofs17/src/ilayers/direntries).  It is one cluster of entries  *)
(* and stays so: soAddDirEntry never changes the size of a directory, and  *)
(* soMkdir never gets as far as creating another one.  Names are compared  *)
(* as wholes; the tests for an empty and for a long name are left out, the *)
(* calls of a mount do not reach them (sizeof of a pointer is never more   *)
(* than SOFS17_MAX_NAME).                                                  *)
(***************************************************************************)
EXTENDS Integers, FiniteSets, FiniteSetsExt

CONSTANTS
    Names,                 \* of the files
    Inodes,                \* numbers of inodes, the root's apart
    Root,                  \* the number of the root's inode
    NullReference,
    NoName,                \* the name of a clean entry
    DirentriesPerCluster

ASSUME DirectoryAssumption ==
    /\ DirentriesPerCluster \in Nat /\ DirentriesPerCluster > 2
    /\ Root \notin Inodes /\ NullReference \notin Inodes \union {Root}
    /\ NoName \notin Names \union {".", ".."}
    /\ Names \intersect {".", ".."} = {}

Slots == 0 .. DirentriesPerCluster - 1
Entry(n, in) == [name |-> n, in |-> in]
Clean == Entry(NoName, NullReference)
Entries == {Clean} \union [name : Names \union {".", ".."}, in : Inodes \union {Root}]

(* The root directory of a volume that was just formatted.                 *)
NewDirectory ==
    [s \in Slots |-> IF s = 0 THEN Entry(".", Root) ELSE IF s = 1 THEN Entry("..", Root) ELSE Clean]

Of(dir, n) == {s \in Slots : dir[s].name = n}
First(dir, n) == Min(Of(dir, n))

(* soGetDirEntry, and when it throws.                                      *)
NoEntry(dir, n) == Of(dir, n) = {}
soGetDirEntry(dir, n) == dir[First(dir, n)].in

(* A mutant of soDeleteDirEntry: the entry is deleted but not cleaned.     *)
DeleteDirty(dir, n) == [dir EXCEPT ![First(dir, n)].name = NoName]

soDeleteDirEntry(dir, n) == [dir EXCEPT ![First(dir, n)] = Clean]

(***************************************************************************)
(* soAddDirEntry.  The file cluster a new entry is written to is           *)
(* cluster2read, which nobody assigns: it may happen to be 0 (the only     *)
(* cluster of the directory), NullReference, or anything else.  The search *)
(* for an empty entry ends at an entry of the same name, and then the      *)
(* entry is written all the same.  Without an empty entry, or with         *)
(* NullReference, a cluster is allocated as file cluster first_nullref;    *)
(* if this is NullReference too, an array on the stack is used far behind  *)
(* its end.  The outcomes:                                                 *)
(*   "added"      the first empty entry of the cluster gets the name       *)
(*   "elsewhere"  the entry goes to a cluster behind the directory's end   *)
(*   "thrown"     it goes nowhere, with an exception                       *)
(*   "replaced"   the directory's only cluster is replaced by a new one    *)
(*   "crashed"    the process dies                                         *)
(***************************************************************************)
Uninitialised == {"zero", "NullReference", "other"}

EmptyBeforeTaken(dir, n) ==
    /\ Of(dir, NoName) # {}
    /\ NoEntry(dir, n) \/ First(dir, NoName) < First(dir, n)

AddOutcomes(dir, n, cluster2read) ==
    IF cluster2read = "NullReference" THEN {"replaced", "thrown"}
    ELSE IF ~EmptyBeforeTaken(dir, n) THEN {"crashed", "thrown"}
    ELSE IF cluster2read = "zero" THEN {"added"}
    ELSE {"elsewhere", "thrown", "crashed"}

soAddDirEntry(dir, n, in) == [dir EXCEPT ![First(dir, NoName)] = Entry(n, in)]

(***************************************************************************)
(* soCheckEmptiness of the root: an entry that is clean refers to          *)
(* NullReference, which is not 0, and counts as used.                      *)
(***************************************************************************)
soCheckEmptiness(dir) == \A s \in Slots \ {0, 1} : dir[s].in = Root

(***************************************************************************)
(* soTraversePath of a name in the root: the inode of its entry; a link is *)
(* followed, an absolute one by traversing its path in turn (for ever, if  *)
(* it leads back to itself), a relative one by one more look in the        *)
(* directory (PathVerification).  "ENOENT" and "endless" are the other     *)
(* outcomes.  inode[i].to is the name in the link and inode[i].absolute    *)
(* tells whether a / is before it.                                         *)
(***************************************************************************)
PathVerification(dir, n) == IF NoEntry(dir, n) THEN "ENOENT" ELSE soGetDirEntry(dir, n)

Followed(dir, inode, first) ==
    LET after[k \in 0 .. Cardinality(Names), in \in Inodes \union {Root}] ==
            LET to == inode[in].to
            IN  IF inode[in].kind # "link" THEN in
                ELSE IF ~inode[in].absolute THEN PathVerification(dir, to)
                ELSE IF NoEntry(dir, to) THEN "ENOENT"
                ELSE IF k = 0 THEN "endless"
                ELSE after[k - 1, soGetDirEntry(dir, to)]
    IN  after[Cardinality(Names), first]

soTraversePath(dir, inode, name) ==
    IF NoEntry(dir, name) THEN "ENOENT" ELSE Followed(dir, inode, soGetDirEntry(dir, name))
=============================================================================
