---------------------------- MODULE InodeQueue ----------------------------
(***************************************************************************)
(* What the users of the inode table are promised: an inode that nobody    *)
(* uses, as long as there is one, and always the one that has been unused  *)
(* for longest.                                                            *)
(***************************************************************************)
EXTENDS Sequences

CONSTANTS Inodes, Initially

VARIABLES unused, inUse

vars == <<unused, inUse>>

Init ==
    /\ unused = Initially
    /\ inUse = {in \in Inodes : \A k \in DOMAIN Initially : Initially[k] # in}

Alloc ==
    /\ unused # <<>>
    /\ Head(unused) \notin inUse
    /\ inUse' = inUse \union {Head(unused)}
    /\ unused' = Tail(unused)

Free(in) ==
    /\ in \in inUse
    /\ inUse' = inUse \ {in}
    /\ unused' = Append(unused, in)

Spec == Init /\ [][Alloc \/ \E in \in Inodes : Free(in)]_vars
=============================================================================
