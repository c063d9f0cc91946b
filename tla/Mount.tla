------------------------------- MODULE Mount -------------------------------
(***************************************************************************)
(* A mounted volume (sofs17/src/sofsmount/sofsmount.cpp and syscalls).     *)
(* FUSE calls a handler in a thread of its own for every request; a        *)
(* handler locks accessCR, does one system call, unlocks and replies.      *)
(* Several clients make requests at once, one each at a time; a request    *)
(* names a file in the root, the only directory there is.                  *)
(*                                                                         *)
(* The system calls that src/ only hands on to its binary library are      *)
(* external: those that create and delete links do what their man pages    *)
(* say, the others only tell whether the name exists.  A file made in a    *)
(* mount has no clusters, so a write fails at the soReadFileCluster before *)
(* it.  Not modelled: contents, attributes but one permission bit, and     *)
(* the use counts of the open inodes, which the code increments on paths   *)
(* that never decrement them.                                              *)
(***************************************************************************)
EXTENDS Directory

CONSTANTS
    Clients,
    Nobody,        \* holds the mutex when no thread does
    FirstFiles,    \* the names on the volume when it is mounted
    MaxCalls,      \* bound: how many requests there are
    MaxSize        \* bound: the sizes that a write leaves

ASSUME MountAssumption ==
    /\ MaxCalls \in Nat /\ MaxSize \in Nat /\ Nobody \notin Clients
    /\ FirstFiles \subseteq Names
    /\ IsFiniteSet(Names) /\ IsFiniteSet(Inodes)
    /\ Cardinality(FirstFiles) < Cardinality(Slots) - 1
    /\ Cardinality(FirstFiles) <= Cardinality(Inodes)

VARIABLES
    volume,        \* "new", "open", "failed" (not opened), "closed", "replaced", "crashed"
    accessCR,
    pc,            \* where the thread serving a client is
    req,           \* the request of each client
    ret,           \* the reply to it until it is given, "none" before
    cin,           \* soRenameDirEntry's local: the inode of the entry it deleted
    dir,           \* the root directory
    inode,         \* kind, lnkcnt, rwx, size, and for a link its path
    listing,       \* of each client: where it is in the directory
    lost,          \* history: links that soAddDirEntry wrote nowhere
    calls          \* history: requests, not counting those within a listing
vars == <<volume, accessCR, pc, req, ret, cin, dir, inode, listing, lost, calls>>

FreeInode ==
    [kind |-> "free", lnkcnt |-> 0, rwx |-> FALSE, size |-> 0, to |-> NoName, absolute |-> FALSE]
File(rwx) == [FreeInode EXCEPT !.kind = "file", !.lnkcnt = 1, !.rwx = rwx]
SymbolicLink(n, absolute) == [File(TRUE) EXCEPT !.kind = "link", !.to = n, !.absolute = absolute]

(* kept: the entries that were there when the listing began and that       *)
(* nobody has touched since; listed: those it has been given.              *)
NoListing == [on |-> FALSE, offset |-> 0, kept |-> {}, listed |-> {}, again |-> FALSE]
Request(op, name, new) == [op |-> op, name |-> name, new |-> new]
Idle == Request("flush", NoName, NoName)

(* A volume that was used before: its files are anywhere in the root.      *)
Injections(S, T) == {f \in [S -> T] : \A x, y \in S : f[x] = f[y] => x = y}
FirstInode == CHOOSE f \in Injections(FirstFiles, Inodes) : TRUE
With(place) == [s \in Slots |->
    IF \E n \in FirstFiles : place[n] = s
    THEN LET n == CHOOSE n \in FirstFiles : place[n] = s IN Entry(n, FirstInode[n])
    ELSE NewDirectory[s]]

Init ==
    /\ volume = "new"
    /\ accessCR = Nobody
    /\ pc = [c \in Clients |-> "idle"]
    /\ req = [c \in Clients |-> Idle]
    /\ ret = [c \in Clients |-> "none"]
    /\ cin = [c \in Clients |-> NullReference]
    /\ \E place \in Injections(FirstFiles, Slots \ {0, 1}) : dir = With(place)
    /\ inode = [i \in Inodes |->
           IF \E n \in FirstFiles : FirstInode[n] = i THEN File(TRUE) ELSE FreeInode]
    /\ listing = [c \in Clients |-> NoListing]
    /\ lost = [i \in Inodes |-> 0]
    /\ calls = 0

(***************************************************************************)
(* The first and the last handler.  A volume that could not be opened is   *)
(* mounted nevertheless: sofs_mount returns NULL, which FUSE hands to the  *)
(* handlers and nobody tests.                                              *)
(***************************************************************************)
sofs_mount ==
    /\ volume = "new"
    /\ volume' \in {"open", "failed"}
    /\ UNCHANGED <<accessCR, pc, req, ret, cin, dir, inode, listing, lost, calls>>

sofs_unmount ==
    /\ volume \in {"open", "failed"}
    /\ \A c \in Clients : pc[c] = "idle" /\ ~listing[c].on
    /\ accessCR = Nobody
    /\ volume' = "closed"
    /\ UNCHANGED <<accessCR, pc, req, ret, cin, dir, inode, listing, lost, calls>>

(***************************************************************************)
(* What the handlers have in common: a request arrives (who lists the      *)
(* directory asks for nothing else meanwhile), the thread waits for the    *)
(* mutex, then comes the call, then the thread unlocks and replies.        *)
(***************************************************************************)
ArriveAt(c, r, there) ==
    /\ volume \in {"open", "failed"}
    /\ pc[c] = "idle"
    /\ calls < MaxCalls \/ listing[c].on
    /\ calls' = IF listing[c].on THEN calls ELSE calls + 1
    /\ req' = [req EXCEPT ![c] = r]
    /\ ret' = [ret EXCEPT ![c] = "none"]
    /\ pc' = [pc EXCEPT ![c] = there]
    /\ UNCHANGED <<volume, accessCR, cin, dir, inode, listing, lost>>

Arrive(c, r) == ~listing[c].on /\ ArriveAt(c, r, "lock")

Lock(c) ==
    /\ volume \in {"open", "failed"}
    /\ pc[c] = "lock"
    /\ accessCR = Nobody
    /\ accessCR' = c
    /\ pc' = [pc EXCEPT ![c] = "call"]
    /\ UNCHANGED <<volume, req, ret, cin, dir, inode, listing, lost, calls>>

(* A mutant of Unlock: a reply without unlocking.                          *)
UnlockNever(c) ==
    /\ volume \in {"open", "failed"}
    /\ pc[c] = "unlock"
    /\ UNCHANGED accessCR
    /\ pc' = [pc EXCEPT ![c] = "idle"]
    /\ req' = [req EXCEPT ![c] = Idle]
    /\ ret' = [ret EXCEPT ![c] = "none"]
    /\ UNCHANGED <<volume, cin, dir, inode, listing, lost, calls>>

Unlock(c) ==
    /\ volume \in {"open", "failed"}
    /\ pc[c] = "unlock"
    /\ accessCR' = Nobody
    /\ pc' = [pc EXCEPT ![c] = "idle"]
    /\ req' = [req EXCEPT ![c] = Idle]
    /\ ret' = [ret EXCEPT ![c] = "none"]
    /\ UNCHANGED <<volume, cin, dir, inode, listing, lost, calls>>

(* The volume is open and the thread is at the call of op.                 *)
Calling(c, op) == volume = "open" /\ pc[c] = "call" /\ req[c].op = op

Reply(c, r) ==
    /\ ret' = [ret EXCEPT ![c] = r]
    /\ pc' = [pc EXCEPT ![c] = "unlock"]

(* The reply to a call that changes nothing.                               *)
Fail(c, r) == Reply(c, r) /\ UNCHANGED <<volume, accessCR, req, cin, dir, inode, listing, lost, calls>>

(* The name of the request has an entry; its inode.                        *)
Here(c) == ~NoEntry(dir, req[c].name)
Target(c) == soGetDirEntry(dir, req[c].name)
Traversed(c) == soTraversePath(dir, inode, req[c].name)

(* The entries that newdir leaves as they were.                            *)
Kept(newdir) ==
    [c \in Clients |-> [listing[c] EXCEPT !.kept = {s \in @ : newdir[s] = dir[s]}]]

(* The process dies, or goes on with another root directory; the model     *)
(* ends here.                                                              *)
End(how) ==
    /\ volume' = how
    /\ UNCHANGED <<accessCR, pc, req, ret, cin, dir, inode, listing, lost, calls>>

(* A volume that is not open: every system call throws.                    *)
CallFailed(c) == volume = "failed" /\ pc[c] = "call" /\ Fail(c, "error")

(***************************************************************************)
(* Handlers whose system call changes nothing that is modelled.  The       *)
(* extended attributes and getdir are refused without the mutex.           *)
(***************************************************************************)
Ask(c) == \E n \in Names : Arrive(c, Request("ask", n, NoName))
(* A mutant of sofs_getattr: without the mutex.                            *)
GetattrUnlocked(c) ==
    \E n \in Names : ~listing[c].on /\ ArriveAt(c, Request("ask", n, NoName), "call")
sofs_getattr(c) == Ask(c)
sofs_access(c) == Ask(c)
sofs_chmod(c) == Ask(c)
sofs_chown(c) == Ask(c)
sofs_utime(c) == Ask(c)
sofs_open(c) == Ask(c)
sofs_read(c) == Ask(c)
sofs_release(c) == Ask(c)
sofs_fsync(c) == Ask(c)

Answer(c) ==
    /\ Calling(c, "ask")
    /\ Fail(c, IF Here(c) THEN "found" ELSE "missing")

sofs_flush(c) == Arrive(c, Idle)
sofs_statfs(c) == Arrive(c, Idle)
sofs_releasedir(c) == Arrive(c, Idle)
sofs_fsyncdir(c) == Arrive(c, Idle)
sofs_readlink(c) == Arrive(c, Idle)          \* which drops the result
Nothing(c) == Calling(c, "flush") /\ Fail(c, "ok")

Refuse(c) ==
    /\ ArriveAt(c, Idle, "idle")
    /\ ~listing[c].on
sofs_setxattr(c) == Refuse(c)
sofs_getxattr(c) == Refuse(c)
sofs_listxattr(c) == Refuse(c)
sofs_removexattr(c) == Refuse(c)
sofs_getdir(c) == Refuse(c)

Queries(c) ==
    \/ sofs_getattr(c) \/ sofs_access(c) \/ sofs_chmod(c) \/ sofs_chown(c) \/ sofs_utime(c)
    \/ sofs_open(c) \/ sofs_read(c) \/ sofs_release(c) \/ sofs_fsync(c) \/ Answer(c)
    \/ sofs_flush(c) \/ sofs_statfs(c) \/ sofs_releasedir(c) \/ sofs_fsyncdir(c)
    \/ sofs_readlink(c) \/ Nothing(c)
    \/ sofs_setxattr(c) \/ sofs_getxattr(c) \/ sofs_listxattr(c) \/ sofs_removexattr(c)
    \/ sofs_getdir(c)

(***************************************************************************)
(* Making and deleting links: external, but for the exceptions, which      *)
(* become replies.                                                         *)
(***************************************************************************)
sofs_mknod(c) == \E n \in Names : Arrive(c, Request("mknod", n, NoName))
sofs_symlink(c) == \E n, to \in Names : Arrive(c, Request("symlink", n, to))
sofs_link(c) == \E n, new \in Names : Arrive(c, Request("link", n, new))
sofs_unlink(c) == \E n \in Names : Arrive(c, Request("unlink", n, NoName))

AddLink(c, n, in, contents) ==
    /\ Reply(c, "ok")
    /\ dir' = soAddDirEntry(dir, n, in)
    /\ inode' = [inode EXCEPT ![in] = contents]
    /\ listing' = Kept(dir')
    /\ UNCHANGED <<volume, accessCR, req, cin, lost, calls>>

Room(n) == NoEntry(dir, n) /\ Of(dir, NoName) # {}
Unused == {i \in Inodes : inode[i].kind = "free"}

MakeInode(c, contents) ==
    IF Room(req[c].name) /\ Unused # {}
    THEN \E i \in Unused : AddLink(c, req[c].name, i, contents)
    ELSE Fail(c, "error")

soMknod(c) == Calling(c, "mknod") /\ \E rwx \in BOOLEAN : MakeInode(c, File(rwx))

soSymlink(c) ==
    /\ Calling(c, "symlink")
    /\ \E absolute \in BOOLEAN : MakeInode(c, SymbolicLink(req[c].new, absolute))

soLink(c) ==
    /\ Calling(c, "link")
    /\ IF Here(c) /\ Room(req[c].new)
       THEN AddLink(c, req[c].new, Target(c), [inode[Target(c)] EXCEPT !.lnkcnt = @ + 1])
       ELSE Fail(c, "error")

(* A mutant of Unlinked: an inode without links is not freed.              *)
UnlinkedKept(in) == [inode[in] EXCEPT !.lnkcnt = @ - 1]
Unlinked(in) == IF inode[in].lnkcnt = 1 THEN FreeInode ELSE [inode[in] EXCEPT !.lnkcnt = @ - 1]

soUnlink(c) ==
    /\ Calling(c, "unlink")
    /\ IF Here(c)
       THEN /\ Reply(c, "ok")
            /\ dir' = soDeleteDirEntry(dir, req[c].name)
            /\ inode' = [inode EXCEPT ![Target(c)] = Unlinked(Target(c))]
            /\ listing' = Kept(dir')
            /\ UNCHANGED <<volume, accessCR, req, cin, lost, calls>>
       ELSE Fail(c, "error")

Links(c) ==
    \/ sofs_mknod(c) \/ soMknod(c) \/ sofs_symlink(c) \/ soSymlink(c)
    \/ sofs_link(c) \/ soLink(c) \/ sofs_unlink(c) \/ soUnlink(c)

(***************************************************************************)
(* soMkdir: soGetDirEntry throws where it should return NullReference, so  *)
(* a name that is not taken is an error like one that is.                  *)
(* soRmdir: a name in the root is never that of a directory, and the root  *)
(* is never empty (were it, soCheckEmptiness would read behind its end).   *)
(* soTruncate: a file that is in use is taken for one that is not.         *)
(***************************************************************************)
sofs_mkdir(c) == \E n \in Names : Arrive(c, Request("mkdir", n, NoName))
soMkdir(c) == Calling(c, "mkdir") /\ Fail(c, IF Here(c) THEN "EEXIST" ELSE "ENOENT")

sofs_rmdir(c) == \E n \in Names \union {"/"} : Arrive(c, Request("rmdir", n, NoName))
soRmdir(c) ==
    /\ Calling(c, "rmdir")
    /\ IF req[c].name = "/"
       THEN Fail(c, IF soCheckEmptiness(dir) THEN "EINVAL" ELSE "ENOTEMPTY")
       ELSE IF Traversed(c) = "endless" THEN End("crashed")
       ELSE Fail(c, IF Traversed(c) = "ENOENT" THEN "ENOENT" ELSE "ENOTDIR")

(* Links are followed before a request to truncate or write is made.       *)
AFile(n) == ~NoEntry(dir, n) => inode[soGetDirEntry(dir, n)].kind # "link"

sofs_truncate(c) == \E n \in Names : AFile(n) /\ Arrive(c, Request("truncate", n, NoName))
soTruncate(c) == Calling(c, "truncate") /\ Fail(c, "error")

(* The array of SOFS17_MAX_NAME + 1 characters that soWrite copies the     *)
(* path into is taken to hold it: names are short here.                    *)
sofs_write(c) == \E n \in Names : AFile(n) /\ Arrive(c, Request("write", n, NoName))
soWrite(c) ==
    /\ Calling(c, "write")
    /\ IF Here(c) /\ inode[Target(c)].rwx /\ inode[Target(c)].kind = "file"
       THEN /\ Reply(c, "EINVAL")
            /\ \E size \in 1 .. MaxSize : inode' = [inode EXCEPT ![Target(c)].size = size]
            /\ UNCHANGED <<volume, accessCR, req, cin, dir, listing, lost, calls>>
       ELSE Fail(c, "error")

Others(c) ==
    \/ sofs_mkdir(c) \/ soMkdir(c) \/ sofs_rmdir(c) \/ soRmdir(c)
    \/ sofs_truncate(c) \/ soTruncate(c) \/ sofs_write(c) \/ soWrite(c)

(***************************************************************************)
(* soRename renames within the root whatever directory the new path names. *)
(* A link is followed to see whether its file permits it.  The entry is    *)
(* deleted (soRenameDirEntry), and then added under its new name.          *)
(***************************************************************************)
sofs_rename(c) ==
    \E n, new \in Names : n # new /\ Arrive(c, Request("rename", n, new))

soRename(c) ==
    /\ Calling(c, "rename")
    /\ \/ Traversed(c) = "endless" /\ End("crashed")
       \/ Traversed(c) = "ENOENT" /\ Fail(c, "ENOENT")
       \/ /\ Traversed(c) \notin {"endless", "ENOENT"}
          /\ IF ~inode[Traversed(c)].rwx THEN Fail(c, "EACCES")
             ELSE /\ cin' = [cin EXCEPT ![c] = Target(c)]
                  /\ dir' = soDeleteDirEntry(dir, req[c].name)
                  /\ listing' = Kept(dir')
                  /\ pc' = [pc EXCEPT ![c] = "deleted"]
                  /\ UNCHANGED <<volume, accessCR, req, ret, inode, lost, calls>>

AddRenamed(c, outcome) ==
    /\ cin' = [cin EXCEPT ![c] = NullReference]
    /\ \/ /\ outcome = "added"
          /\ dir' = soAddDirEntry(dir, req[c].new, cin[c])
          /\ Reply(c, "ok")
          /\ UNCHANGED lost
       \/ /\ outcome \in {"elsewhere", "thrown"}
          /\ lost' = [lost EXCEPT ![cin[c]] = @ + 1]
          /\ Reply(c, IF outcome = "thrown" THEN "error" ELSE "ok")
          /\ UNCHANGED dir
    /\ listing' = Kept(dir')
    /\ UNCHANGED <<volume, accessCR, req, inode, calls>>

soRenameDirEntry(c) ==
    /\ volume = "open"
    /\ pc[c] = "deleted"
    /\ \E cluster2read \in Uninitialised :
          \E outcome \in AddOutcomes(dir, req[c].new, cluster2read) :
             IF outcome \in {"replaced", "crashed"} THEN End(outcome) ELSE AddRenamed(c, outcome)

Renames(c) == sofs_rename(c) \/ soRename(c) \/ soRenameDirEntry(c)

(***************************************************************************)
(* Listing: sofs_opendir, then sofs_readdir at the offset that the one     *)
(* before it handed to the filler, until it hands over nothing.  Offsets   *)
(* are counted in entries.  soReaddir takes the first entry with a name    *)
(* from the offset on; if there is none it takes entry 1, and what it      *)
(* returns is 0 or a negative number that looks like an error.             *)
(***************************************************************************)
sofs_opendir(c) == Arrive(c, Request("opendir", NoName, NoName))

soOpendir(c) ==
    /\ Calling(c, "opendir")
    /\ Reply(c, "ok")
    /\ listing' = [listing EXCEPT ![c] =
           [NoListing EXCEPT !.on = TRUE, !.kept = {s \in Slots : dir[s] # Clean}]]
    /\ UNCHANGED <<volume, accessCR, req, cin, dir, inode, lost, calls>>

NamedFrom(offset) == {s \in Slots : s >= offset /\ dir[s].name # NoName}
Aux(offset) == IF NamedFrom(offset) = {} THEN 1 ELSE Min(NamedFrom(offset))
(* A mutant of soReaddir: one entry too far.                               *)
ReaddirSkips(offset) == Aux(offset) - offset + 2
soReaddir(offset) == Aux(offset) - offset + 1
PastCluster(offset) == offset >= DirentriesPerCluster      \* file cluster 1, which does not exist

sofs_readdir(c) ==
    /\ listing[c].on
    /\ ArriveAt(c, Request("readdir", NoName, NoName), "lock")

Fill(c) ==
    LET offset == listing[c].offset
        stat == soReaddir(offset)
    IN  /\ Calling(c, "readdir")
        /\ IF PastCluster(offset) \/ stat <= 0
           THEN /\ Reply(c, IF ~PastCluster(offset) /\ stat = 0 THEN "ok" ELSE "error")
                /\ listing' = [listing EXCEPT ![c] =
                       [NoListing EXCEPT !.kept = listing[c].kept \ listing[c].listed,
                                         !.again = listing[c].again]]
           ELSE /\ Reply(c, "ok")
                /\ listing' = [listing EXCEPT
                       ![c].offset = offset + stat,
                       ![c].again = @ \/ Aux(offset) \in listing[c].listed,
                       ![c].listed = @ \union {Aux(offset)}]
        /\ UNCHANGED <<volume, accessCR, req, cin, dir, inode, lost, calls>>

Lists(c) == sofs_opendir(c) \/ soOpendir(c) \/ sofs_readdir(c) \/ Fill(c)

(***************************************************************************)
(* The specification.  The threads that serve requests run; nobody has to  *)
(* make a request, to go on listing, or to unmount.                        *)
(***************************************************************************)
Serve(c) ==
    \/ Lock(c) \/ Unlock(c) \/ CallFailed(c) \/ Answer(c) \/ Nothing(c)
    \/ soMknod(c) \/ soSymlink(c) \/ soLink(c) \/ soUnlink(c)
    \/ soMkdir(c) \/ soRmdir(c) \/ soTruncate(c) \/ soWrite(c)
    \/ soRename(c) \/ soRenameDirEntry(c) \/ soOpendir(c) \/ Fill(c)

Next ==
    \/ sofs_mount \/ sofs_unmount
    \/ \E c \in Clients :
          \/ Lock(c) \/ Unlock(c) \/ CallFailed(c)
          \/ Queries(c) \/ Links(c) \/ Others(c) \/ Renames(c) \/ Lists(c)

Spec == Init /\ [][Next]_vars
FairSpec == Spec /\ \A c \in Clients : WF_vars(Serve(c))

(* Types; and an inode is free exactly when it has no links.               *)
TypeOK ==
    /\ volume \in {"new", "open", "failed", "closed", "replaced", "crashed"}
    /\ accessCR \in Clients \union {Nobody}
    /\ pc \in [Clients -> {"idle", "lock", "call", "deleted", "unlock"}]
    /\ cin \in [Clients -> Inodes \union {NullReference}]
    /\ dir \in [Slots -> Entries]
    /\ \A i \in Inodes : inode[i].lnkcnt \in Nat /\ (inode[i].lnkcnt = 0 <=> inode[i] = FreeInode)
    /\ \A c \in Clients :
          /\ listing[c].offset \in 0 .. DirentriesPerCluster
          /\ listing[c].kept \subseteq Slots /\ listing[c].listed \subseteq Slots

(* The link count of an inode is the number of entries that refer to it,   *)
(* with the entry that a rename holds between deleting and adding it, and  *)
(* those that soAddDirEntry wrote to a cluster nobody reads: no entry      *)
(* refers to an inode that may be given to another file.                   *)
Renaming == {c \in Clients : pc[c] = "deleted"}
LinksCounted ==
    \A i \in Inodes :
       inode[i].lnkcnt = lost[i] + Cardinality({s \in Slots : dir[s].in = i})
                                 + Cardinality({c \in Renaming : cin[c] = i})

(* Whatever the others do meanwhile, who lists the directory is given each *)
(* entry that nobody touches, and no entry twice: readdir goes by places,  *)
(* soDeleteDirEntry leaves a hole and soAddDirEntry fills one.  This holds *)
(* although the listing ends with an error as soon as there is an entry    *)
(* behind "..".                                                            *)
ListedOnce ==
    \A c \in Clients :
       /\ ~listing[c].again
       /\ {s \in listing[c].kept : s < listing[c].offset} \subseteq listing[c].listed
       /\ ~listing[c].on => listing[c].kept = {}

(* A handler that was called unlocks and replies, whatever the call threw, *)
(* unless the process is gone.                                             *)
Answered ==
    \A c \in Clients : pc[c] # "idle" ~> (pc[c] = "idle" \/ volume \in {"replaced", "crashed"})

(* While a rename is under way its link counts as present under the old    *)
(* name.                                                                   *)
VisibleLinks ==
    IF Renaming = {} THEN dir
    ELSE LET c == CHOOSE x \in Renaming : TRUE IN soAddDirEntry(dir, req[c].name, cin[c])
Asking(c) == req[c].op = "ask"
LastAsked == [c \in Clients |-> IF Asking(c) THEN req[c].name ELSE "."]
LastAnswer ==
    [c \in Clients |-> IF Asking(c) /\ ret[c] \in {"found", "missing"} THEN ret[c] ELSE "none"]
Implemented == INSTANCE Namespace WITH
    Places <- Slots,
    Names <- Names \union {".", ".."},
    NoLink <- Clean,
    links <- VisibleLinks,
    asked <- LastAsked,
    answer <- LastAnswer
(* The directory and the mutex implement Namespace: a rename is seen as    *)
(* one step though it deletes an entry and adds another, and no answer     *)
(* shows what is in between.                                               *)
ImplementsNamespace == Implemented!Spec
=============================================================================
