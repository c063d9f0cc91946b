------------------------------ MODULE Testtool ------------------------------
(***************************************************************************)
(* A session with tools/testtool: commands on inodes, typed one after      *)
(* another on an open disk.  A command opens an inode, works on the copy   *)
(* that the inode dealer holds, saves it and closes it; an exception is    *)
(* caught in main only, so that what the command had opened stays open.    *)
(* The dealers themselves are in the binary library: an inode is open in   *)
(* at most one place of the pool, with the number of those who use it.     *)
(*                                                                         *)
(* soAllocInode and soFreeInode are here as they work on the copies, step  *)
(* by step; InodeList has them in one step each.  A command works on a     *)
(* state st, which is as it was left when st.thrown.  What the commands on *)
(* entries and clusters do to entries and clusters is Directory's and      *)
(* FileClusters' matter; here they open, save and close inodes, also in    *)
(* the layers below, and may throw.  Not all of them close an inode as     *)
(* often as they open it: traversePath leaves inodes open,                 *)
(* freeFileClusters and soFreeInode may close one too often.               *)
(***************************************************************************)
EXTENDS Integers, FiniteSets

CONSTANTS
    ITotal, InodesPerBlock, NullReference, Time,   \* as in InodeList
    Handles,       \* the places of the pool, 100
    LinkMax,       \* 65535
    Perms,         \* bound: the permissions that are set, beside 0, which a new inode has
    Owners,        \* bound: the owners that are set, beside 0, who runs the tool
    MaxCommands    \* bound: how many commands there are

(* Assumed where the module is instantiated.                               *)
TesttoolAssumption ==
    /\ Handles \in Nat \ {0} /\ LinkMax \in Nat /\ MaxCommands \in Nat
    /\ ITotal \in Nat \ {0} /\ NullReference \notin 0 .. ITotal /\ Time \notin 0 .. ITotal

VARIABLES
    device,     \* "closed" (the tool is not running), "open", "formatting", "exited"
    table,      \* the inodes on the disk
    open,       \* the pool: users and copy of each inode that is open
    sb,         \* ihead and ifree of the superblock
    sbDisk,     \* ... on the disk
    told,       \* history: attributes after the commands that were successful
    walk,       \* how far traversePath has come, when that is the command
    left,       \* history: the users of an inode that commands have left, less those they
                \*          closed too often, since the disk was opened
    damage,     \* history: what has happened that breaks the list
    commands    \* history: how many commands there have been
ttvars == <<device, table, open, sb, sbDisk, told, walk, left, damage, commands>>

Inodes == 0 .. ITotal - 1
FirstNext(in) == IF in + 2 > ITotal /\ in >= InodesPerBlock THEN 1 ELSE in + 1
FirstPrev(in) == IF in = 1 THEN ITotal - 1 ELSE in - 1

(* The table of inodes as mksofs leaves it.                                *)
fillInInodeTable ==
    [in \in Inodes |->
        IF in = 0 THEN [free |-> FALSE, next |-> Time, prev |-> Time,
                        lnkcnt |-> 2, perm |-> 1, owner |-> 0]
        ELSE [free |-> TRUE, next |-> FirstNext(in), prev |-> FirstPrev(in),
              lnkcnt |-> 0, perm |-> 0, owner |-> 0]]
fillInSuperBlock == [ihead |-> 1, ifree |-> ITotal - 1]

Attributes(node) == [lnkcnt |-> node.lnkcnt, perm |-> node.perm, owner |-> node.owner]
TellAll(tab) == [in \in Inodes |-> Attributes(tab[in])]

(* How far: at the inode at, with names of the path or of a link to come.  *)
NoWalk == [on |-> "nothing", at |-> 0]

TInit ==
    /\ device = "closed"
    /\ table = fillInInodeTable /\ sb = fillInSuperBlock /\ sbDisk = fillInSuperBlock
    /\ open = <<>>
    /\ told = TellAll(fillInInodeTable)
    /\ walk = NoWalk
    /\ left = [in \in Inodes |-> 0]
    /\ damage = {}
    /\ commands = 0

(***************************************************************************)
(* The dealers.                                                            *)
(***************************************************************************)
State == [open |-> open, table |-> table, sb |-> sb, sbDisk |-> sbDisk, thrown |-> FALSE]
Throw(st) == [st EXCEPT !.thrown = TRUE]
IsOpen(st, in) == in \in DOMAIN st.open

iOpen(st, in) ==
    IF st.thrown THEN st
    ELSE IF IsOpen(st, in) THEN [st EXCEPT !.open[in].users = @ + 1]
    ELSE IF in \in Inodes /\ Cardinality(DOMAIN st.open) < Handles
    THEN [st EXCEPT !.open = [i \in DOMAIN @ \union {in} |->
             IF i = in THEN [users |-> 1, node |-> st.table[in]] ELSE @[i]]]
    ELSE Throw(st)

(* iSave and iClose throw EBADF when nobody has the inode open.            *)
(* A mutant of iSave: nothing is written until the disk is closed.         *)
iSaveLater(st, in) == IF st.thrown \/ IsOpen(st, in) THEN st ELSE Throw(st)
iSave(st, in) ==
    IF st.thrown THEN st
    ELSE IF IsOpen(st, in) THEN [st EXCEPT !.table[in] = st.open[in].node] ELSE Throw(st)

iClose(st, in) ==
    IF st.thrown THEN st
    ELSE IF ~IsOpen(st, in) THEN Throw(st)
    ELSE IF st.open[in].users > 1 THEN [st EXCEPT !.open[in].users = @ - 1]
    ELSE [st EXCEPT !.open = [i \in DOMAIN @ \ {in} |-> @[i]]]

(* A mutant of SaveAndClose: the inode is left open.                       *)
SaveOnly(st, in) == iSave(st, in)
SaveAndClose(st, in) == iClose(iSave(st, in), in)

sbSave(st) == IF st.thrown THEN st ELSE [st EXCEPT !.sbDisk = st.sb]

(* Assignments to a copy that is open, and to the superblock.              *)
Copy(st, in) == st.open[in].node
SetNext(st, in, n) == IF st.thrown THEN st ELSE [st EXCEPT !.open[in].node.next = n]
SetPrev(st, in, p) == IF st.thrown THEN st ELSE [st EXCEPT !.open[in].node.prev = p]
SetSuper(st, ihead, ifree) ==
    IF st.thrown THEN st ELSE [st EXCEPT !.sb = [ihead |-> ihead, ifree |-> ifree]]

(***************************************************************************)
(* soAllocInode.                                                           *)
(***************************************************************************)
(* The head gets a mode without permissions and an owner; its link count   *)
(* stays what it was.                                                      *)
Occupied(node) ==
    [node EXCEPT !.free = FALSE, !.next = Time, !.prev = Time, !.perm = 0, !.owner = 0]
Occupy(st) == IF st.thrown THEN st ELSE [st EXCEPT !.open[st.sb.ihead].node = Occupied(@)]

NewHead(st, next, prev) ==
    CASE st.sb.ifree = 1 -> SetSuper(st, NullReference, 0)
      [] st.sb.ifree = 2 ->
            SaveAndClose(SetNext(SetPrev(iOpen(SetSuper(st, next, 1), next), next, prev),
                                 next, next), next)
      [] OTHER ->
            iClose(iClose(iSave(iSave(
                SetNext(SetPrev(iOpen(iOpen(SetSuper(st, next, st.sb.ifree - 1), next), prev),
                                next, prev), prev, next),
                next), prev), next), prev)

AllocHead(st, node) ==
    IF st.thrown THEN st
    ELSE sbSave(NewHead(SaveAndClose(Occupy(st), st.sb.ihead), node.next, node.prev))

soAllocInode(st) ==
    IF st.sb.ifree = 0 THEN Throw(st)
    ELSE AllocHead(iOpen(st, st.sb.ihead),
                   IF IsOpen(st, st.sb.ihead) THEN Copy(st, st.sb.ihead)
                   ELSE st.table[st.sb.ihead])

(***************************************************************************)
(* soFreeInode.  With one free inode in the list it saves and closes the   *)
(* new one, and then saves and closes it once more.                        *)
(***************************************************************************)
SetFree(st, in) == IF st.thrown THEN st ELSE [st EXCEPT !.open[in].node.free = TRUE]

BesideOne(st, in, head) ==
    SaveAndClose(SaveAndClose(
        SetPrev(SetNext(SetNext(SetPrev(iOpen(st, head), head, in), head, in), in, head), in, head),
        head), in)

SaveEnds(st, head, tail) == SaveAndClose(SaveAndClose(st, head), tail)
(* A mutant of BeforeHead: the head keeps its predecessor.                 *)
BeforeHeadUnlinked(st, in, head, tail) ==
    SetPrev(SetNext(SetNext(iOpen(st, tail), tail, in), in, head), in, tail)
BeforeHead(st, in, head, tail) ==
    SetPrev(SetPrev(SetNext(SetNext(iOpen(st, tail), tail, in), in, head), in, tail), head, in)
BehindTail(st, in, head) ==
    IF st.thrown THEN st
    ELSE SaveEnds(BeforeHead(st, in, head, Copy(st, head).prev), head, Copy(st, head).prev)

AtTail(st, in) ==
    CASE st.sb.ifree = 0 -> SetPrev(SetNext(SetSuper(st, in, 0), in, in), in, in)
      [] st.sb.ifree = 1 -> BesideOne(st, in, st.sb.ihead)
      [] OTHER           -> BehindTail(iOpen(st, st.sb.ihead), in, st.sb.ihead)

CountFree(st) == SetSuper(st, st.sb.ihead, st.sb.ifree + 1)

soFreeInode(st, in) ==
    SaveAndClose(sbSave(CountFree(AtTail(SetFree(iOpen(st, in), in), in))), in)

(***************************************************************************)
(* The commands.  The user may name any inode, free or in use, or a number *)
(* behind the table.  A command, or a step of traversePath, ends with st,  *)
(* and what it leaves of the users of inodes is ledger.                    *)
(***************************************************************************)
Named == 0 .. ITotal
NodeOf(in) == IF in \in DOMAIN open THEN open[in].node ELSE table[in]

Leave(ledger, in) == [ledger EXCEPT ![in] = @ + 1]
(* A command with in open that ends with an exception leaves a user of it. *)
Kept(st, in) == IF st.thrown /\ in \in DOMAIN st.open THEN Leave(left, in) ELSE left
(* ... and one that closes it once too often takes one when it succeeds.   *)
TookBack(st, in) == IF st.thrown THEN Kept(st, in) ELSE [left EXCEPT ![in] = @ - 1]

Step(st, ledger) ==
    /\ device = "open" /\ commands < MaxCommands
    /\ table' = st.table /\ open' = st.open /\ sb' = st.sb /\ sbDisk' = st.sbDisk
    /\ left' = ledger
    /\ commands' = commands + 1
    /\ UNCHANGED device

Command(st, ledger) == walk = NoWalk /\ Step(st, ledger) /\ UNCHANGED walk

Damage(condition, how) == IF condition THEN {how} ELSE {}

allocInode ==
    \E st \in {soAllocInode(State)} :
        /\ Command(st, left)
        /\ told' = IF st.table = table THEN told
                   ELSE [told EXCEPT ![sb.ihead] = [lnkcnt |-> @.lnkcnt, perm |-> 0, owner |-> 0]]
        /\ damage' = damage \union Damage(st.thrown /\ st.table # table, "half allocated")

(* Beside a single free inode, it succeeds when in had been left open.     *)
freeInode ==
    \E in \in Named : \E st \in {soFreeInode(State, in)} :
        /\ Command(st, IF sb.ifree = 1 THEN TookBack(st, in) ELSE Kept(st, in))
        /\ damage' = damage
              \union Damage(st.open # open /\ st.sbDisk = sbDisk, "half freed")
              \union Damage(st.sbDisk # sbDisk /\ NodeOf(in).free, "freed twice")
        /\ UNCHANGED told

(* iOpen, a change of the copy that may throw, iSave, iClose.              *)
Change(st, in, node, throws) ==
    IF st.thrown THEN st
    ELSE IF throws THEN Throw(st)
    ELSE SaveAndClose([st EXCEPT !.open[in].node = node], in)

ChangeInode(in, node, throws) ==
    \E st \in {Change(iOpen(State, in), in, node, throws)} :
        /\ Command(st, Kept(st, in))
        /\ told' = IF st.thrown THEN told ELSE [told EXCEPT ![in] = Attributes(node)]

(* iSetAccess keeps what is above the permissions and adds all of the      *)
(* number, of which one bit is INODE_FREE.                                 *)
setInodeAccess ==
    \E in \in Inodes, perm \in Perms, sticky \in BOOLEAN :
        /\ ChangeInode(in, [NodeOf(in) EXCEPT !.perm = perm, !.free = @ \/ sticky], FALSE)
        /\ damage' = damage \union Damage(sticky /\ table' # table /\ ~NodeOf(in).free,
                                          "marked free")

changeOwnership ==
    /\ \E in \in Inodes, owner \in Owners :
          ChangeInode(in, [NodeOf(in) EXCEPT !.owner = owner], FALSE)
    /\ UNCHANGED damage

decInodeLnkcnt ==
    /\ \E in \in Inodes :
          ChangeInode(in, [NodeOf(in) EXCEPT !.lnkcnt = IF @ = 0 THEN 0 ELSE @ - 1], FALSE)
    /\ UNCHANGED damage

incInodeLnkcnt ==
    /\ \E in \in Inodes :
          ChangeInode(in, [NodeOf(in) EXCEPT !.lnkcnt = @ + 1], NodeOf(in).lnkcnt = LinkMax)
    /\ UNCHANGED damage

(* Commands that change nothing that is modelled here, and may throw: an   *)
(* access that is no access, a name without an entry, a file cluster that  *)
(* is not there.                                                           *)
Asks(in, throws) ==
    \E st \in {iOpen(State, in)} :
        \E end \in {IF st.thrown THEN st ELSE IF throws THEN Throw(st) ELSE iClose(st, in)} :
            /\ Command(end, Kept(end, in))
            /\ UNCHANGED <<told, damage>>

checkInodeAccess == \E in \in Named, throws \in BOOLEAN : Asks(in, throws)
getDirEntry == \E in \in Named, throws \in BOOLEAN : Asks(in, throws)
getFileCluster == \E in \in Named, throws \in BOOLEAN : Asks(in, throws)
readFileCluster == \E in \in Named, throws \in BOOLEAN : Asks(in, throws)

(* ... and that save the inode when they succeed.  The layers below may    *)
(* have taken a cluster from the superblock or given one back, and have    *)
(* saved the inode with its new reference.                                 *)
Below(st, in) == {st, sbSave(st), iSave(sbSave(st), in)}

Hands(in, throws) ==
    \E st \in Below(iOpen(State, in), in) :
        \E end \in {IF throws THEN Throw(st) ELSE SaveAndClose(st, in)} :
            /\ Command(end, Kept(end, in))
            /\ UNCHANGED <<told, damage>>

addDirEntry == \E in \in Named, throws \in BOOLEAN : Hands(in, throws)
renameDirEntry == \E in \in Named, throws \in BOOLEAN : Hands(in, throws)
deleteDirEntry == \E in \in Named, throws \in BOOLEAN : Hands(in, throws)
allocFileCluster == \E in \in Named, throws \in BOOLEAN : Hands(in, throws)
writeFileCluster == \E in \in Named, throws \in BOOLEAN : Hands(in, throws)

(* soFreeFileClusters saves and closes the inode that the command has      *)
(* opened, and the command saves and closes it again.  So it ends with an  *)
(* exception although all was done, or, when the inode had been left open, *)
(* closes it once too often.                                               *)
soFreeFileClusters(st, in) == sbSave(SaveAndClose(st, in))

freeFileClusters ==
    \E in \in Named : \E st \in {iOpen(State, in)} :
        \E end \in {Throw(st), Throw(sbSave(st)), SaveAndClose(soFreeFileClusters(st, in), in)} :
            /\ Command(end, TookBack(end, in))
            /\ UNCHANGED <<told, damage>>

(* The commands on the lists of clusters: what they may do here is to save *)
(* the superblock.                                                         *)
SavesSuper ==
    \E st \in {State, sbSave(State)} :
        /\ Command(st, left)
        /\ UNCHANGED <<told, damage>>

allocCluster == SavesSuper
freeCluster == SavesSuper
replenish == SavesSuper
deplete == SavesSuper

(* The tool asks for the next command.                                     *)
Prompt == device = "open" /\ walk = NoWalk /\ commands < MaxCommands

exec ==
    /\ Prompt
    /\ \/ allocInode \/ freeInode
       \/ setInodeAccess \/ changeOwnership \/ decInodeLnkcnt \/ incInodeLnkcnt
       \/ checkInodeAccess \/ getDirEntry \/ getFileCluster \/ readFileCluster
       \/ addDirEntry \/ renameDirEntry \/ deleteDirEntry
       \/ allocFileCluster \/ writeFileCluster \/ freeFileClusters
       \/ allocCluster \/ freeCluster \/ replenish \/ deplete

(***************************************************************************)
(* traversePath, one name of the path after another.  Each name opens the  *)
(* directory twice and closes it once, and opens what it finds, which      *)
(* nobody closes.  A path that does not begin with "/" takes the tool into *)
(* an endless recursion, which killed stands for.                          *)
(***************************************************************************)
traversePath ==
    /\ device = "open" /\ walk = NoWalk
    /\ walk' = [on |-> "path", at |-> 0]
    /\ UNCHANGED <<device, table, open, sb, sbDisk, told, left, damage, commands>>

Walks(st, ledger, to) == Step(st, ledger) /\ walk' = to /\ UNCHANGED <<told, damage>>

Opened == iOpen(iOpen(State, walk.at), walk.at)

(* A name that cannot be looked up: no permission, no directory, no entry. *)
refuseName ==
    /\ walk.on = "path"
    /\ \E st \in {Throw(Opened)} :
          Walks(st, IF walk.at \in DOMAIN st.open THEN Leave(Kept(st, walk.at), walk.at) ELSE left,
                NoWalk)

(* What is found may be a link: to another path, or relative to the        *)
(* directory it was found in.                                              *)
nextName ==
    /\ walk.on = "path"
    /\ \E found \in Named : \E st \in {iOpen(iClose(Opened, walk.at), found)} :
          IF st.thrown THEN Walks(st, Kept(st, walk.at), NoWalk)
          ELSE \E to \in {[on |-> "path", at |-> found], [on |-> "path", at |-> 0],
                          [on |-> "link", at |-> walk.at]} :
                   Walks(st, Leave(Leave(left, walk.at), found), to)

(* PathVerification: the names of a relative link, each opens the          *)
(* directory and nobody closes it.                                         *)
nextNameOfLink ==
    /\ walk.on = "link"
    /\ \E found \in Named : \E st \in {iOpen(State, walk.at)} :
          IF st.thrown THEN Walks(st, left, NoWalk)
          ELSE Walks(st, Leave(left, walk.at), [on |-> "link", at |-> found])

endOfLink == walk.on = "link" /\ walk' = [walk EXCEPT !.on = "path"]

(* The end of the path, or an exception behind the last iOpen: a link that *)
(* cannot be read, a name in a link that cannot be looked up.              *)
endOfPath == walk # NoWalk /\ walk' = NoWalk

traverse ==
    \/ traversePath \/ refuseName \/ nextName \/ nextNameOfLink
    \/ /\ endOfLink \/ endOfPath
       /\ UNCHANGED <<device, table, open, sb, sbDisk, told, left, damage, commands>>

(***************************************************************************)
(* Opening and closing the disk.                                           *)
(***************************************************************************)
Saved == [in \in Inodes |-> NodeOf(in)]

soCloseDisk ==
    /\ device = "open" /\ walk = NoWalk
    /\ table' = Saved
    /\ sbDisk' = sb
    /\ open' = <<>>
    /\ left' = [in \in Inodes |-> 0]
    /\ UNCHANGED <<sb, told, walk, damage>>

quit == soCloseDisk /\ device' = "closed" /\ UNCHANGED commands

killed ==
    /\ device = "open"
    /\ device' = "closed"
    /\ open' = <<>>
    /\ sb' = sbDisk
    /\ walk' = NoWalk
    /\ left' = [in \in Inodes |-> 0]
    /\ UNCHANGED <<table, sbDisk, told, damage, commands>>

soOpenDisk ==
    /\ device = "closed" /\ commands < MaxCommands
    /\ device' = "open"
    /\ UNCHANGED <<table, open, sb, sbDisk, told, walk, left, damage, commands>>

(* The disk is closed, mksofs is run, the disk is opened; without the      *)
(* magic number it cannot be opened, and the tool exits.                   *)
formatDisk ==
    /\ soCloseDisk /\ commands < MaxCommands
    /\ device' = "formatting"
    /\ commands' = commands + 1

Reopen(outcome) ==
    /\ device = "formatting"
    /\ device' = IF outcome = "no volume" THEN "exited" ELSE "open"
    /\ IF outcome = "new volume"
       THEN /\ table' = fillInInodeTable
            /\ sb' = fillInSuperBlock /\ sbDisk' = fillInSuperBlock
            /\ told' = TellAll(fillInInodeTable)
            /\ damage' = {}
       ELSE UNCHANGED <<table, sb, sbDisk, told, damage>>
    /\ UNCHANGED <<open, walk, left, commands>>

main == exec \/ traverse \/ quit \/ killed \/ soOpenDisk

(***************************************************************************)
(* Properties                                                              *)
(***************************************************************************)
(* What a command has reported is on the disk, and whoever opens the inode *)
(* sees it, also when the tool is killed after the command: every command  *)
(* that changes an inode saves it, and the copy that a failed command has  *)
(* left open is the one the next command works on.                         *)
AttributesLast ==
    \A in \in Inodes : /\ Attributes(table[in]) = told[in]
                       /\ Attributes(NodeOf(in)) = told[in]

(* The users of an inode are exactly those that commands have left: one of *)
(* each command that failed with the inode open, one of each directory and *)
(* of each inode that a path has led through (two of the directory where   *)
(* it was refused), less one for each time that soFreeInode, beside a      *)
(* single free inode, or freeFileClusters succeeded.  In particular every  *)
(* other command that succeeds gives back all the users it has taken.      *)
HandlesAccounted ==
    damage \intersect {"half allocated", "half freed"} = {} =>
        \A in \in Inodes :
            left[in] = IF in \in DOMAIN open THEN open[in].users ELSE 0

List == INSTANCE InodeList WITH
           free <- [in \in Inodes |-> table[in].free],
           next <- [in \in Inodes |-> table[in].next],
           prev <- [in \in Inodes |-> table[in].prev],
           ihead <- sbDisk.ihead, ifree <- sbDisk.ifree

(* On the disk, every command is one step of InodeList or none, whatever   *)
(* is open and wherever the tool is killed, as long as no inode was freed  *)
(* that is free, none was marked free with setInodeAccess, and the pool    *)
(* was not exhausted in the middle of a command.                           *)
ImplementsInodeList ==
    [][damage' = {} => List!Init' \/ List!Next]_List!vars
=============================================================================
