# Verification of the library simulation and of SOFS17

The repository holds three programs:

- `src/soipc_p`: a simulation of students, a librarian and a library with System V
  processes, shared memory and semaphores;
- `src/soipc_t`: an unfinished variant of the same simulation with threads;
- `src/sofs17`: a user-space file system (FUSE), many of whose functions call a
  prebuilt library (`lib/*.a`, the functions named `*Bin`).

This directory holds TLA+ modules that model them, TLC configurations that check
instances, and proofs checked by TLAPS. `PROJECT.json` maps definitions to lines.

## 1. Inventory

### soipc_p

| Part | State | Operations | Hard behaviour | What makes it correct |
|---|---|---|---|---|
| Library (`library.cpp`) | shelf, `booksInTransit`, seats, books on seats (shared memory), two semaphores | `requisiteBooksFromLibrary`, `sit`, `rise`, `collectBooksLibrary`, `invariantLibrary` | the two semaphores guard overlapping data; asserts run on racing data; a failed assert keeps semaphores | one student per seat; no copy lost; lists lent whole; every study session ends |
| Librarian (`librarian.cpp`) | one-slot mailbox with two semaphores, `reqQueue`, `alive`, `enrolledStudents` | `req*`, `inQueueShm`, `outQueueShm`, `life`, `handleRequests`, `handleRequest`, `collectBooks` | two threads, a queue without a lock, termination by a message | each request received once, handled in order; everybody exits; never stops collecting |
| Queue (`queue.cpp`) | list and size | `inQueue`, `outQueue`, `removeQueue` | none of its own; its callers race on it | list and size agree |
| Student (`student.cpp`) | courses, study times, chosen books | `life`, `enrollCourse`, `study`, `chooseBooksToStudy` | waits for books and seats; memory that is not cleared | is done only when it has studied everything, and then it is done |
| Simulation (`simulation.cpp`) | process identifiers, IPC objects | `initSimulation`, `go`, `finish`, signal handler, options | order of launch and of the end; what an interrupted run leaves behind | all processes are waited for, nothing is left behind |
| Logger (`logger.cpp`) | one-slot channel with `NUM_STUDENTS+5` permits, queue of events, areas of the screen | `sendLog`, `processMessageChannel`, `processEvents`, `printEvent`, `registerLogger` | several writers in one slot; an unguarded queue; nothing tells it to end; nothing on the screen is cleared | the latest state gets through; it ends; areas do not overlap |
| Course units (`course-unit.cpp`, `all-courses.cpp`) | books and times | `newCourseUnit`, `initAllCourses`, `randomCourseList`, percentage | rounding; a list as long as the library | a course below 100 % has a book left |

Students and librarian share the library; students and the main process send requests
to the librarian through its mailbox; everybody sends events to the logger.

### sofs17

| Part | State | Operations | Hard behaviour | What makes it correct |
|---|---|---|---|---|
| Free inodes (`alloc_inode.cpp`, `free_inode.cpp`) | circular doubly linked list in the inode table, head and count in the superblock | `soAllocInode`, `soFreeInode` | cases of 0, 1, 2 and more elements; no validation; works on copies | links join exactly the free inodes; a queue |
| Free clusters (`alloc_cluster.cpp`, `free_cluster.cpp`, `replenish.cpp`, `deplete.cpp`) | retrieval cache, insertion cache, bitmap | `soAllocCluster`, `soFreeCluster`, `soReplenish`, `soDeplete` | caches at their limits, arithmetic on references | a cluster is in one place |
| mksofs | a whole disk | `computeStructure`, `fillIn*`, `resetClusters` | rounding of the layout; killed half way | the zones tile the device; the magic number comes last |
| File clusters | references of an inode: direct, indirect, double indirect | `soGetFileCluster`, `soAllocFileCluster`, `soFreeFileClusters`, read, write | boundaries between the levels; running out of clusters half way | what was written is read; counts agree |
| Directory entries, system calls | the root directory, link counts | `soAddDirEntry`, `soGetDirEntry`, ..., `soRename`, `soMkdir`, `soWrite`, `soReaddir` | failure between two steps; an uninitialised variable | links are counted; a listing shows what is there |
| Mount (`sofsmount.cpp`) | one mutex, a thread for each request | every FUSE operation | exceptions while the mutex is held | each call takes place at an instant, and is answered |
| testtool | a pool of open inodes, the disk | commands on inodes, entries and clusters; reformatting | a command that fails half way or keeps handles; being killed | what was reported is on the disk; every open handle is accounted for |

`mksofs` makes a volume; the system calls, through FUSE, and testtool work on it with the
same layers below them: directory entries, file clusters, free lists, dealers, disk. The
dealers, and what is named `*Bin`, are in the binary library.

The hazards, each at its line and with the properties that cover it, are listed in
`PROJECT.json`; so are the parts that are not modelled, with the reason.

## 2. Modules

| Module | What it is |
|---|---|
| `Library` | the shared library and the processes that work on it: `library.cpp`, `study` of `student.cpp`, `collectBooks` of `librarian.cpp` |
| `ReadingRoom` | what the library promises its users; `Library` implements it |
| `MCLibrary` | instances of `Library` |
| `LibraryProofs` | theorems about `Library`: types and seats, that it implements `ReadingRoom`, and that it loses no copy |
| `Librarian` | mailbox, message thread, queue and life thread of the librarian, and what its clients send |
| `MCLibrarian` | instances of `Librarian` |
| `LibrarianProofs` | theorems about `Librarian`: the mailbox, and the queue while the threads have not raced |
| `InodeList` | the free inodes of sofs17: `soAllocInode`, `soFreeInode`, and the list mksofs leaves |
| `InodeQueue` | what the users of the inode table are promised; `InodeList` implements it |
| `MCInodeList` | an instance of `InodeList` |
| `InodeListProofs` | theorems about `InodeList` |
| `Logger` | a run of the simulation from `initLogger` to `finish`, the interrupt key, the next run; the slot, the message thread and the main loop of the logger |
| `Studies` | options, course units and the course loop of a student |
| `Screen` | the layout of the screen and what is shown of the student of `Studies` |
| `MCLogger`, `MCStudies` | instances of `Logger` and `Screen` |
| `LoggerProofs` | theorems about `Logger` |
| `ScreenProofs` | theorems about `Studies` and `Screen` |
| `FreeClusters` | operators for the two caches and the bitmap |
| `FileClusters` | the clusters of files, on top of `FreeClusters` |
| `Mksofs` | division and formatting of a device |
| `Testtool` | a session of commands on inodes; on the disk it implements `InodeList` |
| `Volume` | a device is formatted, used, formatted again: `Mksofs` with `FileClusters` and `Testtool` |
| `Directory` | operators for the entries of the root directory |
| `Mount` | requests of several clients to a mounted volume, on top of `Directory` |
| `Namespace` | what the users of a mounted volume may rely on; `Mount` implements it |
| `MCVolume`, `MCMount` | instances of `Volume` and `Mount` |
| `FileClustersProofs` | theorems about `FileClusters` and `FreeClusters` |
| `VolumeProofs` | theorems about `Volume`: dividing and formatting a device, sessions of `Testtool`, and that the clusters of files keep what `FileClustersProofs` shows |
| `MountProofs` | theorems about `Mount`: links, listings, and that it implements `Namespace` |

### Library

An action is one access to shared memory that another process can tell apart, so a
function of the code is a chain of actions, and `pc[p]` names the place in it:
`RequisiteDown`, `TakeBook`, `TakeBookStore`, `RequisiteUp` are
`requisiteBooksFromLibrary`; `SitDown` to `SitUp` are `sit`; `FinishStudy`, `Rise`,
`RiseUp` are `rise`; `CollectDown` to `CollectUp` are the librarian's `collectBooks`.
The Makefile compiles with `-O0`, so `booksInTransit++` is a load and a store
(`register[p]` is the value in between). `InvariantRead` and `InvariantAssert` are
`invariantLibrary()`, which reads the counters before it reads the seats; a failed assert
sends the process to `"aborted"`, where it keeps its semaphores, because `psem_down`
does not ask for `SEM_UNDO`. `CollectFrom` reads the list of a seat; where the code reads
the count three times and a sitting student may change it in between, the crash that may
follow is a choice of the action.

Abstracted: the choice of books is any list of `BookLists`; a random free seat is any free
seat; times, logging and drawing are left out; shared addresses are titles.

### ReadingRoom

Whole lists are lent or none; the shelf never goes negative nor above `Quantity`; a seat
has one occupant. The refinement mapping of `Library` counts a list as lent when its check
succeeded (copies the loop has still to take included) and a seat as taken from the store
that marks it.

### Librarian

Three parts run concurrently: the clients (`PostDown`, `PostWrite`, `PostUp` are
`inQueueShm`), the message thread (`MessageWhile` to `MessageUp` are `outQueueShm`, with
`InTest` to `InStore` for `inQueue`) and the life thread (`LifeWhile` to `Join` are `life`,
`handleRequests`, `handleRequest` and the end of `mainLibrarian`, with `OutFirst` to
`OutStore` for `outQueue`). The two semaphores are `access` and `message`. A request is
named by its sender and its place in the sender's life: enroll, collect after each study,
disenroll; the main process asks for termination when all students have exited. `raced` records whether the two
threads were ever inside the queue together: what holds in spite of it and what needs it
not to happen are different properties.

### InodeList

`next` and `prev` are the two unions of `SOInode` (`next`/`mtime`, `prev`/`ctime`): an
inode in use keeps `Time` there. `ihead` and `ifree` are those of the superblock; the tail is
found through `prev` of the head, as in the code. The mutex of `sofsmount.cpp` makes an
operation one step, and each branch of `soAllocInode` and `soFreeInode` (by the number of
inodes in the list) is an action. `Init` is the list of `fillInInodeTable`, with its quirk:
the first block of the table is linked without looking for the end, so in a table of one
block the last inode points one past it until the head is removed for the first time. Nobody reads that
link before, and `FreeListLinked` says exactly when it may be wrong. Inodes that are
released are in use: `soFreeInode` does not check, and with an inode that is free already
the list would lose others.

### InodeQueue

A sequence of unused inodes and a set of inodes in use; allocation takes the first, release
appends. The refinement mapping walks the links from `ihead` for `ifree` steps.

### Logger

Semaphores and shared memory outlive processes, so the module lets one run follow another:
`RunAgain` starts with what the last one has left in `exists`. `initLogger` asks with
`IPC_EXCL` and does not look at the result; `Create` (`pshmat`, `psemget` of library and
librarian) stops the process for what exists. `sendLog` is four actions of any process
(`SendDown`, `SendId`, `SendText`, `SendUp`), the message thread is `MessageDown`,
`MessageRead`, `InQueue`, `MessageUp`, the main loop `PrintNext`, `OutQueue`. The queue
between the two threads is a number, with the outcomes of a race on it as choices once
`raced` is true (the steps behind them are in `Librarian`). No process hears of
`termLogger` but through the semaphores that are gone: the next operation stops the logger.
`my_handler` ends all processes at once, as the terminal sends SIGINT to all of them.

### Studies and Screen

`Studies` reads options (`-b -C -S -c -m -1 -s -2`), makes the courses, gives one student
some of them and follows `life`: the visits to the library are `Library`'s, here a study
session is one step, and students do not disturb one another. `concludedCourses` comes from
`malloc` and is any array of zeros and ones. A loop that draws until something suits is a
choice. `Screen` adds what is drawn. A text is the widths of its lines: initSimulation
gives every text a place on the screen, and `ScreenDivided` compares them for all values of
the options. The student's box is its middle line, a field for the state, one for the
courses, and one for every column behind them; `printEvent` in window mode writes over
what is there, and in line mode filters a text piece by piece (`PrintPiece`, `Trim`). Times,
names and what the other boxes say are left out, as are the events of which one sender wrote
the number and another the text (`Logger` has those).

### FreeClusters and FileClusters

The operators work on a record with superblock and bitmap. Everything is as in the code,
with its arithmetic: replenishing numbers clusters within their block and then moves the
cache the wrong way; depleting picks a byte by block and overwrites it; a count that is
zero makes the cache read its own index (`word` gives what lies at each place of memory). An
action of `FileClusters` is one operation of the layer with the arguments testtool lets its
user choose. A file cluster is labelled with what it was written for, a cluster of
references holds a function. The buffer that `soFreeIndirectFileClusters` overruns on the
heap is taken to survive that, and data read as references is zeros. `sb.damage` and `failed`
record the steps from which on the code gets clusters wrong; no step depends on them.
`soAllocFileCluster` does not look whether a file cluster is there already, and neither does
testtool: the reference is overwritten and the cluster it led to is lost, in no place at all.
File cluster numbers are those the functions of the layer are made for; testtool's commands
`ac` and `fc`, which allocate a cluster for no file and free a cluster of any number, are not
operations of `FileClusters` (in `Testtool` they are, as to the superblock's copy).

### Mksofs, Testtool and Volume

`Mksofs` reads its options, opens the device, and has one action per zone, `Killed` between any two, and stops where a write misses the
device. The mistakes of the code are in where the writes land: the blocks of the bitmap
`BlockSize` blocks apart, and `resetClusters` with a block number for a cluster number.
`float` and 32 bits are not modelled, the sizes are small.

In `Testtool` a command opens an inode, works on the dealer's copy, saves and closes it;
exceptions are caught in `main` only, so that what was open stays open. The superblock has a
copy too. `killed` loses the copies, `quit` saves them. `soAllocInode` and `soFreeInode` are
written step by step over copies here, and in one step in `InodeList`: `ImplementsInodeList`
relates the two. Of the commands on entries and clusters, what counts here is which inodes
they open, save and close, whether they save the superblock, and whether they throw.

Not all commands that succeed give back what they open. `traversePath` (`tp`) opens the
directory twice for each name of a path, closes it once, and leaves open what it found; for
a link it leaves open each directory of the path that the link holds. It is written as
steps, one for each name, with `walk` for how far it has come, because nothing bounds the
names: `refuseName` is a name that cannot be looked up, `nextName` one that is found,
`nextNameOfLink` a name of `PathVerification`. A path that does not begin with `/` recurses
without end; `killed` stands for that. `freeFileClusters` (`ffc`) saves and closes the inode
after `soFreeFileClusters` has done so: it reports an exception although all was done, or,
when an earlier command had left the inode open, it closes that user. `soFreeInode` beside a
single free inode closes twice, too. `left` is the ledger of all this: for each inode the
users that commands have left since the disk was opened, less those they closed too often.
`HandlesAccounted` says that the pool agrees with the ledger, inode by inode.

`Volume` joins the three: nothing opens a disk without the magic number; `formatDisk` closes
the disk, lets mksofs run (and be killed), and opens what there is then. To keep the
instances small a volume is used for clusters or for inodes, not for both, and is formatted
again with the number of inodes it has.

### Directory, Mount and Namespace

The root is the only directory there is, as `soMkdir` fails for every name. `AddOutcomes`
lists what `soAddDirEntry` can do with its uninitialised variable. In `Mount` a request
arrives at a thread of its own, which waits for the mutex (`Lock`), makes its call, and
unlocks and replies (`Unlock`). All handlers of the table are there; a call that changes
nothing that is modelled is `Answer` or `Nothing`. Calls of the binary library that make and
delete links do what their man pages say. `soRename` takes two steps, so that what is
between them could be seen. The model ends when the process dies or its root directory is
replaced by a new cluster (`End`). Not modelled: contents, owners and times, and the use
counts of open inodes.

`Namespace` is a set of links at places. They appear under free names, disappear, and are
renamed, each at once; a question is answered by what was there at an instant after it was
asked. In the refinement mapping a link that is being renamed counts as there under its old
name (`VisibleLinks`).

## 3. Checks

| Run | What it asks | Bounds |
|---|---|---|
| `library` | type invariant, `SeatOwnership`, `TitlesConserved` | 2 students, 2 seats, 2 titles (2 and 1 copies), lists `<<a>>` and `<<b, a>>`, 2 visits each |
| `library_liveness` | implements `ReadingRoom` (`ImplementsReadingRoom`), `EveryStudyEnds` | the same with 1 seat and 1 visit |
| `library_invariant` | violated: `NoAssertFails` | 1 visit each |
| `library_collect` | violated: `CollectsFromEmptySeats` | 1 visit each |
| `librarian` | type invariant, `EachReceivedOnce`, `InOrder`, `StudentsCounted` | 2 students that enroll and leave, 1 or 2 requests a period |
| `librarian_liveness` | `AllExit`, `KeepsCollecting` | 1 student that studies once |
| `librarian_race` | violated: `AliveUntilTermination` | the same |
| `inode_list` | type invariant, `FreeListLinked`, implements `InodeQueue` | a table of three blocks of two inodes |
| `logger` | type invariant, `Permits`, `LatestShown`, `LeavesNothing`, `InitEnds`, `Returns` | 1 student, an event each of student and librarian, any number of runs |
| `studies` | type invariant, `AbortsOnlyOnLongLists`, `DoneMeansStudied`, `StudentsFinish`, `ScreenDivided`, `NothingStale` | 1 option, up to 3 books and courses, times up to 2, up to 4 seats and 2 students |
| `volume` | type invariant, `SoundUntilDamage`, `Accounting`, `FileIntact`; `ZonesTile`, `MagicMeansFormatted`; `AttributesLast`, `HandlesAccounted`, `ImplementsInodeList` | devices of 5 to 64 blocks, 0, 3 or 9 inodes asked for; one file, 6 operations; 4 commands or names of a path, a pool of 3, 4 inodes |
| `mount` | type invariant, `LinksCounted`, `ListedOnce`, `Answered`, implements `Namespace` | 2 clients, 3 calls and any number within a listing, 2 names, 2 inodes, 4 entries |

Why the bounds are enough to be interesting. In `library` the title `b` has one copy, so
one student waits for the other's books to be collected; with two visits a seat is left,
cleared and taken again, and with two seats the librarian walks past a free one. The lists
have length 1 and 2, so loops run once and more than once. In `librarian` three
processes compete for the mailbox and the queue holds up to two requests; periods of one
and two requests stop before and after the queue is empty. A collection request is
handled like an enrollment apart from `collectBooks`, so two students need not study.

In `inode_list` the table is emptied and filled in every order: the list has every length
from 0 to 6, so that each branch is taken with every order of its inodes, and the table has
a first block, one between and a last.

In `logger` the slot has six permits, five of them for the events before the logger exists
and one more; three processes overwrite each other's event, the interrupt may come at every
step, and the runs that follow find every combination of what is left. In `studies` a single
option is enough to reach each limit: `-m` as large as the library, a book that takes longer
than a visit, 100 copies (refused), courses with 1, 2 or 3 books, odd and even numbers of
books on the shelves; with the default of one course the student takes all there are, with
three never all. Texts get shorter and longer as books are chosen and left. In `volume` a
file of five clusters reaches all three levels (positions 0; 1, 2; 3, 5, in different
second-level tables), a cache of two fills and empties within six operations, seven clusters
run out half way through an allocation; devices from 5 to 64 blocks have every remainder of
the divisions of `computeStructure`; four commands are enough to empty the list and fill it
again, to exhaust the pool of three inside an allocation or on a path of two names, to leave
an inode open and then close it once too often with `freeFileClusters` or `soFreeInode`, and
to reformat between (698,400 distinct states in all). In `mount` three calls are a rename of
one client against a listing and a question of the other, over every place of the first
file; two free entries fill up and leave holes.

Runs that may stop, for which deadlock is no error: `library` and `library_collect` (bounded
visits), `librarian` (all processes exit, or a crash), `volume` (bounded operations, and a
device that was not made for use), `mount` (bounded calls, unmounted, or the process is
gone), `studies` (done, aborted, or an `enrollCourse` that looks for ever for a course) and
`logger` (a run that waits for ever, after its threads have damaged the queue).

What the violations say about the code:

- `library_invariant`: `requisiteBooksFromLibrary` evaluates `invariantLibrary()` after it
  released `ACCESS_LIBRARY`; the sums mix moments and the assert stops a correct process.
- `library_collect`: `collectBooks` tests `seatOccupied` and then `booksInSeat` under
  `ACCESS_LIBRARY`, while seats change under `SITSEM`; the books a student has just put
  down are taken from under it.
- `librarian_race`: `inQueue` and `outQueue` run in two threads without a lock; a tail tested
  non-null is null when it is dereferenced.

What the passing runs do not say: several properties are about executions in which a known
mistake has not bitten yet, and are no guard against that mistake itself. `InOrder`,
`StudentsCounted`, `AllExit`, `Returns` hold while the two threads of librarian or logger
have not raced (the race is the matter of `librarian_race`); `SoundUntilDamage` and
`FileIntact` hold until the first of the damages that `sb.damage` names (below).
`SoundUntilDamage` sees clusters with two owners; a cluster with none is not excluded.
`LinksCounted` and `ImplementsNamespace` allow that a rename that fails loses the entry.

The documentation also says that all library operations are performed by the librarian for
the students (`src/soipc_p/README.txt:59`); the code lets students requisite books directly,
and the modules follow the code.

### Fairness

`Library!FairSpec`: each student and the librarian are scheduled (weak fairness), and a
process that keeps asking for a semaphore gets it (strong fairness of `RequisiteDown`,
`SitDown`, `Rise`, `CollectDown`), because System V semaphores serve their waiters in order.
The librarian's walks are taken to repeat; `Librarian!KeepsCollecting` is the property of
`life` that justifies it. `Librarian!FairSpec` is weak fairness of the two threads and of
the main process only: clients may stay silent for ever. `EveryStudyEnds`, `AllExit` and
`KeepsCollecting` are conditional on the races shown above not happening.

`Logger!FairSpec` is weak fairness of each process, of the two threads and of the main
process: they are scheduled, and a semaphore in the kernel wakes a waiter. The user owes
nothing; `InitEnds` and `Returns` are conditional on no interrupt, `Returns` also on the two
threads never having been in the queue together. `Studies!Fairness` is weak fairness of the
steps of program and student, and strong fairness of a study session that makes progress:
with `randomInt` every length of a visit and every choice of books is drawn again and again,
and among them one in which a book gets at least one unit of time. `Mount!FairSpec` is weak fairness of the
threads that serve requests; clients owe nothing. A thread that waits for the mutex gets it,
because the number of requests is bounded.

### What the models show without a run of their own

While the code was translated these came up; they are part of the models, as the code is:

- `soMkdir` never succeeds: `soGetDirEntry` throws for a name that is free (`mkdir.cpp:91`).
  `soTruncate` always fails (`truncate.cpp:75`). A write to a file made in a mount changes the
  size and then fails, when the cluster to be changed is read (`write.cpp`).
- A listing ends with an error as soon as there is an entry behind `..`: past the last entry
  `soReaddir` goes back to entry 1 and returns a negative number.
- A rename to a name that is taken leaves two links of that name; `soAddDirEntry` uses
  `cluster2read` uninitialised.
- `soFreeInode` saves and closes twice when one inode is free (`free_inode.cpp:73,112`), and so
  does testtool's command to free file clusters (`free_fileclusters.cpp:92`, `testtool.cpp:478`);
  the latter ends with an exception unless the inode was open before. Testtool can mark an inode
  free with an access of octal 1000; a command that fails leaves its inode open.
- `soTraversePath` opens more than it closes, also when it succeeds (`traverse_path.cpp:42`, `43`,
  `69`, and `99` for links): after some tens of names the pool of testtool is exhausted.
- `soFreeFileClusters` gives back the index of a direct reference for the cluster it leads to
  (`free_fileclusters.cpp:57`), against `fileclusters.h:49`: the file's cluster is lost, and a cluster
  that something else may use is free (`gaveBackPlace` in `sb.damage`).
- `soDeplete` assigns a byte of the bitmap where it should add a bit to it (`deplete.cpp:48`), and
  takes the byte from the number of the block (`deplete.cpp:47`): of the references it takes out of
  the insertion cache only some are free afterwards, against `freelists.h:99`, and clusters that
  were free before may not be (`depleted`).
- `soAllocFileCluster` overwrites a reference that is there (`alloc_filecluster.cpp:51`).
- `concludedCourses` is not cleared (`student.cpp:105`): a student may look for a course for
  ever. Option `-m` accepts the number of books, which makes the program abort
  (`library.cpp:223`).
- An interrupted run leaves the logger's semaphores and slot behind, and the next run stops
  at its first event; `clear-ipc.sh` removes them.
- The loop of the logger should wait "for a log event (or termination)" (`logger.cpp:244`);
  termination never reaches it, and it waits by spinning.
- Long options are declared with dashes (`simulation.cpp:267`), so that `--num-books` is not
  accepted, against the help text; `getopt` takes `----num-books`.
- The courses are drawn with four lines and registered with three (`all-courses.cpp:43`).

## 4. Proofs

Each theorem holds for every value of the constants that satisfies the named assumptions
of the modules it is about; nothing else is assumed. The assumptions say what the code
takes for granted: `LibraryAssumption` (the librarian is no student, there are finitely many
students, at least one seat and a copy of each title, lists are not empty and repeat no
title), `LibrarianAssumption` and `NullAssumption` (`Main` is no student, there are finitely
many students, a null pointer is no request), `LoggerAssumption` (three kinds of process,
finitely many), `InodeAssumption` (a block holds at least two inodes, the table at least a
block, null reference and times are no inodes), `DirectoryAssumption` and `MountAssumption`
(an entry besides `.` and `..` fits, the root is not one of the inodes of files, finitely many
names and inodes, no file is named as a free entry is, the first files fit),
`StudiesAssumption` (the limits are positive, and the default parameters obey the tests that
`processArgs` makes of options: `simulation.cpp:80` has them),
`FreeClustersAssumption`, `FileClustersAssumption` and `PositionsAssumption` (sizes are
positive, the null reference is no number, a block of references is part of a cluster of
them, finitely many files, the file cluster numbers asked for are below the limit that the
functions of the layer test), `MksofsAssumption` and `VolumeAssumption` (sizes are positive,
there is an inode, both modules mean the same bitmap).

| Property of a run | Theorem | Inductive invariant |
|---|---|---|
| `TypeOK`, `SeatOwnership` of `Library` | `LibraryProofs` `TypeCorrect`, `SeatsOwned` | `IInv` |
| `ImplementsReadingRoom` | `LibraryProofs` `Implements` | `IInv` |
| `TitlesConserved` | `LibraryProofs` `NothingLost` | `SInv` |
| `TypeOK`, `EachReceivedOnce` of `Librarian` | `LibrarianProofs` `TypeCorrect`, `ReceivedOnce` | `MailInv` |
| `InOrder`, `StudentsCounted` | `LibrarianProofs` `HandledInOrder`, `CountedRight` | `IInv` |
| `TypeOK`, `FreeListLinked` of `InodeList` | `InodeListProofs` `TypeCorrect`, `ListLinked` | `IInv` |
| `ImplementsInodeQueue` | `InodeListProofs` `Implements` | `IInv` |
| `TypeOK`, `Permits`, `LatestShown`, `LeavesNothing` of `Logger` | `LoggerProofs` `TypeCorrect`, `PermitsKept`, `LatestIsShown`, `NothingLeft` | `IInv` |
| `TypeOK`, `AbortsOnlyOnLongLists`, `DoneMeansStudied` of `Studies` | `ScreenProofs` `StudiesTyped`, `AbortsRarely`, `DoneStudied` | `SInv` |
| `ScreenDivided`, `NothingStale` | `ScreenProofs` `ScreenIsDivided`, `NothingIsStale` | `SInv`, `NInv` |
| `ZonesTile`, `MagicMeansFormatted` | `VolumeProofs` `ZonesFillTheDevice`, `MagicIsFormatted` | `MInv` |
| `TypeOK`, `Accounting` of `FileClusters` | `FileClustersProofs` `FileClustersTypeOK`, `ClustersAccounted` | `CountsInv` (`TypeOK` also `SoundInv`) |
| `SoundUntilDamage`, `FileIntact` | `FileClustersProofs` `OnePlaceForEachCluster`, `WrittenIsRead` | `CountsInv`, `SoundInv` |
| the four of them, on a volume | `VolumeProofs` `VolumeIsSound` | from `ClustersOnVolume`: `VolumeSpec => Spec` |
| `AttributesLast`, `HandlesAccounted` | `VolumeProofs` `AttributesStay`, `HandlesCounted` | `AInv`, `Closed`, `Failing`, `Even` |
| `ImplementsInodeList` | `VolumeProofs` `ListImplemented` | ... and `Chained` |
| `TypeOK`, `LinksCounted`, `ListedOnce` of `Mount` | `MountProofs` `TypeCorrect`, `LinksAreCounted`, `ListsOnce` | `IInv` |
| `ImplementsNamespace` | `MountProofs` `Implements` | `IInv` |

No property is inductive as it stands. What each invariant adds, and why:

**Library.** That a semaphore is not raised above 1 needs to know who holds it
(`Exclusion`); that `Book(p)` is a title needs the ranges of indices and seats (`Ranges`);
that a copy is there to take, and that one is missing when it is put back, needs what was
checked under `ACCESS_LIBRARY` to remain true until it is used (`Loans`); that a seat is
still free when it is marked needs what was checked under `SITSEM` (`Choice`); that the
librarian puts back titles, each once, needs the shape of the lists on seats, also of
half-filled ones (`Found`, `SeatLists`). There is one lemma `Step...` per action. The
refinement needs no more: only one process at a time is taking books, so the copies the
loop has still to take are those of one list. `SInv` adds what keeps copies: who has no
seat holds no number of one, the list the librarian took is what lies on the seat until it
clears it, and a student's books are on its seat one by one (`Unseated`, `Undisturbed`). It
holds as long as the librarian has collected from no taken seat, which is the condition
`TitlesConserved` has too: the run `library_collect` shows that the code does not ensure it.

**Librarian.** `MailInv` is about the slot, and holds whatever becomes of the queue behind
it: there is one permit, which is with a sender, with the message thread or free, until
`mainLibrarian` makes a second one to wake the thread (`OnePermit`); what is in the slot is
either the request that was posted and not yet received, or one that was received
(`Mailbox`). `IInv` adds, under `~raced`, that the linked list is the part of `received`
that has not been taken, with its head, tail, links and size as each half-done `inQueue` or
`outQueue` leaves them (`Prefix`, `Links`, `Sizes`), that requests of one sender are
received in order (`Ordered`), and that `enrolledStudents` is the number of students with
an enrollment and no disenrollment among what was handled.

**InodeList.** `FreeListLinked` looks at neighbours only: a list of two with a second circle
beside it satisfies it, and the second allocation then makes an inode in use the head.
`IInv` adds that one `Chain` runs through all free inodes. The chain is a witness that each
step changes: an allocation leaves `Rest(q)`, a release `Longer(q, in)`. These are the tail
of the chain and the chain with one more behind it (`RestIsTail`, `LongerIsAppend`), which
gives the refinement of `InodeQueue`.

**Logger.** Of the permits, those that senders, message thread and unread events hold are
counted with the free ones (`Counted`); that none is missing needs that nobody has sent
before there is a logger but the main process, and how often (`Alone`, `Started`), and what
exists at each stage, so that a run that starts with the semaphores of an interrupted one
is told apart (`Objects`, `Clean`). `Latest` is inductive only with these.

**Studies and Screen.** `SInv` adds to the types which options can have been accepted and which
courses made of them (`OptionsOK`, `CoursesOK`), that the percentage of the course being studied
is that of its times and 100 exactly when it is in `studied` (`Studying`), and that the courses
`life` still has to go through and those studied are together all of them (`Counted`), which gives
`DoneMeansStudied`. The percentage is a quotient of two sums over books: `ShareIsOfAll` shows that it
is 100 exactly when every book had its time, so that a course chosen again has a book left and
the assertion of `chooseBooksToStudy` cannot fail. What a sum over a set or a fold over a sequence
computes is shown without a rule of induction: a place where it first goes wrong would be a
least one (`Least`, from the well-foundedness of the numbers), and the place before it
contradicts that (`TotalAdds`, `PrintTrace`, `EventTrace`). `ScreenDivided` needs no more of the
state than `OptionsOK`; that the seats drawn are those there are is a bijection between places on
the screen and numbers (`SeatsDrawn`). `NInv` says that the row holds the marks and behind them blanks only,
or what the line says, whenever the student is not in the library, and nothing before there is one:
`StudyShownOK` follows the four texts of a study session, each written over the one before.

**FileClusters.** An operation is a chain of steps on a state, each of which does nothing once an
exception is thrown, so there is one lemma for each step and the operations are put together
from them. `Passes` says of the steps of an allocation, `GivesBack` of those of a release, that what the superblock counts as free and what the inode counts stay
together, and that nothing is counted less when one throws; `CountsInv` adds the sum over all
inodes, of which an operation changes one term (`OneCounts`), and holds whatever goes wrong.
It needs what `soReplenish` may leave in the caches, references that it put at the wrong end
included.

The other two properties are about where clusters are. `FreeSet` is the set of free clusters and
`PoolOK` says that each is free once: the references that replenishing leaves at the start of
the retrieval cache, in front of its index, must lie in its first third, or the next memmove
would make one of them count (`PoolFromBitmap`). `Spots` are the places at which
an inode may lead to a cluster, `LeadOf` is where it leads; `SoundAt` says that tables are
where tables are expected, that no two places of all inodes lead to one cluster, that
none leads to a free one, that an inode counts at least as many clusters as it leads to, and
that what was written is at the place of its number (`SpotOf`). `SoundInv` is `SoundAt` until
the first step the code gets wrong. An allocation changes at most three places, and only to
clusters that were free (`Grows`, `DirectGrows`, `IndirectGrows`, `DoubleGrows`). A
release goes the other way through all places below an inode, in the order of the code:
`StillHolds(st, L, K, V)` says which places `V` have not been released yet, and each
function of the release takes its own away (`ReleaseHolds`, `FreeIndirectHolds`,
`FreeTablesHolds`, `FreeDoubleHolds`); what has been released hangs from a reference that is
cleared at the end (`Loose`, `ClearedLeads`). That `i1` is also cleared when a table of the
second level is released, and that the references behind the first block of a table are
forgotten, loses clusters, but gives none two owners. That an inode counts what it leads to
is why no release makes `clucnt` negative as long as nothing went wrong.

**Mksofs.** `Divided` says from which stage on the sizes are settled and that a device that
carries the magic number is divided again as it was, since options are read once;
`Written` which zones hold what at each stage. The stray writes of the code (blocks of the
bitmap too far apart, `resetClusters` with `-z`) are shown to land behind what the property
speaks of; that a second formatting does not break a volume before it removes the magic
number is the order of its first two writes.

**Testtool.** A command is executed symbolically: `At(st, u, n, D, s, d)` says that in state
`st` the inodes have `u` users, look like `n`, that the copies of `D` are ahead of the disk,
and what the superblock and its copy are; there is a lemma for each primitive (`AtOpen`,
`AtSave`, `AtClose`, ...), and from them what `soAllocInode` and `soFreeInode` end with,
whatever throws on the way (`AllocEnds`, `FreeEnds`). Aliases - the inode to be freed is
also the head, the tail, or one already open - need no cases of their own, because `u`
counts users and `n` is updated in the order of the code. For `HandlesAccounted` the
invariant `Even` says that, as long as no command stopped half way, every open copy equals
the disk, so does the superblock, and the ledger `left` is, inode by inode, what the pool
has of users; `Failing` says that the ledger is empty while no disk is open. Then each
command is followed to its end: what it does to the pool is what it enters in the ledger.
For the commands that open one inode the cases are thrown or not, and open before or not
(`AsksEnds`, `HandsEnds`, `FreeClustersEnds`, `ChangeEnds`); a path has one lemma for each
of its steps (`RefuseEnds`, `NameEnds`, ...); `soAllocInode` and `soFreeInode` are read off
`AllocEnds` and `FreeEnds`. The superblock has one exception, found by the proof: when the list is
broken and an inode in use is its head, an allocation leaves the number of inodes less by
one and a time for the head in memory only, and no command can open that head afterwards.
For `ImplementsInodeList`, `Chained` says that as long as the list is undamaged one chain of
free inodes runs from the head that the superblock has to the head's predecessor, as long as
the superblock counts. So the head of a list is never in use, which rules that exception
out, and an inode that is not free is not in the chain; then the ends that `AllocEnds` and
`FreeEnds` give are, field by field, `AllocOfOne`, ..., `FreeToMany` of `InodeList`
(`AllocatedSound`, `FreedSound`), and every other command leaves the fields of the list as
they are, on the disk and in the copies.

**Mount.** What the thread at its call has (`Mutex`, `Serving`), that the first two entries
are those of the root and the others of files (`Rooted`), and what is left of each listing
(`Given`). Links are counted by the cardinalities of sets of entries, with the inode that a
rename holds between its two steps. The refinement needs that `accessCR` is held from
the deletion of the old entry to the addition of the new one.

### What the proofs changed

- `id` of `Librarian` and `AddOutcomes` of `Directory` and `WriteFileCluster` of
  `FileClusters` were written with a `CASE` whose guards overlapped, so that which of two
  outcomes was meant was left open. They have an order now, which is that of the code.
- A device of fewer than eight blocks has a table of no inodes when it is formatted with the
  default number; the instance has such devices now, and `ZonesTile` says where the zone of
  inodes may be empty.
- The proofs about cardinalities need finitely many students, names and inodes, and those
  about entries that no file has the name of a free one: assumptions that the code makes
  by its arrays and by the empty string, and that the modules now state.

- The type invariant of `FileClusters` said that `clucnt` goes below zero only after an
  exception. That is false, and the proof stopped there: on a larger volume than that of the
  instance, once clusters have two places, a release brings it to -1 without an exception. It now
  says that as long as nothing went wrong `clucnt` is not negative.
- `soDeplete`, `soFreeFileClusters` and the release of tables were folds and recursions over
  records with several updates at once; they are now chains of named steps, with the byte
  and the bit that `soDeplete` writes as closed terms. The runs have the same states as before.
- The file cluster numbers asked for are file cluster numbers, and files are finitely many:
  `PositionsAssumption`, `FileClustersAssumption`.
- The default parameters obey the tests that `processArgs` makes of options
  (`StudiesAssumption`): without that `SInv` does not hold initially.
- A blank of the screen is `Blank` of `Screen` and no string with a space in it, which the
  provers cannot take.

### Only model-checked

- The liveness properties (`EveryStudyEnds`, `AllExit`, `KeepsCollecting`, `InitEnds`,
  `Returns`, `StudentsFinish`, `Answered`): they need fairness, which is beyond the prover.

## 5. Plan, and what is not modelled

Every invariant, action property and refinement that a passing run checks is stated by a
theorem; what is left to the runs is liveness.

Not modelled, and why:

- `soipc_t`, the simulation with threads: its mutexes are written into allocations of the size
  of a pointer (`library.cpp:94`, `librarian.cpp:130`), which damages the heap before any thread
  exists, so that there is no defined behaviour to model. What follows it would not get far
  either: the first request for books dereferences the head of an empty queue
  (`librarian.cpp:398`), and the loop for a seat has no body (`student.cpp:279`).
- Directories below the root, and several at once: `soMkdir` makes none.
- Contents of files, times, and the reading of a file through the mount: binary library.
- Options for durations that only delay, help texts, names and wording; the other boxes of the
  screen but for their size and place.
- The number of shared memory segments that `stringClone` takes: there is no bound to state,
  only how long a run lasts until the limit of the kernel.
- The layout of structures in bytes, `float` and 32-bit arithmetic of mksofs, the buffer
  overruns of `soReadFileCluster`'s callers on stack and heap; `soWrite`'s copy of a path into an
  array of `SOFS17_MAX_NAME + 1` characters (`write.cpp:62-66`): names are short in `Mount`.
- Testtool's `ac` and `fc` as to clusters (above), and what paths of several names lead to.
- Functions without a caller: `removeQueue`, `searchQueue`, `currIdIn`, `containsId`, `removeId`,
  `reqBookRequisition`.
- Tracing (`probing`), reading and writing the file behind a disk, `showblock`, which prints a
  block and has no state, and `test-logger.cpp`, a demonstration of the logger.
