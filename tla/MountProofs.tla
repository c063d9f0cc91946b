----------------------------- MODULE MountProofs -----------------------------
(***************************************************************************)
(* Proofs about Mount, for any number of clients, names, inodes and        *)
(* entries: links are counted, listings give every entry once, and the     *)
(* directory with its mutex implements Namespace.                          *)
(***************************************************************************)
EXTENDS Mount, TLAPS, FiniteSetTheorems, WellFoundedInduction

(***************************************************************************)
(* The invariant.                                                          *)
(***************************************************************************)
Requests ==
    [op : {"flush", "opendir", "readdir"}, name : {NoName}, new : {NoName}]
    \union [op : {"ask", "mknod", "unlink", "mkdir", "truncate", "write"}, name : Names, new : {NoName}]
    \union [op : {"rmdir"}, name : Names \union {"/"}, new : {NoName}]
    \union [op : {"symlink", "link", "rename"}, name : Names, new : Names]

Contents ==
    [kind : {"free", "file", "link"}, lnkcnt : Nat, rwx : BOOLEAN, size : Nat,
     to : Names \union {NoName}, absolute : BOOLEAN]

Listings ==
    [on : BOOLEAN, offset : 0 .. DirentriesPerCluster, kept : SUBSET Slots, listed : SUBSET Slots,
     again : BOOLEAN]

Replies ==
    {"none", "ok", "error", "found", "missing", "EEXIST", "ENOENT", "EINVAL", "ENOTEMPTY", "ENOTDIR",
     "EACCES"}

Types ==
    /\ volume \in {"new", "open", "failed", "closed", "replaced", "crashed"}
    /\ accessCR \in Clients \union {Nobody}
    /\ pc \in [Clients -> {"idle", "lock", "call", "deleted", "unlock"}]
    /\ req \in [Clients -> Requests]
    /\ ret \in [Clients -> Replies]
    /\ cin \in [Clients -> Inodes \union {NullReference}]
    /\ inode \in [Inodes -> Contents]
    /\ listing \in [Clients -> Listings]
    /\ lost \in [Inodes -> Nat]
    /\ calls \in Nat

\* An inode in use has links.
InUse == \A i \in Inodes : (inode[i].lnkcnt = 0 <=> inode[i] = FreeInode)
                        /\ (inode[i].kind = "free" <=> inode[i] = FreeInode)

\* The mutex is with the thread that is at its call.
Mutex == \A c \in Clients : pc[c] \in {"call", "deleted", "unlock"} => accessCR = c

\* Where a thread is tells what it serves.
Serving ==
    \A c \in Clients :
       /\ pc[c] = "idle" => req[c] = Idle
       /\ pc[c] \in {"lock", "call", "deleted"} => ret[c] = "none"
       /\ pc[c] = "deleted" => /\ req[c].op = "rename"
                               /\ cin[c] \in Inodes
                               /\ Of(dir, NoName) # {}

\* The root refers to itself and nothing else refers to it.
Rooted(d) ==
    /\ d \in [Slots -> Entries]
    /\ d[0] = Entry(".", Root) /\ d[1] = Entry("..", Root)
    /\ \A s \in Slots \ {0, 1} : d[s] = Clean \/ d[s] \in [name : Names, in : Inodes]

\* A listing has given what is before its offset, and what it must still give is there.
Given ==
    \A c \in Clients :
       /\ \A s \in listing[c].listed : s < listing[c].offset
       /\ \A s \in listing[c].kept : dir[s] # Clean

References(d, i) == {s \in Slots : d[s].in = i}
Held(i) == {c \in Renaming : cin[c] = i}

IInv ==
    /\ Types /\ InUse /\ Mutex /\ Serving /\ Rooted(dir)
    /\ LinksCounted
    /\ Given /\ ListedOnce
-----------------------------------------------------------------------------
(***************************************************************************)
(* The root directory.                                                     *)
(***************************************************************************)
LEMMA Constants ==
  /\ DirentriesPerCluster \in Nat /\ DirentriesPerCluster > 2
  /\ Root \notin Inodes /\ NullReference \notin Inodes /\ NullReference # Root
  /\ NoName \notin Names /\ NoName # "." /\ NoName # ".."
  /\ "." \notin Names /\ ".." \notin Names
  /\ Nobody \notin Clients
BY DirectoryAssumption, MountAssumption

LEMMA SlotNumbers ==
  /\ 0 \in Slots /\ 1 \in Slots /\ IsFiniteSet(Slots)
  /\ \A s \in Slots : s \in Nat /\ s < DirentriesPerCluster
BY Constants, FS_Interval DEF Slots

\* Any set of natural numbers has a least one.
LEMMA Least ==
  ASSUME NEW S \in SUBSET Nat, S # {}
  PROVE  \E m \in S : \A s \in S : m <= s
<1> DEFINE less == {ss \in Nat \X Nat : ss[1] < ss[2]}
<1>1. IsWellFoundedOn(less, Nat)
  BY NatLessThanWellFounded DEF OpToRel
<1>2. PICK m \in S : \A s \in S : ~(<<s, m>> \in less)
  <2> HIDE DEF less
  <2>1. QED
    BY <1>1, WFMin
<1>3. \A s \in S : s \in Nat /\ m \in Nat /\ ~(s < m)
  BY <1>2
<1>4. QED
  BY <1>3

LEMMA MinSlot ==
  ASSUME NEW S \in SUBSET Slots, S # {}
  PROVE  Min(S) \in S /\ \A s \in S : Min(S) <= s
<1>1. S \in SUBSET Nat
  BY SlotNumbers
<1>2. \E m \in S : \A s \in S : m <= s
  BY <1>1, Least
<1>3. QED
  BY <1>2 DEF Min

\* The first entry of a name.
LEMMA FirstEntry ==
  ASSUME NEW d, NEW n, ~NoEntry(d, n)
  PROVE  First(d, n) \in Slots /\ d[First(d, n)].name = n
<1>1. Of(d, n) \in SUBSET Slots /\ Of(d, n) # {}
  BY DEF NoEntry, Of
<1>2. First(d, n) \in Of(d, n)
  BY <1>1, MinSlot DEF First
<1>3. QED
  BY <1>2 DEF Of

\* The names of files are not at the places of the directory's own entries.
LEMMA NamedEntry ==
  ASSUME NEW d, Rooted(d), NEW s \in Slots, NEW n \in Names, d[s].name = n
  PROVE  s \notin {0, 1} /\ d[s].in \in Inodes /\ d[s] = Entry(n, d[s].in) /\ d[s] # Clean
<1>1. s \notin {0, 1} /\ d[s] # Clean
  BY Constants DEF Rooted, Entry, Clean
<1>2. d[s] \in [name : Names, in : Inodes]
  BY <1>1 DEF Rooted
<1>3. QED
  BY <1>1, <1>2 DEF Entry

LEMMA EmptyEntry ==
  ASSUME NEW d, Rooted(d), NEW s \in Slots, d[s].name = NoName
  PROVE  s \notin {0, 1} /\ d[s] = Clean
<1>1. s \notin {0, 1}
  BY Constants DEF Rooted, Entry
<1>2. d[s] \notin [name : Names, in : Inodes]
  BY Constants
<1>3. QED
  BY <1>1, <1>2 DEF Rooted

LEMMA FoundEntry ==
  ASSUME NEW d, Rooted(d), NEW n \in Names, ~NoEntry(d, n)
  PROVE  soGetDirEntry(d, n) \in Inodes
BY FirstEntry, NamedEntry DEF soGetDirEntry

\* References to an inode, when an entry is replaced.
LEMMA ReferencesFinite ==
  ASSUME NEW d, NEW i
  PROVE  IsFiniteSet(References(d, i)) /\ Cardinality(References(d, i)) \in Nat
BY SlotNumbers, FS_Subset, FS_CardinalityType DEF References

LEMMA Adds ==
  ASSUME NEW d, Rooted(d), Of(d, NoName) # {}, NEW n \in Names, NEW in \in Inodes,
         NEW e, e = soAddDirEntry(d, n, in)
  PROVE  LET s == First(d, NoName)
         IN  /\ s \in Slots \ {0, 1} /\ d[s] = Clean /\ e[s] = Entry(n, in)
             /\ \A t \in Slots \ {s} : e[t] = d[t]
             /\ e = [d EXCEPT ![s] = Entry(n, in)]
             /\ Rooted(e)
             /\ Cardinality(References(e, in)) = Cardinality(References(d, in)) + 1
             /\ \A i \in Inodes \ {in} : References(e, i) = References(d, i)
<1> DEFINE s == First(d, NoName)
<1>1. s \in Slots /\ d[s].name = NoName
  BY FirstEntry DEF NoEntry
<1>2. s \notin {0, 1} /\ d[s] = Clean
  BY <1>1, EmptyEntry
<1> HIDE DEF s
<1>3. e = [d EXCEPT ![s] = Entry(n, in)]
  BY DEF soAddDirEntry, s
<1>4. e[s] = Entry(n, in) /\ \A t \in Slots \ {s} : e[t] = d[t]
  BY <1>1, <1>3 DEF Rooted
<1>5. Rooted(e)
  <2>1. Entry(n, in) \in Entries /\ Entry(n, in) \in [name : Names, in : Inodes]
    BY DEF Entry, Entries
  <2>2. e \in [Slots -> Entries]
    BY <1>1, <1>3, <2>1 DEF Rooted
  <2>3. QED
    BY <1>2, <1>4, <2>1, <2>2, SlotNumbers DEF Rooted
<1>6. s \notin References(d, in)
  BY <1>2, Constants DEF References, Clean, Entry
<1>7. References(e, in) = References(d, in) \union {s}
  BY <1>1, <1>4 DEF References, Entry
<1>8. Cardinality(References(e, in)) = Cardinality(References(d, in)) + 1
  BY <1>6, <1>7, ReferencesFinite, FS_AddElement
<1>9. ASSUME NEW i \in Inodes \ {in} PROVE References(e, i) = References(d, i)
  BY <1>2, <1>4, Constants DEF References, Clean, Entry
<1>10. QED
  BY <1>1, <1>2, <1>3, <1>4, <1>5, <1>8, <1>9 DEF s

LEMMA Deletes ==
  ASSUME NEW d, Rooted(d), NEW n \in Names, ~NoEntry(d, n),
         NEW e, e = soDeleteDirEntry(d, n)
  PROVE  LET s == First(d, n)
             in == soGetDirEntry(d, n)
         IN  /\ s \in Slots \ {0, 1} /\ d[s] = Entry(n, in) /\ d[s] # Clean
             /\ e[s] = Clean /\ in \in Inodes
             /\ \A t \in Slots \ {s} : e[t] = d[t]
             /\ e = [d EXCEPT ![s] = Clean]
             /\ Rooted(e) /\ Of(e, NoName) # {}
             /\ Cardinality(References(e, in)) = Cardinality(References(d, in)) - 1
             /\ Cardinality(References(d, in)) >= 1
             /\ \A i \in Inodes \ {in} : References(e, i) = References(d, i)
<1> DEFINE s == First(d, n)
           in == soGetDirEntry(d, n)
<1>1. s \in Slots /\ d[s].name = n
  BY FirstEntry
<1>2. /\ s \notin {0, 1} /\ d[s].in \in Inodes /\ d[s] = Entry(n, d[s].in) /\ d[s] # Clean
  BY <1>1, NamedEntry
<1>3. in = d[s].in
  BY DEF soGetDirEntry
<1>4. e = [d EXCEPT ![s] = Clean]
  BY DEF soDeleteDirEntry
<1> HIDE DEF s, in
<1>5. e[s] = Clean /\ \A t \in Slots \ {s} : e[t] = d[t]
  BY <1>1, <1>4 DEF Rooted
<1>6. Rooted(e)
  <2>1. e \in [Slots -> Entries]
    BY <1>1, <1>4 DEF Rooted, Entries
  <2>2. QED
    BY <1>2, <1>5, <2>1, SlotNumbers DEF Rooted
<1>7. s \in Of(e, NoName)
  BY <1>1, <1>5 DEF Of, Clean, Entry
<1>8. s \in References(d, in) /\ References(e, in) = References(d, in) \ {s}
  BY <1>1, <1>2, <1>3, <1>5, Constants DEF References, Clean, Entry
<1>9. Cardinality(References(e, in)) = Cardinality(References(d, in)) - 1
  BY <1>8, ReferencesFinite, FS_RemoveElement
<1>10. Cardinality(References(d, in)) >= 1
  <2>1. Cardinality(References(d, in)) # 0
    BY <1>8, ReferencesFinite, FS_EmptySet
  <2>2. QED
    BY <2>1, ReferencesFinite
<1>11. ASSUME NEW i \in Inodes \ {in} PROVE References(e, i) = References(d, i)
  BY <1>2, <1>3, <1>5, Constants DEF References, Clean, Entry
<1>12. QED
  BY <1>1, <1>2, <1>3, <1>4, <1>5, <1>6, <1>7, <1>9, <1>10, <1>11 DEF s, in
-----------------------------------------------------------------------------
(***************************************************************************)
(* The volume when it is mounted.                                          *)
(***************************************************************************)
LEMMA InjectionExists ==
  ASSUME NEW S, NEW T, IsFiniteSet(S), IsFiniteSet(T), Cardinality(S) <= Cardinality(T)
  PROVE  \E f \in Injections(S, T) : TRUE
<1> DEFINE m == Cardinality(S)
           n == Cardinality(T)
<1>1. /\ m \in Nat /\ ExistsBijection(1 .. m, S)
      /\ n \in Nat /\ ExistsBijection(1 .. n, T)
  BY FS_CardinalityType
<1> HIDE DEF m, n
<1>2. m <= n
  BY DEF m, n
<1>3. PICK f \in Bijection(1 .. m, S) : TRUE
  BY <1>1 DEF ExistsBijection
<1>4. PICK g \in Bijection(1 .. n, T) : TRUE
  BY <1>1 DEF ExistsBijection
<1>5. \A x \in S : \E k \in 1 .. m : f[k] = x
  BY <1>3 DEF Bijection, Surjection
<1>6. g \in [1 .. n -> T] /\ \A j, k \in 1 .. n : g[j] = g[k] => j = k
  BY <1>4 DEF Bijection, Injection, IsInjective
<1> DEFINE place(x) == CHOOSE k \in 1 .. m : f[k] = x
           h == [x \in S |-> g[place(x)]]
<1>7. \A x \in S : place(x) \in 1 .. m /\ f[place(x)] = x
  BY <1>5
<1> HIDE DEF place
<1>8. \A x \in S : place(x) \in 1 .. n
  BY <1>1, <1>2, <1>7
<1>9. h \in [S -> T] /\ \A x, y \in S : h[x] = h[y] => x = y
  BY <1>6, <1>7, <1>8
<1>10. h \in Injections(S, T)
  BY <1>9 DEF Injections
<1>11. QED
  BY <1>10

LEMMA FirstInodes == FirstInode \in Injections(FirstFiles, Inodes)
<1>1. IsFiniteSet(FirstFiles)
  BY MountAssumption, FS_Subset
<1>2. \E f \in Injections(FirstFiles, Inodes) : TRUE
  BY <1>1, MountAssumption, InjectionExists
<1>3. QED
  BY <1>2 DEF FirstInode

LEMMA FilesContents ==
  /\ FreeInode \in Contents /\ FreeInode.lnkcnt = 0 /\ FreeInode.kind = "free"
  /\ \A rwx \in BOOLEAN :
        /\ File(rwx) \in Contents /\ File(rwx).lnkcnt = 1 /\ File(rwx).kind = "file"
        /\ File(rwx) # FreeInode
  /\ \A n \in Names, absolute \in BOOLEAN :
        /\ SymbolicLink(n, absolute) \in Contents /\ SymbolicLink(n, absolute).lnkcnt = 1
        /\ SymbolicLink(n, absolute).kind = "link" /\ SymbolicLink(n, absolute) # FreeInode
BY DEF FreeInode, File, SymbolicLink, Contents

LEMMA InitInv == Init => IInv
<1> SUFFICES ASSUME Init PROVE IInv
  OBVIOUS
<1>1. PICK place \in Injections(FirstFiles, Slots \ {0, 1}) : dir = With(place)
  BY DEF Init
<1>2. FirstFiles \subseteq Names
  BY MountAssumption
<1>3. ASSUME NEW n \in FirstFiles
      PROVE  /\ place[n] \in Slots \ {0, 1} /\ FirstInode[n] \in Inodes
             /\ dir[place[n]].in = FirstInode[n]
             /\ dir[place[n]] \in [name : Names, in : Inodes]
  <2>1. place[n] \in Slots \ {0, 1} /\ FirstInode[n] \in Inodes
    BY FirstInodes DEF Injections
  <2>2. \A m \in FirstFiles : place[m] = place[n] => m = n
    BY DEF Injections
  <2>3. (CHOOSE m \in FirstFiles : place[m] = place[n]) = n
    BY <2>2
  <2>4. dir[place[n]] = Entry(n, FirstInode[n])
    BY <1>1, <2>1, <2>3 DEF With
  <2>5. QED
    BY <1>2, <2>1, <2>4 DEF Entry
<1>4. ASSUME NEW s \in Slots, \A n \in FirstFiles : place[n] # s
      PROVE  dir[s] = NewDirectory[s]
  BY <1>1, <1>4 DEF With
<1>5. Rooted(dir)
  <2>1. /\ dir[0] = Entry(".", Root) /\ dir[1] = Entry("..", Root)
    BY <1>3, <1>4, SlotNumbers DEF NewDirectory
  <2>2. ASSUME NEW s \in Slots \ {0, 1}
        PROVE  dir[s] = Clean \/ dir[s] \in [name : Names, in : Inodes]
    <3>1. CASE \E n \in FirstFiles : place[n] = s
      BY <3>1, <1>3
    <3>2. CASE \A n \in FirstFiles : place[n] # s
      BY <3>2, <1>4 DEF NewDirectory
    <3>3. QED
      BY <3>1, <3>2
  <2>3. \A s \in Slots : dir[s] \in Entries
    BY <2>1, <2>2 DEF Entries, Entry
  <2>4. dir = [s \in Slots |-> dir[s]]
    BY <1>1 DEF With
  <2>5. QED
    BY <2>1, <2>2, <2>3, <2>4 DEF Rooted
<1>6. LinksCounted
  <2>1. SUFFICES ASSUME NEW i \in Inodes
                 PROVE  inode[i].lnkcnt = lost[i] + Cardinality(References(dir, i)) + Cardinality(Held(i))
    BY DEF LinksCounted, References, Held
  <2>2. Held(i) = {} /\ Cardinality(Held(i)) = 0 /\ lost[i] = 0
    BY FS_EmptySet DEF Held, Renaming, Init
  <2>3. CASE \E n \in FirstFiles : FirstInode[n] = i
    <3>1. PICK n \in FirstFiles : FirstInode[n] = i
      BY <2>3
    <3>2. inode[i].lnkcnt = 1
      BY <2>3, FilesContents DEF Init
    <3>3. References(dir, i) = {place[n]}
      <4>1. place[n] \in References(dir, i)
        BY <1>3, <3>1 DEF References
      <4>2. ASSUME NEW s \in References(dir, i) PROVE s = place[n]
        <5>1. CASE \E m \in FirstFiles : place[m] = s
          <6>1. PICK m \in FirstFiles : place[m] = s
            BY <5>1
          <6>2. FirstInode[m] = FirstInode[n]
            BY <1>3, <3>1, <6>1 DEF References
          <6>3. m = n
            BY <6>2, FirstInodes DEF Injections
          <6>4. QED
            BY <6>1, <6>3
        <5>2. CASE \A m \in FirstFiles : place[m] # s
          <6>1. s \in Slots /\ dir[s].in = i /\ dir[s] = NewDirectory[s]
            BY <1>4, <5>2 DEF References
          <6>2. QED
            BY <6>1, Constants DEF NewDirectory, Entry, Clean
        <5>3. QED
          BY <5>1, <5>2
      <4>3. QED
        BY <4>1, <4>2
    <3>4. Cardinality(References(dir, i)) = 1
      BY <3>3, FS_Singleton
    <3>5. QED
      BY <2>2, <3>2, <3>4
  <2>4. CASE \A n \in FirstFiles : FirstInode[n] # i
    <3>1. inode[i].lnkcnt = 0
      BY <2>4, FilesContents DEF Init
    <3>2. ASSUME NEW s \in References(dir, i) PROVE FALSE
      <4>1. s \in Slots /\ dir[s].in = i
        BY DEF References
      <4>2. CASE \E m \in FirstFiles : place[m] = s
        BY <1>3, <2>4, <4>1, <4>2
      <4>3. CASE \A m \in FirstFiles : place[m] # s
        BY <1>4, <4>1, <4>3, Constants DEF NewDirectory, Entry, Clean
      <4>4. QED
        BY <4>2, <4>3
    <3>3. Cardinality(References(dir, i)) = 0
      BY <3>2, FS_EmptySet
    <3>4. QED
      BY <2>2, <3>1, <3>3
  <2>5. QED
    BY <2>3, <2>4
<1>7. Types
  <2>1. Idle \in Requests
    BY DEF Idle, Request, Requests
  <2>2. NoListing \in Listings
    BY Constants DEF NoListing, Listings
  <2>3. inode \in [Inodes -> Contents]
    BY FilesContents DEF Init
  <2>4. listing \in [Clients -> Listings] /\ req \in [Clients -> Requests]
    BY <2>1, <2>2 DEF Init
  <2>5. /\ pc \in [Clients -> {"idle", "lock", "call", "deleted", "unlock"}]
        /\ cin \in [Clients -> Inodes \union {NullReference}]
        /\ lost \in [Inodes -> Nat]
    BY DEF Init
  <2>6. ret \in [Clients -> Replies]
    BY DEF Init, Replies
  <2>7. QED
    BY <2>3, <2>4, <2>5, <2>6 DEF Init, Types
<1>8. InUse
  <2>1. SUFFICES ASSUME NEW i \in Inodes
                 PROVE  /\ inode[i].lnkcnt = 0 <=> inode[i] = FreeInode
                        /\ inode[i].kind = "free" <=> inode[i] = FreeInode
    BY DEF InUse
  <2>2. CASE inode[i] = File(TRUE)
    <3>1. /\ inode[i].lnkcnt = 1 /\ inode[i].kind = "file"
          /\ FreeInode.lnkcnt = 0 /\ FreeInode.kind = "free"
      BY <2>2 DEF File, FreeInode
    <3>2. QED
      BY <3>1
  <2>3. CASE inode[i] = FreeInode
    BY <2>3, FilesContents
  <2>4. QED
    BY <2>2, <2>3 DEF Init
<1>9. Mutex /\ Serving
  BY DEF Init, Mutex, Serving
<1>10. Given /\ ListedOnce
  BY DEF Init, Given, ListedOnce, NoListing
<1>11. QED
  BY <1>5, <1>6, <1>7, <1>8, <1>9, <1>10 DEF IInv
-----------------------------------------------------------------------------
(***************************************************************************)
(* What steps have in common.                                              *)
(***************************************************************************)
\* A step that only moves threads, or ends the process.
LEMMA ControlStep ==
  ASSUME IInv, UNCHANGED <<cin, dir, inode, listing, lost>>, Renaming' = Renaming,
         Types', Mutex', Serving'
  PROVE  IInv'
<1>1. InUse' /\ Rooted(dir)'
  BY DEF IInv, InUse, Rooted
<1>2. LinksCounted'
  BY DEF IInv, LinksCounted
<1>3. Given' /\ ListedOnce'
  BY DEF IInv, Given, ListedOnce
<1>4. QED
  BY <1>1, <1>2, <1>3 DEF IInv

\* While one thread is at its call, the others are not.
LEMMA Alone ==
  ASSUME IInv, NEW c \in Clients, pc[c] \in {"call", "deleted", "unlock"}
  PROVE  /\ accessCR = c
         /\ \A x \in Clients \ {c} : pc[x] \notin {"call", "deleted", "unlock"}
         /\ Renaming = IF pc[c] = "deleted" THEN {c} ELSE {}
<1>1. accessCR = c
  BY DEF IInv, Mutex
<1>2. \A x \in Clients \ {c} : pc[x] \notin {"call", "deleted", "unlock"}
  BY <1>1 DEF IInv, Mutex
<1>3. QED
  BY <1>1, <1>2 DEF Renaming

LEMMA HeldCounted ==
  ASSUME IInv, NEW c \in Clients, pc[c] \in {"call", "deleted", "unlock"}, NEW i \in Inodes
  PROVE  Cardinality(Held(i)) = IF pc[c] = "deleted" /\ cin[c] = i THEN 1 ELSE 0
<1>1. Held(i) = IF pc[c] = "deleted" /\ cin[c] = i THEN {c} ELSE {}
  BY Alone DEF Held
<1>2. QED
  BY <1>1, FS_EmptySet, FS_Singleton

LEMMA Counted ==
  ASSUME IInv, NEW c \in Clients, pc[c] \in {"call", "deleted", "unlock"}, NEW i \in Inodes
  PROVE  /\ inode[i].lnkcnt = lost[i] + Cardinality(References(dir, i))
                              + (IF pc[c] = "deleted" /\ cin[c] = i THEN 1 ELSE 0)
         /\ lost[i] \in Nat /\ Cardinality(References(dir, i)) \in Nat
         /\ inode[i] \in Contents /\ inode[i].lnkcnt \in Nat
<1>1. inode[i].lnkcnt = lost[i] + Cardinality(References(dir, i)) + Cardinality(Held(i))
  BY DEF IInv, LinksCounted, References, Held
<1>2. lost[i] \in Nat /\ inode[i] \in Contents
  BY DEF IInv, Types
<1>3. inode[i].lnkcnt \in Nat
  BY <1>2 DEF Contents
<1>4. QED
  BY <1>1, <1>2, <1>3, HeldCounted, ReferencesFinite

\* The thread that replies is no longer renaming.
LEMMA ReplyStep ==
  ASSUME IInv, NEW c \in Clients, pc[c] \in {"call", "deleted"}, NEW r \in Replies, Reply(c, r),
         UNCHANGED <<accessCR, req>>
  PROVE  /\ pc' \in [Clients -> {"idle", "lock", "call", "deleted", "unlock"}]
         /\ req' \in [Clients -> Requests] /\ ret' \in [Clients -> Replies]
         /\ accessCR' \in Clients \union {Nobody}
         /\ Renaming' = {} /\ Mutex' /\ Serving'
         /\ \A i \in Inodes : Held(i)' = {} /\ Cardinality(Held(i)') = 0
<1>1. /\ pc' = [pc EXCEPT ![c] = "unlock"] /\ ret' = [ret EXCEPT ![c] = r]
      /\ accessCR' = accessCR /\ req' = req
  BY DEF Reply
<1>2. Types
  BY DEF IInv
<1>3. /\ pc' \in [Clients -> {"idle", "lock", "call", "deleted", "unlock"}]
      /\ ret' \in [Clients -> Replies]
      /\ req' \in [Clients -> Requests] /\ accessCR' \in Clients \union {Nobody}
  BY <1>1, <1>2 DEF Types
<1>4. pc'[c] = "unlock" /\ \A x \in Clients \ {c} : pc'[x] = pc[x] /\ ret'[x] = ret[x]
  BY <1>1, <1>2 DEF Types
<1>5. accessCR = c /\ \A x \in Clients \ {c} : pc[x] \notin {"call", "deleted", "unlock"}
  BY Alone
<1>6. Renaming' = {}
  BY <1>4, <1>5 DEF Renaming
<1>7. Mutex'
  BY <1>1, <1>4, <1>5 DEF Mutex
<1>8. Serving'
  BY <1>1, <1>4, <1>5 DEF Serving, IInv
<1>9. \A i \in Inodes : Held(i)' = {} /\ Cardinality(Held(i)') = 0
  BY <1>6, FS_EmptySet DEF Held
<1>10. QED
  BY <1>3, <1>6, <1>7, <1>8, <1>9

\* Listings go on whatever becomes of the directory.
LEMMA KeptStep ==
  ASSUME IInv, listing' = Kept(dir')
  PROVE  listing' \in [Clients -> Listings] /\ Given' /\ ListedOnce'
<1>1. listing \in [Clients -> Listings]
  BY DEF IInv, Types
<1>2. ASSUME NEW x \in Clients
      PROVE  /\ listing'[x] \in Listings
             /\ listing'[x].on = listing[x].on /\ listing'[x].offset = listing[x].offset
             /\ listing'[x].listed = listing[x].listed /\ listing'[x].again = listing[x].again
             /\ listing'[x].kept = {s \in listing[x].kept : dir'[s] = dir[s]}
  <2>1. listing[x] \in Listings
    BY <1>1
  <2>2. listing'[x] = [listing[x] EXCEPT !.kept = {s \in @ : dir'[s] = dir[s]}]
    BY DEF Kept
  <2>3. {s \in listing[x].kept : dir'[s] = dir[s]} \in SUBSET Slots
    BY <2>1 DEF Listings
  <2>4. QED
    BY <2>1, <2>2, <2>3 DEF Listings
<1>3. listing' = [x \in Clients |-> listing'[x]]
  BY DEF Kept
<1>4. listing' \in [Clients -> Listings]
  BY <1>2, <1>3
<1>5. Given'
  <2>1. SUFFICES ASSUME NEW x \in Clients
                 PROVE  /\ \A s \in listing'[x].listed : s < listing'[x].offset
                        /\ \A s \in listing'[x].kept : dir'[s] # Clean
    BY DEF Given
  <2>2. QED
    BY <1>2 DEF Given, IInv
<1>6. ListedOnce'
  <2>1. SUFFICES ASSUME NEW x \in Clients
                 PROVE  /\ ~listing'[x].again
                        /\ {s \in listing'[x].kept : s < listing'[x].offset} \subseteq listing'[x].listed
                        /\ ~listing'[x].on => listing'[x].kept = {}
    BY DEF ListedOnce
  <2>2. /\ ~listing[x].again
        /\ {s \in listing[x].kept : s < listing[x].offset} \subseteq listing[x].listed
        /\ ~listing[x].on => listing[x].kept = {}
    BY DEF ListedOnce, IInv
  <2>3. QED
    BY <1>2, <2>2
<1>7. QED
  BY <1>4, <1>5, <1>6

\* One inode changes.
LEMMA InodeStep ==
  ASSUME IInv, NEW i \in Inodes, NEW contents \in Contents, inode' = [inode EXCEPT ![i] = contents],
         contents.lnkcnt = 0 <=> contents = FreeInode,
         contents.kind = "free" <=> contents = FreeInode
  PROVE  /\ inode' \in [Inodes -> Contents] /\ InUse'
         /\ inode'[i] = contents /\ \A j \in Inodes \ {i} : inode'[j] = inode[j]
<1>1. inode \in [Inodes -> Contents]
  BY DEF IInv, Types
<1>2. inode'[i] = contents /\ \A j \in Inodes \ {i} : inode'[j] = inode[j]
  BY <1>1
<1>3. InUse'
  <2>1. SUFFICES ASSUME NEW j \in Inodes
                 PROVE  /\ inode'[j].lnkcnt = 0 <=> inode'[j] = FreeInode
                        /\ inode'[j].kind = "free" <=> inode'[j] = FreeInode
    BY DEF InUse
  <2>2. CASE j = i
    BY <1>2, <2>2
  <2>3. CASE j # i
    BY <1>2, <2>3 DEF InUse, IInv
  <2>4. QED
    BY <2>2, <2>3
<1>4. QED
  BY <1>1, <1>2, <1>3
-----------------------------------------------------------------------------
(***************************************************************************)
(* The steps that only move threads, or end the process.                   *)
(***************************************************************************)
LEMMA VolumeStep ==
  ASSUME IInv,
         volume' \in {"new", "open", "failed", "closed", "replaced", "crashed"},
         UNCHANGED <<accessCR, pc, req, ret, cin, dir, inode, listing, lost, calls>>
  PROVE  IInv'
<1>1. Renaming' = Renaming
  BY DEF Renaming
<1>2. Types'
  BY DEF IInv, Types
<1>3. Mutex' /\ Serving'
  BY DEF IInv, Mutex, Serving
<1>4. QED
  BY <1>1, <1>2, <1>3, ControlStep

LEMMA ArriveStep ==
  ASSUME IInv, NEW c \in Clients, NEW r \in Requests, NEW there \in {"idle", "lock"},
         ArriveAt(c, r, there), there = "idle" => r = Idle
  PROVE  IInv'
<1>1. /\ pc[c] = "idle" /\ pc' = [pc EXCEPT ![c] = there] /\ req' = [req EXCEPT ![c] = r]
      /\ ret' = [ret EXCEPT ![c] = "none"]
      /\ UNCHANGED <<volume, accessCR, cin, dir, inode, listing, lost>>
      /\ calls' \in {calls, calls + 1}
  BY DEF ArriveAt
<1>2. Types
  BY DEF IInv
<1>3. Types'
  BY <1>1, <1>2 DEF Types, Replies
<1>4. /\ pc'[c] = there /\ req'[c] = r /\ ret'[c] = "none"
      /\ \A x \in Clients \ {c} : pc'[x] = pc[x] /\ req'[x] = req[x] /\ ret'[x] = ret[x]
  BY <1>1, <1>2 DEF Types
<1>5. Renaming' = Renaming
  BY <1>1, <1>4 DEF Renaming
<1>6. Mutex'
  BY <1>1, <1>4 DEF IInv, Mutex
<1>7. Serving'
  BY <1>1, <1>4 DEF IInv, Serving
<1>8. QED
  BY <1>1, <1>3, <1>5, <1>6, <1>7, ControlStep

\* Every request is one of Requests.
LEMMA RequestsAre ==
  /\ Idle \in Requests
  /\ Request("opendir", NoName, NoName) \in Requests
  /\ Request("readdir", NoName, NoName) \in Requests
  /\ \A n \in Names, op \in {"ask", "mknod", "unlink", "mkdir", "truncate", "write"} :
        Request(op, n, NoName) \in Requests
  /\ \A n \in Names \union {"/"} : Request("rmdir", n, NoName) \in Requests
  /\ \A n, new \in Names, op \in {"symlink", "link", "rename"} : Request(op, n, new) \in Requests
<1>1. /\ Request("flush", NoName, NoName) \in Requests
      /\ Request("opendir", NoName, NoName) \in Requests
      /\ Request("readdir", NoName, NoName) \in Requests
  BY DEF Request, Requests
<1>2. ASSUME NEW n \in Names, NEW op \in {"ask", "mknod", "unlink", "mkdir", "truncate", "write"}
      PROVE  Request(op, n, NoName) \in Requests
  BY DEF Request, Requests
<1>3. ASSUME NEW n \in Names \union {"/"} PROVE Request("rmdir", n, NoName) \in Requests
  BY DEF Request, Requests
<1>4. ASSUME NEW n \in Names, NEW new \in Names, NEW op \in {"symlink", "link", "rename"}
      PROVE  Request(op, n, new) \in Requests
  BY DEF Request, Requests
<1>5. QED
  BY <1>1, <1>2, <1>3, <1>4 DEF Idle

\* The handlers when a request arrives.
Arrivals(c) ==
  \/ Ask(c) \/ Arrive(c, Idle) \/ Refuse(c)
  \/ sofs_mknod(c) \/ sofs_symlink(c) \/ sofs_link(c) \/ sofs_unlink(c)
  \/ sofs_mkdir(c) \/ sofs_rmdir(c) \/ sofs_truncate(c) \/ sofs_write(c)
  \/ sofs_rename(c) \/ sofs_opendir(c) \/ sofs_readdir(c)

\* A request other than an "ask" asks for no name.
LEMMA ArrivalsAre ==
  ASSUME NEW c \in Clients, Arrivals(c)
  PROVE  \E r \in Requests, there \in {"idle", "lock"} :
            /\ ArriveAt(c, r, there)
            /\ there = "idle" => r = Idle
            /\ r.op = "ask" => r.name \in Names
<1>1. CASE Ask(c)
  <2>1. PICK n \in Names : ArriveAt(c, Request("ask", n, NoName), "lock")
    BY <1>1 DEF Ask, Arrive
  <2>2. Request("ask", n, NoName) \in Requests /\ Request("ask", n, NoName).name = n
    BY RequestsAre DEF Request
  <2>3. QED
    BY <2>1, <2>2
<1>2. CASE Arrive(c, Idle) \/ Refuse(c)
  <2>1. ArriveAt(c, Idle, "lock") \/ ArriveAt(c, Idle, "idle")
    BY <1>2 DEF Arrive, Refuse
  <2>2. Idle \in Requests /\ Idle.op # "ask"
    BY RequestsAre DEF Idle, Request
  <2>3. QED
    BY <2>1, <2>2
<1>3. CASE sofs_opendir(c) \/ sofs_readdir(c)
  <2>1. PICK op \in {"opendir", "readdir"} : ArriveAt(c, Request(op, NoName, NoName), "lock")
    BY <1>3 DEF sofs_opendir, sofs_readdir, Arrive
  <2>2. Request(op, NoName, NoName) \in Requests /\ Request(op, NoName, NoName).op # "ask"
    BY RequestsAre DEF Request
  <2>3. QED
    BY <2>1, <2>2
<1>4. CASE sofs_mknod(c) \/ sofs_unlink(c) \/ sofs_mkdir(c) \/ sofs_truncate(c) \/ sofs_write(c)
  <2>1. PICK op \in {"mknod", "unlink", "mkdir", "truncate", "write"}, n \in Names :
             ArriveAt(c, Request(op, n, NoName), "lock")
    BY <1>4 DEF sofs_mknod, sofs_unlink, sofs_mkdir, sofs_truncate, sofs_write, Arrive
  <2>2. Request(op, n, NoName) \in Requests /\ Request(op, n, NoName).op # "ask"
    BY RequestsAre DEF Request
  <2>3. QED
    BY <2>1, <2>2
<1>5. CASE sofs_rmdir(c)
  <2>1. PICK n \in Names \union {"/"} : ArriveAt(c, Request("rmdir", n, NoName), "lock")
    BY <1>5 DEF sofs_rmdir, Arrive
  <2>2. Request("rmdir", n, NoName) \in Requests /\ Request("rmdir", n, NoName).op # "ask"
    BY RequestsAre DEF Request
  <2>3. QED
    BY <2>1, <2>2
<1>6. CASE sofs_symlink(c) \/ sofs_link(c) \/ sofs_rename(c)
  <2>1. PICK op \in {"symlink", "link", "rename"}, n \in Names, new \in Names :
             ArriveAt(c, Request(op, n, new), "lock")
    BY <1>6 DEF sofs_symlink, sofs_link, sofs_rename, Arrive
  <2>2. Request(op, n, new) \in Requests /\ Request(op, n, new).op # "ask"
    BY RequestsAre DEF Request
  <2>3. QED
    BY <2>1, <2>2
<1>7. QED
  BY <1>1, <1>2, <1>3, <1>4, <1>5, <1>6 DEF Arrivals

LEMMA ArrivalsStep ==
  ASSUME IInv, NEW c \in Clients, Arrivals(c)
  PROVE  IInv'
BY ArrivalsAre, ArriveStep

LEMMA LockStep ==
  ASSUME IInv, NEW c \in Clients, Lock(c)
  PROVE  IInv'
<1>1. /\ pc[c] = "lock" /\ accessCR = Nobody /\ accessCR' = c /\ pc' = [pc EXCEPT ![c] = "call"]
      /\ UNCHANGED <<volume, req, ret, cin, dir, inode, listing, lost, calls>>
  BY DEF Lock
<1>2. Types
  BY DEF IInv
<1>3. Types'
  BY <1>1, <1>2 DEF Types
<1>4. pc'[c] = "call" /\ \A x \in Clients \ {c} : pc'[x] = pc[x]
  BY <1>1, <1>2 DEF Types
<1>5. Renaming' = Renaming
  BY <1>1, <1>4 DEF Renaming
<1>6. Mutex'
  BY <1>1, <1>4, Constants DEF IInv, Mutex
<1>7. Serving'
  BY <1>1, <1>4 DEF IInv, Serving
<1>8. QED
  BY <1>1, <1>3, <1>5, <1>6, <1>7, ControlStep

LEMMA UnlockStep ==
  ASSUME IInv, NEW c \in Clients, Unlock(c)
  PROVE  IInv'
<1>1. /\ pc[c] = "unlock" /\ accessCR' = Nobody /\ pc' = [pc EXCEPT ![c] = "idle"]
      /\ req' = [req EXCEPT ![c] = Idle] /\ ret' = [ret EXCEPT ![c] = "none"]
      /\ UNCHANGED <<volume, cin, dir, inode, listing, lost, calls>>
  BY DEF Unlock
<1>2. Types
  BY DEF IInv
<1>3. Types'
  BY <1>1, <1>2, RequestsAre DEF Types, Replies
<1>4. /\ pc'[c] = "idle" /\ req'[c] = Idle /\ ret'[c] = "none"
      /\ \A x \in Clients \ {c} : pc'[x] = pc[x] /\ req'[x] = req[x] /\ ret'[x] = ret[x]
  BY <1>1, <1>2 DEF Types
<1>5. Renaming' = Renaming
  BY <1>1, <1>4 DEF Renaming
<1>6. Mutex'
  BY <1>1, <1>4, Alone DEF Mutex
<1>7. Serving'
  BY <1>1, <1>4 DEF IInv, Serving
<1>8. QED
  BY <1>1, <1>3, <1>5, <1>6, <1>7, ControlStep

LEMMA FailStep ==
  ASSUME IInv, NEW c \in Clients, pc[c] = "call", NEW r \in Replies, Fail(c, r)
  PROVE  IInv'
<1>1. /\ Reply(c, r)
      /\ UNCHANGED <<volume, accessCR, req, cin, dir, inode, listing, lost, calls>>
  BY DEF Fail
<1>2. /\ pc' \in [Clients -> {"idle", "lock", "call", "deleted", "unlock"}]
      /\ ret' \in [Clients -> Replies]
      /\ Renaming' = {} /\ Mutex' /\ Serving'
  BY <1>1, ReplyStep
<1>3. Renaming = {}
  BY Alone
<1>4. Types'
  BY <1>1, <1>2 DEF IInv, Types
<1>5. QED
  BY <1>1, <1>2, <1>3, <1>4, ControlStep

\* The calls that change nothing but the reply, or end the process.
Refusals(c) ==
  Nothing(c) \/ CallFailed(c) \/ soMkdir(c) \/ soRmdir(c) \/ soTruncate(c)

LEMMA RefusalsAre ==
  ASSUME NEW c \in Clients, Refusals(c)
  PROVE  \/ pc[c] = "call" /\ \E r \in Replies \ {"found", "missing"} : Fail(c, r)
         \/ End("crashed")
<1>1. CASE Nothing(c)
  BY <1>1 DEF Nothing, Calling, Replies
<1>2. CASE CallFailed(c)
  BY <1>2 DEF CallFailed, Replies
<1>3. CASE soMkdir(c)
  BY <1>3 DEF soMkdir, Calling, Replies
<1>4. CASE soRmdir(c)
  BY <1>4 DEF soRmdir, Calling, Replies
<1>5. CASE soTruncate(c)
  BY <1>5 DEF soTruncate, Calling, Replies
<1>6. QED
  BY <1>1, <1>2, <1>3, <1>4, <1>5 DEF Refusals

LEMMA EndStep ==
  ASSUME IInv, NEW how \in {"crashed", "replaced"}, End(how)
  PROVE  IInv'
BY VolumeStep DEF End

LEMMA RefusalsStep ==
  ASSUME IInv, NEW c \in Clients, Refusals(c)
  PROVE  IInv'
BY RefusalsAre, FailStep, EndStep

LEMMA AnswerStep ==
  ASSUME IInv, NEW c \in Clients, Answer(c)
  PROVE  IInv'
<1>1. pc[c] = "call" /\ \E r \in {"found", "missing"} : Fail(c, r)
  BY DEF Answer, Calling
<1>2. QED
  BY <1>1, FailStep DEF Replies

\* The request that a thread serves.
LEMMA Served ==
  ASSUME IInv, NEW c \in Clients
  PROVE  /\ req[c].op \in {"ask", "mknod", "unlink", "mkdir", "truncate", "write"} => req[c].name \in Names
         /\ req[c].op \in {"symlink", "link", "rename"} => req[c].name \in Names /\ req[c].new \in Names
<1>1. req[c] \in Requests
  BY DEF IInv, Types
<1>2. QED
  BY <1>1 DEF Requests
-----------------------------------------------------------------------------
(***************************************************************************)
(* Links are made and deleted.                                             *)
(***************************************************************************)
\* A call that changes entries and inodes: links are counted afterwards.
LEMMA LinkStep ==
  ASSUME IInv, NEW c \in Clients, pc[c] \in {"call", "deleted"}, NEW r \in Replies, Reply(c, r),
         UNCHANGED <<volume, accessCR, req, calls>>,
         cin' \in [Clients -> Inodes \union {NullReference}],
         listing' = Kept(dir'), Rooted(dir)',
         inode' \in [Inodes -> Contents], InUse', lost' \in [Inodes -> Nat],
         \A i \in Inodes : inode'[i].lnkcnt = lost'[i] + Cardinality(References(dir', i))
  PROVE  IInv'
<1>1. /\ pc' \in [Clients -> {"idle", "lock", "call", "deleted", "unlock"}]
      /\ req' \in [Clients -> Requests] /\ ret' \in [Clients -> Replies]
      /\ accessCR' \in Clients \union {Nobody}
      /\ Mutex' /\ Serving'
      /\ \A i \in Inodes : Cardinality(Held(i)') = 0
  BY ReplyStep
<1>2. listing' \in [Clients -> Listings] /\ Given' /\ ListedOnce'
  BY KeptStep
<1>3. Types'
  BY <1>1, <1>2 DEF IInv, Types
<1>4. LinksCounted'
  <2>1. SUFFICES ASSUME NEW i \in Inodes
                 PROVE  inode'[i].lnkcnt = lost'[i] + Cardinality(References(dir', i)) + Cardinality(Held(i)')
    BY DEF LinksCounted, References, Held
  <2>2. lost'[i] + Cardinality(References(dir', i)) \in Nat
    BY ReferencesFinite
  <2>3. QED
    BY <1>1, <2>2
<1>5. QED
  BY <1>1, <1>2, <1>3, <1>4 DEF IInv

\* Links that are not lost, and an entry that is added, are links.
LEMMA AddLinkStep ==
  ASSUME IInv, NEW c \in Clients, pc[c] = "call", NEW n \in Names, NEW in \in Inodes,
         Of(dir, NoName) # {}, NEW contents \in Contents, AddLink(c, n, in, contents),
         contents.lnkcnt = inode[in].lnkcnt + 1, contents.kind # "free"
  PROVE  IInv'
<1>1. /\ Reply(c, "ok") /\ dir' = soAddDirEntry(dir, n, in)
      /\ inode' = [inode EXCEPT ![in] = contents] /\ listing' = Kept(dir')
      /\ UNCHANGED <<volume, accessCR, req, cin, lost, calls>>
  BY DEF AddLink
<1>2. Rooted(dir) /\ Types
  BY DEF IInv
<1>3. /\ Rooted(dir')
      /\ Cardinality(References(dir', in)) = Cardinality(References(dir, in)) + 1
      /\ \A i \in Inodes \ {in} : References(dir', i) = References(dir, i)
  BY <1>1, <1>2, Adds
<1>4. contents.lnkcnt # 0 /\ contents # FreeInode
  BY Counted, FilesContents
<1>5. /\ inode' \in [Inodes -> Contents] /\ InUse'
      /\ inode'[in] = contents /\ \A j \in Inodes \ {in} : inode'[j] = inode[j]
  BY <1>1, <1>4, InodeStep
<1>6. ASSUME NEW i \in Inodes
      PROVE  inode'[i].lnkcnt = lost'[i] + Cardinality(References(dir', i))
  <2>1. /\ inode[i].lnkcnt = lost[i] + Cardinality(References(dir, i))
        /\ lost[i] \in Nat /\ Cardinality(References(dir, i)) \in Nat
    BY Counted
  <2>2. CASE i = in
    BY <1>1, <1>3, <1>5, <2>1, <2>2
  <2>3. CASE i # in
    BY <1>1, <1>3, <1>5, <2>1, <2>3
  <2>4. QED
    BY <2>2, <2>3
<1>7. "ok" \in Replies /\ cin' \in [Clients -> Inodes \union {NullReference}] /\ lost' \in [Inodes -> Nat]
  BY <1>1, <1>2 DEF Types, Replies
<1>8. Rooted(dir)'
  BY <1>3
<1>9. QED
  BY <1>1, <1>5, <1>6, <1>7, <1>8, LinkStep

LEMMA MakeInodeStep ==
  ASSUME IInv, NEW c \in Clients, pc[c] = "call", req[c].name \in Names, NEW contents \in Contents,
         contents.lnkcnt = 1, contents.kind # "free", MakeInode(c, contents)
  PROVE  IInv'
<1>1. CASE Room(req[c].name) /\ Unused # {}
  <2>1. PICK i \in Unused : AddLink(c, req[c].name, i, contents)
    BY <1>1 DEF MakeInode
  <2>2. i \in Inodes /\ inode[i] = FreeInode
    BY DEF Unused, IInv, InUse
  <2>3. contents.lnkcnt = inode[i].lnkcnt + 1
    BY <2>2, FilesContents
  <2>4. QED
    BY <1>1, <2>1, <2>2, <2>3, AddLinkStep DEF Room
<1>2. CASE ~(Room(req[c].name) /\ Unused # {})
  BY <1>2, FailStep DEF MakeInode, Replies
<1>3. QED
  BY <1>1, <1>2

LEMMA MknodStep ==
  ASSUME IInv, NEW c \in Clients, soMknod(c)
  PROVE  IInv'
<1>1. pc[c] = "call" /\ req[c].name \in Names
  BY Served DEF soMknod, Calling
<1>2. PICK rwx \in BOOLEAN : MakeInode(c, File(rwx))
  BY DEF soMknod
<1>3. File(rwx) \in Contents /\ File(rwx).lnkcnt = 1 /\ File(rwx).kind # "free"
  BY FilesContents
<1>4. QED
  BY <1>1, <1>2, <1>3, MakeInodeStep

LEMMA SymlinkStep ==
  ASSUME IInv, NEW c \in Clients, soSymlink(c)
  PROVE  IInv'
<1>1. pc[c] = "call" /\ req[c].name \in Names /\ req[c].new \in Names
  BY Served DEF soSymlink, Calling
<1>2. PICK absolute \in BOOLEAN : MakeInode(c, SymbolicLink(req[c].new, absolute))
  BY DEF soSymlink
<1> DEFINE contents == SymbolicLink(req[c].new, absolute)
<1>3. contents \in Contents /\ contents.lnkcnt = 1 /\ contents.kind # "free"
  BY <1>1, FilesContents
<1>4. QED
  BY <1>1, <1>2, <1>3, MakeInodeStep

\* An inode that an entry refers to is in use.
LEMMA TargetUsed ==
  ASSUME IInv, NEW c \in Clients, pc[c] = "call", req[c].name \in Names, Here(c)
  PROVE  /\ Target(c) \in Inodes /\ inode[Target(c)].lnkcnt \in Nat /\ inode[Target(c)].lnkcnt >= 1
         /\ inode[Target(c)] \in Contents
         /\ inode[Target(c)].kind # "free"
<1>1. Rooted(dir)
  BY DEF IInv
<1>2. Target(c) \in Inodes /\ Cardinality(References(dir, Target(c))) >= 1
  BY <1>1, Deletes DEF Target, Here
<1>3. inode[Target(c)].lnkcnt >= 1 /\ inode[Target(c)].lnkcnt \in Nat /\ inode[Target(c)] \in Contents
  BY <1>2, Counted
<1>4. inode[Target(c)] # FreeInode
  BY <1>3, FilesContents
<1>5. QED
  BY <1>2, <1>3, <1>4 DEF IInv, InUse

LEMMA LinkCallStep ==
  ASSUME IInv, NEW c \in Clients, soLink(c)
  PROVE  IInv'
<1>1. pc[c] = "call" /\ req[c].name \in Names /\ req[c].new \in Names
  BY Served DEF soLink, Calling
<1>2. CASE Here(c) /\ Room(req[c].new)
  <2> DEFINE in == Target(c)
             contents == [inode[in] EXCEPT !.lnkcnt = @ + 1]
  <2>1. AddLink(c, req[c].new, in, contents)
    BY <1>2 DEF soLink
  <2>2. /\ in \in Inodes /\ inode[in].lnkcnt \in Nat /\ inode[in] \in Contents
        /\ inode[in].kind # "free"
    BY <1>1, <1>2, TargetUsed
  <2>3. /\ contents \in Contents /\ contents.lnkcnt = inode[in].lnkcnt + 1
        /\ contents.kind # "free"
    BY <2>2 DEF Contents
  <2> HIDE DEF in, contents
  <2>4. QED
    BY <1>1, <1>2, <2>1, <2>2, <2>3, AddLinkStep DEF Room
<1>3. CASE ~(Here(c) /\ Room(req[c].new))
  BY <1>1, <1>3, FailStep DEF soLink, Replies
<1>4. QED
  BY <1>2, <1>3

LEMMA UnlinkStep ==
  ASSUME IInv, NEW c \in Clients, soUnlink(c)
  PROVE  IInv'
<1>1. pc[c] = "call" /\ req[c].name \in Names
  BY Served DEF soUnlink, Calling
<1>2. CASE Here(c)
  <2> DEFINE in == Target(c)
             contents == Unlinked(in)
  <2>1. /\ Reply(c, "ok") /\ dir' = soDeleteDirEntry(dir, req[c].name)
        /\ inode' = [inode EXCEPT ![in] = contents] /\ listing' = Kept(dir')
        /\ UNCHANGED <<volume, accessCR, req, cin, lost, calls>>
    BY <1>2 DEF soUnlink
  <2>2. Rooted(dir) /\ Types
    BY DEF IInv
  <2>3. /\ Rooted(dir')
        /\ Cardinality(References(dir', in)) = Cardinality(References(dir, in)) - 1
        /\ \A i \in Inodes \ {in} : References(dir', i) = References(dir, i)
    BY <1>1, <1>2, <2>1, <2>2, Deletes DEF Here, Target
  <2>4. /\ in \in Inodes /\ inode[in].lnkcnt \in Nat /\ inode[in].lnkcnt >= 1
        /\ inode[in] \in Contents /\ inode[in].kind # "free"
    BY <1>1, <1>2, TargetUsed
  <2>5. /\ contents \in Contents /\ contents.lnkcnt = inode[in].lnkcnt - 1
        /\ contents.lnkcnt = 0 <=> contents = FreeInode
        /\ contents.kind = "free" <=> contents = FreeInode
    <3> HIDE DEF in
    <3>1. CASE inode[in].lnkcnt = 1
      BY <3>1, FilesContents DEF Unlinked
    <3>2. CASE inode[in].lnkcnt # 1
      <4>1. contents = [inode[in] EXCEPT !.lnkcnt = @ - 1]
        BY <3>2 DEF Unlinked
      <4>2. /\ contents \in Contents /\ contents.lnkcnt = inode[in].lnkcnt - 1
            /\ contents.kind = inode[in].kind
        BY <2>4, <4>1, <3>2 DEF Contents
      <4>3. contents # FreeInode
        BY <4>2, <2>4, FilesContents
      <4>4. QED
        BY <2>4, <3>2, <4>2, <4>3
    <3>3. QED
      BY <3>1, <3>2
  <2> HIDE DEF in, contents
  <2>6. /\ inode' \in [Inodes -> Contents] /\ InUse'
        /\ inode'[in] = contents /\ \A j \in Inodes \ {in} : inode'[j] = inode[j]
    BY <2>1, <2>4, <2>5, InodeStep
  <2>7. ASSUME NEW i \in Inodes
        PROVE  inode'[i].lnkcnt = lost'[i] + Cardinality(References(dir', i))
    <3>1. /\ inode[i].lnkcnt = lost[i] + Cardinality(References(dir, i))
          /\ lost[i] \in Nat /\ Cardinality(References(dir, i)) \in Nat
      BY <1>1, Counted
    <3>2. CASE i = in
      BY <2>1, <2>3, <2>5, <2>6, <3>1, <3>2
    <3>3. CASE i # in
      BY <2>1, <2>3, <2>6, <3>1, <3>3
    <3>4. QED
      BY <3>2, <3>3
  <2>8. "ok" \in Replies /\ cin' \in [Clients -> Inodes \union {NullReference}] /\ lost' \in [Inodes -> Nat]
    BY <2>1, <2>2 DEF Types, Replies
  <2>9. Rooted(dir)'
    BY <2>3
  <2>10. QED
    BY <1>1, <2>1, <2>6, <2>7, <2>8, <2>9, LinkStep
<1>3. CASE ~Here(c)
  BY <1>1, <1>3, FailStep DEF soUnlink, Replies
<1>4. QED
  BY <1>2, <1>3

LEMMA KeptAll ==
  ASSUME IInv, UNCHANGED <<dir, listing>>
  PROVE  listing' = Kept(dir')
<1>1. listing \in [Clients -> Listings]
  BY DEF IInv, Types
<1>2. ASSUME NEW x \in Clients
      PROVE  [listing[x] EXCEPT !.kept = {s \in @ : dir'[s] = dir[s]}] = listing[x]
  <2>1. {s \in listing[x].kept : dir'[s] = dir[s]} = listing[x].kept
    OBVIOUS
  <2>2. listing[x] \in Listings
    BY <1>1
  <2>3. QED
    BY <2>1, <2>2 DEF Listings
<1>3. QED
  BY <1>1, <1>2 DEF Kept

LEMMA WriteStep ==
  ASSUME IInv, NEW c \in Clients, soWrite(c)
  PROVE  IInv'
<1>1. pc[c] = "call" /\ req[c].name \in Names
  BY Served DEF soWrite, Calling
<1>2. CASE Here(c) /\ inode[Target(c)].rwx /\ inode[Target(c)].kind = "file"
  <2> DEFINE in == Target(c)
  <2>1. PICK size \in 1 .. MaxSize : inode' = [inode EXCEPT ![in].size = size]
    BY <1>2 DEF soWrite
  <2>2. Reply(c, "EINVAL") /\ UNCHANGED <<volume, accessCR, req, cin, dir, listing, lost, calls>>
    BY <1>2 DEF soWrite
  <2>3. /\ in \in Inodes /\ inode[in].lnkcnt \in Nat /\ inode[in].lnkcnt >= 1
        /\ inode[in] \in Contents /\ inode[in].kind # "free"
    BY <1>1, <1>2, TargetUsed
  <2> DEFINE contents == [inode[in] EXCEPT !.size = size]
  <2> HIDE DEF in
  <2>4. /\ contents \in Contents /\ contents.lnkcnt = inode[in].lnkcnt
        /\ contents.kind = inode[in].kind
    BY <2>3 DEF Contents
  <2>5. inode' = [inode EXCEPT ![in] = contents]
    BY <2>1
  <2> HIDE DEF contents
  <2>6. /\ contents.lnkcnt = 0 <=> contents = FreeInode
        /\ contents.kind = "free" <=> contents = FreeInode
    BY <2>3, <2>4, FilesContents
  <2>7. /\ inode' \in [Inodes -> Contents] /\ InUse'
        /\ inode'[in] = contents /\ \A j \in Inodes \ {in} : inode'[j] = inode[j]
    BY <2>3, <2>4, <2>5, <2>6, InodeStep
  <2>8. ASSUME NEW i \in Inodes
        PROVE  inode'[i].lnkcnt = lost'[i] + Cardinality(References(dir', i))
    <3>1. /\ inode[i].lnkcnt = lost[i] + Cardinality(References(dir, i))
          /\ lost[i] \in Nat /\ Cardinality(References(dir, i)) \in Nat
      BY <1>1, Counted
    <3>2. inode'[i].lnkcnt = inode[i].lnkcnt
      BY <2>4, <2>7
    <3>3. QED
      BY <2>2, <3>1, <3>2
  <2>9. /\ "EINVAL" \in Replies /\ cin' \in [Clients -> Inodes \union {NullReference}]
        /\ lost' \in [Inodes -> Nat] /\ Rooted(dir)'
    BY <2>2 DEF IInv, Types, Replies
  <2>10. listing' = Kept(dir')
    BY <2>2, KeptAll
  <2>11. QED
    BY <1>1, <2>2, <2>7, <2>8, <2>9, <2>10, LinkStep
<1>3. CASE ~(Here(c) /\ inode[Target(c)].rwx /\ inode[Target(c)].kind = "file")
  BY <1>1, <1>3, FailStep DEF soWrite, Replies
<1>4. QED
  BY <1>2, <1>3
-----------------------------------------------------------------------------
(***************************************************************************)
(* Links are renamed.                                                      *)
(***************************************************************************)
\* A path that could be traversed begins at an entry.
LEMMA TraversedHere ==
  ASSUME NEW c \in Clients, Traversed(c) # "ENOENT"
  PROVE  Here(c)
BY DEF Traversed, Here, soTraversePath

\* The entry that a rename deletes.
Deleted(c) ==
  /\ cin' = [cin EXCEPT ![c] = Target(c)]
  /\ dir' = soDeleteDirEntry(dir, req[c].name)
  /\ listing' = Kept(dir')
  /\ pc' = [pc EXCEPT ![c] = "deleted"]
  /\ UNCHANGED <<volume, accessCR, req, ret, inode, lost, calls>>

LEMMA RenameAre ==
  ASSUME IInv, NEW c \in Clients, soRename(c)
  PROVE  /\ pc[c] = "call" /\ req[c].op = "rename" /\ req[c].name \in Names /\ req[c].new \in Names
         /\ \/ End("crashed")
            \/ \E r \in {"ENOENT", "EACCES"} : Fail(c, r)
            \/ Here(c) /\ Deleted(c)
<1>1. pc[c] = "call" /\ req[c].op = "rename" /\ req[c].name \in Names /\ req[c].new \in Names
  BY Served DEF soRename, Calling
<1>2. QED
  BY <1>1, TraversedHere DEF soRename, Deleted

LEMMA RenameStep ==
  ASSUME IInv, NEW c \in Clients, soRename(c)
  PROVE  IInv'
<1>1. pc[c] = "call" /\ req[c].op = "rename" /\ req[c].name \in Names /\ req[c].new \in Names
  BY RenameAre
<1>2. CASE End("crashed")
  BY <1>2, EndStep
<1>3. CASE \E r \in {"ENOENT", "EACCES"} : Fail(c, r)
  BY <1>1, <1>3, FailStep DEF Replies
<1>4. CASE Here(c) /\ Deleted(c)
  <2> DEFINE in == Target(c)
  <2>1. /\ cin' = [cin EXCEPT ![c] = in] /\ dir' = soDeleteDirEntry(dir, req[c].name)
        /\ listing' = Kept(dir') /\ pc' = [pc EXCEPT ![c] = "deleted"]
        /\ UNCHANGED <<volume, accessCR, req, ret, inode, lost, calls>>
    BY <1>4 DEF Deleted
  <2>2. Rooted(dir) /\ Types /\ Serving
    BY DEF IInv
  <2>3. /\ Rooted(dir') /\ Of(dir', NoName) # {} /\ in \in Inodes
        /\ Cardinality(References(dir', in)) = Cardinality(References(dir, in)) - 1
        /\ \A i \in Inodes \ {in} : References(dir', i) = References(dir, i)
    BY <1>1, <1>4, <2>1, <2>2, Deletes DEF Here, Target
  <2> HIDE DEF in
  <2>4. /\ pc'[c] = "deleted" /\ cin'[c] = in
        /\ \A x \in Clients \ {c} : pc'[x] = pc[x] /\ cin'[x] = cin[x]
    BY <2>1, <2>2 DEF Types
  <2>5. accessCR = c /\ \A x \in Clients \ {c} : pc[x] \notin {"call", "deleted", "unlock"}
    BY <1>1, Alone
  <2>6. listing' \in [Clients -> Listings] /\ Given' /\ ListedOnce'
    BY <2>1, KeptStep
  <2>7. Types'
    BY <2>1, <2>2, <2>3, <2>6 DEF Types
  <2>8. Mutex'
    BY <2>1, <2>4, <2>5 DEF Mutex
  <2>9. Serving'
    <3>1. SUFFICES ASSUME NEW x \in Clients
                   PROVE  /\ pc'[x] = "idle" => req[x] = Idle
                          /\ pc'[x] \in {"lock", "call", "deleted"} => ret[x] = "none"
                          /\ pc'[x] = "deleted" => /\ req[x].op = "rename" /\ cin'[x] \in Inodes
                                                   /\ Of(dir', NoName) # {}
      BY <2>1 DEF Serving
    <3>2. CASE x = c
      BY <1>1, <2>2, <2>3, <2>4, <3>2 DEF Serving
    <3>3. CASE x # c
      BY <2>2, <2>4, <2>5, <3>3 DEF Serving
    <3>4. QED
      BY <3>2, <3>3
  <2>10. InUse'
    BY <2>1 DEF IInv, InUse
  <2>11. LinksCounted'
    <3>1. SUFFICES ASSUME NEW i \in Inodes
                   PROVE  inode'[i].lnkcnt = lost'[i] + Cardinality(References(dir', i)) + Cardinality(Held(i)')
      BY DEF LinksCounted, References, Held
    <3>2. /\ inode[i].lnkcnt = lost[i] + Cardinality(References(dir, i))
          /\ lost[i] \in Nat /\ Cardinality(References(dir, i)) \in Nat
      BY <1>1, Counted
    <3>3. Held(i)' = IF in = i THEN {c} ELSE {}
      BY <2>4, <2>5 DEF Held, Renaming
    <3>4. Cardinality(Held(i)') = IF in = i THEN 1 ELSE 0
      BY <3>3, FS_EmptySet, FS_Singleton
    <3>5. CASE i = in
      BY <2>1, <2>3, <3>2, <3>4, <3>5
    <3>6. CASE i # in
      BY <2>1, <2>3, <3>2, <3>4, <3>6
    <3>7. QED
      BY <3>5, <3>6
  <2>12. QED
    BY <2>3, <2>6, <2>7, <2>8, <2>9, <2>10, <2>11 DEF IInv
<1>5. QED
  BY <1>2, <1>3, <1>4, RenameAre

LEMMA RenameDirEntryAre ==
  ASSUME IInv, NEW c \in Clients, soRenameDirEntry(c)
  PROVE  /\ pc[c] = "deleted" /\ cin[c] \in Inodes /\ Of(dir, NoName) # {}
         /\ req[c].op = "rename" /\ req[c].name \in Names /\ req[c].new \in Names
         /\ \/ \E how \in {"replaced", "crashed"} : End(how)
            \/ AddRenamed(c, "added") /\ NoEntry(dir, req[c].new)
            \/ AddRenamed(c, "added") /\ ~NoEntry(dir, req[c].new)
            \/ AddRenamed(c, "elsewhere")
            \/ AddRenamed(c, "thrown")
<1>1. pc[c] = "deleted" /\ cin[c] \in Inodes /\ Of(dir, NoName) # {} /\ req[c].op = "rename"
  BY DEF soRenameDirEntry, IInv, Serving
<1>2. req[c].name \in Names /\ req[c].new \in Names
  BY <1>1, Served
<1>3. PICK cluster2read \in Uninitialised :
           \E outcome \in AddOutcomes(dir, req[c].new, cluster2read) :
              IF outcome \in {"replaced", "crashed"} THEN End(outcome) ELSE AddRenamed(c, outcome)
  BY DEF soRenameDirEntry
<1>4. AddOutcomes(dir, req[c].new, cluster2read)
        \subseteq {"added", "elsewhere", "thrown", "replaced", "crashed"}
  BY DEF AddOutcomes
<1>5. PICK outcome \in {"added", "elsewhere", "thrown", "replaced", "crashed"} :
           IF outcome \in {"replaced", "crashed"} THEN End(outcome) ELSE AddRenamed(c, outcome)
  BY <1>3, <1>4
<1>6. QED
  BY <1>1, <1>2, <1>5

LEMMA RenameDirEntryStep ==
  ASSUME IInv, NEW c \in Clients, soRenameDirEntry(c)
  PROVE  IInv'
<1>1. /\ pc[c] = "deleted" /\ cin[c] \in Inodes /\ Of(dir, NoName) # {}
      /\ req[c].op = "rename" /\ req[c].name \in Names /\ req[c].new \in Names
  BY RenameDirEntryAre
<1>2. CASE \E how \in {"replaced", "crashed"} : End(how)
  BY <1>2, EndStep
<1>3. ASSUME NEW outcome \in {"added", "elsewhere", "thrown"}, AddRenamed(c, outcome)
      PROVE  IInv'
  <2> DEFINE in == cin[c]
  <2>1. Rooted(dir) /\ Types
    BY DEF IInv
  <2>2. /\ \E r \in {"ok", "error"} : Reply(c, r)
        /\ cin' = [cin EXCEPT ![c] = NullReference] /\ listing' = Kept(dir')
        /\ UNCHANGED <<volume, accessCR, req, inode, calls>>
    BY <1>3 DEF AddRenamed
  <2>3. /\ inode' \in [Inodes -> Contents] /\ InUse'
        /\ cin' \in [Clients -> Inodes \union {NullReference}]
    BY <2>1, <2>2 DEF IInv, Types, InUse
  <2>4. CASE outcome = "added"
    <3>1. dir' = soAddDirEntry(dir, req[c].new, in) /\ lost' = lost
      BY <1>3, <2>4 DEF AddRenamed
    <3>2. /\ Rooted(dir')
          /\ Cardinality(References(dir', in)) = Cardinality(References(dir, in)) + 1
          /\ \A i \in Inodes \ {in} : References(dir', i) = References(dir, i)
      BY <1>1, <2>1, <3>1, Adds
    <3>3. ASSUME NEW i \in Inodes
          PROVE  inode'[i].lnkcnt = lost'[i] + Cardinality(References(dir', i))
      <4>1. /\ inode[i].lnkcnt = lost[i] + Cardinality(References(dir, i)) + (IF in = i THEN 1 ELSE 0)
            /\ lost[i] \in Nat /\ Cardinality(References(dir, i)) \in Nat
        BY <1>1, Counted
      <4>2. CASE i = in
        BY <1>1, <2>2, <3>1, <3>2, <4>1, <4>2
      <4>3. CASE i # in
        BY <2>2, <3>1, <3>2, <4>1, <4>3
      <4>4. QED
        BY <4>2, <4>3
    <3>4. lost' \in [Inodes -> Nat] /\ Rooted(dir)'
      BY <2>1, <3>1, <3>2 DEF Types
    <3>5. QED
      BY <1>1, <2>2, <2>3, <3>3, <3>4, LinkStep DEF Replies
  <2>5. CASE outcome # "added"
    <3>1. dir' = dir /\ lost' = [lost EXCEPT ![in] = @ + 1]
      BY <1>3, <2>5 DEF AddRenamed
    <3>2. /\ lost' \in [Inodes -> Nat] /\ lost'[in] = lost[in] + 1
          /\ \A i \in Inodes \ {in} : lost'[i] = lost[i]
      BY <1>1, <2>1, <3>1 DEF Types
    <3>3. ASSUME NEW i \in Inodes
          PROVE  inode'[i].lnkcnt = lost'[i] + Cardinality(References(dir', i))
      <4>1. /\ inode[i].lnkcnt = lost[i] + Cardinality(References(dir, i)) + (IF in = i THEN 1 ELSE 0)
            /\ lost[i] \in Nat /\ Cardinality(References(dir, i)) \in Nat
        BY <1>1, Counted
      <4>2. CASE i = in
        BY <2>2, <3>1, <3>2, <4>1, <4>2
      <4>3. CASE i # in
        BY <2>2, <3>1, <3>2, <4>1, <4>3
      <4>4. QED
        BY <4>2, <4>3
    <3>4. Rooted(dir)'
      BY <2>1, <3>1
    <3>5. QED
      BY <1>1, <2>2, <2>3, <3>2, <3>3, <3>4, LinkStep DEF Replies
  <2>6. QED
    BY <2>4, <2>5
<1>4. QED
  BY <1>2, <1>3, RenameDirEntryAre
-----------------------------------------------------------------------------
(***************************************************************************)
(* The directory is listed.                                                *)
(***************************************************************************)
\* A call that only moves one listing.
LEMMA ListingStep ==
  ASSUME IInv, NEW c \in Clients, pc[c] = "call", NEW r \in Replies, Reply(c, r),
         UNCHANGED <<volume, accessCR, req, cin, dir, inode, lost, calls>>,
         NEW l \in Listings, listing' = [listing EXCEPT ![c] = l],
         \A s \in l.listed : s < l.offset,
         \A s \in l.kept : dir[s] # Clean,
         ~l.again, {s \in l.kept : s < l.offset} \subseteq l.listed, ~l.on => l.kept = {}
  PROVE  IInv'
<1>1. /\ pc' \in [Clients -> {"idle", "lock", "call", "deleted", "unlock"}]
      /\ ret' \in [Clients -> Replies]
      /\ Renaming' = {} /\ Mutex' /\ Serving'
  BY ReplyStep
<1>2. Types /\ Renaming = {}
  BY Alone DEF IInv
<1>3. listing'[c] = l /\ \A x \in Clients \ {c} : listing'[x] = listing[x]
  BY <1>2 DEF Types
<1>4. Types'
  BY <1>1, <1>2 DEF Types
<1>5. InUse' /\ Rooted(dir)'
  BY DEF IInv, InUse, Rooted
<1>6. LinksCounted'
  BY <1>1, <1>2 DEF IInv, LinksCounted
<1>7. Given'
  <2>1. SUFFICES ASSUME NEW x \in Clients
                 PROVE  /\ \A s \in listing'[x].listed : s < listing'[x].offset
                        /\ \A s \in listing'[x].kept : dir'[s] # Clean
    BY DEF Given
  <2>2. QED
    BY <1>3 DEF IInv, Given
<1>8. ListedOnce'
  <2>1. SUFFICES ASSUME NEW x \in Clients
                 PROVE  /\ ~listing'[x].again
                        /\ {s \in listing'[x].kept : s < listing'[x].offset} \subseteq listing'[x].listed
                        /\ ~listing'[x].on => listing'[x].kept = {}
    BY DEF ListedOnce
  <2>2. QED
    BY <1>3 DEF IInv, ListedOnce
<1>9. QED
  BY <1>1, <1>4, <1>5, <1>6, <1>7, <1>8 DEF IInv

\* A listing that begins or is over.
LEMMA Fresh ==
  /\ \A kept \in SUBSET Slots : LET l == [NoListing EXCEPT !.on = TRUE, !.kept = kept]
                               IN  /\ l \in Listings /\ l.kept = kept /\ l.on
                                   /\ l.listed = {} /\ l.offset = 0 /\ ~l.again
  /\ \A kept \in SUBSET Slots, again \in BOOLEAN :
        LET l == [NoListing EXCEPT !.kept = kept, !.again = again]
        IN  l \in Listings /\ l.kept = kept /\ l.listed = {} /\ (~again => ~l.again)
<1>1. 0 \in 0 .. DirentriesPerCluster
  BY Constants
<1>2. ASSUME NEW kept \in SUBSET Slots, NEW l, l = [NoListing EXCEPT !.on = TRUE, !.kept = kept]
      PROVE  /\ l \in Listings /\ l.kept = kept /\ l.on
             /\ l.listed = {} /\ l.offset = 0 /\ ~l.again
  BY <1>1, <1>2 DEF NoListing, Listings
<1>3. ASSUME NEW kept \in SUBSET Slots, NEW again \in BOOLEAN, NEW l,
             l = [NoListing EXCEPT !.kept = kept, !.again = again]
      PROVE  l \in Listings /\ l.kept = kept /\ l.listed = {} /\ (~again => ~l.again)
  BY <1>1, <1>3 DEF NoListing, Listings
<1>4. ASSUME NEW kept \in SUBSET Slots
      PROVE  LET l == [NoListing EXCEPT !.on = TRUE, !.kept = kept]
             IN  l \in Listings /\ l.kept = kept /\ l.on /\ l.listed = {} /\ l.offset = 0 /\ ~l.again
  <2> DEFINE l == [NoListing EXCEPT !.on = TRUE, !.kept = kept]
  <2>1. l = [NoListing EXCEPT !.on = TRUE, !.kept = kept]
    OBVIOUS
  <2> HIDE DEF l
  <2>2. l \in Listings /\ l.kept = kept /\ l.on /\ l.listed = {} /\ l.offset = 0 /\ ~l.again
    BY <2>1, <1>2
  <2>3. QED
    BY <2>2 DEF l
<1>5. ASSUME NEW kept \in SUBSET Slots, NEW again \in BOOLEAN
      PROVE  LET l == [NoListing EXCEPT !.kept = kept, !.again = again]
             IN  l \in Listings /\ l.kept = kept /\ l.listed = {} /\ (~again => ~l.again)
  <2> DEFINE l == [NoListing EXCEPT !.kept = kept, !.again = again]
  <2>1. l = [NoListing EXCEPT !.kept = kept, !.again = again]
    OBVIOUS
  <2> HIDE DEF l
  <2>2. l \in Listings /\ l.kept = kept /\ l.listed = {} /\ (~again => ~l.again)
    BY <2>1, <1>3
  <2>3. QED
    BY <2>2 DEF l
<1>6. QED
  BY <1>4, <1>5, Zenon

LEMMA OpendirStep ==
  ASSUME IInv, NEW c \in Clients, soOpendir(c)
  PROVE  IInv'
<1> DEFINE l == [NoListing EXCEPT !.on = TRUE, !.kept = {s \in Slots : dir[s] # Clean}]
<1>1. /\ pc[c] = "call" /\ Reply(c, "ok") /\ listing' = [listing EXCEPT ![c] = l]
      /\ UNCHANGED <<volume, accessCR, req, cin, dir, inode, lost, calls>>
  BY DEF soOpendir, Calling
<1>2. /\ l \in Listings /\ l.listed = {} /\ l.offset = 0 /\ ~l.again /\ l.on
      /\ l.kept = {s \in Slots : dir[s] # Clean}
  <2>1. {s \in Slots : dir[s] # Clean} \in SUBSET Slots
    OBVIOUS
  <2>2. QED
    BY <2>1, Fresh
<1> HIDE DEF l
<1>3. {s \in l.kept : s < l.offset} = {}
  BY <1>2, SlotNumbers
<1>4. QED
  BY <1>1, <1>2, <1>3, ListingStep DEF Replies

\* What has a name from an offset on; from 0 and from 1 on something has.
LEMMA Named ==
  ASSUME Rooted(dir), NEW offset \in 0 .. DirentriesPerCluster
  PROVE  /\ NamedFrom(offset) # {} => /\ Aux(offset) \in NamedFrom(offset) /\ Aux(offset) >= offset
                                      /\ Aux(offset) \in Slots
                                      /\ \A s \in NamedFrom(offset) : Aux(offset) <= s
                                      /\ soReaddir(offset) > 0
         /\ NamedFrom(offset) = {} => soReaddir(offset) <= 0
         /\ Aux(offset) \in Nat
<1>1. CASE NamedFrom(offset) # {}
  <2>1. NamedFrom(offset) \in SUBSET Slots
    BY DEF NamedFrom
  <2>2. Aux(offset) \in NamedFrom(offset) /\ \A s \in NamedFrom(offset) : Aux(offset) <= s
    BY <1>1, <2>1, MinSlot DEF Aux
  <2>3. Aux(offset) \in Slots /\ Aux(offset) \in Nat /\ Aux(offset) >= offset
    BY <2>1, <2>2, SlotNumbers DEF NamedFrom
  <2>4. soReaddir(offset) > 0
    BY <2>3 DEF soReaddir
  <2>5. QED
    BY <1>1, <2>2, <2>3, <2>4
<1>2. CASE NamedFrom(offset) = {}
  <2>1. dir[1].name # NoName
    BY Constants DEF Rooted, Entry
  <2>2. offset > 1
    BY <1>2, <2>1, SlotNumbers, Constants DEF NamedFrom
  <2>3. Aux(offset) = 1
    BY <1>2 DEF Aux
  <2>4. QED
    BY <1>2, <2>2, <2>3 DEF soReaddir
<1>3. QED
  BY <1>1, <1>2

LEMMA FillStep ==
  ASSUME IInv, NEW c \in Clients, Fill(c)
  PROVE  IInv'
<1> DEFINE l == listing[c]
           offset == l.offset
           stat == soReaddir(offset)
           aux == Aux(offset)
           over == [NoListing EXCEPT !.kept = l.kept \ l.listed, !.again = l.again]
           more == [l EXCEPT !.offset = offset + stat, !.again = @ \/ aux \in l.listed,
                             !.listed = @ \union {aux}]
<1>1. pc[c] = "call" /\ UNCHANGED <<volume, accessCR, req, cin, dir, inode, lost, calls>>
  BY DEF Fill, Calling
<1>2. listing \in [Clients -> Listings] /\ Rooted(dir)
  BY DEF IInv, Types
<1>3. /\ l \in Listings /\ offset \in 0 .. DirentriesPerCluster
      /\ l.kept \in SUBSET Slots /\ l.listed \in SUBSET Slots /\ l.again \in BOOLEAN
  <2>1. l \in Listings
    BY <1>2
  <2>2. QED
    BY <2>1 DEF Listings
<1>4. /\ \A s \in l.listed : s < offset
      /\ \A s \in l.kept : dir[s] # Clean
  BY DEF IInv, Given
<1>5. /\ ~l.again /\ \A s \in l.kept : s < offset => s \in l.listed
      /\ ~l.on => l.kept = {}
  BY DEF IInv, ListedOnce
<1>6. /\ NamedFrom(offset) # {} => /\ aux \in NamedFrom(offset) /\ aux >= offset /\ aux \in Slots
                                   /\ \A s \in NamedFrom(offset) : aux <= s
                                   /\ stat > 0
      /\ NamedFrom(offset) = {} => stat <= 0
      /\ aux \in Nat /\ stat = aux - offset + 1
  BY <1>2, <1>3, Named DEF soReaddir
<1>7. \A s \in l.kept : s >= offset => s \in NamedFrom(offset)
  BY <1>2, <1>3, <1>4, EmptyEntry DEF NamedFrom
<1> HIDE DEF aux, stat
<1>8. CASE PastCluster(offset) \/ stat <= 0
  <2>1. PICK r \in {"ok", "error"} : Reply(c, r)
    BY <1>8 DEF Fill, stat
  <2>2. listing' = [listing EXCEPT ![c] = over]
    BY <1>8 DEF Fill, stat
  <2>3. \A s \in l.kept : s < offset
    <3>1. SUFFICES ASSUME NEW s \in l.kept, s >= offset PROVE FALSE
      BY <1>3, SlotNumbers
    <3>2. s \in NamedFrom(offset) /\ s < DirentriesPerCluster /\ s \in Nat
      BY <1>3, <1>7, <3>1, SlotNumbers
    <3>3. ~(offset >= DirentriesPerCluster)
      BY <1>3, <3>1, <3>2, Constants
    <3>4. ~PastCluster(offset)
      BY <3>3 DEF PastCluster
    <3>5. QED
      BY <1>6, <1>8, <3>2, <3>4
  <2>4. l.kept \ l.listed = {}
    BY <1>5, <2>3
  <2>5. /\ over \in Listings /\ over.kept = {} /\ over.listed = {} /\ ~over.again
    <3>1. l.kept \ l.listed \in SUBSET Slots
      BY <1>3
    <3>2. /\ over \in Listings /\ over.kept = l.kept \ l.listed /\ over.listed = {}
          /\ ~l.again => ~over.again
      BY <1>3, <3>1, Fresh
    <3>3. QED
      BY <1>5, <2>4, <3>2
  <2> HIDE DEF over
  <2>6. QED
    BY <1>1, <2>1, <2>2, <2>5, ListingStep DEF Replies
<1>9. CASE ~(PastCluster(offset) \/ stat <= 0)
  <2>1. Reply(c, "ok")
    BY <1>9 DEF Fill, stat
  <2>2. listing' = [listing EXCEPT ![c] = more]
    BY <1>2, <1>9 DEF Fill, stat, aux
  <2>3. /\ NamedFrom(offset) # {} /\ offset < DirentriesPerCluster
        /\ aux \in Slots /\ aux >= offset /\ offset + stat = aux + 1
    BY <1>3, <1>6, <1>9, Constants DEF PastCluster
  <2>4. aux \notin l.listed
    BY <1>3, <1>4, <2>3, SlotNumbers
  <2>5. offset + stat \in 0 .. DirentriesPerCluster
    BY <2>3, SlotNumbers, Constants
  <2>6. /\ more \in Listings /\ more.kept = l.kept /\ more.on = l.on /\ more.offset = aux + 1
        /\ more.listed = l.listed \union {aux} /\ ~more.again
    BY <1>3, <1>5, <2>3, <2>4, <2>5 DEF Listings
  <2> HIDE DEF more
  <2>7. \A s \in more.listed : s < more.offset
    BY <1>3, <1>4, <2>3, <2>6, SlotNumbers
  <2>8. {s \in more.kept : s < more.offset} \subseteq more.listed
    <3>1. SUFFICES ASSUME NEW s \in l.kept, s < aux + 1 PROVE s \in l.listed \union {aux}
      BY <2>6
    <3>2. s \in Nat /\ aux \in Nat /\ offset \in Nat
      BY <1>3, <2>3, SlotNumbers
    <3>3. CASE s < offset
      BY <1>5, <3>3
    <3>4. CASE s >= offset
      BY <1>6, <1>7, <2>3, <3>1, <3>2, <3>4
    <3>5. QED
      BY <3>2, <3>3, <3>4
  <2>9. QED
    BY <1>1, <1>4, <1>5, <2>1, <2>2, <2>6, <2>7, <2>8, ListingStep DEF Replies
<1>10. QED
  BY <1>8, <1>9
-----------------------------------------------------------------------------
(***************************************************************************)
(* The theorems.                                                           *)
(***************************************************************************)
\* The handlers, sorted by what they do.
LEMMA NextAre ==
  ASSUME Next
  PROVE  \/ sofs_mount \/ sofs_unmount
         \/ \E c \in Clients :
               \/ Lock(c) \/ Unlock(c) \/ Arrivals(c) \/ Refusals(c) \/ Answer(c)
               \/ soMknod(c) \/ soSymlink(c) \/ soLink(c) \/ soUnlink(c) \/ soWrite(c)
               \/ soRename(c) \/ soRenameDirEntry(c) \/ soOpendir(c) \/ Fill(c)
<1>1. ASSUME NEW c \in Clients, Queries(c) PROVE Arrivals(c) \/ Answer(c) \/ Refusals(c)
  BY <1>1 DEF Queries, Arrivals, Refusals, sofs_getattr, sofs_access, sofs_chmod, sofs_chown,
              sofs_utime, sofs_open, sofs_read, sofs_release, sofs_fsync, sofs_flush, sofs_statfs,
              sofs_releasedir, sofs_fsyncdir, sofs_readlink, sofs_setxattr, sofs_getxattr,
              sofs_listxattr, sofs_removexattr, sofs_getdir
<1>2. ASSUME NEW c \in Clients, Others(c) PROVE Arrivals(c) \/ Refusals(c) \/ soWrite(c)
  BY <1>2 DEF Others, Arrivals, Refusals
<1>3. ASSUME NEW c \in Clients, Links(c) \/ Renames(c) \/ Lists(c)
      PROVE  \/ Arrivals(c) \/ soMknod(c) \/ soSymlink(c) \/ soLink(c) \/ soUnlink(c)
             \/ soRename(c) \/ soRenameDirEntry(c) \/ soOpendir(c) \/ Fill(c)
  BY <1>3 DEF Links, Renames, Lists, Arrivals
<1>4. QED
  BY <1>1, <1>2, <1>3 DEF Next, Refusals

LEMMA NextInv ==
  ASSUME IInv, [Next]_vars
  PROVE  IInv'
<1>1. CASE sofs_mount \/ sofs_unmount
  BY <1>1, VolumeStep DEF sofs_mount, sofs_unmount
<1>2. ASSUME NEW c \in Clients, Lock(c) \/ Unlock(c) \/ Arrivals(c) \/ Refusals(c) \/ Answer(c)
      PROVE  IInv'
  BY <1>2, LockStep, UnlockStep, ArrivalsStep, RefusalsStep, AnswerStep
<1>3. ASSUME NEW c \in Clients,
             soMknod(c) \/ soSymlink(c) \/ soLink(c) \/ soUnlink(c) \/ soWrite(c)
      PROVE  IInv'
  BY <1>3, MknodStep, SymlinkStep, LinkCallStep, UnlinkStep, WriteStep
<1>4. ASSUME NEW c \in Clients, soRename(c) \/ soRenameDirEntry(c) \/ soOpendir(c) \/ Fill(c)
      PROVE  IInv'
  BY <1>4, RenameStep, RenameDirEntryStep, OpendirStep, FillStep
<1>5. CASE UNCHANGED vars
  <2>1. UNCHANGED <<volume, accessCR, pc, req, ret, cin, dir, inode, listing, lost, calls>>
    BY <1>5 DEF vars
  <2>2. volume' \in {"new", "open", "failed", "closed", "replaced", "crashed"}
    BY <2>1 DEF IInv, Types
  <2>3. QED
    BY <2>1, <2>2, VolumeStep
<1>6. CASE Next
  BY <1>6, <1>1, <1>2, <1>3, <1>4, NextAre
<1>7. QED
  BY <1>5, <1>6

(* The inductive invariant: with the types, that the thread at its call    *)
(* has the mutex accessCR, what the thread of each request has done, that  *)
(* the root's first two entries refer to the root and the others to files, *)
(* and what is left of the listings.                                       *)
THEOREM Inductive == Spec => []IInv
<1>1. QED
  BY InitInv, NextInv, PTL DEF Spec

(* The variables of a mount keep their types, and an inode is free exactly *)
(* when it has no links.                                                   *)
THEOREM TypeCorrect == Spec => []TypeOK
<1>1. IInv => TypeOK
  <2> SUFFICES ASSUME IInv PROVE TypeOK
    OBVIOUS
  <2>1. Types /\ InUse /\ Rooted(dir)
    BY DEF IInv
  <2>2. ASSUME NEW i \in Inodes
        PROVE  inode[i].lnkcnt \in Nat /\ (inode[i].lnkcnt = 0 <=> inode[i] = FreeInode)
    <3>1. inode[i] \in Contents
      BY <2>1 DEF Types
    <3>2. QED
      BY <2>1, <3>1 DEF InUse, Contents
  <2>3. ASSUME NEW c \in Clients
        PROVE  /\ listing[c].offset \in 0 .. DirentriesPerCluster
               /\ listing[c].kept \subseteq Slots /\ listing[c].listed \subseteq Slots
    <3>1. listing[c] \in Listings
      BY <2>1 DEF Types
    <3>2. QED
      BY <3>1 DEF Listings
  <2>4. QED
    BY <2>1, <2>2, <2>3 DEF TypeOK, Types, Rooted
<1>2. QED
  BY Inductive, <1>1, PTL

(* Links are counted: no entry of the directory, nor the one a rename has  *)
(* deleted and will add, refers to an inode that has been freed.           *)
THEOREM LinksAreCounted == Spec => []LinksCounted
<1>1. IInv => LinksCounted
  BY DEF IInv
<1>2. QED
  BY Inductive, <1>1, PTL

(* Listing the directory gives every entry that stays, and gives it once,  *)
(* whoever else makes, deletes and renames links meanwhile.                *)
THEOREM ListsOnce == Spec => []ListedOnce
<1>1. IInv => ListedOnce
  BY DEF IInv
<1>2. QED
  BY Inductive, <1>1, PTL
-----------------------------------------------------------------------------
(***************************************************************************)
(* Mount implements Namespace.  What each step does to the links that are  *)
(* visible and to what clients have asked and been told.                   *)
(***************************************************************************)
LEMMA NoneRenaming ==
  ASSUME Renaming = {}
  PROVE  VisibleLinks = dir
BY DEF VisibleLinks

LEMMA OneRenaming ==
  ASSUME NEW c, Renaming = {c}
  PROVE  VisibleLinks = soAddDirEntry(dir, req[c].name, cin[c])
BY DEF VisibleLinks

LEMMA NoneRenamingNext ==
  ASSUME Renaming' = {}
  PROVE  VisibleLinks' = dir'
BY DEF VisibleLinks

LEMMA OneRenamingNext ==
  ASSUME NEW c, Renaming' = {c}
  PROVE  VisibleLinks' = soAddDirEntry(dir', req'[c].name, cin'[c])
BY DEF VisibleLinks

LEMMA LinksStay ==
  ASSUME UNCHANGED <<dir, cin>>, Renaming' = Renaming, \A x \in Renaming : req'[x] = req[x]
  PROVE  VisibleLinks' = VisibleLinks
<1>1. CASE Renaming = {}
  BY <1>1, NoneRenaming, NoneRenamingNext
<1>2. CASE Renaming # {}
  <2> DEFINE c == CHOOSE x \in Renaming : TRUE
  <2>1. c \in Renaming
    BY <1>2
  <2>2. VisibleLinks = soAddDirEntry(dir, req[c].name, cin[c])
    BY <1>2 DEF VisibleLinks
  <2>3. VisibleLinks' = soAddDirEntry(dir', req'[c].name, cin'[c])
    BY <1>2 DEF VisibleLinks
  <2> HIDE DEF c
  <2>4. QED
    BY <2>1, <2>2, <2>3
<1>3. QED
  BY <1>1, <1>2

\* A client that is not told about a name is told nothing.
LEMMA SilentReply ==
  ASSUME IInv, NEW c \in Clients, pc[c] \in {"call", "deleted"},
         NEW r \in Replies \ {"found", "missing"}, Reply(c, r), UNCHANGED req
  PROVE  UNCHANGED <<LastAsked, LastAnswer>>
<1>1. ret \in [Clients -> Replies] /\ ret[c] = "none" /\ ret' = [ret EXCEPT ![c] = r]
  BY DEF IInv, Types, Serving, Reply
<1>2. LastAsked' = LastAsked
  BY DEF LastAsked, Asking
<1>3. ASSUME NEW x \in Clients
      PROVE  (IF Asking(x)' /\ ret'[x] \in {"found", "missing"} THEN ret'[x] ELSE "none")
             = (IF Asking(x) /\ ret[x] \in {"found", "missing"} THEN ret[x] ELSE "none")
  <2>1. Asking(x)' <=> Asking(x)
    BY DEF Asking
  <2>2. CASE x = c
    BY <1>1, <2>2
  <2>3. CASE x # c
    BY <1>1, <2>1, <2>3
  <2>4. QED
    BY <2>2, <2>3
<1>4. LastAnswer' = LastAnswer
  BY <1>3 DEF LastAnswer
<1>5. QED
  BY <1>2, <1>4

\* A name is that of a link when it has an entry.
LEMMA NamedLinks ==
  ASSUME Renaming = {}, NEW n \in Names \union {".", ".."}
  PROVE  Implemented!Named(n) <=> ~NoEntry(dir, n)
<1>1. VisibleLinks = dir
  BY NoneRenaming
<1>2. n # NoName /\ Clean.name = NoName
  BY Constants DEF Clean, Entry
<1>3. QED
  BY <1>1, <1>2 DEF Implemented!Named, NoEntry, Of

LEMMA InitImplements ==
  ASSUME Init
  PROVE  Implemented!Init
<1>1. IInv
  BY InitInv
<1>2. VisibleLinks = dir
  BY NoneRenaming DEF Init, Renaming
<1>3. dir \in [Slots -> {Clean} \union [name : Names \union {".", ".."}, in : Inodes \union {Root}]]
  BY <1>1 DEF IInv, Rooted, Entries
<1>4. LastAsked \in [Clients -> Names \union {".", ".."}]
  BY DEF Init, LastAsked, Asking, Idle, Request
<1>5. LastAnswer = [c \in Clients |-> "none"]
  BY DEF Init, LastAnswer
<1>6. QED
  BY <1>2, <1>3, <1>4, <1>5 DEF Implemented!Init

\* The steps that show nothing.
Silent == UNCHANGED <<VisibleLinks, LastAsked, LastAnswer>>

LEMMA StillSilent ==
  ASSUME UNCHANGED <<pc, req, ret, cin, dir>>
  PROVE  Silent
<1>1. Renaming' = Renaming /\ VisibleLinks' = VisibleLinks
  BY LinksStay DEF Renaming
<1>2. LastAsked' = LastAsked /\ LastAnswer' = LastAnswer
  BY DEF LastAsked, LastAnswer, Asking
<1>3. QED
  BY <1>1, <1>2 DEF Silent

LEMMA ReplySilent ==
  ASSUME IInv, NEW c \in Clients, pc[c] = "call",
         NEW r \in Replies \ {"found", "missing"}, Reply(c, r), UNCHANGED <<accessCR, req, cin, dir>>
  PROVE  Silent
<1>1. Renaming = {} /\ Renaming' = {}
  BY Alone, ReplyStep
<1>2. VisibleLinks' = VisibleLinks
  BY <1>1, LinksStay
<1>3. QED
  BY <1>2, SilentReply DEF Silent

LEMMA LockSilent ==
  ASSUME IInv, NEW c \in Clients, Lock(c)
  PROVE  Silent
<1>1. pc[c] = "lock" /\ pc' = [pc EXCEPT ![c] = "call"] /\ UNCHANGED <<req, ret, cin, dir>>
  BY DEF Lock
<1>2. Renaming' = Renaming
  BY <1>1 DEF Renaming, IInv, Types
<1>3. VisibleLinks' = VisibleLinks
  BY <1>1, <1>2, LinksStay
<1>4. LastAsked' = LastAsked /\ LastAnswer' = LastAnswer
  BY <1>1 DEF LastAsked, LastAnswer, Asking
<1>5. QED
  BY <1>3, <1>4 DEF Silent

\* A request that arrives or ends is a question, if only about ".".
LEMMA AsksStep ==
  ASSUME IInv, NEW c \in Clients, pc[c] # "deleted", pc'[c] # "deleted",
         \A x \in Clients \ {c} : pc'[x] = pc[x] /\ req'[x] = req[x] /\ ret'[x] = ret[x],
         ret'[c] = "none", UNCHANGED <<cin, dir>>,
         NEW n \in Names \union {".", ".."}, n = IF Asking(c)' THEN req'[c].name ELSE "."
  PROVE  Implemented!Ask(c, n)
<1>1. Renaming' = Renaming /\ c \notin Renaming
  BY DEF Renaming
<1>2. Renaming \subseteq Clients
  BY DEF Renaming
<1>3. VisibleLinks' = VisibleLinks
  BY <1>1, <1>2, LinksStay
<1>4. ASSUME NEW x \in Clients
      PROVE  LastAsked'[x] = IF x = c THEN n ELSE LastAsked[x]
  BY DEF LastAsked, Asking
<1>5. LastAsked' = [LastAsked EXCEPT ![c] = n]
  BY <1>4 DEF LastAsked
<1>6. ASSUME NEW x \in Clients
      PROVE  LastAnswer'[x] = IF x = c THEN "none" ELSE LastAnswer[x]
  BY DEF LastAnswer, Asking
<1>7. LastAnswer' = [LastAnswer EXCEPT ![c] = "none"]
  BY <1>6 DEF LastAnswer
<1>8. QED
  BY <1>3, <1>5, <1>7 DEF Implemented!Ask

LEMMA ArrivalsAsk ==
  ASSUME IInv, NEW c \in Clients, Arrivals(c)
  PROVE  \E n \in Names \union {".", ".."} : Implemented!Ask(c, n)
<1>1. PICK r \in Requests, there \in {"idle", "lock"} :
           ArriveAt(c, r, there) /\ (r.op = "ask" => r.name \in Names)
  BY ArrivalsAre
<1>2. /\ pc[c] = "idle" /\ pc'[c] = there /\ req'[c] = r /\ ret'[c] = "none"
      /\ \A x \in Clients \ {c} : pc'[x] = pc[x] /\ req'[x] = req[x] /\ ret'[x] = ret[x]
      /\ UNCHANGED <<cin, dir>>
  BY <1>1 DEF ArriveAt, IInv, Types
<1> DEFINE n == IF Asking(c)' THEN req'[c].name ELSE "."
<1>3. n \in Names \union {".", ".."}
  BY <1>1, <1>2 DEF Asking
<1>4. QED
  BY <1>2, <1>3, AsksStep

LEMMA UnlockAsks ==
  ASSUME IInv, NEW c \in Clients, Unlock(c)
  PROVE  \E n \in Names \union {".", ".."} : Implemented!Ask(c, n)
<1>1. /\ pc[c] = "unlock" /\ pc'[c] = "idle" /\ req'[c] = Idle /\ ret'[c] = "none"
      /\ \A x \in Clients \ {c} : pc'[x] = pc[x] /\ req'[x] = req[x] /\ ret'[x] = ret[x]
      /\ UNCHANGED <<cin, dir>>
  BY DEF Unlock, IInv, Types
<1>2. "." = IF Asking(c)' THEN req'[c].name ELSE "."
  BY <1>1 DEF Asking, Idle, Request
<1>3. QED
  BY <1>1, <1>2, AsksStep

LEMMA AnswerAnswers ==
  ASSUME IInv, NEW c \in Clients, Answer(c)
  PROVE  Implemented!Answer(c)
<1> DEFINE r == IF Here(c) THEN "found" ELSE "missing"
<1>1. /\ pc[c] = "call" /\ Asking(c) /\ Reply(c, r)
      /\ UNCHANGED <<volume, accessCR, req, cin, dir>>
  BY DEF Answer, Calling, Asking, Fail
<1>2. ret \in [Clients -> Replies] /\ ret[c] = "none" /\ ret' = [ret EXCEPT ![c] = r]
  BY <1>1 DEF IInv, Types, Serving, Reply
<1>3. r \in Replies /\ r \in {"found", "missing"}
  BY DEF Replies
<1>4. Renaming = {} /\ Renaming' = {}
  BY <1>1, <1>3, Alone, ReplyStep
<1>5. VisibleLinks' = VisibleLinks
  BY <1>1, <1>4, LinksStay
<1>6. LastAsked' = LastAsked /\ LastAsked[c] = req[c].name
  BY <1>1 DEF LastAsked, Asking
<1>7. r = IF Implemented!Named(LastAsked[c]) THEN "found" ELSE "missing"
  <2>1. req[c].name \in Names
    BY <1>1, Served DEF Asking
  <2>2. Implemented!Named(req[c].name) <=> Here(c)
    BY <1>4, <2>1, NamedLinks DEF Here
  <2>3. QED
    BY <1>6, <2>2
<1> HIDE DEF r
<1>8. ASSUME NEW x \in Clients
      PROVE  LastAnswer'[x] = IF x = c THEN r ELSE LastAnswer[x]
  <2>1. Asking(x)' <=> Asking(x)
    BY <1>1 DEF Asking
  <2>2. CASE x = c
    BY <1>1, <1>2, <1>3, <2>1, <2>2 DEF LastAnswer
  <2>3. CASE x # c
    BY <1>2, <2>1, <2>3 DEF LastAnswer
  <2>4. QED
    BY <2>2, <2>3
<1>9. LastAnswer' = [LastAnswer EXCEPT ![c] = r]
  BY <1>8 DEF LastAnswer
<1>10. LastAnswer[c] = "none"
  BY <1>2 DEF LastAnswer
<1>11. QED
  BY <1>5, <1>6, <1>7, <1>9, <1>10 DEF Implemented!Answer

\* Links appear, disappear and take other names, each at once.
LEMMA AddLinkCreates ==
  ASSUME IInv, NEW c \in Clients, pc[c] = "call", NEW n \in Names, NEW in \in Inodes, NEW contents,
         Room(n), AddLink(c, n, in, contents)
  PROVE  \E p \in Slots : Implemented!Create(p, n, in)
<1>1. /\ Reply(c, "ok") /\ dir' = soAddDirEntry(dir, n, in)
      /\ UNCHANGED <<volume, accessCR, req, cin, lost, calls>>
  BY DEF AddLink
<1>2. "ok" \in Replies \ {"found", "missing"}
  BY DEF Replies
<1>3. Renaming = {} /\ Renaming' = {}
  BY <1>1, <1>2, Alone, ReplyStep
<1>4. VisibleLinks = dir /\ VisibleLinks' = dir'
  BY <1>3, NoneRenaming, NoneRenamingNext
<1>5. LastAsked' = LastAsked /\ LastAnswer' = LastAnswer
  BY <1>1, <1>2, SilentReply
<1> DEFINE p == First(dir, NoName)
<1>6. p \in Slots /\ dir[p] = Clean /\ dir' = [dir EXCEPT ![p] = Entry(n, in)]
  <2>1. Rooted(dir) /\ Of(dir, NoName) # {}
    BY DEF IInv, Room
  <2>2. QED
    BY <1>1, <2>1, Adds
<1>7. ~Implemented!Named(n)
  BY <1>3, NamedLinks DEF Room
<1> HIDE DEF p
<1>8. Implemented!Create(p, n, in)
  BY <1>4, <1>5, <1>6, <1>7 DEF Implemented!Create, Implemented!Link, Entry
<1>9. QED
  BY <1>6, <1>8

LEMMA FailSilent ==
  ASSUME IInv, NEW c \in Clients, pc[c] = "call", NEW r \in Replies \ {"found", "missing"}, Fail(c, r)
  PROVE  Silent
BY ReplySilent DEF Fail

\* A call that makes a link or fails.
LEMMA MakesCreate ==
  ASSUME IInv, NEW c \in Clients, soMknod(c) \/ soSymlink(c) \/ soLink(c)
  PROVE  Silent \/ \E p \in Slots, n \in Names, in \in Inodes : Implemented!Create(p, n, in)
<1>1. "error" \in Replies \ {"found", "missing"}
  BY DEF Replies
<1>2. ASSUME pc[c] = "call", req[c].name \in Names, NEW contents, MakeInode(c, contents)
      PROVE  Silent \/ \E p \in Slots, n \in Names, in \in Inodes : Implemented!Create(p, n, in)
  <2>1. CASE Room(req[c].name) /\ Unused # {}
    <3>1. PICK i \in Unused : AddLink(c, req[c].name, i, contents)
      BY <1>2, <2>1 DEF MakeInode
    <3>2. i \in Inodes
      BY DEF Unused
    <3>3. QED
      BY <1>2, <2>1, <3>1, <3>2, AddLinkCreates
  <2>2. CASE ~(Room(req[c].name) /\ Unused # {})
    BY <1>1, <1>2, <2>2, FailSilent DEF MakeInode
  <2>3. QED
    BY <2>1, <2>2
<1>3. CASE soMknod(c)
  <2>1. pc[c] = "call" /\ req[c].name \in Names
    BY <1>3, Served DEF soMknod, Calling
  <2>2. PICK rwx \in BOOLEAN : MakeInode(c, File(rwx))
    BY <1>3 DEF soMknod
  <2>3. QED
    BY <1>2, <2>1, <2>2
<1>4. CASE soSymlink(c)
  <2>1. pc[c] = "call" /\ req[c].name \in Names
    BY <1>4, Served DEF soSymlink, Calling
  <2>2. PICK absolute \in BOOLEAN : MakeInode(c, SymbolicLink(req[c].new, absolute))
    BY <1>4 DEF soSymlink
  <2>3. QED
    BY <1>2, <2>1, <2>2
<1>5. CASE soLink(c)
  <2>1. pc[c] = "call" /\ req[c].name \in Names /\ req[c].new \in Names
    BY <1>5, Served DEF soLink, Calling
  <2>2. CASE Here(c) /\ Room(req[c].new)
    <3>1. AddLink(c, req[c].new, Target(c), [inode[Target(c)] EXCEPT !.lnkcnt = @ + 1])
      BY <1>5, <2>2 DEF soLink
    <3>2. Target(c) \in Inodes
      BY <2>1, <2>2, TargetUsed
    <3>3. QED
      BY <2>1, <2>2, <3>1, <3>2, AddLinkCreates
  <2>3. CASE ~(Here(c) /\ Room(req[c].new))
    BY <1>1, <1>5, <2>1, <2>3, FailSilent DEF soLink
  <2>4. QED
    BY <2>2, <2>3
<1>6. QED
  BY <1>3, <1>4, <1>5

LEMMA UnlinkRemoves ==
  ASSUME IInv, NEW c \in Clients, soUnlink(c)
  PROVE  Silent \/ \E p \in Slots : Implemented!Remove(p)
<1>1. pc[c] = "call" /\ req[c].name \in Names
  BY Served DEF soUnlink, Calling
<1>2. {"ok", "error"} \subseteq Replies \ {"found", "missing"}
  BY DEF Replies
<1>3. CASE Here(c)
  <2>1. /\ Reply(c, "ok") /\ dir' = soDeleteDirEntry(dir, req[c].name)
        /\ UNCHANGED <<volume, accessCR, req, cin, lost, calls>>
    BY <1>3 DEF soUnlink
  <2>2. Renaming = {} /\ Renaming' = {}
    BY <1>1, <1>2, <2>1, Alone, ReplyStep
  <2>3. VisibleLinks = dir /\ VisibleLinks' = dir'
    BY <2>2, NoneRenaming, NoneRenamingNext
  <2>4. LastAsked' = LastAsked /\ LastAnswer' = LastAnswer
    BY <1>1, <1>2, <2>1, SilentReply
  <2> DEFINE p == First(dir, req[c].name)
  <2>5. p \in Slots /\ dir[p] # Clean /\ dir' = [dir EXCEPT ![p] = Clean]
    <3>1. Rooted(dir) /\ ~NoEntry(dir, req[c].name)
      BY <1>3 DEF IInv, Here
    <3>2. QED
      BY <1>1, <2>1, <3>1, Deletes
  <2> HIDE DEF p
  <2>6. Implemented!Remove(p)
    BY <2>3, <2>4, <2>5 DEF Implemented!Remove
  <2>7. QED
    BY <2>5, <2>6
<1>4. CASE ~Here(c)
  BY <1>1, <1>2, <1>4, FailSilent DEF soUnlink
<1>5. QED
  BY <1>3, <1>4

\* A rename that has deleted its entry shows it still, though perhaps at another place.
LEMMA RenameMoves ==
  ASSUME IInv, NEW c \in Clients, soRename(c)
  PROVE  Silent \/ \E p, q \in Slots, n \in Names : Implemented!Rename(p, q, n)
<1>1. pc[c] = "call" /\ req[c].op = "rename" /\ req[c].name \in Names
  BY RenameAre
<1>2. CASE End("crashed")
  BY <1>2, StillSilent DEF End
<1>3. CASE \E r \in {"ENOENT", "EACCES"} : Fail(c, r)
  BY <1>1, <1>3, FailSilent DEF Replies
<1>4. CASE Here(c) /\ Deleted(c)
  <2> DEFINE n == req[c].name
             p == First(dir, n)
             in == soGetDirEntry(dir, n)
             q == First(dir', NoName)
  <2>1. /\ cin' = [cin EXCEPT ![c] = in] /\ dir' = soDeleteDirEntry(dir, n)
        /\ pc' = [pc EXCEPT ![c] = "deleted"] /\ UNCHANGED <<req, ret>>
    BY <1>4 DEF Deleted, Target
  <2>2. Rooted(dir) /\ ~NoEntry(dir, n)
    BY <1>4 DEF IInv, Here
  <2>3. /\ p \in Slots /\ dir[p] = Entry(n, in) /\ dir[p] # Clean /\ in \in Inodes
        /\ dir' = [dir EXCEPT ![p] = Clean] /\ Rooted(dir') /\ Of(dir', NoName) # {}
    BY <1>1, <2>1, <2>2, Deletes
  <2>4. q \in Slots /\ dir'[q] = Clean
    <3>1. ~NoEntry(dir', NoName)
      BY <2>3 DEF NoEntry
    <3>2. q \in Slots /\ dir'[q].name = NoName
      BY <3>1, FirstEntry
    <3> HIDE DEF q
    <3>3. QED
      BY <2>3, <3>2, EmptyEntry
  <2>5. q = p \/ dir[q] = Clean
    BY <2>2, <2>3, <2>4 DEF Rooted
  <2>6. Renaming = {}
    BY <1>1, Alone
  <2>7. Renaming' = {c} /\ cin'[c] = in
    BY <2>1, <2>6 DEF Renaming, IInv, Types
  <2>8. VisibleLinks = dir
    BY <2>6, NoneRenaming
  <2>9. VisibleLinks' = soAddDirEntry(dir', n, in)
    BY <2>1, <2>7, OneRenamingNext
  <2>10. LastAsked' = LastAsked /\ LastAnswer' = LastAnswer
    BY <2>1 DEF LastAsked, LastAnswer, Asking
  <2> HIDE DEF p, in
  <2>11. VisibleLinks' = [[dir EXCEPT ![p] = Clean] EXCEPT ![q] = Entry(n, in)]
    BY <2>3, <2>9 DEF soAddDirEntry
  <2> HIDE DEF q
  <2>12. dir[p].in = in
    BY <2>3 DEF Entry
  <2>13. Implemented!Rename(p, q, n)
    BY <2>3, <2>5, <2>8, <2>10, <2>11, <2>12 DEF Implemented!Rename, Implemented!Link, Entry
  <2>14. QED
    BY <1>1, <2>3, <2>4, <2>13
<1>5. QED
  BY <1>2, <1>3, <1>4, RenameAre

\* An entry that is added takes its new name; one that is lost disappears.
LEMMA RenameDirEntryRenames ==
  ASSUME IInv, NEW c \in Clients, soRenameDirEntry(c)
  PROVE  \/ Silent
         \/ \E q \in Slots, n \in Names : Implemented!Rename(q, q, n)
         \/ \E q \in Slots : Implemented!Remove(q)
<1>1. /\ pc[c] = "deleted" /\ cin[c] \in Inodes /\ Of(dir, NoName) # {}
      /\ req[c].name \in Names /\ req[c].new \in Names
  BY RenameDirEntryAre
<1>2. CASE \E how \in {"replaced", "crashed"} : End(how)
  BY <1>2, StillSilent DEF End
<1>3. ASSUME NEW outcome \in {"added", "elsewhere", "thrown"}, AddRenamed(c, outcome)
      PROVE  \/ \E q \in Slots, n \in Names : Implemented!Rename(q, q, n)
             \/ \E q \in Slots : Implemented!Remove(q)
  <2> DEFINE in == cin[c]
             q == First(dir, NoName)
             new == req[c].new
  <2>1. /\ \E r \in {"ok", "error"} : Reply(c, r)
        /\ UNCHANGED <<volume, accessCR, req, inode, calls>>
    BY <1>3 DEF AddRenamed
  <2>2. {"ok", "error"} \subseteq Replies \ {"found", "missing"}
    BY DEF Replies
  <2>3. LastAsked' = LastAsked /\ LastAnswer' = LastAnswer
    BY <1>1, <2>1, <2>2, SilentReply
  <2>4. Renaming = {c} /\ Renaming' = {}
    BY <1>1, <2>1, <2>2, Alone, ReplyStep
  <2>5. q \in Slots /\ dir[q] = Clean
    BY <1>1, FirstEntry, EmptyEntry DEF NoEntry, IInv
  <2>6. VisibleLinks = [dir EXCEPT ![q] = Entry(req[c].name, in)]
    BY <2>4, OneRenaming DEF soAddDirEntry
  <2>7. VisibleLinks' = dir'
    BY <2>4, NoneRenamingNext
  <2>8. dir \in [Slots -> Entries] /\ Entry(req[c].name, in).in = in
    BY DEF IInv, Rooted, Entry
  <2>9. Entry(req[c].name, in) # Clean
    BY <1>1, Constants DEF Entry, Clean
  <2>10. VisibleLinks[q] = Entry(req[c].name, in)
    BY <2>5, <2>6, <2>8
  <2>11. CASE outcome = "added"
    <3>1. dir' = [dir EXCEPT ![q] = Entry(new, in)]
      BY <1>3, <2>11 DEF AddRenamed, soAddDirEntry
    <3> HIDE DEF q, in
    <3>2. dir' = [VisibleLinks EXCEPT ![q] = Clean, ![q] = Entry(new, in)]
      BY <2>6, <3>1
    <3>3. Implemented!Rename(q, q, new)
      BY <2>3, <2>7, <2>8, <2>9, <2>10, <3>2 DEF Implemented!Rename, Implemented!Link, Entry
    <3>4. QED
      BY <1>1, <2>5, <3>3
  <2>12. CASE outcome # "added"
    <3>1. dir' = dir
      BY <1>3, <2>12 DEF AddRenamed
    <3> HIDE DEF q, in
    <3>2. dir = [VisibleLinks EXCEPT ![q] = Clean]
      BY <2>5, <2>6, <2>8
    <3>3. Implemented!Remove(q)
      BY <2>3, <2>7, <2>9, <2>10, <3>1, <3>2 DEF Implemented!Remove
    <3>4. QED
      BY <2>5, <3>3
  <2>13. QED
    BY <2>11, <2>12
<1>4. QED
  BY <1>2, <1>3, RenameDirEntryAre

LEMMA OthersSilent ==
  ASSUME IInv, NEW c \in Clients,
         Refusals(c) \/ soWrite(c) \/ soOpendir(c) \/ Fill(c)
  PROVE  Silent
<1>1. CASE Refusals(c)
  BY <1>1, RefusalsAre, FailSilent, StillSilent DEF End
<1>2. CASE soWrite(c) \/ soOpendir(c) \/ Fill(c)
  <2>1. /\ pc[c] = "call" /\ \E r \in {"ok", "error", "EINVAL"} : Reply(c, r)
        /\ UNCHANGED <<accessCR, req, cin, dir>>
    BY <1>2 DEF soWrite, soOpendir, Fill, Calling, Fail
  <2>2. {"ok", "error", "EINVAL"} \subseteq Replies \ {"found", "missing"}
    BY DEF Replies
  <2>3. QED
    BY <2>1, <2>2, ReplySilent
<1>3. QED
  BY <1>1, <1>2

LEMMA NextImplements ==
  ASSUME IInv, [Next]_vars
  PROVE  [Implemented!Next]_(Implemented!vars)
<1>1. ASSUME Silent PROVE UNCHANGED Implemented!vars
  BY <1>1 DEF Silent, Implemented!vars
<1>2. CASE UNCHANGED vars
  BY <1>1, <1>2, StillSilent DEF vars
<1>3. CASE sofs_mount \/ sofs_unmount
  BY <1>1, <1>3, StillSilent DEF sofs_mount, sofs_unmount
<1>4. ASSUME NEW c \in Clients, Lock(c) \/ Refusals(c) \/ soWrite(c) \/ soOpendir(c) \/ Fill(c)
      PROVE  UNCHANGED Implemented!vars
  BY <1>1, <1>4, LockSilent, OthersSilent
<1>5. ASSUME NEW c \in Clients, Arrivals(c) \/ Unlock(c) \/ Answer(c)
      PROVE  Implemented!Next
  BY <1>5, ArrivalsAsk, UnlockAsks, AnswerAnswers DEF Implemented!Next
<1>6. ASSUME NEW c \in Clients, soMknod(c) \/ soSymlink(c) \/ soLink(c) \/ soUnlink(c)
      PROVE  [Implemented!Next]_(Implemented!vars)
  BY <1>1, <1>6, MakesCreate, UnlinkRemoves DEF Implemented!Next
<1>7. ASSUME NEW c \in Clients, soRename(c) \/ soRenameDirEntry(c)
      PROVE  [Implemented!Next]_(Implemented!vars)
  BY <1>1, <1>7, RenameMoves, RenameDirEntryRenames DEF Implemented!Next
<1>8. CASE Next
  BY <1>8, <1>3, <1>4, <1>5, <1>6, <1>7, NextAre
<1>9. QED
  BY <1>2, <1>8

(* The mount implements Namespace: every link that a client sees appears,  *)
(* disappears and is renamed at once, and every answer was right at an     *)
(* instant since the question, because accessCR is held from the deletion  *)
(* of the old entry to the addition of the new one.                        *)
THEOREM Implements == Spec => ImplementsNamespace
<1>1. Init => Implemented!Init
  BY InitImplements
<1>2. IInv /\ [Next]_vars => [Implemented!Next]_(Implemented!vars)
  BY NextImplements
<1>3. QED
  BY Inductive, <1>1, <1>2, PTL DEF Spec, ImplementsNamespace, Implemented!Spec
=============================================================================
