------------------------------- MODULE Library -------------------------------
(***************************************************************************)
(* The shared library of the process simulation (soipc_p/library.cpp) and  *)
(* the processes that work on it: the students requisite books, sit, study *)
(* and rise (soipc_p/student.cpp, study), the librarian walks the seats    *)
(* and puts abandoned books back (soipc_p/librarian.cpp, collectBooks).    *)
(*                                                                         *)
(* The library lives in System V shared memory.  Its bookshelf is guarded  *)
(* by the semaphore ACCESS_LIBRARY and its seats by SITSEM, but            *)
(* booksInTransit is written under either of them, the librarian reads     *)
(* seats under ACCESS_LIBRARY alone, and invariantLibrary() sums up        *)
(* everything under whichever semaphore the caller happens to hold.        *)
(* An action is one access (or several that no other process can tell      *)
(* apart) to shared memory; n++ and n -= k on racing counters are a load   *)
(* and a store, as g++ -O0 (Makefile) compiles them.  A failed assert      *)
(* stops the process where it is, with the semaphores it holds.            *)
(***************************************************************************)
EXTENDS Integers, Sequences, FiniteSets, Functions

CONSTANTS
    Students,      \* the student processes
    Librarian,     \* the librarian process
    Books,         \* the titles of the bookshelf
    Quantity,      \* bookQuantity: copies of each title
    BookLists,     \* the lists of distinct titles a student may choose to study
    NumSeats,      \* NUM_TABLES * NUM_SEATS_PER_TABLE
    MaxStudies     \* bound: how many times each student goes to the library

ASSUME LibraryAssumption ==
    /\ Librarian \notin Students
    /\ IsFiniteSet(Students)
    /\ Quantity \in [Books -> Nat \ {0}]
    /\ BookLists \subseteq {l \in Seq(Books) : l # <<>> /\ IsInjective(l)}
    /\ NumSeats \in Nat \ {0}
    /\ MaxStudies \in Nat

Seats == 1..NumSeats
Processes == Students \union {Librarian}

\* The two semaphores of semid_lib that the code uses (REQBOOKS is never taken).
ACCESS_LIBRARY == "ACCESS_LIBRARY"
SITSEM == "SITSEM"

VARIABLES
    bookAvailable,   \* copies of each title on the shelf
    booksInTransit,  \* copies requisited and not yet put on a seat
    seatOccupied,    \* is somebody sitting there?
    booksInSeat,     \* the array of titles in front of each seat, as far as the
                     \* last sitter filled it ...
    numBooksInSeat,  \* ... and how many of its elements count
    semLib,          \* values of the semaphores
    pc,              \* where each process is
    books,           \* the list of books each process is working on
    i,               \* loop index over that list
    register,        \* value loaded from a shared counter and not yet stored
    seen,            \* what invariantLibrary has read so far: <<>>, or the
                     \* counter booksInTransit and the shelf
    pos,             \* the student's seat; the librarian's loop variable seatNum
    studies,         \* how often each student went to study
    disturbed        \* history: has the librarian collected from a taken seat?

stock  == <<bookAvailable, booksInTransit>>
tables == <<seatOccupied, booksInSeat, numBooksInSeat>>
loop   == <<books, i>>
vars   == <<stock, tables, semLib, pc, loop, register, seen, pos, studies, disturbed>>

(* initLibrary *)
Init ==
    /\ bookAvailable = Quantity
    /\ booksInTransit = 0
    /\ seatOccupied = [s \in Seats |-> FALSE]
    /\ booksInSeat = [s \in Seats |-> <<>>]
    /\ numBooksInSeat = [s \in Seats |-> 0]
    /\ semLib = [x \in {ACCESS_LIBRARY, SITSEM} |-> 1]
    /\ pc = [p \in Processes |-> "idle"]
    /\ books = [p \in Processes |-> <<>>]
    /\ i = [p \in Processes |-> 0]
    /\ register = [p \in Processes |-> 0]
    /\ seen = [p \in Processes |-> <<>>]
    /\ pos = [p \in Processes |-> 0]
    /\ studies = [p \in Students |-> 0]
    /\ disturbed = FALSE

-----------------------------------------------------------------------------
(* Semaphores and control flow. *)

psem_down(x) == semLib[x] > 0 /\ semLib' = [semLib EXCEPT ![x] = @ - 1]
psem_up(x)   == semLib' = [semLib EXCEPT ![x] = @ + 1]

At(p, label)   == pc[p] = label
Goto(p, label) == pc' = [pc EXCEPT ![p] = label]

NextBook(p)   == i' = [i EXCEPT ![p] = @ + 1]
FirstBook(p)  == i' = [i EXCEPT ![p] = 1]
LastBook(p)   == i[p] = Len(books[p])

(* The element the loop over the books of process p is at. *)
Book(p) == books[p][i[p]]

booksInSeatAt(seat) == numBooksInSeat[seat] > 0
seatFree(seat)      == ~seatOccupied[seat] /\ ~booksInSeatAt(seat)

-----------------------------------------------------------------------------
(* invariantLibrary(): the counters and the shelf are read first, then the *)
(* seats; the sums are compared, and a difference aborts the process.      *)
(* Scanning is where the code calls it, Resume where the caller goes on.   *)

Scanning == {"requisited", "seated", "risen", "cleared"}
Resume == [l \in Scanning |->
             CASE l = "requisited" -> "sit"
               [] l = "seated"     -> "sitUp"
               [] l = "risen"      -> "riseUp"
               [] l = "cleared"    -> "nextSeat"]

InvariantRead(p) ==
    /\ pc[p] \in Scanning
    /\ seen[p] = <<>>
    /\ seen' = [seen EXCEPT ![p] = <<booksInTransit, bookAvailable>>]
    /\ UNCHANGED <<stock, tables, semLib, pc, loop, register, pos, studies, disturbed>>

InvariantLibrary(scan) ==
    /\ booksInTransit >= 0
    /\ scan[1] + SumFunction(scan[2]) + SumFunction(numBooksInSeat) = SumFunction(Quantity)

InvariantAssert(p) ==
    /\ pc[p] \in Scanning
    /\ seen[p] # <<>>
    /\ Goto(p, IF InvariantLibrary(seen[p]) THEN Resume[pc[p]] ELSE "aborted")
    /\ seen' = [seen EXCEPT ![p] = <<>>]
    /\ UNCHANGED <<stock, tables, semLib, loop, register, pos, studies, disturbed>>

-----------------------------------------------------------------------------
(* A student requisites the books it chose (requisiteBooksFromLibrary).    *)

ChooseBooks(p) ==
    /\ At(p, "idle")
    /\ studies[p] < MaxStudies
    /\ studies' = [studies EXCEPT ![p] = @ + 1]
    /\ \E list \in BookLists : books' = [books EXCEPT ![p] = list]
    /\ Goto(p, "requisite")
    /\ UNCHANGED <<stock, tables, semLib, i, register, seen, pos, disturbed>>

\* Mutant: the check of each book forgets those before it.
LastBookAvailable(list) == bookAvailable[list[Len(list)]] > 0

BooksAvailable(list) == \A k \in 1..Len(list) : bookAvailable[list[k]] > 0

RequisiteDown(p) ==
    /\ At(p, "requisite")
    /\ psem_down(ACCESS_LIBRARY)
    /\ Goto(p, IF BooksAvailable(books[p]) THEN "take" ELSE "noBooks")
    /\ FirstBook(p)
    /\ UNCHANGED <<stock, tables, books, register, seen, pos, studies, disturbed>>

\* bookAvailable[idx]-- and the load of booksInTransit++
TakeBook(p) ==
    /\ At(p, "take")
    /\ bookAvailable' = [bookAvailable EXCEPT ![Book(p)] = @ - 1]
    /\ register' = [register EXCEPT ![p] = booksInTransit]
    /\ Goto(p, "takeStore")
    /\ UNCHANGED <<booksInTransit, tables, semLib, loop, seen, pos, studies, disturbed>>

TakeBookStore(p) ==
    /\ At(p, "takeStore")
    /\ booksInTransit' = register[p] + 1
    /\ register' = [register EXCEPT ![p] = 0]
    /\ Goto(p, IF LastBook(p) THEN "gotBooks" ELSE "take")
    /\ NextBook(p)
    /\ UNCHANGED <<bookAvailable, tables, semLib, books, seen, pos, studies, disturbed>>

\* Mutants: the wrong semaphore is released; it is kept when books are missing.
RequisiteUpSit(p) ==
    /\ pc[p] \in {"gotBooks", "noBooks"}
    /\ psem_up(SITSEM)
    /\ Goto(p, IF At(p, "gotBooks") THEN "requisited" ELSE "requisite")
    /\ UNCHANGED <<stock, tables, loop, register, seen, pos, studies, disturbed>>

RequisiteKeep(p) ==
    /\ pc[p] \in {"gotBooks", "noBooks"}
    /\ IF At(p, "gotBooks") THEN psem_up(ACCESS_LIBRARY) ELSE UNCHANGED semLib
    /\ Goto(p, IF At(p, "gotBooks") THEN "requisited" ELSE "requisite")
    /\ UNCHANGED <<stock, tables, loop, register, seen, pos, studies, disturbed>>

RequisiteUp(p) ==
    /\ pc[p] \in {"gotBooks", "noBooks"}
    /\ psem_up(ACCESS_LIBRARY)
    /\ Goto(p, IF At(p, "gotBooks") THEN "requisited" ELSE "requisite")
    /\ UNCHANGED <<stock, tables, loop, register, seen, pos, studies, disturbed>>

-----------------------------------------------------------------------------
(* It sits on a free seat with them (sit) ...                              *)

\* Mutant: the free seat is chosen before the semaphore is taken.
SitDownUnlocked(p) ==
    /\ At(p, "sit")
    /\ \E seat \in Seats :
          /\ seatFree(seat)
          /\ Goto(p, "occupy")
          /\ pos' = [pos EXCEPT ![p] = seat]
    /\ UNCHANGED <<stock, tables, semLib, loop, register, seen, studies, disturbed>>

\* seatAvailable() and getRandomSeat(): its random count reaches every free seat
SitDown(p) ==
    /\ At(p, "sit")
    /\ psem_down(SITSEM)
    /\ \/ /\ \A seat \in Seats : ~seatFree(seat)
          /\ Goto(p, "noSeat")
          /\ UNCHANGED pos
       \/ \E seat \in Seats :
             /\ seatFree(seat)
             /\ Goto(p, "occupy")
             /\ pos' = [pos EXCEPT ![p] = seat]
    /\ UNCHANGED <<stock, tables, loop, register, seen, studies, disturbed>>

Occupy(p) ==
    /\ At(p, "occupy")
    /\ seatOccupied' = [seatOccupied EXCEPT ![pos[p]] = TRUE]
    /\ FirstBook(p)
    /\ Goto(p, "place")
    /\ UNCHANGED <<stock, booksInSeat, numBooksInSeat, semLib, books, register, seen,
                   pos, studies, disturbed>>

\* booksInSeat[res][i] = *books[i] and the load of numBooksInSeat[res]++
PlaceBook(p) ==
    /\ At(p, "place")
    /\ booksInSeat' = [booksInSeat EXCEPT ![pos[p]] =
                         Append(SubSeq(@, 1, i[p] - 1), Book(p))]
    /\ register' = [register EXCEPT ![p] = numBooksInSeat[pos[p]]]
    /\ Goto(p, "placeStore")
    /\ UNCHANGED <<stock, seatOccupied, numBooksInSeat, semLib, loop, seen, pos,
                   studies, disturbed>>

PlaceBookStore(p) ==
    /\ At(p, "placeStore")
    /\ numBooksInSeat' = [numBooksInSeat EXCEPT ![pos[p]] = register[p] + 1]
    /\ register' = [register EXCEPT ![p] = 0]
    /\ Goto(p, IF LastBook(p) THEN "leaveTransit" ELSE "place")
    /\ NextBook(p)
    /\ UNCHANGED <<stock, seatOccupied, booksInSeat, semLib, books, seen, pos,
                   studies, disturbed>>

\* booksInTransit -= bookListLength(books), under SITSEM
LeaveTransit(p) ==
    /\ At(p, "leaveTransit")
    /\ register' = [register EXCEPT ![p] = booksInTransit]
    /\ Goto(p, "leaveStore")
    /\ UNCHANGED <<stock, tables, semLib, loop, seen, pos, studies, disturbed>>

LeaveTransitStore(p) ==
    /\ At(p, "leaveStore")
    /\ booksInTransit' = register[p] - Len(books[p])
    /\ register' = [register EXCEPT ![p] = 0]
    /\ Goto(p, "seated")
    /\ UNCHANGED <<bookAvailable, tables, semLib, loop, seen, pos, studies, disturbed>>

SitUp(p) ==
    /\ pc[p] \in {"sitUp", "noSeat"}
    /\ psem_up(SITSEM)
    /\ Goto(p, IF At(p, "sitUp") THEN "study" ELSE "sit")
    /\ UNCHANGED <<stock, tables, loop, register, seen, pos, studies, disturbed>>

-----------------------------------------------------------------------------
(* ... studies, and rises, leaving the books on the table (rise).          *)

FinishStudy(p) ==
    /\ At(p, "study")
    /\ Goto(p, IF seatOccupied[pos[p]] THEN "rise" ELSE "aborted")
    /\ UNCHANGED <<stock, tables, semLib, loop, register, seen, pos, studies, disturbed>>

Rise(p) ==
    /\ At(p, "rise")
    /\ psem_down(SITSEM)
    /\ seatOccupied' = [seatOccupied EXCEPT ![pos[p]] = FALSE]
    /\ Goto(p, "risen")
    /\ UNCHANGED <<stock, booksInSeat, numBooksInSeat, loop, register, seen, pos,
                   studies, disturbed>>

RiseUp(p) ==
    /\ At(p, "riseUp")
    /\ psem_up(SITSEM)
    /\ Goto(p, "idle")
    /\ books' = [books EXCEPT ![p] = <<>>]
    /\ i' = [i EXCEPT ![p] = 0]
    /\ pos' = [pos EXCEPT ![p] = 0]
    /\ UNCHANGED <<stock, tables, register, seen, studies, disturbed>>

-----------------------------------------------------------------------------
(* The librarian walks the seats under ACCESS_LIBRARY and collects the     *)
(* books of those it finds empty (collectBooks, collectBooksLibrary).      *)

CollectDown ==
    /\ At(Librarian, "idle")
    /\ psem_down(ACCESS_LIBRARY)
    /\ pos' = [pos EXCEPT ![Librarian] = 1]
    /\ Goto(Librarian, "look")
    /\ UNCHANGED <<stock, tables, loop, register, seen, studies, disturbed>>

seatNum == pos[Librarian]

\* not(seatOccupied(seatNum)) ...
LookAtSeat ==
    /\ At(Librarian, "look")
    /\ Goto(Librarian, IF seatOccupied[seatNum] THEN "nextSeat" ELSE "lookBooks")
    /\ UNCHANGED <<stock, tables, semLib, loop, register, seen, pos, studies, disturbed>>

\* ... and booksInSeat(seatNum), read after it
LookAtBooks ==
    /\ At(Librarian, "lookBooks")
    /\ Goto(Librarian, IF booksInSeatAt(seatNum) THEN "collect" ELSE "nextSeat")
    /\ disturbed' = (disturbed \/ (booksInSeatAt(seatNum) /\ seatOccupied[seatNum]))
    /\ UNCHANGED <<stock, tables, semLib, loop, register, seen, pos, studies>>

Missing(list) == \A k \in 1..Len(list) : bookAvailable[list[k]] < Quantity[list[k]]

\* The count is read once for the room, once per book and once for the end of the list:
\* while somebody puts books there the list may lack its end, and the process crash.
CollectFrom ==
    LET found == SubSeq(booksInSeat[seatNum], 1, numBooksInSeat[seatNum])
    IN  /\ At(Librarian, "collect")
        /\ books' = [books EXCEPT ![Librarian] = found]
        /\ FirstBook(Librarian)
        /\ \/ Goto(Librarian, IF Missing(found) THEN "putBack" ELSE "aborted")
           \/ seatOccupied[seatNum] /\ Goto(Librarian, "aborted")
        /\ UNCHANGED <<stock, tables, semLib, register, seen, pos, studies, disturbed>>

PutBack ==
    /\ At(Librarian, "putBack")
    /\ bookAvailable' = [bookAvailable EXCEPT ![Book(Librarian)] = @ + 1]
    /\ Goto(Librarian, IF LastBook(Librarian) THEN "clear" ELSE "putBack")
    /\ NextBook(Librarian)
    /\ UNCHANGED <<booksInTransit, tables, semLib, books, register, seen, pos,
                   studies, disturbed>>

\* Mutant: the books put back stay in front of the seat.
ClearNothing ==
    /\ At(Librarian, "clear")
    /\ books' = [books EXCEPT ![Librarian] = <<>>]
    /\ i' = [i EXCEPT ![Librarian] = 0]
    /\ Goto(Librarian, "cleared")
    /\ UNCHANGED <<stock, tables, semLib, register, seen, pos, studies, disturbed>>

ClearSeat ==
    /\ At(Librarian, "clear")
    /\ numBooksInSeat' = [numBooksInSeat EXCEPT ![seatNum] = 0]
    /\ books' = [books EXCEPT ![Librarian] = <<>>]
    /\ i' = [i EXCEPT ![Librarian] = 0]
    /\ Goto(Librarian, "cleared")
    /\ UNCHANGED <<stock, seatOccupied, booksInSeat, semLib, register, seen, pos,
                   studies, disturbed>>

NextSeat ==
    /\ At(Librarian, "nextSeat")
    /\ IF seatNum < NumSeats
       THEN /\ pos' = [pos EXCEPT ![Librarian] = @ + 1]
            /\ Goto(Librarian, "look")
       ELSE /\ pos' = [pos EXCEPT ![Librarian] = 0]
            /\ Goto(Librarian, "collectUp")
    /\ UNCHANGED <<stock, tables, semLib, loop, register, seen, studies, disturbed>>

CollectUp ==
    /\ At(Librarian, "collectUp")
    /\ psem_up(ACCESS_LIBRARY)
    /\ Goto(Librarian, "idle")
    /\ UNCHANGED <<stock, tables, loop, register, seen, pos, studies, disturbed>>

-----------------------------------------------------------------------------
Requisite(p) == RequisiteDown(p) \/ TakeBook(p) \/ TakeBookStore(p) \/ RequisiteUp(p)
Sit(p) == \/ SitDown(p) \/ Occupy(p) \/ PlaceBook(p) \/ PlaceBookStore(p)
          \/ LeaveTransit(p) \/ LeaveTransitStore(p) \/ SitUp(p)
Leave(p) == FinishStudy(p) \/ Rise(p) \/ RiseUp(p)
Scan(p) == InvariantRead(p) \/ InvariantAssert(p)

Student(p) == ChooseBooks(p) \/ Requisite(p) \/ Sit(p) \/ Leave(p) \/ Scan(p)
CollectBooks == \/ CollectDown \/ LookAtSeat \/ LookAtBooks \/ CollectFrom
                \/ PutBack \/ ClearSeat \/ NextSeat \/ CollectUp \/ Scan(Librarian)

Next == CollectBooks \/ \E p \in Students : Student(p)

Spec == Init /\ [][Next]_vars

(* The processes are scheduled fairly, and System V semaphores serve their *)
(* waiters in order, so a process that keeps asking for one gets it.       *)
FairSpec ==
    /\ Spec
    /\ \A p \in Students : /\ WF_vars(Student(p))
                           /\ SF_vars(RequisiteDown(p))
                           /\ SF_vars(SitDown(p))
                           /\ SF_vars(Rise(p))
    /\ WF_vars(CollectBooks)
    /\ SF_vars(CollectDown)

-----------------------------------------------------------------------------
(* Properties. *)

\* Where a process is, by what it holds.
HoldsAccess == {"take", "takeStore", "gotBooks", "noBooks", "look", "lookBooks",
                "collect", "putBack", "clear", "cleared", "nextSeat", "collectUp"}
HoldsSit == {"occupy", "place", "placeStore", "leaveTransit", "leaveStore", "seated",
             "sitUp", "noSeat", "risen", "riseUp"}
OnSeat == {"place", "placeStore", "leaveTransit", "leaveStore", "seated", "sitUp",
           "study", "rise"}
StudentLabels == {"idle", "requisite", "take", "takeStore", "gotBooks", "noBooks",
                  "requisited", "sit", "noSeat", "occupy", "risen", "riseUp",
                  "aborted"} \union OnSeat
LibrarianLabels == {"idle", "look", "lookBooks", "collect", "putBack", "clear",
                    "cleared", "nextSeat", "collectUp", "aborted"}

SharedTypeOK ==
    /\ bookAvailable \in [Books -> Nat]
    /\ \A b \in Books : bookAvailable[b] <= Quantity[b]
    /\ booksInTransit \in Int
    /\ seatOccupied \in [Seats -> BOOLEAN]
    /\ booksInSeat \in [Seats -> Seq(Books)]
    /\ numBooksInSeat \in [Seats -> Nat]
    /\ semLib \in [{ACCESS_LIBRARY, SITSEM} -> {0, 1}]

ControlTypeOK ==
    /\ pc \in [Processes -> StudentLabels \union LibrarianLabels]
    /\ \A p \in Students : pc[p] \in StudentLabels
    /\ pc[Librarian] \in LibrarianLabels

LocalTypeOK ==
    /\ books \in [Processes -> Seq(Books)]
    /\ i \in [Processes -> Nat]
    /\ register \in [Processes -> Int]
    /\ seen \in [Processes -> {<<>>} \union (Int \X [Books -> Nat])]
    /\ pos \in [Processes -> 0..NumSeats]
    /\ studies \in [Students -> 0..MaxStudies]
    /\ disturbed \in BOOLEAN

\* Type invariant.  Not only types: the semaphores stay binary, and the shelf holds
\* between none and all of the copies of each title (requisiteBooksFromLibrary and
\* returnBooks never overdraw or overfill it).
TypeOK == SharedTypeOK /\ ControlTypeOK /\ LocalTypeOK

\* A seat marked occupied has exactly one student on it, and a student on a seat has
\* it marked occupied, whatever the librarian does to the books in front of it: two
\* students that look for a free seat at the same time (sit, library.cpp:307) never
\* end up on the same one, and rise frees no one else's seat.  A student that an
\* assert stopped may leave its seat marked.
SeatOwnership ==
    /\ \A p, q \in Students : pc[p] \in OnSeat /\ pc[q] \in OnSeat /\ pos[p] = pos[q] => p = q
    /\ \A p \in Students : pc[p] \in OnSeat => seatOccupied[pos[p]]
    /\ \A seat \in Seats : seatOccupied[seat] =>
          \E p \in Students : pc[p] \in OnSeat \union {"aborted"} /\ pos[p] = seat

\* The elements of its list that a student carries: from the copies it has taken off
\* the shelf to those it has not yet put on its seat.
Carried(p) ==
    CASE At(p, "take")      -> 1 .. i[p] - 1
      [] At(p, "takeStore") -> 1 .. i[p]
      [] pc[p] \in {"place", "placeStore"} -> i[p] .. Len(books[p])
      [] pc[p] \in {"gotBooks", "requisited", "sit", "noSeat", "occupy"}
         \/ (At(p, "aborted") /\ pos[p] = 0) -> 1 .. Len(books[p])
      [] OTHER -> {}

\* The elements of a seat's list the librarian has put back but not yet cleared.
PutBackFrom(seat) ==
    CASE seatNum = seat /\ At(Librarian, "putBack") -> 1 .. i[Librarian] - 1
      [] seatNum = seat /\ At(Librarian, "clear")   -> 1 .. Len(books[Librarian])
      [] OTHER -> {}

Carriers(b) == {p \in Students : \E k \in Carried(p) : books[p][k] = b}
SeatsWith(b) ==
    {seat \in Seats : \E k \in (1 .. numBooksInSeat[seat]) \ PutBackFrom(seat) :
                          booksInSeat[seat][k] = b}

\* As long as the librarian never collects from a seat someone sits on, no copy of any
\* title is lost, duplicated or swapped: each is on the shelf, carried by a student or
\* on a seat.  (invariantLibrary only compares the total over all titles, and fails
\* spuriously; library.cpp:396.)
TitlesConserved ==
    ~disturbed => \A b \in Books :
        bookAvailable[b] + Cardinality(Carriers(b)) + Cardinality(SeatsWith(b)) = Quantity[b]

\* The library as its users see it.  A list is lent when the check under
\* ACCESS_LIBRARY succeeds, so copies the loop has still to take count as lent; a
\* student is on its seat from the moment it marks it.
StillToTake(p) ==
    CASE At(p, "take")      -> i[p] .. Len(books[p])
      [] At(p, "takeStore") -> i[p] + 1 .. Len(books[p])
      [] OTHER -> {}
Takers(b) == {p \in Students : \E k \in StillToTake(p) : books[p][k] = b}
OnShelf == [b \in Books |-> bookAvailable[b] - Cardinality(Takers(b))]
Nobody == Librarian   \* anyone who is not a student
Occupant == [seat \in Seats |->
    IF \E p \in Students : pc[p] \in OnSeat /\ pos[p] = seat
    THEN CHOOSE p \in Students : pc[p] \in OnSeat /\ pos[p] = seat
    ELSE Nobody]

Room == INSTANCE ReadingRoom WITH onShelf <- OnShelf, occupant <- Occupant

\* Whatever the interleaving, students and librarian together behave like a reading
\* room: lists are lent all or nothing, the shelf never goes negative or overfull, and
\* seats are taken by one student at a time (requisiteBooksFromLibrary, sit, rise).
ImplementsReadingRoom == Room!Spec

\* No process is stopped by an assert: "Asserts are used to verify the correctness of
\* the code" (README.txt:116); in particular invariantLibrary (library.cpp:420, 423).
NoAssertFails == \A p \in Processes : pc[p] # "aborted"

\* The librarian collects books "from empty seats in the table" (README.txt:48): it
\* never takes the books of a student who is sitting there.
CollectsFromEmptySeats == ~disturbed

\* A student that asks for books gets them, finds a seat, studies and leaves, unless
\* an assert stops somebody or the librarian robs a taken seat.
EveryStudyEnds ==
    [](NoAssertFails /\ CollectsFromEmptySeats) =>
        \A p \in Students : (pc[p] = "requisite") ~> (pc[p] = "idle")
=============================================================================
