---------------------------- MODULE LibraryProofs ----------------------------
(***************************************************************************)
(* Proofs about Library: its type invariant and the ownership of seats, by *)
(* one inductive invariant; that it implements ReadingRoom; and, with a    *)
(* second invariant, that no copy of a title is lost.                      *)
(***************************************************************************)
EXTENDS Library, TLAPS, SequenceTheorems, FiniteSetTheorems

\* Each semaphore is free only if nobody is in its critical section, and at most one
\* process is.
Exclusive(labels, x) ==
    /\ semLib[x] = 1 => \A p \in Processes : pc[p] \notin labels
    /\ \A p, q \in Processes : pc[p] \in labels /\ pc[q] \in labels => p = q

Exclusion == Exclusive(HoldsAccess, ACCESS_LIBRARY) /\ Exclusive(HoldsSit, SITSEM)

\* Labels at which a loop over books is inside its body, and at which a process has a
\* seat in hand.
InLoop == {"take", "takeStore", "place", "placeStore", "putBack"}
WithSeat == OnSeat \union {"occupy", "risen", "riseUp"}
Walking == {"look", "lookBooks", "collect", "putBack", "clear", "cleared", "nextSeat"}

LoopRange == \A p \in Processes : pc[p] \in InLoop => i[p] \in 1..Len(books[p])
ListRange == \A p \in Students : pc[p] # "idle" => books[p] \in BookLists
SeatRange == \A p \in Students : pc[p] \in WithSeat => pos[p] \in Seats
WalkRange == pc[Librarian] \in Walking => pos[Librarian] \in Seats
Ranges == LoopRange /\ ListRange /\ SeatRange /\ WalkRange

\* What the critical section under ACCESS_LIBRARY relies on: the copies still to take
\* are on the shelf, those still to put back are not.
TakeLoan == \A p \in Students : pc[p] = "take" =>
    \A k \in i[p] .. Len(books[p]) : bookAvailable[books[p][k]] > 0
TakenLoan == \A p \in Students : pc[p] = "takeStore" =>
    \A k \in i[p] + 1 .. Len(books[p]) : bookAvailable[books[p][k]] > 0
PutBackLoan == pc[Librarian] = "putBack" =>
    /\ IsInjective(books[Librarian])
    /\ \A k \in i[Librarian] .. Len(books[Librarian]) :
          bookAvailable[books[Librarian][k]] < Quantity[books[Librarian][k]]
Loans == TakeLoan /\ TakenLoan /\ PutBackLoan

\* What the critical section under SITSEM relies on.
Choice == \A p \in Students : pc[p] = "occupy" => seatFree(pos[p])

\* A seat whose books the librarian is about to collect still has some.
Found == pc[Librarian] = "collect" => booksInSeatAt(pos[Librarian])

\* The array in front of a seat holds the list of its last sitter, as far as it came.
Arrays == \A seat \in Seats : /\ IsInjective(booksInSeat[seat])
                              /\ numBooksInSeat[seat] <= Len(booksInSeat[seat])
Placing == \A p \in Students : pc[p] = "place" =>
    /\ numBooksInSeat[pos[p]] < i[p]
    /\ Len(booksInSeat[pos[p]]) >= i[p] - 1
    /\ \A k \in 1 .. i[p] - 1 : booksInSeat[pos[p]][k] = books[p][k]
Placed == \A p \in Students : pc[p] = "placeStore" =>
    /\ register[p] \in 0 .. i[p] - 1
    /\ Len(booksInSeat[pos[p]]) = i[p]
    /\ \A k \in 1 .. i[p] : booksInSeat[pos[p]][k] = books[p][k]
SeatLists == Arrays /\ Placing /\ Placed

IInv == TypeOK /\ Exclusion /\ Ranges /\ Loans /\ Choice /\ Found /\ SeatLists
        /\ SeatOwnership
-----------------------------------------------------------------------------
USE DEF At, Goto, psem_down, psem_up, FirstBook, NextBook, LastBook, Book,
        Processes, Seats, ACCESS_LIBRARY, SITSEM, stock, tables, loop

LEMMA Constants ==
  /\ Librarian \notin Students
  /\ Quantity \in [Books -> Nat]
  /\ NumSeats \in Nat
  /\ MaxStudies \in Nat
BY LibraryAssumption

LEMMA Lists ==
  ASSUME NEW l \in BookLists
  PROVE  /\ l \in Seq(Books)
         /\ Len(l) >= 1
         /\ \A j, k \in 1 .. Len(l) : l[j] = l[k] => j = k
<1>1. l \in Seq(Books) /\ l # <<>> /\ IsInjective(l)
  BY LibraryAssumption
<1>2. Len(l) # 0
  BY <1>1, EmptySeq
<1>3. QED
  BY <1>1, <1>2 DEF IsInjective

\* The first n elements of a sequence.
LEMMA Prefix ==
  ASSUME NEW S, NEW s \in Seq(S), NEW n \in 0 .. Len(s)
  PROVE  /\ SubSeq(s, 1, n) \in Seq(S)
         /\ Len(SubSeq(s, 1, n)) = n
         /\ \A k \in 1 .. n : SubSeq(s, 1, n)[k] = s[k]
<1>1. n \in Int /\ \A k \in 1 .. n : s[k] \in S
  OBVIOUS
<1>2. /\ SubSeq(s, 1, n) \in Seq(S)
      /\ Len(SubSeq(s, 1, n)) = IF 1 <= n THEN n - 1 + 1 ELSE 0
      /\ \A k \in 1 .. n - 1 + 1 : SubSeq(s, 1, n)[k] = s[1 + k - 1]
  BY <1>1, SubSeqProperties
<1>3. n - 1 + 1 = n /\ \A k \in 1 .. n : 1 + k - 1 = k
  OBVIOUS
<1>4. QED
  BY <1>2, <1>3

LEMMA InitIInv == Init => IInv
<1> SUFFICES ASSUME Init PROVE IInv
  OBVIOUS
<1> USE Constants DEF Init
<1>1. SharedTypeOK
  BY DEF SharedTypeOK
<1>2. ControlTypeOK
  BY DEF ControlTypeOK, StudentLabels, LibrarianLabels
<1>3. LocalTypeOK
  <2>1. books \in [Processes -> Seq(Books)] /\ seen \in [Processes -> {<<>>} \union (Int \X [Books -> Nat])]
    OBVIOUS
  <2>2. i \in [Processes -> Nat] /\ register \in [Processes -> Int]
    OBVIOUS
  <2>3. 0 \in 0..NumSeats /\ 0 \in 0..MaxStudies
    OBVIOUS
  <2>4. pos \in [Processes -> 0..NumSeats] /\ studies \in [Students -> 0..MaxStudies]
    BY <2>3
  <2>5. QED
    BY <2>1, <2>2, <2>4 DEF LocalTypeOK
<1>4. Exclusion /\ Ranges /\ Loans /\ Choice /\ Found
  BY Constants DEF Exclusion, Exclusive, HoldsAccess, HoldsSit, Ranges, LoopRange,
     ListRange,
     SeatRange, WalkRange, InLoop, WithSeat, OnSeat, Walking, Loans, TakeLoan, TakenLoan,
     PutBackLoan, Choice, Found
<1>5. SeatLists
  <2>1. Arrays
    BY DEF Arrays, IsInjective
  <2>2. Placing /\ Placed
    BY DEF Placing, Placed
  <2>3. QED
    BY <2>1, <2>2 DEF SeatLists
<1>6. SeatOwnership
  BY DEF SeatOwnership, OnSeat
<1>7. QED
  BY <1>1, <1>2, <1>3, <1>4, <1>5, <1>6 DEF IInv, TypeOK

LEMMA BookInHand ==
  ASSUME IInv, NEW p \in Processes, pc[p] \in InLoop
  PROVE  /\ books[p] \in Seq(Books)
         /\ i[p] \in 1 .. Len(books[p])
         /\ Book(p) \in Books
BY DEF IInv, TypeOK, LocalTypeOK, Ranges, LoopRange

\* Steps that leave the arrays alone, and bring no student to a place where it relies on
\* them.
LEMMA SeatListsFrame ==
  ASSUME IInv, UNCHANGED <<booksInSeat, numBooksInSeat>>,
         \A q \in Students : pc'[q] \in {"place", "placeStore"} =>
            /\ pc'[q] = pc[q]
            /\ pos'[q] = pos[q] /\ i'[q] = i[q]
            /\ books'[q] = books[q] /\ register'[q] = register[q]
  PROVE  SeatLists'
<1>1. Arrays'
  BY DEF IInv, SeatLists, Arrays
<1>2. Placing'
  BY DEF IInv, SeatLists, Placing
<1>3. Placed'
  BY DEF IInv, SeatLists, Placed
<1>4. QED
  BY <1>1, <1>2, <1>3 DEF SeatLists

LEMMA StepChooseBooks ==
  ASSUME IInv, NEW p \in Students, ChooseBooks(p)
  PROVE  IInv'
<1> USE Constants DEF IInv, TypeOK, ChooseBooks
<1>1. SharedTypeOK'
  BY DEF SharedTypeOK, LocalTypeOK, ControlTypeOK
<1>2. ControlTypeOK'
  BY DEF ControlTypeOK, StudentLabels, LibrarianLabels
<1>3. LocalTypeOK'
  <2>1. (books \in [Processes -> Seq(Books)])'
    BY Lists DEF LocalTypeOK
  <2>2. (i \in [Processes -> Nat])'
    BY DEF SharedTypeOK, ControlTypeOK, LocalTypeOK
  <2>3. (register \in [Processes -> Int])'
    BY DEF SharedTypeOK, ControlTypeOK, LocalTypeOK
  <2>4. (seen \in [Processes -> {<<>>} \union (Int \X [Books -> Nat])])'
    BY DEF SharedTypeOK, ControlTypeOK, LocalTypeOK
  <2>5. (pos \in [Processes -> 0..NumSeats])'
    BY DEF SharedTypeOK, ControlTypeOK, LocalTypeOK
  <2>6. (studies \in [Students -> 0..MaxStudies])'
    BY DEF SharedTypeOK, ControlTypeOK, LocalTypeOK
  <2>7. (disturbed \in BOOLEAN)'
    BY DEF SharedTypeOK, ControlTypeOK, LocalTypeOK
  <2>8. QED
    BY <2>1, <2>2, <2>3, <2>4, <2>5, <2>6, <2>7 DEF LocalTypeOK
<1>4. Exclusive(HoldsAccess, ACCESS_LIBRARY)'
  BY DEF SharedTypeOK, ControlTypeOK, Exclusion, Exclusive, HoldsAccess
<1>5. Exclusive(HoldsSit, SITSEM)'
  BY DEF SharedTypeOK, ControlTypeOK, Exclusion, Exclusive, HoldsSit
<1>6. Ranges'
  BY DEF ControlTypeOK, LocalTypeOK, Ranges, LoopRange, ListRange, SeatRange, WalkRange,
         InLoop, WithSeat, OnSeat, Walking
<1>7. Loans'
  BY DEF SharedTypeOK, ControlTypeOK, LocalTypeOK, Loans, TakeLoan, TakenLoan, PutBackLoan
<1>8. Choice' /\ Found'
  BY DEF SharedTypeOK, ControlTypeOK, LocalTypeOK, Choice, Found, seatFree,
         booksInSeatAt
<1>9. SeatLists'
  BY SeatListsFrame DEF ControlTypeOK, LocalTypeOK
<1>10. SeatOwnership'
  BY DEF SharedTypeOK, ControlTypeOK, LocalTypeOK, SeatOwnership, OnSeat
<1>11. QED
  BY <1>1, <1>2, <1>3, <1>4, <1>5, <1>6, <1>7, <1>8, <1>9, <1>10 DEF Exclusion

LEMMA StepRequisiteDown ==
  ASSUME IInv, NEW p \in Students, RequisiteDown(p)
  PROVE  IInv'
<1> USE Constants DEF IInv, TypeOK, RequisiteDown
<1>1. SharedTypeOK'
  <2>1. (bookAvailable \in [Books -> Nat])'
    BY DEF SharedTypeOK, ControlTypeOK, LocalTypeOK
  <2>2. (\A b \in Books : bookAvailable[b] <= Quantity[b])'
    BY DEF SharedTypeOK, ControlTypeOK, LocalTypeOK
  <2>3. (booksInTransit \in Int)'
    BY DEF SharedTypeOK, ControlTypeOK, LocalTypeOK
  <2>4. (seatOccupied \in [Seats -> BOOLEAN])'
    BY DEF SharedTypeOK, ControlTypeOK, LocalTypeOK
  <2>5. (booksInSeat \in [Seats -> Seq(Books)])'
    BY DEF SharedTypeOK, ControlTypeOK, LocalTypeOK
  <2>6. (numBooksInSeat \in [Seats -> Nat])'
    BY DEF SharedTypeOK, ControlTypeOK, LocalTypeOK
  <2>7. (semLib \in [{ACCESS_LIBRARY, SITSEM} -> {0, 1}])'
    BY DEF SharedTypeOK, ControlTypeOK, LocalTypeOK
  <2>8. QED
    BY <2>1, <2>2, <2>3, <2>4, <2>5, <2>6, <2>7 DEF SharedTypeOK
<1>2. ControlTypeOK'
  BY DEF ControlTypeOK, StudentLabels, LibrarianLabels
<1>3. LocalTypeOK'
  BY DEF LocalTypeOK
<1>4. Exclusive(HoldsAccess, ACCESS_LIBRARY)'
  BY DEF SharedTypeOK, ControlTypeOK, Exclusion, Exclusive, HoldsAccess
<1>5. Exclusive(HoldsSit, SITSEM)'
  BY DEF SharedTypeOK, ControlTypeOK, Exclusion, Exclusive, HoldsSit
<1>6. Ranges'
  <2>1. LoopRange'
    <3>1. Len(books[p]) \in Nat /\ Len(books[p]) >= 1
      BY Lists DEF Ranges, ListRange
    <3>2. QED
      BY <3>1 DEF ControlTypeOK, LocalTypeOK, Ranges, LoopRange, InLoop
  <2>2. ListRange' /\ SeatRange' /\ WalkRange'
    BY DEF ControlTypeOK, LocalTypeOK, Ranges, ListRange, SeatRange, WalkRange, WithSeat,
           OnSeat, Walking
  <2>3. QED
    BY <2>1, <2>2 DEF Ranges
<1>7. Loans'
  <2>1. TakeLoan'
    <3>1. BooksAvailable(books[p]) =>
            \A k \in 1 .. Len(books[p]) : bookAvailable[books[p][k]] > 0
      BY DEF BooksAvailable
    <3>2. pc'[p] = "take" => BooksAvailable(books[p])
      BY DEF ControlTypeOK
    <3>3. i'[p] = 1 /\ \A q \in Processes \ {p} : pc'[q] = pc[q] /\ i'[q] = i[q]
      BY DEF ControlTypeOK, LocalTypeOK
    <3>4. QED
      BY <3>1, <3>2, <3>3 DEF Loans, TakeLoan
  <2>2. TakenLoan'
    BY DEF ControlTypeOK, LocalTypeOK, Loans, TakenLoan
  <2>3. PutBackLoan'
    BY DEF ControlTypeOK, LocalTypeOK, Loans, PutBackLoan
  <2>4. QED
    BY <2>1, <2>2, <2>3 DEF Loans
<1>8. Choice' /\ Found'
  BY DEF SharedTypeOK, ControlTypeOK, LocalTypeOK, Choice, Found, seatFree,
         booksInSeatAt
<1>9. SeatLists'
  BY SeatListsFrame DEF ControlTypeOK, LocalTypeOK
<1>10. SeatOwnership'
  BY DEF SharedTypeOK, ControlTypeOK, LocalTypeOK, SeatOwnership, OnSeat
<1>11. QED
  BY <1>1, <1>2, <1>3, <1>4, <1>5, <1>6, <1>7, <1>8, <1>9, <1>10 DEF Exclusion

LEMMA StepTakeBook ==
  ASSUME IInv, NEW p \in Students, TakeBook(p)
  PROVE  IInv'
<1> USE Constants DEF IInv, TypeOK, TakeBook
<1>1. SharedTypeOK'
  <2>0. Book(p) \in Books /\ bookAvailable[Book(p)] > 0
    <3>1. Book(p) \in Books /\ i[p] \in i[p] .. Len(books[p])
      BY BookInHand DEF InLoop
    <3>2. QED
      BY <3>1 DEF Loans, TakeLoan
  <2>1. (bookAvailable \in [Books -> Nat])'
    BY <2>0 DEF SharedTypeOK
  <2>2. (\A b \in Books : bookAvailable[b] <= Quantity[b])'
    <3>1. \A b \in Books : bookAvailable[b] \in Nat /\ bookAvailable[b] <= Quantity[b]
      BY DEF SharedTypeOK
    <3>2. \A b \in Books : bookAvailable'[b] = bookAvailable[b]
                           \/ bookAvailable'[b] = bookAvailable[b] - 1
      BY <2>0 DEF SharedTypeOK
    <3>3. QED
      BY <3>1, <3>2, Constants
  <2>3. (booksInTransit \in Int)'
    BY DEF SharedTypeOK, ControlTypeOK, LocalTypeOK
  <2>4. (seatOccupied \in [Seats -> BOOLEAN])'
    BY DEF SharedTypeOK, ControlTypeOK, LocalTypeOK
  <2>5. (booksInSeat \in [Seats -> Seq(Books)])'
    BY DEF SharedTypeOK, ControlTypeOK, LocalTypeOK
  <2>6. (numBooksInSeat \in [Seats -> Nat])'
    BY DEF SharedTypeOK, ControlTypeOK, LocalTypeOK
  <2>7. (semLib \in [{ACCESS_LIBRARY, SITSEM} -> {0, 1}])'
    BY DEF SharedTypeOK, ControlTypeOK, LocalTypeOK
  <2>8. QED
    BY <2>1, <2>2, <2>3, <2>4, <2>5, <2>6, <2>7 DEF SharedTypeOK
<1>2. ControlTypeOK'
  BY DEF ControlTypeOK, StudentLabels, LibrarianLabels
<1>3. LocalTypeOK'
  <2>1. (books \in [Processes -> Seq(Books)])'
    BY DEF SharedTypeOK, ControlTypeOK, LocalTypeOK
  <2>2. (i \in [Processes -> Nat])'
    BY DEF SharedTypeOK, ControlTypeOK, LocalTypeOK
  <2>3. (register \in [Processes -> Int])'
    BY DEF SharedTypeOK, ControlTypeOK, LocalTypeOK
  <2>4. (seen \in [Processes -> {<<>>} \union (Int \X [Books -> Nat])])'
    BY DEF SharedTypeOK, ControlTypeOK, LocalTypeOK
  <2>5. (pos \in [Processes -> 0..NumSeats])'
    BY DEF SharedTypeOK, ControlTypeOK, LocalTypeOK
  <2>6. (studies \in [Students -> 0..MaxStudies])'
    BY DEF SharedTypeOK, ControlTypeOK, LocalTypeOK
  <2>7. (disturbed \in BOOLEAN)'
    BY DEF SharedTypeOK, ControlTypeOK, LocalTypeOK
  <2>8. QED
    BY <2>1, <2>2, <2>3, <2>4, <2>5, <2>6, <2>7 DEF LocalTypeOK
<1>4. Exclusive(HoldsAccess, ACCESS_LIBRARY)'
  BY DEF SharedTypeOK, ControlTypeOK, Exclusion, Exclusive, HoldsAccess
<1>5. Exclusive(HoldsSit, SITSEM)'
  BY DEF SharedTypeOK, ControlTypeOK, Exclusion, Exclusive, HoldsSit
<1>6. Ranges'
  BY DEF ControlTypeOK, LocalTypeOK, Ranges, LoopRange, ListRange, SeatRange, WalkRange,
         InLoop, WithSeat, OnSeat, Walking
<1>7. Loans'
  <2>1. \A q \in Processes \ {p} : pc[q] \notin HoldsAccess
    BY DEF Exclusion, Exclusive, HoldsAccess
  <2>2. \A q \in Processes \ {p} : pc'[q] \notin HoldsAccess
    BY <2>1 DEF ControlTypeOK
  <2>3. pc'[p] = "takeStore"
    BY DEF ControlTypeOK
  <2>4. TakeLoan' /\ PutBackLoan'
    BY <2>2, <2>3 DEF TakeLoan, PutBackLoan, HoldsAccess
  <2>5. TakenLoan'
    <3>1. SUFFICES ASSUME NEW k \in i[p] + 1 .. Len(books[p])
                   PROVE  bookAvailable'[books[p][k]] > 0
      BY <2>2, <2>3 DEF TakenLoan, HoldsAccess
    <3>2. books[p] \in BookLists
      BY DEF Ranges, ListRange
    <3>3. i[p] \in 1 .. Len(books[p]) /\ Len(books[p]) \in Nat
      BY BookInHand DEF InLoop
    <3>4. books[p][k] # Book(p)
      BY <3>2, <3>3, Lists
    <3>5. books[p][k] \in Books
      BY <3>2, <3>3, Lists
    <3>6. bookAvailable[books[p][k]] > 0
      BY <3>3 DEF Loans, TakeLoan
    <3>7. QED
      BY <3>4, <3>5, <3>6 DEF SharedTypeOK
  <2>6. QED
    BY <2>4, <2>5 DEF Loans
<1>8. Choice' /\ Found'
  BY DEF SharedTypeOK, ControlTypeOK, LocalTypeOK, Choice, Found, seatFree,
         booksInSeatAt
<1>9. SeatLists'
  BY SeatListsFrame DEF ControlTypeOK, LocalTypeOK
<1>10. SeatOwnership'
  BY DEF SharedTypeOK, ControlTypeOK, LocalTypeOK, SeatOwnership, OnSeat
<1>11. QED
  BY <1>1, <1>2, <1>3, <1>4, <1>5, <1>6, <1>7, <1>8, <1>9, <1>10 DEF Exclusion

LEMMA StepTakeBookStore ==
  ASSUME IInv, NEW p \in Students, TakeBookStore(p)
  PROVE  IInv'
<1> USE Constants DEF IInv, TypeOK, TakeBookStore
<1>1. SharedTypeOK'
  <2>1. (bookAvailable \in [Books -> Nat])'
    BY DEF SharedTypeOK, ControlTypeOK, LocalTypeOK
  <2>2. (\A b \in Books : bookAvailable[b] <= Quantity[b])'
    BY DEF SharedTypeOK, ControlTypeOK, LocalTypeOK
  <2>3. (booksInTransit \in Int)'
    BY DEF SharedTypeOK, ControlTypeOK, LocalTypeOK
  <2>4. (seatOccupied \in [Seats -> BOOLEAN])'
    BY DEF SharedTypeOK, ControlTypeOK, LocalTypeOK
  <2>5. (booksInSeat \in [Seats -> Seq(Books)])'
    BY DEF SharedTypeOK, ControlTypeOK, LocalTypeOK
  <2>6. (numBooksInSeat \in [Seats -> Nat])'
    BY DEF SharedTypeOK, ControlTypeOK, LocalTypeOK
  <2>7. (semLib \in [{ACCESS_LIBRARY, SITSEM} -> {0, 1}])'
    BY DEF SharedTypeOK, ControlTypeOK, LocalTypeOK
  <2>8. QED
    BY <2>1, <2>2, <2>3, <2>4, <2>5, <2>6, <2>7 DEF SharedTypeOK
<1>2. ControlTypeOK'
  BY DEF ControlTypeOK, StudentLabels, LibrarianLabels
<1>3. LocalTypeOK'
  <2>1. i[p] + 1 \in Nat /\ register' \in [Processes -> Int]
    BY DEF LocalTypeOK
  <2>2. QED
    BY <2>1 DEF LocalTypeOK
<1>4. Exclusive(HoldsAccess, ACCESS_LIBRARY)'
  BY DEF SharedTypeOK, ControlTypeOK, Exclusion, Exclusive, HoldsAccess
<1>5. Exclusive(HoldsSit, SITSEM)'
  BY DEF SharedTypeOK, ControlTypeOK, Exclusion, Exclusive, HoldsSit
<1>6. Ranges'
  <2>1. LoopRange'
    <3>0. i[p] \in 1 .. Len(books[p]) /\ Len(books[p]) \in Nat
      BY BookInHand DEF InLoop
    <3>1. i[p] \in 1 .. Len(books[p]) /\ Len(books[p]) \in Nat /\ i'[p] = i[p] + 1
      BY <3>0 DEF LocalTypeOK
    <3>2. \A q \in Processes \ {p} : pc'[q] = pc[q] /\ i'[q] = i[q]
      BY DEF ControlTypeOK, LocalTypeOK
    <3>3. pc'[p] \in InLoop => i[p] # Len(books[p])
      BY DEF ControlTypeOK, InLoop
    <3>4. QED
      BY <3>1, <3>2, <3>3 DEF Ranges, LoopRange
  <2>2. ListRange'
    BY DEF ControlTypeOK, LocalTypeOK, Ranges, LoopRange, ListRange, SeatRange,
           WalkRange, InLoop, WithSeat, OnSeat, Walking
  <2>3. SeatRange'
    BY DEF ControlTypeOK, LocalTypeOK, Ranges, LoopRange, ListRange, SeatRange,
           WalkRange, InLoop, WithSeat, OnSeat, Walking
  <2>4. WalkRange'
    BY DEF ControlTypeOK, LocalTypeOK, Ranges, LoopRange, ListRange, SeatRange,
           WalkRange, InLoop, WithSeat, OnSeat, Walking
  <2>5. QED
    BY <2>1, <2>2, <2>3, <2>4 DEF Ranges
<1>7. Loans'
  BY DEF SharedTypeOK, ControlTypeOK, LocalTypeOK, Loans, TakeLoan, TakenLoan, PutBackLoan
<1>8. Choice' /\ Found'
  BY DEF SharedTypeOK, ControlTypeOK, LocalTypeOK, Choice, Found, seatFree,
         booksInSeatAt
<1>9. SeatLists'
  BY SeatListsFrame DEF ControlTypeOK, LocalTypeOK
<1>10. SeatOwnership'
  BY DEF SharedTypeOK, ControlTypeOK, LocalTypeOK, SeatOwnership, OnSeat
<1>11. QED
  BY <1>1, <1>2, <1>3, <1>4, <1>5, <1>6, <1>7, <1>8, <1>9, <1>10 DEF Exclusion

LEMMA StepRequisiteUp ==
  ASSUME IInv, NEW p \in Students, RequisiteUp(p)
  PROVE  IInv'
<1> USE Constants DEF IInv, TypeOK, RequisiteUp
<1>1. SharedTypeOK'
  <2>1. (bookAvailable \in [Books -> Nat])'
    BY DEF SharedTypeOK, ControlTypeOK, LocalTypeOK
  <2>2. (\A b \in Books : bookAvailable[b] <= Quantity[b])'
    BY DEF SharedTypeOK, ControlTypeOK, LocalTypeOK
  <2>3. (booksInTransit \in Int)'
    BY DEF SharedTypeOK, ControlTypeOK, LocalTypeOK
  <2>4. (seatOccupied \in [Seats -> BOOLEAN])'
    BY DEF SharedTypeOK, ControlTypeOK, LocalTypeOK
  <2>5. (booksInSeat \in [Seats -> Seq(Books)])'
    BY DEF SharedTypeOK, ControlTypeOK, LocalTypeOK
  <2>6. (numBooksInSeat \in [Seats -> Nat])'
    BY DEF SharedTypeOK, ControlTypeOK, LocalTypeOK
  <2>7. (semLib \in [{ACCESS_LIBRARY, SITSEM} -> {0, 1}])'
    <3>1. semLib[ACCESS_LIBRARY] # 1
      BY DEF Exclusion, Exclusive, HoldsAccess
    <3>2. QED
      BY <3>1 DEF SharedTypeOK
  <2>8. QED
    BY <2>1, <2>2, <2>3, <2>4, <2>5, <2>6, <2>7 DEF SharedTypeOK
<1>2. ControlTypeOK'
  BY DEF ControlTypeOK, StudentLabels, LibrarianLabels
<1>3. LocalTypeOK'
  BY DEF LocalTypeOK
<1>4. Exclusive(HoldsAccess, ACCESS_LIBRARY)'
  BY DEF SharedTypeOK, ControlTypeOK, Exclusion, Exclusive, HoldsAccess
<1>5. Exclusive(HoldsSit, SITSEM)'
  BY DEF SharedTypeOK, ControlTypeOK, Exclusion, Exclusive, HoldsSit
<1>6. Ranges'
  BY DEF ControlTypeOK, LocalTypeOK, Ranges, LoopRange, ListRange, SeatRange, WalkRange,
         InLoop, WithSeat, OnSeat, Walking
<1>7. Loans'
  BY DEF SharedTypeOK, ControlTypeOK, LocalTypeOK, Loans, TakeLoan, TakenLoan, PutBackLoan
<1>8. Choice' /\ Found'
  BY DEF SharedTypeOK, ControlTypeOK, LocalTypeOK, Choice, Found, seatFree,
         booksInSeatAt
<1>9. SeatLists'
  BY SeatListsFrame DEF ControlTypeOK, LocalTypeOK
<1>10. SeatOwnership'
  BY DEF SharedTypeOK, ControlTypeOK, LocalTypeOK, SeatOwnership, OnSeat
<1>11. QED
  BY <1>1, <1>2, <1>3, <1>4, <1>5, <1>6, <1>7, <1>8, <1>9, <1>10 DEF Exclusion

LEMMA StepSitDown ==
  ASSUME IInv, NEW p \in Students, SitDown(p)
  PROVE  IInv'
<1> USE Constants DEF IInv, TypeOK, SitDown
<1>1. SharedTypeOK'
  BY DEF SharedTypeOK
<1>2. ControlTypeOK'
  BY DEF ControlTypeOK, StudentLabels, LibrarianLabels
<1>3. LocalTypeOK'
  <2>1. (books \in [Processes -> Seq(Books)])'
    BY DEF SharedTypeOK, ControlTypeOK, LocalTypeOK
  <2>2. (i \in [Processes -> Nat])'
    BY DEF SharedTypeOK, ControlTypeOK, LocalTypeOK
  <2>3. (register \in [Processes -> Int])'
    BY DEF SharedTypeOK, ControlTypeOK, LocalTypeOK
  <2>4. (seen \in [Processes -> {<<>>} \union (Int \X [Books -> Nat])])'
    BY DEF SharedTypeOK, ControlTypeOK, LocalTypeOK
  <2>5. (pos \in [Processes -> 0..NumSeats])'
    <3>1. pos' = pos \/ \E seat \in 0..NumSeats : pos' = [pos EXCEPT ![p] = seat]
      OBVIOUS
    <3>2. QED
      BY <3>1 DEF LocalTypeOK
  <2>6. (studies \in [Students -> 0..MaxStudies])'
    BY DEF SharedTypeOK, ControlTypeOK, LocalTypeOK
  <2>7. (disturbed \in BOOLEAN)'
    BY DEF SharedTypeOK, ControlTypeOK, LocalTypeOK
  <2>8. QED
    BY <2>1, <2>2, <2>3, <2>4, <2>5, <2>6, <2>7 DEF LocalTypeOK
<1>0. /\ pc[p] = "sit"
      /\ pc'[p] \in {"noSeat", "occupy"}
      /\ \A q \in Processes \ {p} : pc'[q] = pc[q] /\ pos'[q] = pos[q]
  BY DEF ControlTypeOK, LocalTypeOK
<1>4. Exclusive(HoldsAccess, ACCESS_LIBRARY)'
  <2>1. semLib'[ACCESS_LIBRARY] = semLib[ACCESS_LIBRARY]
    BY DEF SharedTypeOK
  <2>2. QED
    BY <1>0, <2>1 DEF Exclusion, Exclusive, HoldsAccess
<1>5. Exclusive(HoldsSit, SITSEM)'
  BY DEF SharedTypeOK, ControlTypeOK, Exclusion, Exclusive, HoldsSit
<1>6. Ranges'
  BY DEF ControlTypeOK, LocalTypeOK, Ranges, LoopRange, ListRange, SeatRange, WalkRange,
         InLoop, WithSeat, OnSeat, Walking
<1>7. Loans'
  BY <1>0 DEF Loans, TakeLoan, TakenLoan, PutBackLoan
<1>8. Choice' /\ Found'
  BY DEF SharedTypeOK, ControlTypeOK, LocalTypeOK, Choice, Found, seatFree,
         booksInSeatAt
<1>9. SeatLists'
  BY <1>0, SeatListsFrame DEF LocalTypeOK
<1>10. SeatOwnership'
  <2>1. pc[p] \notin OnSeat \union {"aborted"} /\ pc'[p] \notin OnSeat
    BY <1>0 DEF OnSeat
  <2>2. QED
    BY <1>0, <2>1 DEF SeatOwnership
<1>11. QED
  BY <1>1, <1>2, <1>3, <1>4, <1>5, <1>6, <1>7, <1>8, <1>9, <1>10 DEF Exclusion

LEMMA StepOccupy ==
  ASSUME IInv, NEW p \in Students, Occupy(p)
  PROVE  IInv'
<1> USE Constants DEF IInv, TypeOK, Occupy
<1>1. SharedTypeOK'
  BY DEF SharedTypeOK, LocalTypeOK, ControlTypeOK
<1>2. ControlTypeOK'
  <2>1. (pc \in [Processes -> StudentLabels \union LibrarianLabels])'
    BY DEF ControlTypeOK, StudentLabels, LibrarianLabels, OnSeat
  <2>2. (\A q \in Students : pc[q] \in StudentLabels)'
    BY DEF ControlTypeOK, StudentLabels, LibrarianLabels, OnSeat
  <2>3. (pc[Librarian] \in LibrarianLabels)'
    BY DEF ControlTypeOK, StudentLabels, LibrarianLabels, OnSeat
  <2>4. QED
    BY <2>1, <2>2, <2>3 DEF ControlTypeOK
<1>3. LocalTypeOK'
  BY DEF LocalTypeOK
<1>4. Exclusive(HoldsAccess, ACCESS_LIBRARY)'
  BY DEF SharedTypeOK, ControlTypeOK, Exclusion, Exclusive, HoldsAccess
<1>5. Exclusive(HoldsSit, SITSEM)'
  BY DEF SharedTypeOK, ControlTypeOK, Exclusion, Exclusive, HoldsSit
<1>6. Ranges'
  <2>1. LoopRange'
    <3>1. Len(books[p]) \in Nat /\ Len(books[p]) >= 1
      BY Lists DEF Ranges, ListRange
    <3>2. QED
      BY <3>1 DEF ControlTypeOK, LocalTypeOK, Ranges, LoopRange, InLoop
  <2>2. ListRange' /\ WalkRange'
    BY DEF ControlTypeOK, LocalTypeOK, Ranges, ListRange, WalkRange, Walking
  <2>3. SeatRange'
    BY DEF ControlTypeOK, LocalTypeOK, Ranges, SeatRange, WithSeat, OnSeat
  <2>4. QED
    BY <2>1, <2>2, <2>3 DEF Ranges
<1>7. Loans'
  BY DEF SharedTypeOK, ControlTypeOK, LocalTypeOK, Loans, TakeLoan, TakenLoan, PutBackLoan
<1>0. /\ pos[p] \in Seats /\ seatFree(pos[p])
      /\ pc'[p] = "place" /\ i'[p] = 1
      /\ \A q \in Processes \ {p} : pc'[q] = pc[q] /\ i'[q] = i[q]
      /\ \A q \in Processes \ {p} : pc[q] \notin HoldsSit
  BY DEF ControlTypeOK, LocalTypeOK, Ranges, SeatRange, WithSeat, Choice, Exclusion,
         Exclusive,
         HoldsSit
<1>8. Choice' /\ Found'
  BY <1>0 DEF Choice, Found, HoldsSit, booksInSeatAt
<1>9. SeatLists'
  <2>1. Arrays'
    BY DEF SharedTypeOK, ControlTypeOK, LocalTypeOK, SeatLists, Arrays, Placing, Placed
  <2>2. Placing'
    BY <1>0 DEF SharedTypeOK, Placing, HoldsSit, seatFree, booksInSeatAt
  <2>3. Placed'
    BY DEF SharedTypeOK, ControlTypeOK, LocalTypeOK, SeatLists, Arrays, Placing, Placed
  <2>4. QED
    BY <2>1, <2>2, <2>3 DEF SeatLists
<1>10. SeatOwnership'
  <2>0. \A q \in Students : pc'[q] \in OnSeat => q = p \/ (pc[q] \in OnSeat /\ pos[q] # pos[p])
    BY <1>0 DEF SeatOwnership, seatFree
  <2>1. (\A q, r \in Students : pc[q] \in OnSeat /\ pc[r] \in OnSeat /\ pos[q] = pos[r] => q = r)'
    BY <2>0 DEF SeatOwnership
  <2>2. (\A q \in Students : pc[q] \in OnSeat => seatOccupied[pos[q]])'
    BY <1>0, <2>0 DEF SharedTypeOK, SeatOwnership
  <2>3. (\A seat \in Seats : seatOccupied[seat] => \E q \in Students : pc[q] \in OnSeat \union {"aborted"} /\ pos[q] = seat)'
    BY DEF SharedTypeOK, ControlTypeOK, LocalTypeOK, SeatOwnership, OnSeat
  <2>4. QED
    BY <2>1, <2>2, <2>3 DEF SeatOwnership
<1>11. QED
  BY <1>1, <1>2, <1>3, <1>4, <1>5, <1>6, <1>7, <1>8, <1>9, <1>10 DEF Exclusion

LEMMA StepPlaceBook ==
  ASSUME IInv, NEW p \in Students, PlaceBook(p)
  PROVE  IInv'
<1> USE Constants DEF IInv, TypeOK, PlaceBook
<1>0. /\ pos[p] \in Seats
      /\ Len(booksInSeat'[pos[p]]) = i[p]
      /\ \A k \in 1 .. i[p] : booksInSeat'[pos[p]][k] = books[p][k]
      /\ booksInSeat'[pos[p]] \in Seq(Books)
      /\ \A seat \in Seats \ {pos[p]} : booksInSeat'[seat] = booksInSeat[seat]
  <2> DEFINE arr == booksInSeat[pos[p]]
             head == SubSeq(arr, 1, i[p] - 1)
  <2>1. pos[p] \in Seats
    BY DEF Ranges, SeatRange, WithSeat, OnSeat
  <2>2. /\ arr \in Seq(Books)
        /\ Len(arr) >= i[p] - 1
        /\ \A k \in 1 .. i[p] - 1 : arr[k] = books[p][k]
    BY <2>1 DEF SharedTypeOK, SeatLists, Placing
  <2>3. i[p] \in 1 .. Len(books[p]) /\ Len(books[p]) \in Nat /\ Book(p) \in Books
    BY BookInHand DEF InLoop
  <2>4. /\ head \in Seq(Books)
        /\ Len(head) = i[p] - 1
        /\ \A k \in 1 .. i[p] - 1 : head[k] = arr[k]
    <3>1. arr \in Seq(Books) /\ i[p] - 1 \in 0 .. Len(arr)
      BY <2>2, <2>3
    <3> HIDE DEF arr
    <3>2. QED
      BY <3>1, Prefix
  <2>5. /\ booksInSeat'[pos[p]] = Append(head, Book(p))
        /\ \A seat \in Seats \ {pos[p]} : booksInSeat'[seat] = booksInSeat[seat]
    BY <2>1 DEF SharedTypeOK
  <2>6. /\ Append(head, Book(p)) \in Seq(Books)
        /\ Len(Append(head, Book(p))) = i[p]
        /\ \A k \in 1 .. i[p] - 1 : Append(head, Book(p))[k] = head[k]
        /\ Append(head, Book(p))[i[p]] = Book(p)
    <3> HIDE DEF head
    <3>1. QED
      BY <2>3, <2>4, AppendProperties
  <2>7. QED
    <3> HIDE DEF head, arr
    <3>1. \A k \in 1 .. i[p] : Append(head, Book(p))[k] = books[p][k]
      <4> SUFFICES ASSUME NEW k \in 1 .. i[p] PROVE Append(head, Book(p))[k] = books[p][k]
        OBVIOUS
      <4>1. CASE k = i[p]
        BY <4>1, <2>6
      <4>2. CASE k # i[p]
        <5>1. k \in 1 .. i[p] - 1
          BY <2>3, <4>2
        <5>2. QED
          BY <5>1, <2>2, <2>4, <2>6
      <4>3. QED
        BY <4>1, <4>2
    <3>2. QED
      BY <2>1, <2>5, <2>6, <3>1
<1>1. SharedTypeOK'
  <2>1. (bookAvailable \in [Books -> Nat])'
    BY DEF SharedTypeOK, ControlTypeOK, LocalTypeOK
  <2>2. (\A b \in Books : bookAvailable[b] <= Quantity[b])'
    BY DEF SharedTypeOK, ControlTypeOK, LocalTypeOK
  <2>3. (booksInTransit \in Int)'
    BY DEF SharedTypeOK, ControlTypeOK, LocalTypeOK
  <2>4. (seatOccupied \in [Seats -> BOOLEAN])'
    BY DEF SharedTypeOK, ControlTypeOK, LocalTypeOK
  <2>5. (booksInSeat \in [Seats -> Seq(Books)])'
    BY <1>0 DEF SharedTypeOK
  <2>6. (numBooksInSeat \in [Seats -> Nat])'
    BY DEF SharedTypeOK, ControlTypeOK, LocalTypeOK
  <2>7. (semLib \in [{ACCESS_LIBRARY, SITSEM} -> {0, 1}])'
    BY DEF SharedTypeOK, ControlTypeOK, LocalTypeOK
  <2>8. QED
    BY <2>1, <2>2, <2>3, <2>4, <2>5, <2>6, <2>7 DEF SharedTypeOK
<1>2. ControlTypeOK'
  <2>1. (pc \in [Processes -> StudentLabels \union LibrarianLabels])'
    BY DEF ControlTypeOK, StudentLabels, LibrarianLabels, OnSeat
  <2>2. (\A q \in Students : pc[q] \in StudentLabels)'
    BY DEF ControlTypeOK, StudentLabels, LibrarianLabels, OnSeat
  <2>3. (pc[Librarian] \in LibrarianLabels)'
    BY DEF ControlTypeOK, StudentLabels, LibrarianLabels, OnSeat
  <2>4. QED
    BY <2>1, <2>2, <2>3 DEF ControlTypeOK
<1>3. LocalTypeOK'
  <2>1. (books \in [Processes -> Seq(Books)])'
    BY DEF SharedTypeOK, ControlTypeOK, LocalTypeOK
  <2>2. (i \in [Processes -> Nat])'
    BY DEF SharedTypeOK, ControlTypeOK, LocalTypeOK
  <2>3. (register \in [Processes -> Int])'
    BY <1>0 DEF SharedTypeOK, LocalTypeOK
  <2>4. (seen \in [Processes -> {<<>>} \union (Int \X [Books -> Nat])])'
    BY DEF SharedTypeOK, ControlTypeOK, LocalTypeOK
  <2>5. (pos \in [Processes -> 0..NumSeats])'
    BY DEF SharedTypeOK, ControlTypeOK, LocalTypeOK
  <2>6. (studies \in [Students -> 0..MaxStudies])'
    BY DEF SharedTypeOK, ControlTypeOK, LocalTypeOK
  <2>7. (disturbed \in BOOLEAN)'
    BY DEF SharedTypeOK, ControlTypeOK, LocalTypeOK
  <2>8. QED
    BY <2>1, <2>2, <2>3, <2>4, <2>5, <2>6, <2>7 DEF LocalTypeOK
<1>4. Exclusive(HoldsAccess, ACCESS_LIBRARY)'
  BY DEF SharedTypeOK, ControlTypeOK, Exclusion, Exclusive, HoldsAccess
<1>5. Exclusive(HoldsSit, SITSEM)'
  BY DEF SharedTypeOK, ControlTypeOK, Exclusion, Exclusive, HoldsSit
<1>6. Ranges'
  BY DEF ControlTypeOK, LocalTypeOK, Ranges, LoopRange, ListRange, SeatRange, WalkRange,
         InLoop, WithSeat, OnSeat, Walking
<1>7. Loans'
  BY DEF SharedTypeOK, ControlTypeOK, LocalTypeOK, Loans, TakeLoan, TakenLoan, PutBackLoan
<1>8. Choice' /\ Found'
  BY DEF SharedTypeOK, ControlTypeOK, LocalTypeOK, Choice, Found, seatFree,
         booksInSeatAt
<1>9. SeatLists'
  <2>1. /\ \A q \in Processes \ {p} : pc'[q] = pc[q] /\ pc[q] \notin HoldsSit
        /\ pc'[p] = "placeStore"
        /\ register'[p] = numBooksInSeat[pos[p]]
    BY DEF ControlTypeOK, LocalTypeOK, Exclusion, Exclusive, HoldsSit
  <2>2. /\ i[p] \in 1 .. Len(books[p]) /\ Len(books[p]) \in Nat
        /\ numBooksInSeat[pos[p]] \in 0 .. i[p] - 1
    <3>1. i[p] \in 1 .. Len(books[p]) /\ Len(books[p]) \in Nat
      BY BookInHand DEF InLoop
    <3>2. numBooksInSeat[pos[p]] \in Nat /\ numBooksInSeat[pos[p]] < i[p]
      BY <1>0 DEF SharedTypeOK, SeatLists, Placing
    <3>3. QED
      BY <3>1, <3>2
  <2>3. Arrays'
    <3>1. IsInjective(booksInSeat'[pos[p]])
      <4>1. DOMAIN booksInSeat'[pos[p]] = 1 .. i[p]
        BY <1>0
      <4>2. \A j, k \in 1 .. Len(books[p]) : books[p][j] = books[p][k] => j = k
        BY Lists DEF Ranges, ListRange
      <4>3. SUFFICES ASSUME NEW j \in 1 .. i[p], NEW k \in 1 .. i[p],
                            booksInSeat'[pos[p]][j] = booksInSeat'[pos[p]][k]
                     PROVE  j = k
        BY <4>1 DEF IsInjective
      <4>4. j \in 1 .. Len(books[p]) /\ k \in 1 .. Len(books[p])
        BY <2>2
      <4>5. QED
        BY <1>0, <4>2, <4>3, <4>4
    <3>2. numBooksInSeat[pos[p]] <= Len(booksInSeat'[pos[p]])
      BY <1>0, <2>2
    <3>3. \A seat \in Seats \ {pos[p]} : /\ IsInjective(booksInSeat'[seat])
                                         /\ numBooksInSeat[seat] <= Len(booksInSeat'[seat])
      BY <1>0 DEF SeatLists, Arrays
    <3>4. QED
      BY <3>1, <3>2, <3>3 DEF Arrays
  <2>4. Placing'
    BY <2>1 DEF Placing, HoldsSit
  <2>5. Placed'
    <3>1. \A q \in Students : pc'[q] = "placeStore" => q = p
      BY <2>1 DEF HoldsSit
    <3>2. /\ register'[p] \in 0 .. i[p] - 1
          /\ Len(booksInSeat'[pos[p]]) = i[p]
          /\ \A k \in 1 .. i[p] : booksInSeat'[pos[p]][k] = books[p][k]
      BY <1>0, <2>1, <2>2
    <3>3. QED
      BY <3>1, <3>2 DEF Placed
  <2>6. QED
    BY <2>3, <2>4, <2>5 DEF SeatLists
<1>10. SeatOwnership'
  <2>1. (\A q, r \in Students : pc[q] \in OnSeat /\ pc[r] \in OnSeat /\ pos[q] = pos[r] => q = r)'
    <3>1. \A q \in Students : pc'[q] \in OnSeat => pc[q] \in OnSeat
      BY DEF ControlTypeOK, OnSeat
    <3>2. QED
      BY <3>1 DEF SeatOwnership
  <2>2. (\A q \in Students : pc[q] \in OnSeat => seatOccupied[pos[q]])'
    BY DEF SharedTypeOK, ControlTypeOK, LocalTypeOK, SeatOwnership, OnSeat
  <2>3. (\A seat \in Seats : seatOccupied[seat] => \E q \in Students : pc[q] \in OnSeat \union {"aborted"} /\ pos[q] = seat)'
    BY DEF SharedTypeOK, ControlTypeOK, LocalTypeOK, SeatOwnership, OnSeat
  <2>4. QED
    BY <2>1, <2>2, <2>3 DEF SeatOwnership
<1>11. QED
  BY <1>1, <1>2, <1>3, <1>4, <1>5, <1>6, <1>7, <1>8, <1>9, <1>10 DEF Exclusion

LEMMA StepPlaceBookStore ==
  ASSUME IInv, NEW p \in Students, PlaceBookStore(p)
  PROVE  IInv'
<1> USE Constants DEF IInv, TypeOK, PlaceBookStore
<1>0. /\ pos[p] \in Seats
      /\ i[p] \in Nat
      /\ register[p] \in 0 .. i[p] - 1
      /\ Len(booksInSeat[pos[p]]) = i[p]
      /\ \A k \in 1 .. i[p] : booksInSeat[pos[p]][k] = books[p][k]
      /\ \A q \in Processes \ {p} : pc'[q] = pc[q] /\ pc[q] \notin HoldsSit
  BY DEF Ranges, SeatRange, WithSeat, OnSeat, SeatLists, Placed, ControlTypeOK, LocalTypeOK,
         Exclusion, Exclusive, HoldsSit
<1>1. SharedTypeOK'
  <2>1. (bookAvailable \in [Books -> Nat])'
    BY DEF SharedTypeOK, ControlTypeOK, LocalTypeOK
  <2>2. (\A b \in Books : bookAvailable[b] <= Quantity[b])'
    BY DEF SharedTypeOK, ControlTypeOK, LocalTypeOK
  <2>3. (booksInTransit \in Int)'
    BY DEF SharedTypeOK, ControlTypeOK, LocalTypeOK
  <2>4. (seatOccupied \in [Seats -> BOOLEAN])'
    BY DEF SharedTypeOK, ControlTypeOK, LocalTypeOK
  <2>5. (booksInSeat \in [Seats -> Seq(Books)])'
    BY DEF SharedTypeOK, ControlTypeOK, LocalTypeOK
  <2>6. (numBooksInSeat \in [Seats -> Nat])'
    <3>1. register[p] + 1 \in Nat
      BY <1>0
    <3>2. QED
      BY <3>1 DEF SharedTypeOK
  <2>7. (semLib \in [{ACCESS_LIBRARY, SITSEM} -> {0, 1}])'
    BY DEF SharedTypeOK, ControlTypeOK, LocalTypeOK
  <2>8. QED
    BY <2>1, <2>2, <2>3, <2>4, <2>5, <2>6, <2>7 DEF SharedTypeOK
<1>2. ControlTypeOK'
  <2>1. (pc \in [Processes -> StudentLabels \union LibrarianLabels])'
    BY DEF ControlTypeOK, StudentLabels, LibrarianLabels, OnSeat
  <2>2. (\A q \in Students : pc[q] \in StudentLabels)'
    BY DEF ControlTypeOK, StudentLabels, LibrarianLabels, OnSeat
  <2>3. (pc[Librarian] \in LibrarianLabels)'
    BY DEF ControlTypeOK, StudentLabels, LibrarianLabels, OnSeat
  <2>4. QED
    BY <2>1, <2>2, <2>3 DEF ControlTypeOK
<1>3. LocalTypeOK'
  <2>1. i[p] + 1 \in Nat /\ register' \in [Processes -> Int]
    BY DEF LocalTypeOK
  <2>2. QED
    BY <2>1 DEF LocalTypeOK
<1>4. Exclusive(HoldsAccess, ACCESS_LIBRARY)'
  BY DEF SharedTypeOK, ControlTypeOK, Exclusion, Exclusive, HoldsAccess
<1>5. Exclusive(HoldsSit, SITSEM)'
  BY DEF SharedTypeOK, ControlTypeOK, Exclusion, Exclusive, HoldsSit
<1>6. Ranges'
  <2>1. LoopRange'
    <3>0. i[p] \in 1 .. Len(books[p]) /\ Len(books[p]) \in Nat
      BY BookInHand DEF InLoop
    <3>1. i[p] \in 1 .. Len(books[p]) /\ Len(books[p]) \in Nat /\ i'[p] = i[p] + 1
      BY <3>0 DEF LocalTypeOK
    <3>2. \A q \in Processes \ {p} : pc'[q] = pc[q] /\ i'[q] = i[q]
      BY DEF ControlTypeOK, LocalTypeOK
    <3>3. pc'[p] \in InLoop => i[p] # Len(books[p])
      BY DEF ControlTypeOK, InLoop
    <3>4. QED
      BY <3>1, <3>2, <3>3 DEF Ranges, LoopRange
  <2>2. ListRange' /\ SeatRange' /\ WalkRange'
    BY DEF ControlTypeOK, Ranges, ListRange, SeatRange, WalkRange, WithSeat, OnSeat, Walking
  <2>3. QED
    BY <2>1, <2>2 DEF Ranges
<1>7. Loans'
  BY DEF SharedTypeOK, ControlTypeOK, LocalTypeOK, Loans, TakeLoan, TakenLoan, PutBackLoan
<1>8. Choice' /\ Found'
  <2>1. pc'[p] # "occupy"
    BY DEF ControlTypeOK
  <2>2. Choice'
    BY <1>0, <2>1 DEF Choice, HoldsSit
  <2>3. \A seat \in Seats : numBooksInSeat[seat] > 0 => numBooksInSeat'[seat] > 0
    BY <1>0 DEF SharedTypeOK
  <2>4. pc'[Librarian] = "collect" => pos[Librarian] \in Seats /\ pc[Librarian] = "collect"
    BY DEF ControlTypeOK, Ranges, WalkRange, Walking
  <2>5. QED
    BY <2>2, <2>3, <2>4 DEF Found, booksInSeatAt
<1>9. SeatLists'
  <2>1. numBooksInSeat'[pos[p]] = register[p] + 1
    BY <1>0 DEF SharedTypeOK
  <2>2. Arrays'
    <3>1. \A seat \in Seats \ {pos[p]} : numBooksInSeat'[seat] = numBooksInSeat[seat]
      BY DEF SharedTypeOK
    <3>2. numBooksInSeat'[pos[p]] <= Len(booksInSeat[pos[p]])
      BY <1>0, <2>1
    <3>3. QED
      BY <3>1, <3>2 DEF SeatLists, Arrays
  <2>3. Placing'
    <3>1. \A q \in Students : pc'[q] = "place" => q = p
      BY <1>0 DEF HoldsSit
    <3>2. i'[p] = i[p] + 1
      BY DEF LocalTypeOK
    <3>3. numBooksInSeat'[pos[p]] < i'[p]
      BY <1>0, <2>1, <3>2
    <3>4. i'[p] - 1 = i[p]
      BY <1>0, <3>2
    <3>5. /\ Len(booksInSeat[pos[p]]) >= i'[p] - 1
          /\ \A k \in 1 .. i'[p] - 1 : booksInSeat[pos[p]][k] = books[p][k]
      BY <1>0, <3>4
    <3>6. QED
      BY <3>1, <3>3, <3>5 DEF Placing
  <2>4. Placed'
    <3>1. \A q \in Students : pc'[q] # "placeStore"
      BY <1>0 DEF ControlTypeOK, HoldsSit
    <3>2. QED
      BY <3>1 DEF Placed
  <2>5. QED
    BY <2>2, <2>3, <2>4 DEF SeatLists
<1>10. SeatOwnership'
  <2>1. (\A q, r \in Students : pc[q] \in OnSeat /\ pc[r] \in OnSeat /\ pos[q] = pos[r] => q = r)'
    <3>1. \A q \in Students : pc'[q] \in OnSeat => pc[q] \in OnSeat
      BY DEF ControlTypeOK, OnSeat
    <3>2. QED
      BY <3>1 DEF SeatOwnership
  <2>2. (\A q \in Students : pc[q] \in OnSeat => seatOccupied[pos[q]])'
    BY DEF SharedTypeOK, ControlTypeOK, LocalTypeOK, SeatOwnership, OnSeat
  <2>3. (\A seat \in Seats : seatOccupied[seat] => \E q \in Students : pc[q] \in OnSeat \union {"aborted"} /\ pos[q] = seat)'
    BY DEF SharedTypeOK, ControlTypeOK, LocalTypeOK, SeatOwnership, OnSeat
  <2>4. QED
    BY <2>1, <2>2, <2>3 DEF SeatOwnership
<1>11. QED
  BY <1>1, <1>2, <1>3, <1>4, <1>5, <1>6, <1>7, <1>8, <1>9, <1>10 DEF Exclusion

LEMMA StepLeaveTransit ==
  ASSUME IInv, NEW p \in Students, LeaveTransit(p)
  PROVE  IInv'
<1> USE Constants DEF IInv, TypeOK, LeaveTransit
<1>1. SharedTypeOK'
  BY DEF SharedTypeOK, LocalTypeOK, ControlTypeOK
<1>2. ControlTypeOK'
  <2>1. (pc \in [Processes -> StudentLabels \union LibrarianLabels])'
    BY DEF ControlTypeOK, StudentLabels, LibrarianLabels, OnSeat
  <2>2. (\A q \in Students : pc[q] \in StudentLabels)'
    BY DEF ControlTypeOK, StudentLabels, LibrarianLabels, OnSeat
  <2>3. (pc[Librarian] \in LibrarianLabels)'
    BY DEF ControlTypeOK, StudentLabels, LibrarianLabels, OnSeat
  <2>4. QED
    BY <2>1, <2>2, <2>3 DEF ControlTypeOK
<1>3. LocalTypeOK'
  <2>1. (books \in [Processes -> Seq(Books)])'
    BY DEF SharedTypeOK, ControlTypeOK, LocalTypeOK
  <2>2. (i \in [Processes -> Nat])'
    BY DEF SharedTypeOK, ControlTypeOK, LocalTypeOK
  <2>3. (register \in [Processes -> Int])'
    BY DEF SharedTypeOK, ControlTypeOK, LocalTypeOK
  <2>4. (seen \in [Processes -> {<<>>} \union (Int \X [Books -> Nat])])'
    BY DEF SharedTypeOK, ControlTypeOK, LocalTypeOK
  <2>5. (pos \in [Processes -> 0..NumSeats])'
    BY DEF SharedTypeOK, ControlTypeOK, LocalTypeOK
  <2>6. (studies \in [Students -> 0..MaxStudies])'
    BY DEF SharedTypeOK, ControlTypeOK, LocalTypeOK
  <2>7. (disturbed \in BOOLEAN)'
    BY DEF SharedTypeOK, ControlTypeOK, LocalTypeOK
  <2>8. QED
    BY <2>1, <2>2, <2>3, <2>4, <2>5, <2>6, <2>7 DEF LocalTypeOK
<1>4. Exclusive(HoldsAccess, ACCESS_LIBRARY)'
  BY DEF SharedTypeOK, ControlTypeOK, Exclusion, Exclusive, HoldsAccess
<1>5. Exclusive(HoldsSit, SITSEM)'
  BY DEF SharedTypeOK, ControlTypeOK, Exclusion, Exclusive, HoldsSit
<1>6. Ranges'
  BY DEF ControlTypeOK, LocalTypeOK, Ranges, LoopRange, ListRange, SeatRange, WalkRange,
         InLoop, WithSeat, OnSeat, Walking
<1>7. Loans'
  BY DEF SharedTypeOK, ControlTypeOK, LocalTypeOK, Loans, TakeLoan, TakenLoan, PutBackLoan
<1>8. Choice' /\ Found'
  BY DEF SharedTypeOK, ControlTypeOK, LocalTypeOK, Choice, Found, seatFree,
         booksInSeatAt
<1>9. SeatLists'
  BY SeatListsFrame DEF ControlTypeOK, LocalTypeOK
<1>10. SeatOwnership'
  <2>1. (\A q, r \in Students : pc[q] \in OnSeat /\ pc[r] \in OnSeat /\ pos[q] = pos[r] => q = r)'
    <3>1. \A q \in Students : pc'[q] \in OnSeat => pc[q] \in OnSeat
      BY DEF ControlTypeOK, OnSeat
    <3>2. QED
      BY <3>1 DEF SeatOwnership
  <2>2. (\A q \in Students : pc[q] \in OnSeat => seatOccupied[pos[q]])'
    BY DEF SharedTypeOK, ControlTypeOK, LocalTypeOK, SeatOwnership, OnSeat
  <2>3. (\A seat \in Seats : seatOccupied[seat] => \E q \in Students : pc[q] \in OnSeat \union {"aborted"} /\ pos[q] = seat)'
    BY DEF SharedTypeOK, ControlTypeOK, LocalTypeOK, SeatOwnership, OnSeat
  <2>4. QED
    BY <2>1, <2>2, <2>3 DEF SeatOwnership
<1>11. QED
  BY <1>1, <1>2, <1>3, <1>4, <1>5, <1>6, <1>7, <1>8, <1>9, <1>10 DEF Exclusion

LEMMA StepLeaveTransitStore ==
  ASSUME IInv, NEW p \in Students, LeaveTransitStore(p)
  PROVE  IInv'
<1> USE Constants DEF IInv, TypeOK, LeaveTransitStore
<1>1. SharedTypeOK'
  <2>1. (bookAvailable \in [Books -> Nat])'
    BY DEF SharedTypeOK, ControlTypeOK, LocalTypeOK
  <2>2. (\A b \in Books : bookAvailable[b] <= Quantity[b])'
    BY DEF SharedTypeOK, ControlTypeOK, LocalTypeOK
  <2>3. (booksInTransit \in Int)'
    BY DEF SharedTypeOK, ControlTypeOK, LocalTypeOK
  <2>4. (seatOccupied \in [Seats -> BOOLEAN])'
    BY DEF SharedTypeOK, ControlTypeOK, LocalTypeOK
  <2>5. (booksInSeat \in [Seats -> Seq(Books)])'
    BY DEF SharedTypeOK, ControlTypeOK, LocalTypeOK
  <2>6. (numBooksInSeat \in [Seats -> Nat])'
    BY DEF SharedTypeOK, ControlTypeOK, LocalTypeOK
  <2>7. (semLib \in [{ACCESS_LIBRARY, SITSEM} -> {0, 1}])'
    BY DEF SharedTypeOK, ControlTypeOK, LocalTypeOK
  <2>8. QED
    BY <2>1, <2>2, <2>3, <2>4, <2>5, <2>6, <2>7 DEF SharedTypeOK
<1>2. ControlTypeOK'
  <2>1. (pc \in [Processes -> StudentLabels \union LibrarianLabels])'
    BY DEF ControlTypeOK, StudentLabels, LibrarianLabels, OnSeat
  <2>2. (\A q \in Students : pc[q] \in StudentLabels)'
    BY DEF ControlTypeOK, StudentLabels, LibrarianLabels, OnSeat
  <2>3. (pc[Librarian] \in LibrarianLabels)'
    BY DEF ControlTypeOK, StudentLabels, LibrarianLabels, OnSeat
  <2>4. QED
    BY <2>1, <2>2, <2>3 DEF ControlTypeOK
<1>3. LocalTypeOK'
  <2>1. register' \in [Processes -> Int]
    BY DEF LocalTypeOK
  <2>2. QED
    BY <2>1 DEF LocalTypeOK
<1>4. Exclusive(HoldsAccess, ACCESS_LIBRARY)'
  BY DEF SharedTypeOK, ControlTypeOK, Exclusion, Exclusive, HoldsAccess
<1>5. Exclusive(HoldsSit, SITSEM)'
  BY DEF SharedTypeOK, ControlTypeOK, Exclusion, Exclusive, HoldsSit
<1>6. Ranges'
  BY DEF ControlTypeOK, LocalTypeOK, Ranges, LoopRange, ListRange, SeatRange, WalkRange,
         InLoop, WithSeat, OnSeat, Walking
<1>7. Loans'
  BY DEF SharedTypeOK, ControlTypeOK, LocalTypeOK, Loans, TakeLoan, TakenLoan, PutBackLoan
<1>8. Choice' /\ Found'
  BY DEF SharedTypeOK, ControlTypeOK, LocalTypeOK, Choice, Found, seatFree,
         booksInSeatAt
<1>9. SeatLists'
  BY SeatListsFrame DEF ControlTypeOK, LocalTypeOK
<1>10. SeatOwnership'
  <2>1. (\A q, r \in Students : pc[q] \in OnSeat /\ pc[r] \in OnSeat /\ pos[q] = pos[r] => q = r)'
    <3>1. \A q \in Students : pc'[q] \in OnSeat => pc[q] \in OnSeat
      BY DEF ControlTypeOK, OnSeat
    <3>2. QED
      BY <3>1 DEF SeatOwnership
  <2>2. (\A q \in Students : pc[q] \in OnSeat => seatOccupied[pos[q]])'
    BY DEF SharedTypeOK, ControlTypeOK, LocalTypeOK, SeatOwnership, OnSeat
  <2>3. (\A seat \in Seats : seatOccupied[seat] => \E q \in Students : pc[q] \in OnSeat \union {"aborted"} /\ pos[q] = seat)'
    BY DEF SharedTypeOK, ControlTypeOK, LocalTypeOK, SeatOwnership, OnSeat
  <2>4. QED
    BY <2>1, <2>2, <2>3 DEF SeatOwnership
<1>11. QED
  BY <1>1, <1>2, <1>3, <1>4, <1>5, <1>6, <1>7, <1>8, <1>9, <1>10 DEF Exclusion

LEMMA StepSitUp ==
  ASSUME IInv, NEW p \in Students, SitUp(p)
  PROVE  IInv'
<1> USE Constants DEF IInv, TypeOK, SitUp
<1>1. SharedTypeOK'
  <2>1. (bookAvailable \in [Books -> Nat])'
    BY DEF SharedTypeOK, ControlTypeOK, LocalTypeOK
  <2>2. (\A b \in Books : bookAvailable[b] <= Quantity[b])'
    BY DEF SharedTypeOK, ControlTypeOK, LocalTypeOK
  <2>3. (booksInTransit \in Int)'
    BY DEF SharedTypeOK, ControlTypeOK, LocalTypeOK
  <2>4. (seatOccupied \in [Seats -> BOOLEAN])'
    BY DEF SharedTypeOK, ControlTypeOK, LocalTypeOK
  <2>5. (booksInSeat \in [Seats -> Seq(Books)])'
    BY DEF SharedTypeOK, ControlTypeOK, LocalTypeOK
  <2>6. (numBooksInSeat \in [Seats -> Nat])'
    BY DEF SharedTypeOK, ControlTypeOK, LocalTypeOK
  <2>7. (semLib \in [{ACCESS_LIBRARY, SITSEM} -> {0, 1}])'
    <3>1. semLib[SITSEM] # 1
      BY DEF Exclusion, Exclusive, HoldsSit
    <3>2. QED
      BY <3>1 DEF SharedTypeOK
  <2>8. QED
    BY <2>1, <2>2, <2>3, <2>4, <2>5, <2>6, <2>7 DEF SharedTypeOK
<1>2. ControlTypeOK'
  <2>1. (pc \in [Processes -> StudentLabels \union LibrarianLabels])'
    BY DEF ControlTypeOK, StudentLabels, LibrarianLabels, OnSeat
  <2>2. (\A q \in Students : pc[q] \in StudentLabels)'
    BY DEF ControlTypeOK, StudentLabels, LibrarianLabels, OnSeat
  <2>3. (pc[Librarian] \in LibrarianLabels)'
    BY DEF ControlTypeOK, StudentLabels, LibrarianLabels, OnSeat
  <2>4. QED
    BY <2>1, <2>2, <2>3 DEF ControlTypeOK
<1>3. LocalTypeOK'
  BY DEF LocalTypeOK
<1>4. Exclusive(HoldsAccess, ACCESS_LIBRARY)'
  BY DEF SharedTypeOK, ControlTypeOK, Exclusion, Exclusive, HoldsAccess
<1>5. Exclusive(HoldsSit, SITSEM)'
  BY DEF SharedTypeOK, ControlTypeOK, Exclusion, Exclusive, HoldsSit
<1>6. Ranges'
  BY DEF ControlTypeOK, LocalTypeOK, Ranges, LoopRange, ListRange, SeatRange, WalkRange,
         InLoop, WithSeat, OnSeat, Walking
<1>7. Loans'
  BY DEF SharedTypeOK, ControlTypeOK, LocalTypeOK, Loans, TakeLoan, TakenLoan, PutBackLoan
<1>8. Choice' /\ Found'
  BY DEF SharedTypeOK, ControlTypeOK, LocalTypeOK, Choice, Found, seatFree,
         booksInSeatAt
<1>9. SeatLists'
  BY SeatListsFrame DEF ControlTypeOK, LocalTypeOK
<1>10. SeatOwnership'
  <2>1. (\A q, r \in Students : pc[q] \in OnSeat /\ pc[r] \in OnSeat /\ pos[q] = pos[r] => q = r)'
    <3>1. \A q \in Students : pc'[q] \in OnSeat => pc[q] \in OnSeat
      BY DEF ControlTypeOK, OnSeat
    <3>2. QED
      BY <3>1 DEF SeatOwnership
  <2>2. (\A q \in Students : pc[q] \in OnSeat => seatOccupied[pos[q]])'
    BY DEF SharedTypeOK, ControlTypeOK, LocalTypeOK, SeatOwnership, OnSeat
  <2>3. (\A seat \in Seats : seatOccupied[seat] => \E q \in Students : pc[q] \in OnSeat \union {"aborted"} /\ pos[q] = seat)'
    BY DEF SharedTypeOK, ControlTypeOK, LocalTypeOK, SeatOwnership, OnSeat
  <2>4. QED
    BY <2>1, <2>2, <2>3 DEF SeatOwnership
<1>11. QED
  BY <1>1, <1>2, <1>3, <1>4, <1>5, <1>6, <1>7, <1>8, <1>9, <1>10 DEF Exclusion

LEMMA StepFinishStudy ==
  ASSUME IInv, NEW p \in Students, FinishStudy(p)
  PROVE  IInv'
<1> USE Constants DEF IInv, TypeOK, FinishStudy
<1>1. SharedTypeOK'
  BY DEF SharedTypeOK, LocalTypeOK, ControlTypeOK
<1>2. ControlTypeOK'
  <2>1. (pc \in [Processes -> StudentLabels \union LibrarianLabels])'
    BY DEF ControlTypeOK, StudentLabels, LibrarianLabels, OnSeat
  <2>2. (\A q \in Students : pc[q] \in StudentLabels)'
    BY DEF ControlTypeOK, StudentLabels, LibrarianLabels, OnSeat
  <2>3. (pc[Librarian] \in LibrarianLabels)'
    BY DEF ControlTypeOK, StudentLabels, LibrarianLabels, OnSeat
  <2>4. QED
    BY <2>1, <2>2, <2>3 DEF ControlTypeOK
<1>3. LocalTypeOK'
  BY DEF LocalTypeOK
<1>4. Exclusive(HoldsAccess, ACCESS_LIBRARY)'
  BY DEF SharedTypeOK, ControlTypeOK, Exclusion, Exclusive, HoldsAccess
<1>5. Exclusive(HoldsSit, SITSEM)'
  BY DEF SharedTypeOK, ControlTypeOK, Exclusion, Exclusive, HoldsSit
<1>6. Ranges'
  BY DEF ControlTypeOK, LocalTypeOK, Ranges, LoopRange, ListRange, SeatRange, WalkRange,
         InLoop, WithSeat, OnSeat, Walking
<1>7. Loans'
  BY DEF SharedTypeOK, ControlTypeOK, LocalTypeOK, Loans, TakeLoan, TakenLoan, PutBackLoan
<1>8. Choice' /\ Found'
  BY DEF SharedTypeOK, ControlTypeOK, LocalTypeOK, Choice, Found, seatFree,
         booksInSeatAt
<1>9. SeatLists'
  BY SeatListsFrame DEF ControlTypeOK, LocalTypeOK
<1>10. SeatOwnership'
  <2>1. (\A q, r \in Students : pc[q] \in OnSeat /\ pc[r] \in OnSeat /\ pos[q] = pos[r] => q = r)'
    <3>1. \A q \in Students : pc'[q] \in OnSeat => pc[q] \in OnSeat
      BY DEF ControlTypeOK, OnSeat
    <3>2. QED
      BY <3>1 DEF SeatOwnership
  <2>2. (\A q \in Students : pc[q] \in OnSeat => seatOccupied[pos[q]])'
    BY DEF SharedTypeOK, ControlTypeOK, LocalTypeOK, SeatOwnership, OnSeat
  <2>3. (\A seat \in Seats : seatOccupied[seat] => \E q \in Students : pc[q] \in OnSeat \union {"aborted"} /\ pos[q] = seat)'
    BY DEF SharedTypeOK, ControlTypeOK, LocalTypeOK, SeatOwnership, OnSeat
  <2>4. QED
    BY <2>1, <2>2, <2>3 DEF SeatOwnership
<1>11. QED
  BY <1>1, <1>2, <1>3, <1>4, <1>5, <1>6, <1>7, <1>8, <1>9, <1>10 DEF Exclusion

LEMMA StepRise ==
  ASSUME IInv, NEW p \in Students, Rise(p)
  PROVE  IInv'
<1> USE Constants DEF IInv, TypeOK, Rise
<1>1. SharedTypeOK'
  <2>1. (bookAvailable \in [Books -> Nat])'
    BY DEF SharedTypeOK, ControlTypeOK, LocalTypeOK
  <2>2. (\A b \in Books : bookAvailable[b] <= Quantity[b])'
    BY DEF SharedTypeOK, ControlTypeOK, LocalTypeOK
  <2>3. (booksInTransit \in Int)'
    BY DEF SharedTypeOK, ControlTypeOK, LocalTypeOK
  <2>4. (seatOccupied \in [Seats -> BOOLEAN])'
    BY DEF SharedTypeOK, ControlTypeOK, LocalTypeOK
  <2>5. (booksInSeat \in [Seats -> Seq(Books)])'
    BY DEF SharedTypeOK, ControlTypeOK, LocalTypeOK
  <2>6. (numBooksInSeat \in [Seats -> Nat])'
    BY DEF SharedTypeOK, ControlTypeOK, LocalTypeOK
  <2>7. (semLib \in [{ACCESS_LIBRARY, SITSEM} -> {0, 1}])'
    BY DEF SharedTypeOK, ControlTypeOK, LocalTypeOK
  <2>8. QED
    BY <2>1, <2>2, <2>3, <2>4, <2>5, <2>6, <2>7 DEF SharedTypeOK
<1>2. ControlTypeOK'
  BY DEF ControlTypeOK, StudentLabels, LibrarianLabels
<1>3. LocalTypeOK'
  BY DEF LocalTypeOK
<1>4. Exclusive(HoldsAccess, ACCESS_LIBRARY)'
  BY DEF SharedTypeOK, ControlTypeOK, Exclusion, Exclusive, HoldsAccess
<1>5. Exclusive(HoldsSit, SITSEM)'
  BY DEF SharedTypeOK, ControlTypeOK, Exclusion, Exclusive, HoldsSit
<1>6. Ranges'
  BY DEF ControlTypeOK, LocalTypeOK, Ranges, LoopRange, ListRange, SeatRange, WalkRange,
         InLoop, WithSeat, OnSeat, Walking
<1>7. Loans'
  BY DEF SharedTypeOK, ControlTypeOK, LocalTypeOK, Loans, TakeLoan, TakenLoan, PutBackLoan
<1>8. Choice' /\ Found'
  <2>1. \A q \in Students : pc'[q] # "occupy"
    BY DEF ControlTypeOK, Exclusion, Exclusive, HoldsSit, SharedTypeOK
  <2>2. pc'[Librarian] = pc[Librarian]
    BY DEF ControlTypeOK
  <2>3. QED
    BY <2>1, <2>2 DEF Choice, Found, booksInSeatAt
<1>9. SeatLists'
  BY SeatListsFrame DEF ControlTypeOK, LocalTypeOK
<1>10. SeatOwnership'
  <2>1. (\A q, r \in Students : pc[q] \in OnSeat /\ pc[r] \in OnSeat /\ pos[q] = pos[r] => q = r)'
    BY DEF SharedTypeOK, ControlTypeOK, LocalTypeOK, SeatOwnership, OnSeat
  <2>2. (\A q \in Students : pc[q] \in OnSeat => seatOccupied[pos[q]])'
    BY DEF SharedTypeOK, ControlTypeOK, LocalTypeOK, SeatOwnership, OnSeat
  <2>3. (\A seat \in Seats : seatOccupied[seat] => \E q \in Students : pc[q] \in OnSeat \union {"aborted"} /\ pos[q] = seat)'
    BY DEF SharedTypeOK, ControlTypeOK, LocalTypeOK, SeatOwnership, OnSeat
  <2>4. QED
    BY <2>1, <2>2, <2>3 DEF SeatOwnership
<1>11. QED
  BY <1>1, <1>2, <1>3, <1>4, <1>5, <1>6, <1>7, <1>8, <1>9, <1>10 DEF Exclusion

LEMMA StepRiseUp ==
  ASSUME IInv, NEW p \in Students, RiseUp(p)
  PROVE  IInv'
<1> USE Constants DEF IInv, TypeOK, RiseUp
<1>1. SharedTypeOK'
  <2>1. (bookAvailable \in [Books -> Nat])'
    BY DEF SharedTypeOK, ControlTypeOK, LocalTypeOK
  <2>2. (\A b \in Books : bookAvailable[b] <= Quantity[b])'
    BY DEF SharedTypeOK, ControlTypeOK, LocalTypeOK
  <2>3. (booksInTransit \in Int)'
    BY DEF SharedTypeOK, ControlTypeOK, LocalTypeOK
  <2>4. (seatOccupied \in [Seats -> BOOLEAN])'
    BY DEF SharedTypeOK, ControlTypeOK, LocalTypeOK
  <2>5. (booksInSeat \in [Seats -> Seq(Books)])'
    BY DEF SharedTypeOK, ControlTypeOK, LocalTypeOK
  <2>6. (numBooksInSeat \in [Seats -> Nat])'
    BY DEF SharedTypeOK, ControlTypeOK, LocalTypeOK
  <2>7. (semLib \in [{ACCESS_LIBRARY, SITSEM} -> {0, 1}])'
    <3>1. semLib[SITSEM] # 1
      BY DEF Exclusion, Exclusive, HoldsSit
    <3>2. QED
      BY <3>1 DEF SharedTypeOK
  <2>8. QED
    BY <2>1, <2>2, <2>3, <2>4, <2>5, <2>6, <2>7 DEF SharedTypeOK
<1>2. ControlTypeOK'
  BY DEF ControlTypeOK, StudentLabels, LibrarianLabels
<1>3. LocalTypeOK'
  BY DEF LocalTypeOK
<1>4. Exclusive(HoldsAccess, ACCESS_LIBRARY)'
  BY DEF SharedTypeOK, ControlTypeOK, Exclusion, Exclusive, HoldsAccess
<1>5. Exclusive(HoldsSit, SITSEM)'
  BY DEF SharedTypeOK, ControlTypeOK, Exclusion, Exclusive, HoldsSit
<1>6. Ranges'
  BY DEF ControlTypeOK, LocalTypeOK, Ranges, LoopRange, ListRange, SeatRange, WalkRange,
         InLoop, WithSeat, OnSeat, Walking
<1>7. Loans'
  BY DEF SharedTypeOK, ControlTypeOK, LocalTypeOK, Loans, TakeLoan, TakenLoan, PutBackLoan
<1>8. Choice' /\ Found'
  BY DEF SharedTypeOK, ControlTypeOK, LocalTypeOK, Choice, Found, seatFree,
         booksInSeatAt
<1>9. SeatLists'
  BY SeatListsFrame DEF ControlTypeOK, LocalTypeOK
<1>10. SeatOwnership'
  BY DEF SharedTypeOK, ControlTypeOK, LocalTypeOK, SeatOwnership, OnSeat
<1>11. QED
  BY <1>1, <1>2, <1>3, <1>4, <1>5, <1>6, <1>7, <1>8, <1>9, <1>10 DEF Exclusion

LEMMA StepCollectDown ==
  ASSUME IInv, CollectDown
  PROVE  IInv'
<1> USE Constants DEF IInv, TypeOK, CollectDown
<1>1. SharedTypeOK'
  BY DEF SharedTypeOK, LocalTypeOK, ControlTypeOK, seatNum
<1>2. ControlTypeOK'
  BY DEF ControlTypeOK, StudentLabels, LibrarianLabels, seatNum
<1>3. LocalTypeOK'
  <2>1. 1 \in 0..NumSeats
    BY LibraryAssumption
  <2>2. QED
    BY <2>1 DEF LocalTypeOK
<1>4. Exclusive(HoldsAccess, ACCESS_LIBRARY)'
  BY DEF SharedTypeOK, ControlTypeOK, Exclusion, Exclusive, HoldsAccess, seatNum
<1>5. Exclusive(HoldsSit, SITSEM)'
  BY DEF SharedTypeOK, ControlTypeOK, Exclusion, Exclusive, HoldsSit, seatNum
<1>6. Ranges'
  <2>1. LoopRange' /\ ListRange'
    BY DEF ControlTypeOK, LocalTypeOK, Ranges, LoopRange, ListRange, InLoop
  <2>2. SeatRange'
    BY DEF ControlTypeOK, LocalTypeOK, Ranges, SeatRange
  <2>3. WalkRange'
    BY LibraryAssumption DEF LocalTypeOK, WalkRange
  <2>4. QED
    BY <2>1, <2>2, <2>3 DEF Ranges
<1>7. Loans'
  BY DEF SharedTypeOK, ControlTypeOK, LocalTypeOK, Loans, TakeLoan, TakenLoan,
         PutBackLoan, seatNum
<1>8. Choice' /\ Found'
  BY DEF SharedTypeOK, ControlTypeOK, LocalTypeOK, Choice, Found, seatFree,
         booksInSeatAt, seatNum
<1>9. SeatLists'
  BY SeatListsFrame DEF ControlTypeOK, LocalTypeOK
<1>10. SeatOwnership'
  BY DEF SharedTypeOK, ControlTypeOK, LocalTypeOK, SeatOwnership, OnSeat, seatNum
<1>11. QED
  BY <1>1, <1>2, <1>3, <1>4, <1>5, <1>6, <1>7, <1>8, <1>9, <1>10 DEF Exclusion

LEMMA StepLookAtSeat ==
  ASSUME IInv, LookAtSeat
  PROVE  IInv'
<1> USE Constants DEF IInv, TypeOK, LookAtSeat
<1>1. SharedTypeOK'
  BY DEF SharedTypeOK, LocalTypeOK, ControlTypeOK, seatNum
<1>2. ControlTypeOK'
  BY DEF ControlTypeOK, StudentLabels, LibrarianLabels, seatNum
<1>3. LocalTypeOK'
  BY DEF LocalTypeOK, seatNum
<1>4. Exclusive(HoldsAccess, ACCESS_LIBRARY)'
  BY DEF SharedTypeOK, ControlTypeOK, Exclusion, Exclusive, HoldsAccess, seatNum
<1>5. Exclusive(HoldsSit, SITSEM)'
  BY DEF SharedTypeOK, ControlTypeOK, Exclusion, Exclusive, HoldsSit, seatNum
<1>6. Ranges'
  BY DEF ControlTypeOK, LocalTypeOK, Ranges, LoopRange, ListRange, SeatRange, WalkRange,
         InLoop, WithSeat, OnSeat, Walking, seatNum
<1>7. Loans'
  BY DEF SharedTypeOK, ControlTypeOK, LocalTypeOK, Loans, TakeLoan, TakenLoan,
         PutBackLoan, seatNum
<1>8. Choice' /\ Found'
  BY DEF SharedTypeOK, ControlTypeOK, LocalTypeOK, Choice, Found, seatFree,
         booksInSeatAt, seatNum
<1>9. SeatLists'
  BY SeatListsFrame DEF ControlTypeOK, LocalTypeOK
<1>10. SeatOwnership'
  BY DEF SharedTypeOK, ControlTypeOK, LocalTypeOK, SeatOwnership, OnSeat, seatNum
<1>11. QED
  BY <1>1, <1>2, <1>3, <1>4, <1>5, <1>6, <1>7, <1>8, <1>9, <1>10 DEF Exclusion

LEMMA StepLookAtBooks ==
  ASSUME IInv, LookAtBooks
  PROVE  IInv'
<1> USE Constants DEF IInv, TypeOK, LookAtBooks
<1>1. SharedTypeOK'
  BY DEF SharedTypeOK, LocalTypeOK, ControlTypeOK, seatNum
<1>2. ControlTypeOK'
  BY DEF ControlTypeOK, StudentLabels, LibrarianLabels, seatNum
<1>3. LocalTypeOK'
  BY DEF LocalTypeOK, seatNum
<1>4. Exclusive(HoldsAccess, ACCESS_LIBRARY)'
  BY DEF SharedTypeOK, ControlTypeOK, Exclusion, Exclusive, HoldsAccess, seatNum
<1>5. Exclusive(HoldsSit, SITSEM)'
  BY DEF SharedTypeOK, ControlTypeOK, Exclusion, Exclusive, HoldsSit, seatNum
<1>6. Ranges'
  BY DEF ControlTypeOK, LocalTypeOK, Ranges, LoopRange, ListRange, SeatRange, WalkRange,
         InLoop, WithSeat, OnSeat, Walking, seatNum
<1>7. Loans'
  BY DEF SharedTypeOK, ControlTypeOK, LocalTypeOK, Loans, TakeLoan, TakenLoan,
         PutBackLoan, seatNum
<1>8. Choice' /\ Found'
  BY DEF SharedTypeOK, ControlTypeOK, LocalTypeOK, Choice, Found, seatFree,
         booksInSeatAt, seatNum
<1>9. SeatLists'
  BY SeatListsFrame DEF ControlTypeOK, LocalTypeOK
<1>10. SeatOwnership'
  BY DEF SharedTypeOK, ControlTypeOK, LocalTypeOK, SeatOwnership, OnSeat, seatNum
<1>11. QED
  BY <1>1, <1>2, <1>3, <1>4, <1>5, <1>6, <1>7, <1>8, <1>9, <1>10 DEF Exclusion

LEMMA StepCollectFrom ==
  ASSUME IInv, CollectFrom
  PROVE  IInv'
<1> USE Constants DEF IInv, TypeOK, CollectFrom
<1>0. /\ seatNum \in Seats
      /\ books'[Librarian] \in Seq(Books)
      /\ Len(books'[Librarian]) = numBooksInSeat[seatNum]
      /\ numBooksInSeat[seatNum] \in Nat \ {0}
      /\ IsInjective(books'[Librarian])
      /\ \A q \in Students : books'[q] = books[q]
  <2> DEFINE arr == booksInSeat[seatNum]
             found == SubSeq(arr, 1, numBooksInSeat[seatNum])
  <2>1. seatNum \in Seats /\ numBooksInSeat[seatNum] \in Nat /\ numBooksInSeat[seatNum] > 0
    BY DEF SharedTypeOK, Ranges, WalkRange, Walking, Found, booksInSeatAt, seatNum
  <2>2. arr \in Seq(Books) /\ IsInjective(arr) /\ numBooksInSeat[seatNum] <= Len(arr)
    BY <2>1 DEF SharedTypeOK, SeatLists, Arrays
  <2>3. /\ found \in Seq(Books)
        /\ Len(found) = numBooksInSeat[seatNum]
        /\ \A k \in 1 .. numBooksInSeat[seatNum] : found[k] = arr[k]
    <3>1. arr \in Seq(Books) /\ numBooksInSeat[seatNum] \in 0 .. Len(arr)
      BY <2>1, <2>2
    <3> HIDE DEF arr
    <3>2. QED
      BY <3>1, Prefix
  <2>4. IsInjective(found)
    <3> HIDE DEF found, arr
    <3>1. DOMAIN found = 1 .. numBooksInSeat[seatNum] /\ DOMAIN arr = 1 .. Len(arr)
      BY <2>2, <2>3
    <3>2. QED
      BY <2>1, <2>2, <2>3, <3>1 DEF IsInjective
  <2>5. books' = [books EXCEPT ![Librarian] = found]
    OBVIOUS
  <2>6. QED
    <3> HIDE DEF found
    <3>1. books'[Librarian] = found /\ \A q \in Students : books'[q] = books[q]
      BY <2>5, Constants DEF LocalTypeOK
    <3>2. /\ books'[Librarian] \in Seq(Books) /\ IsInjective(books'[Librarian])
          /\ Len(books'[Librarian]) = numBooksInSeat[seatNum]
      BY <2>3, <2>4, <3>1
    <3>3. QED
      BY <2>1, <3>1, <3>2
<1>1. SharedTypeOK'
  BY DEF SharedTypeOK, LocalTypeOK, ControlTypeOK, seatNum
<1>2. ControlTypeOK'
  BY DEF ControlTypeOK, StudentLabels, LibrarianLabels, seatNum
<1>3. LocalTypeOK'
  <2>1. (books \in [Processes -> Seq(Books)])'
    BY <1>0 DEF LocalTypeOK
  <2>2. (i \in [Processes -> Nat])'
    BY DEF SharedTypeOK, ControlTypeOK, LocalTypeOK, seatNum
  <2>3. (register \in [Processes -> Int])'
    BY DEF SharedTypeOK, ControlTypeOK, LocalTypeOK, seatNum
  <2>4. (seen \in [Processes -> {<<>>} \union (Int \X [Books -> Nat])])'
    BY DEF SharedTypeOK, ControlTypeOK, LocalTypeOK, seatNum
  <2>5. (pos \in [Processes -> 0..NumSeats])'
    BY DEF SharedTypeOK, ControlTypeOK, LocalTypeOK, seatNum
  <2>6. (studies \in [Students -> 0..MaxStudies])'
    BY DEF SharedTypeOK, ControlTypeOK, LocalTypeOK, seatNum
  <2>7. (disturbed \in BOOLEAN)'
    BY DEF SharedTypeOK, ControlTypeOK, LocalTypeOK, seatNum
  <2>8. QED
    BY <2>1, <2>2, <2>3, <2>4, <2>5, <2>6, <2>7 DEF LocalTypeOK
<1>4. Exclusive(HoldsAccess, ACCESS_LIBRARY)'
  BY DEF SharedTypeOK, ControlTypeOK, Exclusion, Exclusive, HoldsAccess, seatNum
<1>5. Exclusive(HoldsSit, SITSEM)'
  BY DEF SharedTypeOK, ControlTypeOK, Exclusion, Exclusive, HoldsSit, seatNum
<1>6. Ranges'
  <2>1. LoopRange'
    BY <1>0 DEF ControlTypeOK, LocalTypeOK, Ranges, LoopRange, InLoop
  <2>2. ListRange'
    BY DEF ControlTypeOK, LocalTypeOK, Ranges, LoopRange, ListRange, SeatRange,
           WalkRange, InLoop, WithSeat, OnSeat, Walking, seatNum
  <2>3. SeatRange'
    BY DEF ControlTypeOK, LocalTypeOK, Ranges, LoopRange, ListRange, SeatRange,
           WalkRange, InLoop, WithSeat, OnSeat, Walking, seatNum
  <2>4. WalkRange'
    BY DEF ControlTypeOK, LocalTypeOK, Ranges, LoopRange, ListRange, SeatRange,
           WalkRange, InLoop, WithSeat, OnSeat, Walking, seatNum
  <2>5. QED
    BY <2>1, <2>2, <2>3, <2>4 DEF Ranges
<1>7. Loans'
  <2>1. TakeLoan'
    BY SMTT(30) DEF SharedTypeOK, ControlTypeOK, LocalTypeOK, Loans, TakeLoan, TakenLoan,
           PutBackLoan, seatNum
  <2>2. TakenLoan'
    BY SMTT(30) DEF SharedTypeOK, ControlTypeOK, LocalTypeOK, Loans, TakeLoan, TakenLoan,
           PutBackLoan, seatNum
  <2>3. PutBackLoan'
    <3>1. pc'[Librarian] = "putBack" => Missing(books'[Librarian])
      BY DEF ControlTypeOK, LocalTypeOK
    <3>2. i'[Librarian] = 1
      BY DEF LocalTypeOK
    <3>3. QED
      BY <1>0, <3>1, <3>2 DEF PutBackLoan, Missing
  <2>4. QED
    BY <2>1, <2>2, <2>3 DEF Loans
<1>8. Choice' /\ Found'
  BY DEF SharedTypeOK, ControlTypeOK, LocalTypeOK, Choice, Found, seatFree,
         booksInSeatAt, seatNum
<1>9. SeatLists'
  BY SeatListsFrame DEF ControlTypeOK, LocalTypeOK
<1>10. SeatOwnership'
  <2>1. \A p \in Students : pc'[p] = pc[p]
    BY DEF ControlTypeOK
  <2>2. pos' = pos /\ seatOccupied' = seatOccupied
    OBVIOUS
  <2>3. QED
    BY <2>1, <2>2 DEF SeatOwnership
<1>11. QED
  BY <1>1, <1>2, <1>3, <1>4, <1>5, <1>6, <1>7, <1>8, <1>9, <1>10 DEF Exclusion

LEMMA StepPutBack ==
  ASSUME IInv, PutBack
  PROVE  IInv'
<1> USE Constants DEF IInv, TypeOK, PutBack
<1>0. /\ Book(Librarian) \in Books
      /\ i[Librarian] \in 1 .. Len(books[Librarian]) /\ books[Librarian] \in Seq(Books)
      /\ bookAvailable[Book(Librarian)] < Quantity[Book(Librarian)]
      /\ \A q \in Students : pc'[q] = pc[q] /\ pc[q] \notin HoldsAccess
  <2>1. /\ Book(Librarian) \in Books
        /\ i[Librarian] \in 1 .. Len(books[Librarian]) /\ books[Librarian] \in Seq(Books)
    BY BookInHand DEF InLoop
  <2>2. i[Librarian] \in i[Librarian] .. Len(books[Librarian])
    BY <2>1
  <2>3. bookAvailable[Book(Librarian)] < Quantity[Book(Librarian)]
    BY <2>2 DEF Loans, PutBackLoan
  <2>4. \A q \in Students : pc'[q] = pc[q] /\ pc[q] \notin HoldsAccess
    BY DEF ControlTypeOK, Exclusion, Exclusive, HoldsAccess
  <2>5. QED
    BY <2>1, <2>3, <2>4
<1>1. SharedTypeOK'
  <2>1. (bookAvailable \in [Books -> Nat])'
    <3>0. bookAvailable \in [Books -> Nat]
      BY DEF SharedTypeOK
    <3>1. bookAvailable[Book(Librarian)] + 1 \in Nat
      <4> HIDE DEF Book, PutBack
      <4>1. QED
        BY <1>0, <3>0
    <3>2. QED
      BY <3>0, <3>1
  <2>2. (\A b \in Books : bookAvailable[b] <= Quantity[b])'
    <3>1. \A b \in Books : bookAvailable[b] \in Nat /\ bookAvailable[b] <= Quantity[b]
      BY DEF SharedTypeOK
    <3>2. \A b \in Books \ {Book(Librarian)} : bookAvailable'[b] = bookAvailable[b]
      BY DEF SharedTypeOK
    <3>3. bookAvailable'[Book(Librarian)] = bookAvailable[Book(Librarian)] + 1
      BY <1>0 DEF SharedTypeOK
    <3>4. QED
      BY <1>0, <3>1, <3>2, <3>3, Constants
  <2>3. (booksInTransit \in Int)'
    BY DEF SharedTypeOK, ControlTypeOK, LocalTypeOK, seatNum
  <2>4. (seatOccupied \in [Seats -> BOOLEAN])'
    BY DEF SharedTypeOK, ControlTypeOK, LocalTypeOK, seatNum
  <2>5. (booksInSeat \in [Seats -> Seq(Books)])'
    BY DEF SharedTypeOK, ControlTypeOK, LocalTypeOK, seatNum
  <2>6. (numBooksInSeat \in [Seats -> Nat])'
    BY DEF SharedTypeOK, ControlTypeOK, LocalTypeOK, seatNum
  <2>7. (semLib \in [{ACCESS_LIBRARY, SITSEM} -> {0, 1}])'
    BY DEF SharedTypeOK, ControlTypeOK, LocalTypeOK, seatNum
  <2>8. QED
    BY <2>1, <2>2, <2>3, <2>4, <2>5, <2>6, <2>7 DEF SharedTypeOK
<1>2. ControlTypeOK'
  BY DEF ControlTypeOK, StudentLabels, LibrarianLabels, seatNum
<1>3. LocalTypeOK'
  <2>1. i[Librarian] + 1 \in Nat
    BY DEF LocalTypeOK
  <2>2. QED
    BY <2>1 DEF LocalTypeOK
<1>4. Exclusive(HoldsAccess, ACCESS_LIBRARY)'
  BY DEF SharedTypeOK, ControlTypeOK, Exclusion, Exclusive, HoldsAccess, seatNum
<1>5. Exclusive(HoldsSit, SITSEM)'
  BY DEF SharedTypeOK, ControlTypeOK, Exclusion, Exclusive, HoldsSit, seatNum
<1>6. Ranges'
  BY DEF ControlTypeOK, LocalTypeOK, Ranges, LoopRange, ListRange, SeatRange, WalkRange,
         InLoop, WithSeat, OnSeat, Walking, seatNum
<1>7. Loans'
  <2>1. TakeLoan' /\ TakenLoan'
    BY <1>0 DEF TakeLoan, TakenLoan, HoldsAccess
  <2>2. PutBackLoan'
    <3>1. i'[Librarian] = i[Librarian] + 1
      BY DEF LocalTypeOK
    <3>2. SUFFICES ASSUME NEW k \in i[Librarian] + 1 .. Len(books[Librarian])
                   PROVE  bookAvailable'[books[Librarian][k]] < Quantity[books[Librarian][k]]
      BY <3>1 DEF Loans, PutBackLoan
    <3>3. IsInjective(books[Librarian]) /\ DOMAIN books[Librarian] = 1 .. Len(books[Librarian])
      BY <1>0 DEF Loans, PutBackLoan
    <3>4. books[Librarian][k] # Book(Librarian) /\ books[Librarian][k] \in Books
      <4>1. k \in 1 .. Len(books[Librarian]) /\ k # i[Librarian]
        BY <1>0
      <4>2. books[Librarian][k] \in Books
        BY <1>0, <4>1
      <4>3. QED
        BY <1>0, <3>3, <4>1, <4>2 DEF IsInjective
    <3>5. bookAvailable[books[Librarian][k]] < Quantity[books[Librarian][k]]
      BY <1>0 DEF Loans, PutBackLoan
    <3>6. QED
      BY <3>4, <3>5 DEF SharedTypeOK
  <2>3. QED
    BY <2>1, <2>2 DEF Loans
<1>8. Choice' /\ Found'
  BY DEF SharedTypeOK, ControlTypeOK, LocalTypeOK, Choice, Found, seatFree,
         booksInSeatAt, seatNum
<1>9. SeatLists'
  BY SeatListsFrame DEF ControlTypeOK, LocalTypeOK
<1>10. SeatOwnership'
  BY DEF SharedTypeOK, ControlTypeOK, LocalTypeOK, SeatOwnership, OnSeat, seatNum
<1>11. QED
  BY <1>1, <1>2, <1>3, <1>4, <1>5, <1>6, <1>7, <1>8, <1>9, <1>10 DEF Exclusion

LEMMA StepClearSeat ==
  ASSUME IInv, ClearSeat
  PROVE  IInv'
<1> USE Constants DEF IInv, TypeOK, ClearSeat
<1>1. SharedTypeOK'
  BY DEF SharedTypeOK, LocalTypeOK, ControlTypeOK, seatNum
<1>2. ControlTypeOK'
  BY DEF ControlTypeOK, StudentLabels, LibrarianLabels, seatNum
<1>3. LocalTypeOK'
  BY DEF LocalTypeOK, seatNum
<1>4. Exclusive(HoldsAccess, ACCESS_LIBRARY)'
  BY DEF SharedTypeOK, ControlTypeOK, Exclusion, Exclusive, HoldsAccess, seatNum
<1>5. Exclusive(HoldsSit, SITSEM)'
  BY DEF SharedTypeOK, ControlTypeOK, Exclusion, Exclusive, HoldsSit, seatNum
<1>6. Ranges'
  BY DEF ControlTypeOK, LocalTypeOK, Ranges, LoopRange, ListRange, SeatRange, WalkRange,
         InLoop, WithSeat, OnSeat, Walking, seatNum
<1>7. Loans'
  BY DEF SharedTypeOK, ControlTypeOK, LocalTypeOK, Loans, TakeLoan, TakenLoan,
         PutBackLoan, seatNum
<1>8. Choice' /\ Found'
  BY DEF SharedTypeOK, ControlTypeOK, LocalTypeOK, Choice, Found, seatFree,
         booksInSeatAt, seatNum
<1>9. SeatLists'
  <2>1. Arrays'
    BY DEF SharedTypeOK, ControlTypeOK, LocalTypeOK, SeatLists, Arrays, Placing, Placed,
           seatNum
  <2>2. Placing'
    <3>1. \A q \in Students : pc'[q] = pc[q] /\ i'[q] = i[q] /\ books'[q] = books[q]
      BY DEF ControlTypeOK, LocalTypeOK
    <3>2. \A q \in Students : pc[q] = "place" => pos[q] \in Seats /\ i[q] \in Nat /\ i[q] > 0
      BY BookInHand DEF InLoop, Ranges, SeatRange, WithSeat, OnSeat
    <3>3. \A seat \in Seats : \/ numBooksInSeat'[seat] = numBooksInSeat[seat]
                             \/ numBooksInSeat'[seat] = 0
      BY DEF SharedTypeOK
    <3>4. QED
      BY <3>1, <3>2, <3>3 DEF SeatLists, Placing
  <2>3. Placed'
    BY DEF SharedTypeOK, ControlTypeOK, LocalTypeOK, SeatLists, Arrays, Placing, Placed,
           seatNum
  <2>4. QED
    BY <2>1, <2>2, <2>3 DEF SeatLists
<1>10. SeatOwnership'
  BY DEF SharedTypeOK, ControlTypeOK, LocalTypeOK, SeatOwnership, OnSeat, seatNum
<1>11. QED
  BY <1>1, <1>2, <1>3, <1>4, <1>5, <1>6, <1>7, <1>8, <1>9, <1>10 DEF Exclusion

LEMMA StepNextSeat ==
  ASSUME IInv, NextSeat
  PROVE  IInv'
<1> USE Constants DEF IInv, TypeOK, NextSeat
<1>1. SharedTypeOK'
  BY DEF SharedTypeOK, LocalTypeOK, ControlTypeOK, seatNum
<1>2. ControlTypeOK'
  BY DEF ControlTypeOK, StudentLabels, LibrarianLabels, seatNum
<1>3. LocalTypeOK'
  BY DEF LocalTypeOK, seatNum
<1>4. Exclusive(HoldsAccess, ACCESS_LIBRARY)'
  BY DEF SharedTypeOK, ControlTypeOK, Exclusion, Exclusive, HoldsAccess, seatNum
<1>5. Exclusive(HoldsSit, SITSEM)'
  BY DEF SharedTypeOK, ControlTypeOK, Exclusion, Exclusive, HoldsSit, seatNum
<1>6. Ranges'
  <2>1. LoopRange'
    BY DEF ControlTypeOK, LocalTypeOK, Ranges, LoopRange, ListRange, SeatRange,
           WalkRange, InLoop, WithSeat, OnSeat, Walking, seatNum
  <2>2. ListRange'
    BY DEF ControlTypeOK, LocalTypeOK, Ranges, LoopRange, ListRange, SeatRange,
           WalkRange, InLoop, WithSeat, OnSeat, Walking, seatNum
  <2>3. SeatRange'
    BY DEF ControlTypeOK, LocalTypeOK, Ranges, LoopRange, ListRange, SeatRange,
           WalkRange, InLoop, WithSeat, OnSeat, Walking, seatNum
  <2>4. WalkRange'
    BY DEF ControlTypeOK, LocalTypeOK, Ranges, LoopRange, ListRange, SeatRange,
           WalkRange, InLoop, WithSeat, OnSeat, Walking, seatNum
  <2>5. QED
    BY <2>1, <2>2, <2>3, <2>4 DEF Ranges
<1>7. Loans'
  BY DEF SharedTypeOK, ControlTypeOK, LocalTypeOK, Loans, TakeLoan, TakenLoan,
         PutBackLoan, seatNum
<1>8. Choice' /\ Found'
  BY DEF SharedTypeOK, ControlTypeOK, LocalTypeOK, Choice, Found, seatFree,
         booksInSeatAt, seatNum
<1>9. SeatLists'
  BY SeatListsFrame DEF ControlTypeOK, LocalTypeOK, seatNum
<1>10. SeatOwnership'
  <2>1. \A q \in Students : pc'[q] = pc[q] /\ pos'[q] = pos[q]
    BY DEF ControlTypeOK, LocalTypeOK, seatNum
  <2>2. QED
    BY <2>1 DEF SeatOwnership
<1>11. QED
  BY <1>1, <1>2, <1>3, <1>4, <1>5, <1>6, <1>7, <1>8, <1>9, <1>10 DEF Exclusion

LEMMA StepCollectUp ==
  ASSUME IInv, CollectUp
  PROVE  IInv'
<1> USE Constants DEF IInv, TypeOK, CollectUp
<1>1. SharedTypeOK'
  <2>1. (bookAvailable \in [Books -> Nat])'
    BY DEF SharedTypeOK, ControlTypeOK, LocalTypeOK, seatNum
  <2>2. (\A b \in Books : bookAvailable[b] <= Quantity[b])'
    BY DEF SharedTypeOK, ControlTypeOK, LocalTypeOK, seatNum
  <2>3. (booksInTransit \in Int)'
    BY DEF SharedTypeOK, ControlTypeOK, LocalTypeOK, seatNum
  <2>4. (seatOccupied \in [Seats -> BOOLEAN])'
    BY DEF SharedTypeOK, ControlTypeOK, LocalTypeOK, seatNum
  <2>5. (booksInSeat \in [Seats -> Seq(Books)])'
    BY DEF SharedTypeOK, ControlTypeOK, LocalTypeOK, seatNum
  <2>6. (numBooksInSeat \in [Seats -> Nat])'
    BY DEF SharedTypeOK, ControlTypeOK, LocalTypeOK, seatNum
  <2>7. (semLib \in [{ACCESS_LIBRARY, SITSEM} -> {0, 1}])'
    <3>1. semLib[ACCESS_LIBRARY] # 1
      BY DEF Exclusion, Exclusive, HoldsAccess
    <3>2. QED
      BY <3>1 DEF SharedTypeOK
  <2>8. QED
    BY <2>1, <2>2, <2>3, <2>4, <2>5, <2>6, <2>7 DEF SharedTypeOK
<1>2. ControlTypeOK'
  BY DEF ControlTypeOK, StudentLabels, LibrarianLabels, seatNum
<1>3. LocalTypeOK'
  BY DEF LocalTypeOK, seatNum
<1>4. Exclusive(HoldsAccess, ACCESS_LIBRARY)'
  BY DEF SharedTypeOK, ControlTypeOK, Exclusion, Exclusive, HoldsAccess, seatNum
<1>5. Exclusive(HoldsSit, SITSEM)'
  BY DEF SharedTypeOK, ControlTypeOK, Exclusion, Exclusive, HoldsSit, seatNum
<1>6. Ranges'
  BY DEF ControlTypeOK, LocalTypeOK, Ranges, LoopRange, ListRange, SeatRange, WalkRange,
         InLoop, WithSeat, OnSeat, Walking, seatNum
<1>7. Loans'
  BY DEF SharedTypeOK, ControlTypeOK, LocalTypeOK, Loans, TakeLoan, TakenLoan,
         PutBackLoan, seatNum
<1>8. Choice' /\ Found'
  BY DEF SharedTypeOK, ControlTypeOK, LocalTypeOK, Choice, Found, seatFree,
         booksInSeatAt, seatNum
<1>9. SeatLists'
  BY SeatListsFrame DEF ControlTypeOK, LocalTypeOK
<1>10. SeatOwnership'
  BY DEF SharedTypeOK, ControlTypeOK, LocalTypeOK, SeatOwnership, OnSeat, seatNum
<1>11. QED
  BY <1>1, <1>2, <1>3, <1>4, <1>5, <1>6, <1>7, <1>8, <1>9, <1>10 DEF Exclusion
LEMMA StepInvariantRead ==
  ASSUME IInv, NEW p \in Processes, InvariantRead(p)
  PROVE  IInv'
<1> USE DEF IInv, TypeOK, InvariantRead
<1>1. SharedTypeOK' /\ ControlTypeOK'
  BY DEF SharedTypeOK, ControlTypeOK
<1>2. LocalTypeOK'
  <2>1. <<booksInTransit, bookAvailable>> \in Int \X [Books -> Nat]
    BY DEF SharedTypeOK
  <2>2. QED
    BY <2>1 DEF LocalTypeOK
<1>3. Exclusion' /\ Ranges' /\ Loans'
  BY DEF Exclusion, Exclusive, Ranges, LoopRange, ListRange, SeatRange, WalkRange,
         Loans, TakeLoan, TakenLoan, PutBackLoan
<1>4. Choice' /\ Found' /\ SeatLists' /\ SeatOwnership'
  BY DEF Choice, Found, seatFree, booksInSeatAt, SeatLists, Arrays, Placing, Placed,
         SeatOwnership
<1>5. QED
  BY <1>1, <1>2, <1>3, <1>4

LEMMA StepInvariantAssert ==
  ASSUME IInv, NEW p \in Processes, InvariantAssert(p)
  PROVE  IInv'
<1> USE Constants DEF IInv, TypeOK, InvariantAssert
<1>0. /\ \A q \in Processes \ {p} : pc'[q] = pc[q]
      /\ \/ p \in Students /\ pc[p] = "requisited" /\ pc'[p] \in {"sit", "aborted"}
         \/ p \in Students /\ pc[p] = "seated" /\ pc'[p] \in {"sitUp", "aborted"}
         \/ p \in Students /\ pc[p] = "risen" /\ pc'[p] \in {"riseUp", "aborted"}
         \/ p = Librarian /\ pc[p] = "cleared" /\ pc'[p] \in {"nextSeat", "aborted"}
  <2>1. pc[p] = "cleared" \/ pc[p] \in {"requisited", "seated", "risen"}
    BY DEF Scanning
  <2>2. pc'[p] \in {Resume[pc[p]], "aborted"}
    BY DEF ControlTypeOK
  <2>3. /\ Resume["requisited"] = "sit" /\ Resume["seated"] = "sitUp"
        /\ Resume["risen"] = "riseUp" /\ Resume["cleared"] = "nextSeat"
    BY DEF Resume, Scanning
  <2>4. p \in Students <=> pc[p] # "cleared"
    BY <2>1 DEF ControlTypeOK, StudentLabels, LibrarianLabels, OnSeat
  <2>5. QED
    BY <2>1, <2>2, <2>3, <2>4 DEF ControlTypeOK
<1>1. SharedTypeOK'
  BY DEF SharedTypeOK
<1>2. ControlTypeOK'
  BY <1>0 DEF ControlTypeOK, StudentLabels, LibrarianLabels, OnSeat
<1>3. LocalTypeOK'
  BY DEF LocalTypeOK
<1>4. Exclusion'
  <2>1. Exclusive(HoldsAccess, ACCESS_LIBRARY)'
    BY <1>0 DEF Exclusion, Exclusive, HoldsAccess
  <2>2. Exclusive(HoldsSit, SITSEM)'
    BY <1>0 DEF Exclusion, Exclusive, HoldsSit
  <2>3. QED
    BY <2>1, <2>2 DEF Exclusion
<1>6. Ranges'
  <2>1. LoopRange' /\ ListRange'
    BY <1>0 DEF Ranges, LoopRange, ListRange, InLoop
  <2>2. SeatRange' /\ WalkRange'
    BY <1>0 DEF Ranges, SeatRange, WalkRange, WithSeat, OnSeat, Walking
  <2>3. QED
    BY <2>1, <2>2 DEF Ranges
<1>7. Loans'
  BY <1>0 DEF Loans, TakeLoan, TakenLoan, PutBackLoan
<1>8. Choice' /\ Found'
  BY <1>0 DEF Choice, Found, seatFree, booksInSeatAt
<1>9. SeatLists'
  BY <1>0, SeatListsFrame
<1>10. SeatOwnership'
  <2>1. \A q \in Students : pc'[q] \in OnSeat => pc[q] \in OnSeat
    BY <1>0 DEF OnSeat
  <2>2. \A q \in Students : pc[q] \in OnSeat \union {"aborted"} =>
                           pc'[q] \in OnSeat \union {"aborted"}
    BY <1>0 DEF OnSeat
  <2>3. QED
    BY <2>1, <2>2 DEF SeatOwnership
<1>11. QED
  BY <1>1, <1>2, <1>3, <1>4, <1>6, <1>7, <1>8, <1>9, <1>10

LEMMA Stutter == IInv /\ UNCHANGED vars => IInv'
<1> SUFFICES ASSUME IInv, UNCHANGED vars PROVE IInv'
  OBVIOUS
<1> USE DEF IInv, TypeOK, vars
<1>1. TypeOK'
  BY DEF SharedTypeOK, ControlTypeOK, LocalTypeOK
<1>2. Exclusion' /\ Ranges' /\ Loans'
  BY DEF Exclusion, Exclusive, Ranges, LoopRange, ListRange, SeatRange, WalkRange,
         Loans, TakeLoan, TakenLoan, PutBackLoan
<1>3. Choice' /\ Found' /\ SeatLists' /\ SeatOwnership'
  BY DEF Choice, Found, seatFree, booksInSeatAt, SeatLists, Arrays, Placing, Placed,
         SeatOwnership
<1>4. QED
  BY <1>1, <1>2, <1>3

LEMMA NextIInv == IInv /\ [Next]_vars => IInv'
<1> SUFFICES ASSUME IInv, [Next]_vars PROVE IInv'
  OBVIOUS
<1>1. ASSUME NEW p \in Students, Student(p) PROVE IInv'
  <2>1. CASE ChooseBooks(p) \/ Requisite(p)
    BY <2>1, StepChooseBooks, StepRequisiteDown, StepTakeBook, StepTakeBookStore,
       StepRequisiteUp DEF Requisite
  <2>2. CASE Sit(p)
    BY <2>2, StepSitDown, StepOccupy, StepPlaceBook, StepPlaceBookStore, StepLeaveTransit,
       StepLeaveTransitStore, StepSitUp DEF Sit
  <2>3. CASE Leave(p) \/ Scan(p)
    BY <2>3, StepFinishStudy, StepRise, StepRiseUp, StepInvariantRead, StepInvariantAssert
    DEF Leave, Scan
  <2>4. QED
    BY <1>1, <2>1, <2>2, <2>3 DEF Student
<1>2. CASE CollectBooks
  <2>1. CASE Scan(Librarian)
    BY <2>1, StepInvariantRead, StepInvariantAssert DEF Scan
  <2>2. QED
    BY <1>2, <2>1, StepCollectDown, StepLookAtSeat, StepLookAtBooks, StepCollectFrom,
       StepPutBack, StepClearSeat, StepNextSeat, StepCollectUp DEF CollectBooks
<1>3. CASE UNCHANGED vars
  BY <1>3, Stutter
<1>4. QED
  BY <1>1, <1>2, <1>3 DEF Next
-----------------------------------------------------------------------------
\* The inductive invariant holds in every reachable state.
THEOREM Inductive == Spec => []IInv
BY InitIInv, NextIInv, PTL DEF Spec

\* The shelf is never overdrawn or overfilled and the semaphores stay binary, for any
\* number of students, seats, titles and copies (requisiteBooksFromLibrary,
\* returnBooks, psem_down and psem_up).
THEOREM TypeCorrect == Spec => []TypeOK
<1>1. IInv => TypeOK
  BY DEF IInv
<1>2. QED
  BY <1>1, Inductive, PTL

\* No two students are ever on the same seat, each student on a seat has it marked,
\* and a marked seat has its student (sit, rise).
THEOREM SeatsOwned == Spec => []SeatOwnership
<1>1. IInv => SeatOwnership
  BY DEF IInv
<1>2. QED
  BY <1>1, Inductive, PTL
-----------------------------------------------------------------------------
(***************************************************************************)
(* More about Library: it implements ReadingRoom, and as long as the       *)
(* librarian leaves taken seats alone it keeps every copy of every title.  *)
(* The invariant above does most of it.                                    *)
(***************************************************************************)
\* A step of one process.
Moves(p) == \/ p \in Students /\ Student(p)
            \/ p = Librarian /\ CollectBooks

\* What the others are at, when p moves.
OthersStay(p) == \A q \in Processes \ {p} :
    /\ pc'[q] = pc[q] /\ pos'[q] = pos[q] /\ i'[q] = i[q]
    /\ books'[q] = books[q] /\ register'[q] = register[q]
-----------------------------------------------------------------------------
USE DEF At, Goto, psem_down, psem_up, FirstBook, NextBook, LastBook, Book,
        Processes, Seats, ACCESS_LIBRARY, SITSEM, stock, tables, loop

LEMMA FiniteStudents ==
  ASSUME NEW S \in SUBSET Students
  PROVE  IsFiniteSet(S) /\ Cardinality(S) \in Nat
BY LibraryAssumption, FS_Subset, FS_CardinalityType

LEMMA FiniteSeats ==
  ASSUME NEW S \in SUBSET Seats
  PROVE  IsFiniteSet(S) /\ Cardinality(S) \in Nat
<1>1. IsFiniteSet(Seats)
  BY Constants, FS_Interval
<1>2. QED
  BY <1>1, FS_Subset, FS_CardinalityType

\* What the invariant says of the variables, where an action needs only their domains.
LEMMA Domains ==
  ASSUME IInv
  PROVE  /\ \A p \in Students : p \in Processes /\ p # Librarian
         /\ Librarian \in Processes
         /\ bookAvailable \in [Books -> Nat] /\ seatOccupied \in [Seats -> BOOLEAN]
         /\ booksInSeat \in [Seats -> Seq(Books)] /\ numBooksInSeat \in [Seats -> Nat]
         /\ semLib \in [{ACCESS_LIBRARY, SITSEM} -> {0, 1}]
         /\ pc \in [Processes -> StudentLabels \union LibrarianLabels]
         /\ books \in [Processes -> Seq(Books)] /\ i \in [Processes -> Nat]
         /\ register \in [Processes -> Int] /\ pos \in [Processes -> 0 .. NumSeats]
BY Constants DEF IInv, TypeOK, SharedTypeOK, ControlTypeOK, LocalTypeOK

LEMMA OneMoves ==
  ASSUME IInv, NEW p \in Processes, Moves(p)
  PROVE  OthersStay(p)
<1> USE Domains
<1>1. CASE p \in Students /\ Student(p)
  <2>1. CASE ChooseBooks(p) \/ Requisite(p)
    BY <1>1, <2>1 DEF OthersStay, ChooseBooks, Requisite, RequisiteDown, TakeBook, TakeBookStore,
                      RequisiteUp
  <2>2. CASE Sit(p)
    BY <1>1, <2>2 DEF OthersStay, Sit, SitDown, Occupy, PlaceBook, PlaceBookStore, LeaveTransit,
                      LeaveTransitStore, SitUp
  <2>3. CASE Leave(p) \/ Scan(p)
    BY <1>1, <2>3 DEF OthersStay, Leave, FinishStudy, Rise, RiseUp, Scan, InvariantRead,
                      InvariantAssert
  <2>4. QED
    BY <1>1, <2>1, <2>2, <2>3 DEF Student
<1>2. CASE p = Librarian /\ CollectBooks
  <2>1. CASE CollectDown \/ LookAtSeat \/ LookAtBooks \/ CollectFrom
    BY <1>2, <2>1 DEF OthersStay, CollectDown, LookAtSeat, LookAtBooks, CollectFrom
  <2>2. CASE PutBack \/ ClearSeat \/ NextSeat \/ CollectUp
    BY <1>2, <2>2 DEF OthersStay, PutBack, ClearSeat, NextSeat, CollectUp
  <2>3. CASE Scan(Librarian)
    BY <1>2, <2>3 DEF OthersStay, Scan, InvariantRead, InvariantAssert
  <2>4. QED
    BY <1>2, <2>1, <2>2, <2>3 DEF CollectBooks
<1>3. QED
  BY <1>1, <1>2 DEF Moves
-----------------------------------------------------------------------------
(***************************************************************************)
(* The shelf and the seats as the users of the library see them.           *)
(***************************************************************************)
Taking == {"take", "takeStore"}

LEMMA TakersAre ==
  ASSUME NEW b
  PROVE  Takers(b) = {p \in Students : pc[p] \in Taking /\ \E k \in StillToTake(p) : books[p][k] = b}
BY DEF Takers, StillToTake, Taking

\* While somebody holds the semaphore of the shelf, nobody else is taking books.
LEMMA NobodyTakes ==
  ASSUME IInv, NEW p \in Processes, pc[p] \in HoldsAccess, NEW b
  PROVE  Takers(b) \subseteq {p}
BY TakersAre DEF IInv, Exclusion, Exclusive, HoldsAccess, Taking

LEMMA NobodyTakesFree ==
  ASSUME IInv, semLib[ACCESS_LIBRARY] = 1, NEW b
  PROVE  Takers(b) = {}
BY TakersAre DEF IInv, Exclusion, Exclusive, HoldsAccess, Taking

LEMMA ShelfStays ==
  ASSUME bookAvailable' = bookAvailable, NEW p \in Processes, OthersStay(p),
         p \in Students => pc[p] \notin Taking /\ pc'[p] \notin Taking
  PROVE  OnShelf' = OnShelf
<1>1. ASSUME NEW b \in Books, NEW q \in Students
      PROVE  (\E k \in StillToTake(q) : books[q][k] = b)' <=> (\E k \in StillToTake(q) : books[q][k] = b)
  BY DEF OthersStay, StillToTake, Taking
<1>2. ASSUME NEW b \in Books PROVE Takers(b)' = Takers(b)
  BY <1>1 DEF Takers
<1>3. QED
  BY <1>2 DEF OnShelf

LEMMA SeatsStay ==
  ASSUME NEW p \in Processes, OthersStay(p),
         p \in Students => /\ pc'[p] \in OnSeat <=> pc[p] \in OnSeat
                           /\ pc[p] \in OnSeat => pos'[p] = pos[p]
  PROVE  Occupant' = Occupant
<1>1. ASSUME NEW seat \in Seats, NEW q \in Students
      PROVE  (pc'[q] \in OnSeat /\ pos'[q] = seat) <=> (pc[q] \in OnSeat /\ pos[q] = seat)
  BY DEF OthersStay
<1>2. QED
  BY <1>1 DEF Occupant

\* The steps that users of the library do not see.
LEMMA QuietStudent ==
  ASSUME IInv, NEW p \in Students,
         \/ ChooseBooks(p) \/ RequisiteUp(p) \/ SitDown(p) \/ PlaceBook(p) \/ PlaceBookStore(p)
         \/ LeaveTransit(p) \/ LeaveTransitStore(p) \/ SitUp(p) \/ FinishStudy(p) \/ RiseUp(p)
         \/ InvariantRead(p)
         \/ InvariantAssert(p) /\ ~(pc[p] = "seated" /\ pc'[p] = "aborted")
  PROVE  UNCHANGED <<OnShelf, Occupant>>
<1>1. p \in Processes /\ OthersStay(p)
  BY OneMoves, Domains DEF Moves, Student, Requisite, Sit, Leave, Scan
<1>2. /\ bookAvailable' = bookAvailable
      /\ pc[p] \notin Taking /\ pc'[p] \notin Taking
      /\ pc'[p] \in OnSeat <=> pc[p] \in OnSeat
      /\ pc[p] \in OnSeat => pos'[p] = pos[p]
  <2> USE Domains DEF Taking, OnSeat
  <2>1. CASE ChooseBooks(p) \/ RequisiteUp(p) \/ SitDown(p)
    BY <2>1 DEF ChooseBooks, RequisiteUp, SitDown
  <2>2. CASE PlaceBook(p) \/ PlaceBookStore(p)
    BY <2>2 DEF PlaceBook, PlaceBookStore
  <2>3. CASE LeaveTransit(p) \/ LeaveTransitStore(p) \/ SitUp(p)
    BY <2>3 DEF LeaveTransit, LeaveTransitStore, SitUp
  <2>4. CASE FinishStudy(p)
    BY <2>4 DEF FinishStudy, IInv, SeatOwnership
  <2>5. CASE RiseUp(p) \/ InvariantRead(p)
    BY <2>5 DEF RiseUp, InvariantRead, Scanning
  <2>6. CASE InvariantAssert(p) /\ ~(pc[p] = "seated" /\ pc'[p] = "aborted")
    <3>1. pc[p] \in Scanning /\ bookAvailable' = bookAvailable /\ pos' = pos
      BY <2>6 DEF InvariantAssert
    <3>2. pc'[p] \in {Resume[pc[p]], "aborted"}
      BY <2>6 DEF InvariantAssert
    <3>3. pc[p] # "cleared"
      BY DEF IInv, TypeOK, ControlTypeOK, StudentLabels
    <3>4. \/ pc[p] = "requisited" /\ Resume[pc[p]] = "sit"
          \/ pc[p] = "seated" /\ Resume[pc[p]] = "sitUp"
          \/ pc[p] = "risen" /\ Resume[pc[p]] = "riseUp"
      BY <3>1, <3>3 DEF Resume, Scanning
    <3>5. QED
      BY <2>6, <3>1, <3>2, <3>4
  <2>7. QED
    BY <2>1, <2>2, <2>3, <2>4, <2>5, <2>6
<1>3. QED
  BY <1>1, <1>2, ShelfStays, SeatsStay

LEMMA QuietLibrarian ==
  ASSUME IInv, CollectBooks, bookAvailable' = bookAvailable
  PROVE  UNCHANGED <<OnShelf, Occupant>>
BY OneMoves, Domains, ShelfStays, SeatsStay, Constants DEF Moves

\* Under the semaphore of the shelf a student takes all its books or none: they are
\* lent when it has found that all are there.
LEMMA RequisiteLends ==
  ASSUME IInv, NEW p \in Students, RequisiteDown(p)
  PROVE  UNCHANGED <<OnShelf, Occupant>> \/ \E list \in BookLists : Room!Lend(list)
<1>1. p \in Processes /\ OthersStay(p)
  BY OneMoves, Domains DEF Moves, Student, Requisite
<1>2. /\ pc[p] = "requisite" /\ semLib[ACCESS_LIBRARY] = 1
      /\ pc'[p] = IF BooksAvailable(books[p]) THEN "take" ELSE "noBooks"
      /\ i'[p] = 1 /\ books' = books /\ bookAvailable' = bookAvailable
  BY Domains DEF RequisiteDown
<1>3. Occupant' = Occupant
  BY <1>1, <1>2, SeatsStay DEF OnSeat
<1>4. CASE ~BooksAvailable(books[p])
  BY <1>1, <1>2, <1>3, <1>4, ShelfStays DEF Taking
<1>5. CASE BooksAvailable(books[p])
  <2> DEFINE list == books[p]
  <2>1. list \in BookLists /\ list \in Seq(Books)
    BY <1>2, Lists DEF IInv, Ranges, ListRange
  <2>2. ASSUME NEW b \in Books
        PROVE  /\ OnShelf[b] = bookAvailable[b]
               /\ OnShelf'[b] = IF Room!InList(b, list) THEN bookAvailable[b] - 1 ELSE bookAvailable[b]
    <3>1. Takers(b) = {}
      BY <1>2, NobodyTakesFree
    <3>2. \A q \in Students \ {p} : pc[q] \notin Taking /\ pc'[q] = pc[q]
      BY <1>1, <1>2, Domains DEF IInv, Exclusion, Exclusive, HoldsAccess, Taking, OthersStay
    <3>3. Takers(b)' = {q \in Students : pc'[q] \in Taking /\ (\E k \in StillToTake(q) : books[q][k] = b)'}
      BY DEF Takers, StillToTake, Taking
    <3>4. (\E k \in StillToTake(p) : books[p][k] = b)' <=> Room!InList(b, list)
      BY <1>2, <1>5 DEF StillToTake, Room!InList
    <3>5. Takers(b)' = IF Room!InList(b, list) THEN {p} ELSE {}
      BY <1>2, <1>5, <3>2, <3>3, <3>4 DEF Taking
    <3>6. Cardinality(Takers(b)) = 0 /\ Cardinality(Takers(b)') = IF Room!InList(b, list) THEN 1 ELSE 0
      BY <3>1, <3>5, FS_EmptySet, FS_Singleton
    <3>7. bookAvailable[b] \in Nat
      BY Domains
    <3>8. QED
      BY <1>2, <3>6, <3>7 DEF OnShelf
  <2>3. \A b \in Books : Room!InList(b, list) => OnShelf[b] > 0
    BY <1>5, <2>2 DEF BooksAvailable, Room!InList
  <2>4. OnShelf' = [b \in Books |-> IF Room!InList(b, list) THEN OnShelf[b] - 1 ELSE OnShelf[b]]
    BY <2>2 DEF OnShelf
  <2>5. QED
    BY <1>3, <2>1, <2>3, <2>4 DEF Room!Lend
<1>6. QED
  BY <1>4, <1>5

\* Then it takes them off the shelf one by one, which nobody sees.
LEMMA TakeBookQuiet ==
  ASSUME IInv, NEW p \in Students, TakeBook(p)
  PROVE  UNCHANGED <<OnShelf, Occupant>>
<1> DEFINE b0 == Book(p)
<1>1. p \in Processes /\ OthersStay(p)
  BY OneMoves, Domains DEF Moves, Student, Requisite
<1>2. /\ pc[p] = "take" /\ pc'[p] = "takeStore" /\ i'[p] = i[p] /\ books' = books
      /\ bookAvailable' = [bookAvailable EXCEPT ![b0] = @ - 1]
  BY Domains DEF TakeBook
<1>3. Occupant' = Occupant
  BY <1>1, <1>2, SeatsStay DEF OnSeat
<1>4. /\ books[p] \in BookLists /\ i[p] \in 1 .. Len(books[p]) /\ b0 \in Books
  BY <1>1, <1>2, BookInHand DEF IInv, Ranges, ListRange, InLoop
<1>5. \A j, k \in 1 .. Len(books[p]) : books[p][j] = books[p][k] => j = k
  BY <1>4, Lists
<1>6. Len(books[p]) \in Nat
  BY <1>1, Domains, LenProperties
<1>7. ASSUME NEW b \in Books
      PROVE  OnShelf'[b] = OnShelf[b]
  <2>1. Takers(b) \subseteq {p}
    BY <1>1, <1>2, NobodyTakes DEF HoldsAccess
  <2>2. \A q \in Students \ {p} : pc[q] \notin Taking /\ pc'[q] = pc[q]
    BY <1>1, <1>2, Domains DEF IInv, Exclusion, Exclusive, HoldsAccess, Taking, OthersStay
  <2>3. Takers(b)' = {q \in Students : pc'[q] \in Taking /\ (\E k \in StillToTake(q) : books[q][k] = b)'}
    BY DEF Takers, StillToTake, Taking
  <2>4. p \in Takers(b) <=> \E k \in i[p] .. Len(books[p]) : books[p][k] = b
    BY <1>2 DEF Takers, StillToTake
  <2>5. p \in Takers(b)' <=> \E k \in i[p] + 1 .. Len(books[p]) : books[p][k] = b
    BY <1>2 DEF Takers, StillToTake
  <2>6. Takers(b)' \subseteq {p}
    BY <2>2, <2>3
  <2>7. bookAvailable[b] \in Nat
    BY Domains
  <2>8. CASE b = b0
    <3>1. p \in Takers(b) /\ p \notin Takers(b)'
      BY <1>4, <1>5, <1>6, <2>4, <2>5, <2>8
    <3>2. Takers(b) = {p} /\ Takers(b)' = {}
      BY <2>1, <2>6, <3>1
    <3>3. Cardinality(Takers(b)) = 1 /\ Cardinality(Takers(b)') = 0
      BY <3>2, FS_EmptySet, FS_Singleton
    <3>4. bookAvailable'[b] = bookAvailable[b] - 1
      BY <1>2, <2>8, Domains
    <3>5. QED
      BY <2>7, <3>3, <3>4 DEF OnShelf
  <2>9. CASE b # b0
    <3>1. p \in Takers(b)' <=> p \in Takers(b)
      BY <1>4, <1>6, <2>4, <2>5, <2>9
    <3>2. Takers(b)' = Takers(b)
      BY <2>1, <2>6, <3>1
    <3>3. bookAvailable'[b] = bookAvailable[b]
      BY <1>2, <2>9, Domains
    <3>4. QED
      BY <3>2, <3>3 DEF OnShelf
  <2>10. QED
    BY <2>8, <2>9
<1>8. OnShelf' = OnShelf
  BY <1>7 DEF OnShelf
<1>9. QED
  BY <1>3, <1>8

LEMMA TakeBookStoreQuiet ==
  ASSUME IInv, NEW p \in Students, TakeBookStore(p)
  PROVE  UNCHANGED <<OnShelf, Occupant>>
<1>1. p \in Processes /\ OthersStay(p)
  BY OneMoves, Domains DEF Moves, Student, Requisite
<1>2. /\ pc[p] = "takeStore" /\ pc'[p] = IF LastBook(p) THEN "gotBooks" ELSE "take"
      /\ i'[p] = i[p] + 1 /\ books' = books /\ bookAvailable' = bookAvailable
  BY Domains DEF TakeBookStore
<1>3. Occupant' = Occupant
  BY <1>1, <1>2, SeatsStay DEF OnSeat
<1>4. i[p] \in 1 .. Len(books[p]) /\ Len(books[p]) \in Nat
  BY <1>1, <1>2, BookInHand, LenProperties DEF InLoop
<1>5. StillToTake(p)' = StillToTake(p)
  BY <1>2, <1>4 DEF StillToTake
<1>6. ASSUME NEW q \in Students PROVE StillToTake(q)' = StillToTake(q)
  BY <1>1, <1>2, <1>5 DEF OthersStay, StillToTake
<1>7. \A b \in Books : Takers(b)' = Takers(b)
  BY <1>2, <1>6 DEF Takers
<1>8. OnShelf' = OnShelf
  BY <1>2, <1>7 DEF OnShelf
<1>9. QED
  BY <1>3, <1>8

\* The librarian puts back what is missing from the shelf.
LEMMA PutBackTakesBack ==
  ASSUME IInv, PutBack
  PROVE  \E b \in Books : Room!TakeBack(b)
<1> DEFINE b0 == Book(Librarian)
<1>1. Librarian \in Processes /\ OthersStay(Librarian)
  BY OneMoves, Domains DEF Moves, CollectBooks
<1>2. /\ pc[Librarian] = "putBack" /\ pc'[Librarian] \in {"clear", "putBack"}
      /\ bookAvailable' = [bookAvailable EXCEPT ![b0] = @ + 1]
  BY Domains DEF PutBack
<1>3. Occupant' = Occupant
  BY <1>1, SeatsStay, Constants
<1>4. b0 \in Books /\ bookAvailable[b0] < Quantity[b0]
  <2>1. b0 \in Books /\ i[Librarian] \in 1 .. Len(books[Librarian]) /\ books[Librarian] \in Seq(Books)
    BY <1>1, <1>2, BookInHand DEF InLoop
  <2>2. \A k \in i[Librarian] .. Len(books[Librarian]) :
           bookAvailable[books[Librarian][k]] < Quantity[books[Librarian][k]]
    BY <1>2 DEF IInv, Loans, PutBackLoan
  <2>3. Len(books[Librarian]) \in Nat
    BY <2>1, LenProperties
  <2>4. QED
    BY <2>1, <2>2, <2>3
<1>5. ASSUME NEW b \in Books
      PROVE  Takers(b) = {} /\ Takers(b)' = {}
  <2>1. Takers(b) = {}
    <3>1. Takers(b) \subseteq {Librarian}
      BY <1>1, <1>2, NobodyTakes DEF HoldsAccess
    <3>2. QED
      BY <3>1, Constants DEF Takers
  <2>2. \A q \in Students : q \in Takers(b)' <=> q \in Takers(b)
    BY <1>1, Domains DEF Takers, StillToTake, OthersStay
  <2>3. QED
    BY <2>1, <2>2 DEF Takers
<1>6. ASSUME NEW b \in Books
      PROVE  OnShelf[b] = bookAvailable[b] /\ OnShelf'[b] = bookAvailable'[b]
  <2>1. bookAvailable[b] \in Nat /\ bookAvailable'[b] \in Nat
    BY <1>2, <1>4, Domains
  <2>2. Cardinality(Takers(b)) = 0 /\ Cardinality(Takers(b)') = 0
    BY <1>5, FS_EmptySet
  <2>3. QED
    BY <2>1, <2>2 DEF OnShelf
<1> HIDE DEF b0
<1>7. OnShelf[b0] < Quantity[b0]
  BY <1>4, <1>6
<1>8. OnShelf' = [OnShelf EXCEPT ![b0] = @ + 1]
  <2>1. ASSUME NEW b \in Books
        PROVE  OnShelf'[b] = IF b = b0 THEN OnShelf[b] + 1 ELSE OnShelf[b]
    BY <1>2, <1>6, Domains
  <2>2. QED
    BY <2>1 DEF OnShelf
<1>9. Room!TakeBack(b0)
  BY <1>3, <1>7, <1>8 DEF Room!TakeBack
<1>10. QED
  BY <1>4, <1>9

\* The seat a student has chosen is nobody's when it marks it.
LEMMA OccupyTakes ==
  ASSUME IInv, NEW p \in Students, Occupy(p)
  PROVE  \E seat \in Seats : Room!Take(p, seat)
<1> DEFINE seat == pos[p]
<1>1. p \in Processes /\ OthersStay(p)
  BY OneMoves, Domains DEF Moves, Student, Sit
<1>2. /\ pc[p] = "occupy" /\ pc'[p] = "place" /\ pos' = pos /\ bookAvailable' = bookAvailable
  BY Domains DEF Occupy
<1>3. OnShelf' = OnShelf
  BY <1>1, <1>2, ShelfStays DEF Taking
<1>4. seat \in Seats /\ ~seatOccupied[seat]
  BY <1>2 DEF IInv, Ranges, SeatRange, WithSeat, Choice, seatFree
<1>5. \A q \in Students : pc[q] \in OnSeat => pos[q] # seat
  BY <1>4 DEF IInv, SeatOwnership
<1>6. p \notin {q \in Students : pc[q] \in OnSeat}
  BY <1>2 DEF OnSeat
<1>7. \A q \in Students \ {p} : pc'[q] = pc[q]
  BY <1>1, Domains DEF OthersStay
<1> HIDE DEF seat
<1>8. Occupant[seat] = Nobody
  BY <1>4, <1>5 DEF Occupant
<1>9. ASSUME NEW other \in Seats PROVE Occupant[other] # p
  <2>1. CASE \E q \in Students : pc[q] \in OnSeat /\ pos[q] = other
    BY <1>6, <2>1 DEF Occupant
  <2>2. CASE ~\E q \in Students : pc[q] \in OnSeat /\ pos[q] = other
    BY <2>2, Domains DEF Occupant, Nobody
  <2>3. QED
    BY <2>1, <2>2
<1>10. ASSUME NEW other \in Seats
       PROVE  Occupant'[other] = IF other = seat THEN p ELSE Occupant[other]
  <2>1. \A q \in Students : (pc'[q] \in OnSeat /\ pos'[q] = other)
                            <=> (IF other = seat THEN q = p ELSE pc[q] \in OnSeat /\ pos[q] = other)
    BY <1>2, <1>5, <1>6, <1>7 DEF OnSeat, seat
  <2>2. CASE other = seat
    BY <2>1, <2>2 DEF Occupant
  <2>3. CASE other # seat
    BY <2>1, <2>3 DEF Occupant
  <2>4. QED
    BY <2>2, <2>3
<1>11. Occupant' = [Occupant EXCEPT ![seat] = p]
  BY <1>10 DEF Occupant
<1>12. Room!Take(p, seat)
  BY <1>3, <1>8, <1>9, <1>11 DEF Room!Take
<1>13. QED
  BY <1>4, <1>12

\* A student leaves its own seat, also when an assert stops it there.
LEMMA RiseLeaves ==
  ASSUME IInv, NEW p \in Students,
         Rise(p) \/ (InvariantAssert(p) /\ pc[p] = "seated" /\ pc'[p] = "aborted")
  PROVE  \E seat \in Seats : Room!Leave(seat)
<1> DEFINE seat == pos[p]
<1>1. p \in Processes /\ OthersStay(p)
  BY OneMoves, Domains DEF Moves, Student, Leave, Scan
<1>2. /\ pc[p] \in {"rise", "seated"} /\ pc'[p] \in {"risen", "aborted"}
      /\ pos' = pos /\ bookAvailable' = bookAvailable
  BY Domains DEF Rise, InvariantAssert
<1>3. OnShelf' = OnShelf
  BY <1>1, <1>2, ShelfStays DEF Taking
<1>4. seat \in Seats /\ pc[p] \in OnSeat /\ pc'[p] \notin OnSeat
  BY <1>2 DEF IInv, Ranges, SeatRange, WithSeat, OnSeat
<1>5. \A q \in Students : pc[q] \in OnSeat /\ pos[q] = seat => q = p
  BY <1>4 DEF IInv, SeatOwnership
<1>6. \A q \in Students \ {p} : pc'[q] = pc[q]
  BY <1>1, Domains DEF OthersStay
<1>7. ASSUME NEW other \in Seats, NEW q \in Students
      PROVE  (pc'[q] \in OnSeat /\ pos'[q] = other)
             <=> (pc[q] \in OnSeat /\ pos[q] = other /\ other # seat)
  BY <1>2, <1>4, <1>5, <1>6
<1>8. Occupant[seat] # Nobody
  BY <1>4, Domains DEF Occupant, Nobody
<1> HIDE DEF seat
<1>9. ASSUME NEW other \in Seats
      PROVE  Occupant'[other] = IF other = seat THEN Nobody ELSE Occupant[other]
  <2>1. CASE other = seat
    BY <1>7, <2>1 DEF Occupant, Nobody
  <2>2. CASE other # seat
    BY <1>7, <2>2 DEF Occupant
  <2>3. QED
    BY <2>1, <2>2
<1>10. Occupant' = [Occupant EXCEPT ![seat] = Nobody]
  BY <1>9 DEF Occupant
<1>11. Room!Leave(seat)
  BY <1>3, <1>8, <1>10 DEF Room!Leave
<1>12. QED
  BY <1>4, <1>11

LEMMA InitImplements ==
  ASSUME Init
  PROVE  Room!Init
<1>1. ASSUME NEW b \in Books PROVE OnShelf[b] = Quantity[b]
  <2>1. Takers(b) = {}
    BY Constants, TakersAre DEF Init, Taking
  <2>2. Cardinality(Takers(b)) = 0
    BY <2>1, FS_EmptySet
  <2>3. QED
    BY <2>2, Constants DEF OnShelf, Init
<1>2. OnShelf = Quantity
  BY <1>1, Constants DEF OnShelf
<1>3. Occupant = [seat \in Seats |-> Nobody]
  BY DEF Init, Occupant, OnSeat
<1>4. QED
  BY <1>2, <1>3 DEF Room!Init

LEMMA NextImplements ==
  ASSUME IInv, [Next]_vars
  PROVE  [Room!Next]_(Room!vars)
<1>1. ASSUME UNCHANGED <<OnShelf, Occupant>> PROVE UNCHANGED Room!vars
  BY <1>1 DEF Room!vars
<1>2. ASSUME NEW p \in Students, Student(p)
      PROVE  [Room!Next]_(Room!vars)
  <2>1. CASE RequisiteDown(p)
    BY <1>1, <2>1, RequisiteLends DEF Room!Next
  <2>2. CASE TakeBook(p) \/ TakeBookStore(p)
    BY <1>1, <2>2, TakeBookQuiet, TakeBookStoreQuiet
  <2>3. CASE Occupy(p)
    BY <2>3, OccupyTakes DEF Room!Next
  <2>4. CASE Rise(p)
    BY <2>4, RiseLeaves DEF Room!Next
  <2>5. CASE InvariantAssert(p)
    <3>1. CASE pc[p] = "seated" /\ pc'[p] = "aborted"
      BY <2>5, <3>1, RiseLeaves DEF Room!Next
    <3>2. CASE ~(pc[p] = "seated" /\ pc'[p] = "aborted")
      BY <1>1, <2>5, <3>2, QuietStudent
    <3>3. QED
      BY <3>1, <3>2
  <2>6. CASE \/ ChooseBooks(p) \/ RequisiteUp(p) \/ SitDown(p) \/ PlaceBook(p) \/ PlaceBookStore(p)
             \/ LeaveTransit(p) \/ LeaveTransitStore(p) \/ SitUp(p) \/ FinishStudy(p) \/ RiseUp(p)
             \/ InvariantRead(p)
    BY <1>1, <2>6, QuietStudent
  <2>7. \/ RequisiteDown(p) \/ TakeBook(p) \/ TakeBookStore(p) \/ Occupy(p) \/ Rise(p)
        \/ ChooseBooks(p) \/ RequisiteUp(p) \/ SitDown(p) \/ PlaceBook(p) \/ PlaceBookStore(p)
        \/ LeaveTransit(p) \/ LeaveTransitStore(p) \/ SitUp(p) \/ FinishStudy(p) \/ RiseUp(p)
        \/ InvariantRead(p) \/ InvariantAssert(p)
    BY <1>2 DEF Student, Requisite, Sit, Leave, Scan
  <2>8. QED
    BY <2>1, <2>2, <2>3, <2>4, <2>5, <2>6, <2>7
<1>3. CASE CollectBooks
  <2>1. CASE PutBack
    BY <2>1, PutBackTakesBack DEF Room!Next
  <2>2. CASE ~PutBack
    <3>1. bookAvailable' = bookAvailable
      BY <1>3, <2>2 DEF CollectBooks, CollectDown, LookAtSeat, LookAtBooks, CollectFrom, ClearSeat,
                        NextSeat, CollectUp, Scan, InvariantRead, InvariantAssert
    <3>2. QED
      BY <1>1, <1>3, <3>1, QuietLibrarian
  <2>3. QED
    BY <2>1, <2>2
<1>4. CASE UNCHANGED vars
  <2>1. UNCHANGED <<bookAvailable, books, i, pc, pos>>
    BY <1>4 DEF vars
  <2>2. \A b \in Books : Takers(b)' = Takers(b)
    BY <2>1 DEF Takers, StillToTake
  <2>3. OnShelf' = OnShelf
    BY <2>1, <2>2 DEF OnShelf
  <2>4. Occupant' = Occupant
    BY <2>1 DEF Occupant
  <2>5. QED
    BY <1>1, <2>3, <2>4
<1>5. QED
  BY <1>2, <1>3, <1>4 DEF Next

(* Whatever their interleaving, the students and the librarian are a       *)
(* reading room: lists are lent as a whole under ACCESS_LIBRARY, copies    *)
(* come back one at a time, a seat is taken by one student and left by it. *)
THEOREM Implements == Spec => ImplementsReadingRoom
<1>1. Init => Room!Init
  BY InitImplements
<1>2. IInv /\ [Next]_vars => [Room!Next]_(Room!vars)
  BY NextImplements
<1>3. QED
  BY Inductive, <1>1, <1>2, PTL DEF Spec, ImplementsReadingRoom, Room!Spec
-----------------------------------------------------------------------------
(***************************************************************************)
(* No copy is lost.  The invariant that makes this so: who has no seat yet *)
(* has no number of one; and as long as the librarian has not collected    *)
(* from a taken seat, the seat it collects from is left alone by           *)
(* everybody, and the books that a student has put on its seat are there.  *)
(***************************************************************************)
Seatless == {"idle", "requisite", "take", "takeStore", "gotBooks", "noBooks", "requisited", "sit",
             "noSeat"}
AtSeat == {"collect", "putBack", "clear"}
Placers == {"place", "placeStore"}

Unseated == \A p \in Students : pc[p] \in Seatless => pos[p] = 0
Collecting == pc[Librarian] \in AtSeat => ~seatOccupied[seatNum] /\ booksInSeatAt(seatNum)
Collected ==
    pc[Librarian] \in {"putBack", "clear"} =>
       books[Librarian] = SubSeq(booksInSeat[seatNum], 1, numBooksInSeat[seatNum])
Filling(p) ==
    /\ pc[p] \in Placers => numBooksInSeat[pos[p]] = i[p] - 1
    /\ pc[p] = "placeStore" => register[p] = i[p] - 1
Undisturbed == ~disturbed => Collecting /\ Collected /\ \A p \in Students : Filling(p)

SInv == IInv /\ Unseated /\ Undisturbed /\ TitlesConserved

\* A student's step that touches no seat with books that nobody occupies.
LEMMA StudentKeeps ==
  ASSUME SInv, NEW p \in Students, OthersStay(p), disturbed' = disturbed,
         \A seat \in Seats : ~seatOccupied[seat] /\ booksInSeatAt(seat) =>
            /\ ~seatOccupied'[seat] /\ numBooksInSeat'[seat] = numBooksInSeat[seat]
            /\ booksInSeat'[seat] = booksInSeat[seat],
         \A q \in Students \ {p} : pc[q] \in Placers => numBooksInSeat'[pos[q]] = numBooksInSeat[pos[q]],
         pc'[p] \in Seatless => pos'[p] = 0,
         ~disturbed => Filling(p)'
  PROVE  Unseated' /\ Undisturbed'
<1>1. IInv /\ p \in Processes /\ p # Librarian /\ Librarian \in Processes
  BY Domains DEF SInv
<1>2. \A q \in Students \ {p} : q \in Processes
  BY <1>1, Domains
<1>3. Unseated'
  BY <1>1, <1>2 DEF SInv, Unseated, OthersStay
<1>4. ASSUME ~disturbed
      PROVE  Collecting' /\ Collected' /\ \A q \in Students : Filling(q)'
  <2>1. Collecting /\ Collected /\ \A q \in Students : Filling(q)
    BY <1>4 DEF SInv, Undisturbed
  <2>2. /\ pc'[Librarian] = pc[Librarian] /\ pos'[Librarian] = pos[Librarian]
        /\ books'[Librarian] = books[Librarian]
    BY <1>1 DEF OthersStay
  <2>3. pc[Librarian] \in AtSeat => pos[Librarian] \in Seats
    BY <1>1 DEF IInv, Ranges, WalkRange, AtSeat, Walking
  <2>4. Collecting'
    BY <2>1, <2>2, <2>3 DEF Collecting, seatNum, booksInSeatAt
  <2>5. Collected'
    BY <2>1, <2>2, <2>3 DEF Collecting, Collected, seatNum, AtSeat
  <2>6. ASSUME NEW q \in Students PROVE Filling(q)'
    <3>1. CASE q = p
      BY <1>4, <3>1
    <3>2. CASE q # p
      BY <1>2, <2>1, <3>2 DEF Filling, OthersStay, Placers
    <3>3. QED
      BY <3>1, <3>2
  <2>7. QED
    BY <2>4, <2>5, <2>6
<1>5. Undisturbed'
  BY <1>4 DEF Undisturbed
<1>6. QED
  BY <1>3, <1>5

\* The books in hands and on seats, when nobody's change.
LEMMA HandsStay ==
  ASSUME NEW p \in Processes, OthersStay(p),
         p \in Students => /\ Carried(p)' = Carried(p)
                           /\ Carried(p) = {} \/ books'[p] = books[p],
         NEW b
  PROVE  Carriers(b)' = Carriers(b)
<1>1. ASSUME NEW q \in Students
      PROVE  (\E k \in Carried(q) : books[q][k] = b)' <=> (\E k \in Carried(q) : books[q][k] = b)
  <2>1. CASE q = p
    BY <2>1
  <2>2. CASE q # p
    BY <2>2 DEF OthersStay, Carried
  <2>3. QED
    BY <2>1, <2>2
<1>2. QED
  BY <1>1 DEF Carriers

LEMMA PutBackStays ==
  ASSUME IInv, NEW p \in Processes, OthersStay(p),
         p = Librarian => pc[Librarian] \notin {"putBack", "clear"} /\ pc'[Librarian] \notin {"putBack", "clear"},
         NEW seat \in Seats
  PROVE  PutBackFrom(seat)' = PutBackFrom(seat)
<1>1. CASE p = Librarian
  BY <1>1 DEF PutBackFrom
<1>2. CASE p # Librarian
  BY <1>2, Domains DEF PutBackFrom, seatNum, OthersStay
<1>3. QED
  BY <1>1, <1>2

LEMMA TablesStay ==
  ASSUME UNCHANGED <<booksInSeat, numBooksInSeat>>,
         \A seat \in Seats : PutBackFrom(seat)' = PutBackFrom(seat),
         NEW b
  PROVE  SeatsWith(b)' = SeatsWith(b)
<1>1. \A seat \in Seats :
        (1 .. numBooksInSeat'[seat]) \ PutBackFrom(seat)' = (1 .. numBooksInSeat[seat]) \ PutBackFrom(seat)
  OBVIOUS
<1>2. \A seat \in Seats :
        (\E k \in (1 .. numBooksInSeat[seat]) \ PutBackFrom(seat) : booksInSeat[seat][k] = b)'
        <=> (\E k \in (1 .. numBooksInSeat[seat]) \ PutBackFrom(seat) : booksInSeat[seat][k] = b)
  BY <1>1
<1>3. QED
  BY <1>2 DEF SeatsWith

LEMMA StockStays ==
  ASSUME TitlesConserved, UNCHANGED bookAvailable, disturbed => disturbed',
         ~disturbed' => \A b \in Books : Carriers(b)' = Carriers(b) /\ SeatsWith(b)' = SeatsWith(b)
  PROVE  TitlesConserved'
BY DEF TitlesConserved

\* The steps of a student that move no copy.
LEMMA StudentQuiet ==
  ASSUME SInv, NEW p \in Students,
         \/ ChooseBooks(p) \/ RequisiteDown(p) \/ TakeBookStore(p) \/ RequisiteUp(p) \/ SitDown(p)
         \/ Occupy(p) \/ LeaveTransit(p) \/ LeaveTransitStore(p) \/ SitUp(p)
         \/ FinishStudy(p) \/ Rise(p) \/ RiseUp(p) \/ InvariantRead(p) \/ InvariantAssert(p)
  PROVE  Unseated' /\ Undisturbed' /\ TitlesConserved'
<1>1. IInv /\ p \in Processes /\ p # Librarian /\ OthersStay(p) /\ Librarian \in Processes
  BY OneMoves, Domains DEF SInv, Moves, Student, Requisite, Sit, Leave, Scan
<1> USE Domains
<1>2. UNCHANGED <<bookAvailable, booksInSeat, numBooksInSeat, disturbed>>
  BY DEF ChooseBooks, RequisiteDown, TakeBookStore, RequisiteUp, SitDown, Occupy, LeaveTransit,
         LeaveTransitStore, SitUp, FinishStudy, Rise, RiseUp, InvariantRead, InvariantAssert
<1>3. /\ pc[p] \in Seatless => pos[p] = 0
      /\ pc[p] \in WithSeat => pos[p] \in Seats
      /\ pc[p] \in InLoop => i[p] \in 1 .. Len(books[p])
      /\ Len(books[p]) \in Nat
  BY <1>1, LenProperties DEF SInv, Unseated, IInv, Ranges, SeatRange, LoopRange
<1>4. /\ Carried(p)' = Carried(p)
      /\ Carried(p) = {} \/ books'[p] = books[p]
      /\ pc'[p] \in Seatless => pos'[p] = 0
      /\ pc'[p] \in Placers => /\ pc[p] = "occupy" /\ pc'[p] = "place"
                              /\ i'[p] = 1 /\ pos'[p] = pos[p]
  <2> USE <1>1 DEF Seatless, Carried, Placers
  <2>1. CASE ChooseBooks(p)
    BY <1>3, <2>1 DEF ChooseBooks
  <2>2. CASE RequisiteDown(p)
    BY <1>3, <2>2 DEF RequisiteDown
  <2>3. CASE TakeBookStore(p)
    BY <1>3, <2>3 DEF TakeBookStore, InLoop
  <2>4. CASE RequisiteUp(p)
    BY <1>3, <2>4 DEF RequisiteUp
  <2>5. CASE SitDown(p)
    BY <1>3, <2>5 DEF SitDown
  <2>6. CASE Occupy(p)
    BY <2>6 DEF Occupy
  <2>7. CASE LeaveTransit(p) \/ LeaveTransitStore(p) \/ SitUp(p)
    BY <1>3, <2>7 DEF LeaveTransit, LeaveTransitStore, SitUp
  <2>8. CASE FinishStudy(p) \/ Rise(p) \/ RiseUp(p)
    BY <1>3, <2>8 DEF FinishStudy, Rise, RiseUp, WithSeat, OnSeat
  <2>9. CASE InvariantRead(p)
    BY <1>3, <2>9 DEF InvariantRead, Scanning
  <2>10. CASE InvariantAssert(p)
    <3>1. pc[p] \in Scanning /\ UNCHANGED <<books, i, pos>>
      BY <2>10 DEF InvariantAssert
    <3>2. pc'[p] \in {Resume[pc[p]], "aborted"}
      BY <2>10 DEF InvariantAssert
    <3>3. pc[p] # "cleared"
      BY DEF IInv, TypeOK, ControlTypeOK, StudentLabels, OnSeat
    <3>4. \/ pc[p] = "requisited" /\ Resume[pc[p]] = "sit" /\ pos[p] = 0
          \/ pc[p] = "seated" /\ Resume[pc[p]] = "sitUp" /\ pos[p] # 0
          \/ pc[p] = "risen" /\ Resume[pc[p]] = "riseUp" /\ pos[p] # 0
      BY <1>3, <3>1, <3>3 DEF Resume, Scanning, WithSeat, OnSeat
    <3>5. /\ pc'[p] \notin Placers /\ books'[p] = books[p]
          /\ pc'[p] \in Seatless => pos'[p] = 0
      BY <3>1, <3>2, <3>4
    <3>6. CASE pc[p] = "requisited"
      <4>1. Carried(p) = 1 .. Len(books[p])
        BY <3>6
      <4>2. Carried(p)' = 1 .. Len(books[p])
        BY <3>1, <3>2, <3>4, <3>6
      <4>3. QED
        BY <3>5, <4>1, <4>2
    <3>7. CASE pc[p] # "requisited"
      <4>1. Carried(p) = {}
        BY <3>4, <3>7
      <4>2. Carried(p)' = {}
        BY <3>1, <3>2, <3>4, <3>7
      <4>3. QED
        BY <3>5, <4>1, <4>2
    <3>8. QED
      BY <3>6, <3>7
  <2>11. QED
    BY <2>1, <2>2, <2>3, <2>4, <2>5, <2>6, <2>7, <2>8, <2>9, <2>10
<1>5. /\ numBooksInSeat \in [Seats -> Nat]
      /\ pc[p] = "occupy" => pos[p] \in Seats /\ numBooksInSeat[pos[p]] = 0
  <2>1. numBooksInSeat \in [Seats -> Nat]
    BY <1>1
  <2>2. pc[p] = "occupy" => seatFree(pos[p]) /\ pos[p] \in Seats
    BY <1>1, <1>3 DEF IInv, Choice, WithSeat
  <2>3. QED
    BY <2>1, <2>2 DEF seatFree, booksInSeatAt
<1>6. ASSUME NEW seat \in Seats, ~seatOccupied[seat], booksInSeatAt(seat)
      PROVE  ~seatOccupied'[seat]
  <2>1. CASE UNCHANGED seatOccupied
    BY <1>6, <2>1
  <2>2. CASE Occupy(p)
    BY <1>1, <1>5, <1>6, <2>2 DEF Occupy, booksInSeatAt
  <2>3. CASE Rise(p)
    BY <1>1, <1>6, <2>3 DEF Rise
  <2>4. QED
    BY <2>1, <2>2, <2>3 DEF ChooseBooks, RequisiteDown, TakeBookStore, RequisiteUp, SitDown,
       LeaveTransit, LeaveTransitStore, SitUp, FinishStudy, RiseUp, InvariantRead, InvariantAssert
<1>7. Filling(p)'
  BY <1>1, <1>2, <1>4, <1>5 DEF Filling, Placers
<1>8. Unseated' /\ Undisturbed'
  BY <1>1, <1>2, <1>4, <1>6, <1>7, StudentKeeps
<1>9. ASSUME NEW b \in Books PROVE Carriers(b)' = Carriers(b) /\ SeatsWith(b)' = SeatsWith(b)
  <2>1. Carriers(b)' = Carriers(b)
    BY <1>1, <1>4, HandsStay
  <2>2. \A seat \in Seats : PutBackFrom(seat)' = PutBackFrom(seat)
    BY <1>1, PutBackStays
  <2>3. QED
    BY <1>2, <2>1, <2>2, TablesStay
<1>10. TitlesConserved'
  BY <1>2, <1>9, StockStays DEF SInv
<1>11. QED
  BY <1>8, <1>10

\* One process more among those that carry a title, or one seat more.
LEMMA OneMore ==
  ASSUME NEW S, IsFiniteSet(S), NEW T, NEW x, x \notin S, T = S \union {x}
  PROVE  Cardinality(S) \in Nat /\ Cardinality(T) = Cardinality(S) + 1
BY FS_AddElement, FS_CardinalityType

\* The list of a student in one of its loops.
LEMMA ListInHand ==
  ASSUME IInv, NEW p \in Students, pc[p] \in InLoop
  PROVE  /\ books[p] \in Seq(Books) /\ Len(books[p]) \in Nat
         /\ i[p] \in 1 .. Len(books[p]) /\ Book(p) \in Books
         /\ \A j, k \in 1 .. Len(books[p]) : books[p][j] = books[p][k] => j = k
<1>1. pc[p] # "idle"
  BY DEF InLoop
<1>2. books[p] \in BookLists
  BY <1>1 DEF IInv, Ranges, ListRange
<1>3. QED
  BY <1>2, Domains, BookInHand, Lists, LenProperties

LEMMA TakeBookConserves ==
  ASSUME SInv, NEW p \in Students, TakeBook(p)
  PROVE  Unseated' /\ Undisturbed' /\ TitlesConserved'
<1> DEFINE b0 == Book(p)
<1>1. IInv /\ p \in Processes /\ p # Librarian /\ OthersStay(p) /\ Librarian \in Processes
  BY OneMoves, Domains DEF SInv, Moves, Student, Requisite
<1>2. /\ pc[p] = "take" /\ pc'[p] = "takeStore" /\ i'[p] = i[p] /\ books' = books
      /\ UNCHANGED <<booksInSeat, numBooksInSeat, seatOccupied, disturbed, pos>>
      /\ bookAvailable' = [bookAvailable EXCEPT ![b0] = @ - 1]
  BY <1>1, Domains DEF TakeBook
<1>3. i[p] \in 1 .. Len(books[p]) /\ b0 \in Books /\ Len(books[p]) \in Nat
      /\ \A j, k \in 1 .. Len(books[p]) : books[p][j] = books[p][k] => j = k
  BY <1>1, <1>2, ListInHand DEF InLoop
<1>4. Unseated' /\ Undisturbed'
  <2>1. pos[p] = 0
    BY <1>2 DEF SInv, Unseated, Seatless
  <2>2. Filling(p)'
    BY <1>2 DEF Filling, Placers
  <2>3. QED
    BY <1>1, <1>2, <2>1, <2>2, StudentKeeps
<1>5. ASSUME NEW b \in Books
      PROVE  SeatsWith(b)' = SeatsWith(b)
  BY <1>1, <1>2, PutBackStays, TablesStay
<1>6. ASSUME NEW b \in Books
      PROVE  /\ Carriers(b)' = IF b = b0 THEN Carriers(b) \union {p} ELSE Carriers(b)
             /\ b = b0 => p \notin Carriers(b)
  <2>1. \A q \in Students \ {p} : q \in Carriers(b)' <=> q \in Carriers(b)
    BY SMTT(30), <1>1, Domains DEF Carriers, Carried, OthersStay
  <2>2. p \in Carriers(b) <=> \E k \in 1 .. i[p] - 1 : books[p][k] = b
    BY <1>2 DEF Carriers, Carried
  <2>3. p \in Carriers(b)' <=> \E k \in 1 .. i[p] : books[p][k] = b
    BY <1>2 DEF Carriers, Carried
  <2>4. b = b0 => p \notin Carriers(b) /\ p \in Carriers(b)'
    BY <1>3, <2>2, <2>3
  <2>5. b # b0 => (p \in Carriers(b)' <=> p \in Carriers(b))
    BY <1>3, <2>2, <2>3
  <2>6. Carriers(b) \subseteq Students /\ Carriers(b)' \subseteq Students
    BY DEF Carriers
  <2> HIDE DEF b0
  <2>7. QED
    BY <2>1, <2>4, <2>5, <2>6
<1> HIDE DEF b0
<1>7. ASSUME ~disturbed, NEW b \in Books
      PROVE  bookAvailable'[b] + Cardinality(Carriers(b)') + Cardinality(SeatsWith(b)') = Quantity[b]
  <2>1. bookAvailable[b] + Cardinality(Carriers(b)) + Cardinality(SeatsWith(b)) = Quantity[b]
    BY <1>7 DEF SInv, TitlesConserved
  <2>2. bookAvailable[b] \in Nat /\ Cardinality(Carriers(b)) \in Nat /\ IsFiniteSet(Carriers(b))
        /\ Cardinality(SeatsWith(b)) \in Nat
    BY <1>1, Domains, FiniteStudents, FiniteSeats DEF Carriers, SeatsWith
  <2>3. CASE b = b0
    <3>1. Cardinality(Carriers(b)') = Cardinality(Carriers(b)) + 1
      BY <1>6, <2>2, <2>3, OneMore
    <3>2. bookAvailable'[b] = bookAvailable[b] - 1
      BY <1>1, <1>2, <2>3, Domains
    <3>3. QED
      BY <1>5, <2>1, <2>2, <3>1, <3>2
  <2>4. CASE b # b0
    <3>1. bookAvailable'[b] = bookAvailable[b]
      BY <1>1, <1>2, <2>4, Domains
    <3>2. QED
      BY <1>5, <1>6, <2>1, <2>4, <3>1
  <2>5. QED
    BY <2>3, <2>4
<1>8. TitlesConserved'
  BY <1>2, <1>7 DEF TitlesConserved
<1>9. QED
  BY <1>4, <1>8

\* A student that puts its books on its seat, and that seat.
LEMMA SeatInHand ==
  ASSUME SInv, NEW p \in Students, pc[p] \in Placers
  PROVE  /\ pos[p] \in Seats /\ seatOccupied[pos[p]]
         /\ \A q \in Students \ {p} : pc[q] \notin Placers
         /\ ~disturbed => PutBackFrom(pos[p]) = {}
<1>1. IInv /\ p \in Processes /\ Librarian \in Processes
  BY Domains DEF SInv
<1>2. pos[p] \in Seats /\ seatOccupied[pos[p]]
  BY <1>1 DEF IInv, Ranges, SeatRange, SeatOwnership, WithSeat, OnSeat, Placers
<1>3. \A q \in Students \ {p} : pc[q] \notin Placers
  BY <1>1 DEF IInv, Exclusion, Exclusive, HoldsSit, Placers
<1>4. ASSUME ~disturbed PROVE PutBackFrom(pos[p]) = {}
  BY <1>2, <1>4 DEF SInv, Undisturbed, Collecting, AtSeat, PutBackFrom
<1>5. QED
  BY <1>2, <1>3, <1>4

LEMMA PlaceBookConserves ==
  ASSUME SInv, NEW p \in Students, PlaceBook(p)
  PROVE  Unseated' /\ Undisturbed' /\ TitlesConserved'
<1> DEFINE seat == pos[p]
<1>1. IInv /\ IInv' /\ p \in Processes /\ p # Librarian /\ OthersStay(p) /\ Librarian \in Processes
  BY OneMoves, Domains, StepPlaceBook DEF SInv, Moves, Student, Sit
<1>2. /\ pc[p] = "place" /\ pc'[p] = "placeStore" /\ i'[p] = i[p] /\ books' = books /\ pos' = pos
      /\ register'[p] = numBooksInSeat[seat]
      /\ UNCHANGED <<bookAvailable, numBooksInSeat, seatOccupied, disturbed>>
      /\ \A other \in Seats \ {seat} : booksInSeat'[other] = booksInSeat[other]
  BY <1>1, Domains DEF PlaceBook
<1>3. i[p] \in Nat /\ numBooksInSeat \in [Seats -> Nat]
  BY <1>1, Domains
<1>4. seat \in Seats /\ seatOccupied[seat]
  BY <1>2, SeatInHand DEF Placers
<1>5. ~disturbed => numBooksInSeat[seat] = i[p] - 1
  BY <1>2 DEF SInv, Undisturbed, Filling, Placers
<1>6. \A k \in 1 .. i[p] - 1 : booksInSeat'[seat][k] = booksInSeat[seat][k]
  <2>1. \A k \in 1 .. i[p] - 1 : booksInSeat[seat][k] = books[p][k]
    BY <1>1, <1>2 DEF IInv, SeatLists, Placing
  <2>2. \A k \in 1 .. i[p] : booksInSeat'[seat][k] = books[p][k]
    BY <1>1, <1>2 DEF IInv, SeatLists, Placed
  <2>3. QED
    BY <1>3, <2>1, <2>2
<1>7. Unseated' /\ Undisturbed'
  <2>1. ~disturbed => Filling(p)'
    BY <1>2, <1>5 DEF Filling, Placers
  <2>2. pc'[p] \notin Seatless
    BY <1>2 DEF Seatless
  <2> HIDE DEF seat
  <2>3. \A other \in Seats : ~seatOccupied[other] /\ booksInSeatAt(other) =>
            /\ ~seatOccupied'[other] /\ numBooksInSeat'[other] = numBooksInSeat[other]
            /\ booksInSeat'[other] = booksInSeat[other]
    BY <1>2, <1>4
  <2>4. QED
    BY <1>1, <1>2, <2>1, <2>2, <2>3, StudentKeeps
<1>8. ASSUME NEW b \in Books, ~disturbed
      PROVE  Carriers(b)' = Carriers(b) /\ SeatsWith(b)' = SeatsWith(b)
  <2>1. Carriers(b)' = Carriers(b)
    <3>1. Carried(p)' = Carried(p)
      BY <1>2 DEF Carried
    <3>2. QED
      BY <1>1, <1>2, <3>1, HandsStay
  <2>2. \A other \in Seats : PutBackFrom(other)' = PutBackFrom(other)
    BY <1>1, PutBackStays
  <2>3. \A other \in Seats : \A k \in 1 .. numBooksInSeat[other] :
            booksInSeat'[other][k] = booksInSeat[other][k]
    BY <1>2, <1>3, <1>5, <1>6, <1>8
  <2>4. \A other \in Seats :
          (1 .. numBooksInSeat'[other]) \ PutBackFrom(other)'
          = (1 .. numBooksInSeat[other]) \ PutBackFrom(other)
    BY <1>2, <2>2
  <2>5. ASSUME NEW other \in Seats
        PROVE  (\E k \in (1 .. numBooksInSeat[other]) \ PutBackFrom(other) : booksInSeat[other][k] = b)'
               <=> (\E k \in (1 .. numBooksInSeat[other]) \ PutBackFrom(other) : booksInSeat[other][k] = b)
    BY <2>3, <2>4
  <2>6. SeatsWith(b)' = SeatsWith(b)
    BY <2>5 DEF SeatsWith
  <2>7. QED
    BY <2>1, <2>6
<1>9. TitlesConserved'
  BY <1>2, <1>8, StockStays DEF SInv
<1>10. QED
  BY <1>7, <1>9

LEMMA PlaceBookStoreConserves ==
  ASSUME SInv, NEW p \in Students, PlaceBookStore(p)
  PROVE  Unseated' /\ Undisturbed' /\ TitlesConserved'
<1> DEFINE seat == pos[p]
           b0 == Book(p)
<1>1. IInv /\ p \in Processes /\ p # Librarian /\ OthersStay(p) /\ Librarian \in Processes
  BY OneMoves, Domains DEF SInv, Moves, Student, Sit
<1>2. /\ pc[p] = "placeStore" /\ pc'[p] = IF i[p] = Len(books[p]) THEN "leaveTransit" ELSE "place"
      /\ i'[p] = i[p] + 1 /\ books' = books /\ pos' = pos
      /\ UNCHANGED <<bookAvailable, booksInSeat, seatOccupied, disturbed>>
      /\ numBooksInSeat' = [numBooksInSeat EXCEPT ![seat] = register[p] + 1]
  BY <1>1, Domains DEF PlaceBookStore
<1>3. /\ i[p] \in 1 .. Len(books[p]) /\ b0 \in Books /\ Len(books[p]) \in Nat
      /\ \A j, k \in 1 .. Len(books[p]) : books[p][j] = books[p][k] => j = k
      /\ numBooksInSeat \in [Seats -> Nat]
  BY <1>1, <1>2, ListInHand, Domains DEF InLoop
<1>4. /\ seat \in Seats /\ seatOccupied[seat]
      /\ \A q \in Students \ {p} : pc[q] \notin Placers
      /\ ~disturbed => PutBackFrom(seat) = {}
  BY <1>2, SeatInHand DEF Placers
<1>5. ~disturbed => numBooksInSeat[seat] = i[p] - 1 /\ numBooksInSeat'[seat] = i[p]
  BY <1>2, <1>3, <1>4 DEF SInv, Undisturbed, Filling, Placers
<1>6. \A k \in 1 .. i[p] : booksInSeat[seat][k] = books[p][k]
  BY <1>1, <1>2 DEF IInv, SeatLists, Placed
<1>7. Unseated' /\ Undisturbed'
  <2>1. ~disturbed => Filling(p)'
    BY <1>2, <1>3, <1>5 DEF Filling, Placers
  <2>2. pc'[p] \notin Seatless
    BY <1>2 DEF Seatless
  <2> HIDE DEF seat
  <2>3. \A other \in Seats : ~seatOccupied[other] /\ booksInSeatAt(other) =>
            /\ ~seatOccupied'[other] /\ numBooksInSeat'[other] = numBooksInSeat[other]
            /\ booksInSeat'[other] = booksInSeat[other]
    BY <1>2, <1>3, <1>4
  <2>4. QED
    BY <1>1, <1>2, <1>4, <2>1, <2>2, <2>3, StudentKeeps
<1>8. ASSUME NEW b \in Books, ~disturbed
      PROVE  /\ Carriers(b) = IF b = b0 THEN Carriers(b)' \union {p} ELSE Carriers(b)'
             /\ b = b0 => p \notin Carriers(b)'
  <2>1. \A q \in Students \ {p} : q \in Carriers(b)' <=> q \in Carriers(b)
    BY SMTT(30), <1>1, Domains DEF Carriers, Carried, OthersStay
  <2>2. p \in Carriers(b) <=> \E k \in i[p] .. Len(books[p]) : books[p][k] = b
    BY <1>2 DEF Carriers, Carried
  <2>3. p \in Carriers(b)' <=> \E k \in i[p] + 1 .. Len(books[p]) : books[p][k] = b
    <3>1. CASE i[p] = Len(books[p])
      BY <1>2, <1>3, <3>1 DEF Carriers, Carried
    <3>2. CASE i[p] # Len(books[p])
      BY <1>2, <3>2 DEF Carriers, Carried
    <3>3. QED
      BY <3>1, <3>2
  <2>4. b = b0 => p \in Carriers(b) /\ p \notin Carriers(b)'
    BY <1>3, <2>2, <2>3
  <2>5. b # b0 => (p \in Carriers(b)' <=> p \in Carriers(b))
    BY <1>3, <2>2, <2>3
  <2>6. Carriers(b) \subseteq Students /\ Carriers(b)' \subseteq Students
    BY DEF Carriers
  <2> HIDE DEF b0
  <2>7. QED
    BY <2>1, <2>4, <2>5, <2>6
<1>9. ASSUME NEW b \in Books, ~disturbed
      PROVE  /\ SeatsWith(b)' = IF b = b0 THEN SeatsWith(b) \union {seat} ELSE SeatsWith(b)
             /\ b = b0 => seat \notin SeatsWith(b)
  <2>0. PICK s0 \in Seats : s0 = seat
    BY <1>4
  <2>1. \A other \in Seats : PutBackFrom(other)' = PutBackFrom(other)
    BY <1>1, PutBackStays
  <2>2. PutBackFrom(s0) = {} /\ PutBackFrom(s0)' = {}
    BY <1>4, <1>9, <2>0, <2>1
  <2>3. ASSUME NEW other \in Seats \ {s0}
        PROVE  other \in SeatsWith(b)' <=> other \in SeatsWith(b)
    <3>1. (1 .. numBooksInSeat'[other]) \ PutBackFrom(other)'
          = (1 .. numBooksInSeat[other]) \ PutBackFrom(other)
      BY <1>2, <1>3, <2>0, <2>1
    <3>2. (\E k \in (1 .. numBooksInSeat[other]) \ PutBackFrom(other) : booksInSeat[other][k] = b)'
          <=> (\E k \in (1 .. numBooksInSeat[other]) \ PutBackFrom(other) : booksInSeat[other][k] = b)
      BY <1>2, <3>1
    <3>3. QED
      BY <3>2 DEF SeatsWith
  <2>4. s0 \in SeatsWith(b) <=> \E k \in 1 .. i[p] - 1 : books[p][k] = b
    <3>1. (1 .. numBooksInSeat[s0]) \ PutBackFrom(s0) = 1 .. i[p] - 1
      BY <1>3, <1>5, <1>9, <2>0, <2>2
    <3>2. \A k \in 1 .. i[p] - 1 : booksInSeat[s0][k] = books[p][k]
      BY <1>3, <1>6, <2>0
    <3>3. QED
      BY <1>4, <2>0, <3>1, <3>2 DEF SeatsWith
  <2>5. s0 \in SeatsWith(b)' <=> \E k \in 1 .. i[p] : books[p][k] = b
    <3>1. (1 .. numBooksInSeat'[s0]) \ PutBackFrom(s0)' = 1 .. i[p]
      BY <1>3, <1>5, <1>9, <2>0, <2>2
    <3>2. QED
      BY <1>2, <1>4, <1>6, <2>0, <3>1 DEF SeatsWith
  <2>6. b = b0 => s0 \notin SeatsWith(b) /\ s0 \in SeatsWith(b)'
    BY <1>3, <2>4, <2>5
  <2>7. b # b0 => (s0 \in SeatsWith(b)' <=> s0 \in SeatsWith(b))
    BY <1>3, <2>4, <2>5
  <2>8. SeatsWith(b) \subseteq Seats /\ SeatsWith(b)' \subseteq Seats
    BY DEF SeatsWith
  <2> HIDE DEF b0, seat
  <2>9. QED
    BY <2>0, <2>3, <2>6, <2>7, <2>8
<1> HIDE DEF b0, seat
<1>10. ASSUME ~disturbed, NEW b \in Books
       PROVE  bookAvailable'[b] + Cardinality(Carriers(b)') + Cardinality(SeatsWith(b)') = Quantity[b]
  <2>1. bookAvailable[b] + Cardinality(Carriers(b)) + Cardinality(SeatsWith(b)) = Quantity[b]
    BY <1>10 DEF SInv, TitlesConserved
  <2>2. /\ bookAvailable[b] \in Nat /\ Cardinality(SeatsWith(b)) \in Nat /\ IsFiniteSet(SeatsWith(b))
        /\ Cardinality(Carriers(b)') \in Nat /\ IsFiniteSet(Carriers(b)')
    BY <1>1, Domains, FiniteStudents, FiniteSeats DEF Carriers, SeatsWith
  <2>3. CASE b = b0
    <3>1. Cardinality(Carriers(b)) = Cardinality(Carriers(b)') + 1
      BY <1>8, <1>10, <2>2, <2>3, OneMore
    <3>2. Cardinality(SeatsWith(b)') = Cardinality(SeatsWith(b)) + 1
      BY <1>9, <1>10, <2>2, <2>3, OneMore
    <3>3. QED
      BY <1>2, <2>1, <2>2, <3>1, <3>2
  <2>4. CASE b # b0
    BY <1>2, <1>8, <1>9, <1>10, <2>1, <2>4
  <2>5. QED
    BY <2>3, <2>4
<1>11. TitlesConserved'
  BY <1>2, <1>10 DEF TitlesConserved
<1>12. QED
  BY <1>7, <1>11
-----------------------------------------------------------------------------
(* The librarian. *)

LEMMA LibrarianKeeps ==
  ASSUME SInv, OthersStay(Librarian), disturbed => disturbed',
         ~disturbed' => /\ Collecting' /\ Collected'
                        /\ \A q \in Students : pc[q] \in Placers => numBooksInSeat'[pos[q]] = numBooksInSeat[pos[q]]
  PROVE  Unseated' /\ Undisturbed'
<1>1. \A q \in Students : q \in Processes \ {Librarian}
  BY Domains DEF SInv
<1>2. Unseated'
  BY <1>1 DEF SInv, Unseated, OthersStay
<1>3. ASSUME ~disturbed', NEW q \in Students PROVE Filling(q)'
  <2>1. Filling(q)
    BY <1>3 DEF SInv, Undisturbed
  <2>2. QED
    BY <1>1, <1>3, <2>1 DEF Filling, OthersStay, Placers
<1>4. QED
  BY <1>2, <1>3 DEF Undisturbed

\* Its steps that move no copy: when it notes what it has found, nothing is put back yet.
LEMMA LibrarianQuiet ==
  ASSUME SInv,
         CollectDown \/ LookAtSeat \/ LookAtBooks \/ CollectFrom \/ NextSeat \/ CollectUp \/ Scan(Librarian)
  PROVE  Unseated' /\ Undisturbed' /\ TitlesConserved'
<1>1. IInv /\ OthersStay(Librarian) /\ Librarian \in Processes
  BY OneMoves, Domains DEF SInv, Moves, CollectBooks
<1> USE Domains
<1>2. UNCHANGED <<bookAvailable, seatOccupied, booksInSeat, numBooksInSeat>> /\ (disturbed => disturbed')
  <2>1. CASE CollectDown \/ LookAtSeat
    BY <2>1 DEF CollectDown, LookAtSeat
  <2>2. CASE LookAtBooks
    BY <2>2 DEF LookAtBooks
  <2>3. CASE CollectFrom
    BY <2>3 DEF CollectFrom
  <2>4. CASE NextSeat \/ CollectUp
    BY <2>4 DEF NextSeat, CollectUp
  <2>5. CASE Scan(Librarian)
    BY <2>5 DEF Scan, InvariantRead, InvariantAssert
  <2>6. QED
    BY <2>1, <2>2, <2>3, <2>4, <2>5
<1>3. /\ pc[Librarian] \notin {"putBack", "clear"} /\ pc'[Librarian] # "clear"
      /\ pc'[Librarian] \in AtSeat => pos'[Librarian] = pos[Librarian]
      /\ pc'[Librarian] = "putBack" =>
            /\ pc[Librarian] = "collect" /\ i'[Librarian] = 1 /\ UNCHANGED disturbed
            /\ books'[Librarian] = SubSeq(booksInSeat[seatNum], 1, numBooksInSeat[seatNum])
      /\ pc'[Librarian] = "collect" =>
            disturbed' = (disturbed \/ (booksInSeatAt(seatNum) /\ seatOccupied[seatNum])) /\ booksInSeatAt(seatNum)
  <2> USE <1>1 DEF AtSeat
  <2>1. CASE CollectDown \/ LookAtSeat
    BY <2>1 DEF CollectDown, LookAtSeat
  <2>2. CASE LookAtBooks
    BY <2>2 DEF LookAtBooks
  <2>3. CASE CollectFrom
    BY <2>3 DEF CollectFrom
  <2>4. CASE NextSeat \/ CollectUp
    BY <2>4 DEF NextSeat, CollectUp
  <2>5. CASE InvariantRead(Librarian)
    BY <2>5 DEF InvariantRead, Scanning
  <2>6. CASE InvariantAssert(Librarian)
    <3>1. pc[Librarian] \in Scanning
      BY <2>6 DEF InvariantAssert
    <3>2. pc'[Librarian] \in {Resume[pc[Librarian]], "aborted"}
      BY <2>6 DEF InvariantAssert
    <3>3. Resume[pc[Librarian]] \in {"sit", "sitUp", "riseUp", "nextSeat"}
      BY <3>1 DEF Resume, Scanning
    <3>4. QED
      BY <3>1, <3>2, <3>3 DEF Scanning
  <2>7. QED
    BY <2>1, <2>2, <2>3, <2>4, <2>5, <2>6 DEF Scan
<1>4. ASSUME ~disturbed' PROVE Collecting' /\ Collected'
  <2>1. ~disturbed /\ Collecting
    BY <1>2, <1>4 DEF SInv, Undisturbed
  <2>2. Collecting'
    BY <1>2, <1>3, <1>4, <2>1 DEF Collecting, AtSeat, seatNum, booksInSeatAt
  <2>3. Collected'
    BY <1>2, <1>3 DEF Collected, AtSeat, seatNum
  <2>4. QED
    BY <2>2, <2>3
<1>5. Unseated' /\ Undisturbed'
  BY <1>1, <1>2, <1>4, LibrarianKeeps
<1>6. ASSUME NEW b \in Books PROVE Carriers(b)' = Carriers(b) /\ SeatsWith(b)' = SeatsWith(b)
  <2>1. Carriers(b)' = Carriers(b)
    BY <1>1, HandsStay, Constants
  <2>2. \A seat \in Seats : PutBackFrom(seat) = {} /\ PutBackFrom(seat)' = {}
    BY <1>3 DEF PutBackFrom
  <2>3. QED
    BY <1>2, <2>1, <2>2, TablesStay
<1>7. TitlesConserved'
  BY <1>2, <1>6, StockStays DEF SInv
<1>8. QED
  BY <1>5, <1>7

\* The seat the librarian is collecting from.
LEMMA SeatCollected ==
  ASSUME SInv, ~disturbed, pc[Librarian] \in {"putBack", "clear"}
  PROVE  /\ seatNum \in Seats /\ ~seatOccupied[seatNum]
         /\ Len(books[Librarian]) = numBooksInSeat[seatNum]
         /\ \A k \in 1 .. numBooksInSeat[seatNum] : books[Librarian][k] = booksInSeat[seatNum][k]
         /\ \A j, k \in 1 .. numBooksInSeat[seatNum] :
               booksInSeat[seatNum][j] = booksInSeat[seatNum][k] => j = k
<1> DEFINE arr == booksInSeat[seatNum]
           n   == numBooksInSeat[seatNum]
<1>1. IInv /\ Collecting /\ Collected
  BY DEF SInv, Undisturbed
<1>2. seatNum \in Seats /\ ~seatOccupied[seatNum]
  BY <1>1 DEF IInv, Ranges, WalkRange, Walking, Collecting, AtSeat, seatNum
<1>3. arr \in Seq(Books) /\ n \in Nat
  BY <1>1, <1>2, Domains
<1>4. IsInjective(arr) /\ n <= Len(arr) /\ Len(arr) \in Nat
  BY <1>1, <1>2, <1>3, LenProperties DEF IInv, SeatLists, Arrays
<1>5. n \in 0 .. Len(arr)
  BY <1>3, <1>4
<1>6. books[Librarian] = SubSeq(arr, 1, n)
  BY <1>1 DEF Collected
<1> HIDE DEF arr, n
<1>7. Len(books[Librarian]) = n /\ \A k \in 1 .. n : books[Librarian][k] = arr[k]
  BY <1>3, <1>5, <1>6, Prefix
<1>8. \A j, k \in 1 .. n : arr[j] = arr[k] => j = k
  <2>1. DOMAIN arr = 1 .. Len(arr)
    BY <1>3, LenProperties
  <2>2. QED
    BY <1>4, <1>5, <2>1 DEF IsInjective
<1>9. QED
  BY <1>2, <1>7, <1>8 DEF arr, n

LEMMA PutBackConserves ==
  ASSUME SInv, PutBack
  PROVE  Unseated' /\ Undisturbed' /\ TitlesConserved'
<1> DEFINE b0 == Book(Librarian)
           arr == booksInSeat[seatNum]
           n   == numBooksInSeat[seatNum]
           j   == i[Librarian]
<1>1. IInv /\ OthersStay(Librarian) /\ Librarian \in Processes
  BY OneMoves, Domains DEF SInv, Moves, CollectBooks
<1>2. /\ pc[Librarian] = "putBack"
      /\ pc'[Librarian] = IF i[Librarian] = Len(books[Librarian]) THEN "clear" ELSE "putBack"
      /\ i'[Librarian] = i[Librarian] + 1 /\ books' = books /\ pos' = pos
      /\ UNCHANGED <<booksInSeat, numBooksInSeat, seatOccupied, disturbed>>
      /\ bookAvailable' = [bookAvailable EXCEPT ![b0] = @ + 1]
  BY <1>1, Domains DEF PutBack
<1>3. j \in 1 .. Len(books[Librarian]) /\ b0 \in Books
  BY <1>1, <1>2, BookInHand DEF InLoop
<1>4. Unseated' /\ Undisturbed'
  <2>1. ASSUME ~disturbed PROVE Collecting' /\ Collected'
    <3>1. Collecting /\ Collected
      BY <2>1 DEF SInv, Undisturbed
    <3>2. QED
      BY <1>2, <3>1 DEF Collecting, Collected, AtSeat, seatNum, booksInSeatAt
  <2>2. QED
    BY <1>1, <1>2, <2>1, LibrarianKeeps
<1>5. ASSUME NEW b \in Books PROVE Carriers(b)' = Carriers(b)
  BY <1>1, HandsStay, Constants
<1>6. ASSUME NEW b \in Books, ~disturbed
      PROVE  \E s0 \in Seats : /\ SeatsWith(b) = IF b = b0 THEN SeatsWith(b)' \union {s0} ELSE SeatsWith(b)'
                               /\ b = b0 => s0 \notin SeatsWith(b)'
  <2>1. PICK s0 \in Seats : s0 = seatNum
    BY <1>2, <1>6, SeatCollected
  <2>2. /\ Len(books[Librarian]) = numBooksInSeat[s0] /\ numBooksInSeat[s0] \in Nat
        /\ booksInSeat[s0][j] = b0 /\ j \in 1 .. numBooksInSeat[s0]
        /\ \A h, k \in 1 .. numBooksInSeat[s0] : booksInSeat[s0][h] = booksInSeat[s0][k] => h = k
    BY <1>1, <1>2, <1>3, <1>6, <2>1, SeatCollected, Domains
  <2>3. PutBackFrom(s0) = 1 .. j - 1
    BY <1>2, <2>1 DEF PutBackFrom
  <2>4. PutBackFrom(s0)' = 1 .. j
    <3>1. seatNum' = s0
      BY <1>2, <2>1 DEF seatNum
    <3>2. CASE j = Len(books[Librarian])
      BY <1>2, <3>1, <3>2 DEF PutBackFrom
    <3>3. CASE j # Len(books[Librarian])
      BY <1>2, <2>2, <3>1, <3>3 DEF PutBackFrom
    <3>4. QED
      BY <3>2, <3>3
  <2>5. \A other \in Seats \ {s0} : PutBackFrom(other) = {} /\ PutBackFrom(other)' = {}
    BY <1>2, <2>1 DEF PutBackFrom, seatNum
  <2>6. ASSUME NEW other \in Seats \ {s0}
        PROVE  other \in SeatsWith(b)' <=> other \in SeatsWith(b)
    BY <1>2, <2>5 DEF SeatsWith
  <2>7. s0 \in SeatsWith(b) <=> \E k \in j .. numBooksInSeat[s0] : booksInSeat[s0][k] = b
    <3>1. (1 .. numBooksInSeat[s0]) \ PutBackFrom(s0) = j .. numBooksInSeat[s0]
      BY <2>2, <2>3
    <3>2. QED
      BY <3>1 DEF SeatsWith
  <2>8. s0 \in SeatsWith(b)' <=> \E k \in j + 1 .. numBooksInSeat[s0] : booksInSeat[s0][k] = b
    <3>1. (1 .. numBooksInSeat'[s0]) \ PutBackFrom(s0)' = j + 1 .. numBooksInSeat[s0]
      BY <1>2, <2>2, <2>4
    <3>2. QED
      BY <1>2, <3>1 DEF SeatsWith
  <2> HIDE DEF j, b0
  <2>9. b = b0 => s0 \notin SeatsWith(b)' /\ s0 \in SeatsWith(b)
    BY <2>2, <2>7, <2>8
  <2>10. b # b0 => (s0 \in SeatsWith(b)' <=> s0 \in SeatsWith(b))
    BY <2>2, <2>7, <2>8
  <2>11. SeatsWith(b) \subseteq Seats /\ SeatsWith(b)' \subseteq Seats
    BY DEF SeatsWith
  <2>12. QED
    BY <2>6, <2>9, <2>10, <2>11
<1> HIDE DEF b0
<1>7. ASSUME ~disturbed, NEW b \in Books
      PROVE  bookAvailable'[b] + Cardinality(Carriers(b)') + Cardinality(SeatsWith(b)') = Quantity[b]
  <2>1. bookAvailable[b] + Cardinality(Carriers(b)) + Cardinality(SeatsWith(b)) = Quantity[b]
    BY <1>7 DEF SInv, TitlesConserved
  <2>2. /\ bookAvailable[b] \in Nat /\ Cardinality(Carriers(b)) \in Nat
        /\ Cardinality(SeatsWith(b)') \in Nat /\ IsFiniteSet(SeatsWith(b)')
    BY <1>1, Domains, FiniteStudents, FiniteSeats DEF Carriers, SeatsWith
  <2>3. CASE b = b0
    <3>1. Cardinality(SeatsWith(b)) = Cardinality(SeatsWith(b)') + 1
      BY <1>6, <1>7, <2>2, <2>3, OneMore
    <3>2. bookAvailable'[b] = bookAvailable[b] + 1
      BY <1>1, <1>2, <2>3, Domains
    <3>3. QED
      BY <1>5, <2>1, <2>2, <3>1, <3>2
  <2>4. CASE b # b0
    <3>1. bookAvailable'[b] = bookAvailable[b]
      BY <1>1, <1>2, <2>4, Domains
    <3>2. QED
      BY <1>5, <1>6, <1>7, <2>1, <2>4, <3>1
  <2>5. QED
    BY <2>3, <2>4
<1>8. TitlesConserved'
  BY <1>2, <1>7 DEF TitlesConserved
<1>9. QED
  BY <1>4, <1>8

\* When the seat is cleared, all that was there has been put back.
LEMMA ClearSeatConserves ==
  ASSUME SInv, ClearSeat
  PROVE  Unseated' /\ Undisturbed' /\ TitlesConserved'
<1>1. IInv /\ OthersStay(Librarian) /\ Librarian \in Processes
  BY OneMoves, Domains DEF SInv, Moves, CollectBooks
<1>2. /\ pc[Librarian] = "clear" /\ pc'[Librarian] = "cleared" /\ pos' = pos
      /\ UNCHANGED <<bookAvailable, booksInSeat, seatOccupied, disturbed>>
      /\ numBooksInSeat' = [numBooksInSeat EXCEPT ![seatNum] = 0]
  BY <1>1, Domains DEF ClearSeat
<1>3. numBooksInSeat \in [Seats -> Nat]
  BY <1>1, Domains
<1>4. Unseated' /\ Undisturbed'
  <2>1. ASSUME ~disturbed, NEW q \in Students, pc[q] \in Placers
        PROVE  numBooksInSeat'[pos[q]] = numBooksInSeat[pos[q]]
    <3>1. pos[q] # seatNum /\ pos[q] \in Seats
      BY <1>2, <2>1, SeatInHand, SeatCollected
    <3>2. QED
      BY <1>2, <1>3, <3>1
  <2>2. Collecting' /\ Collected'
    BY <1>2 DEF Collecting, Collected, AtSeat
  <2>3. QED
    BY <1>1, <1>2, <2>1, <2>2, LibrarianKeeps
<1>5. ASSUME NEW b \in Books PROVE Carriers(b)' = Carriers(b)
  BY <1>1, HandsStay, Constants
<1>6. ASSUME NEW b \in Books, ~disturbed PROVE SeatsWith(b)' = SeatsWith(b)
  <2>1. seatNum \in Seats /\ Len(books[Librarian]) = numBooksInSeat[seatNum]
    BY <1>2, <1>6, SeatCollected
  <2>2. ASSUME NEW seat \in Seats
        PROVE  seat \in SeatsWith(b)' <=> seat \in SeatsWith(b)
    <3>1. PutBackFrom(seat) = IF seat = seatNum THEN 1 .. numBooksInSeat[seat] ELSE {}
      BY <1>2, <2>1 DEF PutBackFrom
    <3>2. PutBackFrom(seat)' = {}
      BY <1>2 DEF PutBackFrom
    <3>3. CASE seat = seatNum
      <4>1. numBooksInSeat'[seat] = 0
        BY <1>2, <1>3, <3>3
      <4>2. seat \notin SeatsWith(b)'
        BY <4>1 DEF SeatsWith
      <4>3. seat \notin SeatsWith(b)
        BY <3>1, <3>3 DEF SeatsWith
      <4>4. QED
        BY <4>2, <4>3
    <3>4. CASE seat # seatNum
      BY <1>2, <1>3, <3>1, <3>2, <3>4 DEF SeatsWith
    <3>5. QED
      BY <3>3, <3>4
  <2>3. SeatsWith(b) \subseteq Seats /\ SeatsWith(b)' \subseteq Seats
    BY DEF SeatsWith
  <2>4. QED
    BY <2>2, <2>3
<1>7. TitlesConserved'
  BY <1>2, <1>5, <1>6, StockStays DEF SInv
<1>8. QED
  BY <1>4, <1>7

LEMMA SInvInit ==
  ASSUME Init
  PROVE  SInv
<1>1. Unseated /\ Undisturbed
  BY Constants DEF Init, Unseated, Undisturbed, Collecting, Collected, Filling, AtSeat, Placers
<1>2. ASSUME NEW b \in Books
      PROVE  bookAvailable[b] + Cardinality(Carriers(b)) + Cardinality(SeatsWith(b)) = Quantity[b]
  <2>1. Carriers(b) = {}
    BY Constants DEF Init, Carriers, Carried
  <2>2. SeatsWith(b) = {}
    BY DEF Init, SeatsWith
  <2>3. Cardinality(Carriers(b)) = 0 /\ Cardinality(SeatsWith(b)) = 0
    BY <2>1, <2>2, FS_EmptySet
  <2>4. QED
    BY <2>3, Constants DEF Init
<1>3. QED
  BY <1>1, <1>2, InitIInv DEF SInv, TitlesConserved

LEMMA SInvNext ==
  ASSUME SInv, [Next]_vars
  PROVE  SInv'
<1>1. IInv'
  BY NextIInv DEF SInv
<1>2. ASSUME NEW p \in Students, Student(p)
      PROVE  Unseated' /\ Undisturbed' /\ TitlesConserved'
  <2>1. \/ TakeBook(p) \/ PlaceBook(p) \/ PlaceBookStore(p)
        \/ ChooseBooks(p) \/ RequisiteDown(p) \/ TakeBookStore(p) \/ RequisiteUp(p) \/ SitDown(p)
        \/ Occupy(p) \/ LeaveTransit(p) \/ LeaveTransitStore(p) \/ SitUp(p)
        \/ FinishStudy(p) \/ Rise(p) \/ RiseUp(p) \/ InvariantRead(p) \/ InvariantAssert(p)
    BY <1>2 DEF Student, Requisite, Sit, Leave, Scan
  <2>2. QED
    BY <2>1, TakeBookConserves, PlaceBookConserves, PlaceBookStoreConserves, StudentQuiet
<1>3. ASSUME CollectBooks PROVE Unseated' /\ Undisturbed' /\ TitlesConserved'
  <2>1. \/ CollectDown \/ LookAtSeat \/ LookAtBooks \/ CollectFrom \/ NextSeat \/ CollectUp
           \/ Scan(Librarian)
        \/ PutBack \/ ClearSeat
    BY <1>3 DEF CollectBooks
  <2>2. CASE \/ CollectDown \/ LookAtSeat \/ LookAtBooks \/ CollectFrom \/ NextSeat \/ CollectUp
             \/ Scan(Librarian)
    BY <2>2, LibrarianQuiet
  <2>3. CASE PutBack
    BY <2>3, PutBackConserves
  <2>4. CASE ClearSeat
    BY <2>4, ClearSeatConserves
  <2>5. QED
    BY <2>1, <2>2, <2>3, <2>4
<1>4. ASSUME UNCHANGED vars PROVE Unseated' /\ Undisturbed' /\ TitlesConserved'
  <2>1. UNCHANGED <<bookAvailable, booksInSeat, numBooksInSeat, seatOccupied, pc, books, i, register,
                    pos, disturbed>>
    BY <1>4 DEF vars
  <2>2. Unseated' /\ Undisturbed'
    BY <2>1 DEF SInv, Unseated, Undisturbed, Collecting, Collected, Filling, seatNum, booksInSeatAt
  <2>3. \A b \in Books : Carriers(b)' = Carriers(b) /\ SeatsWith(b)' = SeatsWith(b)
    <3>1. \A q \in Students : Carried(q)' = Carried(q)
      BY <2>1 DEF Carried
    <3>2. \A seat \in Seats : PutBackFrom(seat)' = PutBackFrom(seat)
      BY <2>1 DEF PutBackFrom, seatNum
    <3>3. \A b \in Books : Carriers(b)' = Carriers(b)
      BY <2>1, <3>1 DEF Carriers
    <3>4. \A b \in Books : SeatsWith(b)' = SeatsWith(b)
      BY <2>1, <3>2, TablesStay
    <3>5. QED
      BY <3>3, <3>4
  <2>4. QED
    BY <2>1, <2>2, <2>3, StockStays DEF SInv
<1>5. Unseated' /\ Undisturbed' /\ TitlesConserved'
  BY <1>2, <1>3, <1>4 DEF Next
<1>6. QED
  BY <1>1, <1>5 DEF SInv

(* What makes the shelf and the tables add up holds in every state.        *)
THEOREM StockInductive == Spec => []SInv
BY SInvInit, SInvNext, PTL DEF Spec

(* As long as the librarian has not collected from a taken seat, every     *)
(* copy of every title is on the shelf, carried by a student or on a seat: *)
(* requisiteBooksFromLibrary, sit and returnBooks lose and invent none.    *)
THEOREM NothingLost == Spec => []TitlesConserved
<1>1. SInv => TitlesConserved
  BY DEF SInv
<1>2. QED
  BY StockInductive, <1>1, PTL
=============================================================================
