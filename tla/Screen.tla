------------------------------- MODULE Screen -------------------------------
(***************************************************************************)
(* What the simulation shows: where initSimulation puts everything on the  *)
(* screen (simulation.cpp, library.cpp, librarian.cpp, all-courses.cpp,    *)
(* logger.cpp), and what is shown of the student of module Studies         *)
(* (student.cpp: toStringStudent; logger.cpp: printEvent).  In window mode *)
(* each text is written over the one before it and nothing is ever         *)
(* cleared, in line mode it becomes a line of its own.                     *)
(*                                                                         *)
(* A text is here the widths of its lines.  A symbol takes two columns, as *)
(* the ones of global.h are meant to.  Of the three lines of the student's *)
(* box, all as wide as one another, row is the one in the middle: a field  *)
(* for the state, one for the courses, and then one for every column.      *)
(***************************************************************************)
EXTENDS Studies, SequencesExt

CONSTANTS
    MAX_NAME_SIZE,      \* of a student
    CourseNameSize      \* bound: all names of courses are as long

VARIABLES
    lineMode,   \* the mode
    row,        \* window mode: the student's box
    printed     \* line mode: the last line printed for the student
shownVars == <<row, printed>>
screenVars == <<vars, lineMode, shownVars>>

Longest(text) == Max({text[l] : l \in DOMAIN text})

---------------------------------------------------------------------------
(* The texts of the library.                                               *)

(* A box with cells for n books, as utf8HorizontalLine and the loops over  *)
(* the books draw it: even the box of no book has its corners.             *)
Copies(n) == IF n > 99 THEN 3 ELSE 2    \* intToString(.., 2)
BooksLine(n) == n * (2 + 1 + Copies(global.MAX_BOOK_COPIES) + 1) + 1
Frame(n) == IF n = 0 THEN 2 ELSE 6 * n + 1

toStringBookShelfs ==
    LET half == global.NUM_BOOKS \div 2
        other == global.NUM_BOOKS - half
    IN <<8, Frame(half), BooksLine(half), Frame(half), 0, 0,
         Frame(other), BooksLine(other), Frame(other)>>

(* Mutant: the lower shelf is taken to be as long as the upper one.        *)
LengthOfHalf == Max({8, (global.NUM_BOOKS \div 2) * 6 + 1})

lengthBookShelf == Max({8, ((global.NUM_BOOKS + 1) \div 2) * 6 + 1})

lengthTable == (global.NUM_SEATS_PER_TABLE \div 2) * 3 + 1
lengthAllTables == global.NUM_TABLES * lengthTable + (global.NUM_TABLES - 1) * 2

(* Seats above, the table with two lines of places for books, seats below. *)
toStringTables == [l \in 1..6 |-> lengthAllTables]

numSeats == global.NUM_TABLES * global.NUM_SEATS_PER_TABLE

(* The seat drawn at position s of one side of table t, and the place for  *)
(* its books.                                                              *)
SeatDrawn(side, t, s) ==
    (side * global.NUM_TABLES * global.NUM_SEATS_PER_TABLE) \div 2
        + t * (global.NUM_SEATS_PER_TABLE \div 2) + s

Positions == {0, 1} \X (0..global.NUM_TABLES - 1) \X (0..(global.NUM_SEATS_PER_TABLE \div 2) - 1)

---------------------------------------------------------------------------
(* The other texts, and where they are.                                    *)

lengthLibrarian == 4 + 12 * 2 + 11
toStringLibrarian == <<10, 2 + 11 + 11 + 10 + 5, 2 + 11 + 11 + 10 + 5, 2 + 11 + 11 + 10 + 5>>

CoursesLine == FoldLeft(LAMBDA w, c : w + 1 + CourseNameSize + 3 * Len(c) + 1, 0, courses)
toStringAllCourses == <<8, CoursesLine, CoursesLine, CoursesLine>>

Padding == global.MAX_BOOKS_PER_COURSE * 3 + 1
BooksLength(n) == IF n = 0 THEN 0 ELSE 3 * n + 1
StudentLine ==
    (MAX_NAME_SIZE + 5) + (Cardinality(mine) * (CourseNameSize + 6) + 1)
        + BooksLength(global.MAX_BOOKS_PER_COURSE) + Padding

registerLogger(line, column, text) ==
    [line |-> line, column |-> column, lines |-> Len(text), columns |-> Longest(text)]

initLibrary ==
    <<registerLogger(0, 0, toStringBookShelfs),
      registerLogger(2, lengthBookShelf + 2, toStringTables)>>

(* numLinesLibrary is 9; the librarian is registered with 4 lines, each    *)
(* student with 3.                                                         *)
initSimulation ==
    LET line == 1 + 9
    IN initLibrary
       \o <<registerLogger(line, 0, toStringLibrarian),
            registerLogger(line, lengthLibrarian + 1, toStringAllCourses),
            registerLogger(line + 4 + 1, 0, <<9>>)>>
       \o [i \in 1..global.NUM_STUDENTS |->
               registerLogger(line + 4 + 1 + 1 + 3 * (i - 1), 0, <<StudentLine, StudentLine, StudentLine>>)]

---------------------------------------------------------------------------
(* The student's box.                                                      *)

NoPercentage == -1      \* " -- "

Percentage(c) ==
    CASE concludedCourses[c] = 1 -> 100
      [] concludedCourses[c] = 0 /\ c = actualCourse -> completionPercentage
      [] OTHER -> NoPercentage

Fields(face) == <<face, [c \in mine |-> Percentage(c)]>>
Cells(n, cell) == [i \in 1..n |-> cell]
Blank == "blank"        \* a space

(* Mutant: as many blanks as the names of the books take, without a frame. *)
TextOfNames(face, n) ==
    Fields(face) \o Cells(BooksLength(n), "book") \o Cells(Padding - 1, Blank)

(* With n books that it has chosen to study.                               *)
toStringStudent(face, n) ==
    Fields(face) \o Cells(BooksLength(n), "book") \o Cells(Padding, Blank)

printEvent(screen, text) == text \o SubSeq(screen, Len(text) + 1, Len(screen))

(* For the lines, a text is its pieces: what it is and what it says.  Its  *)
(* first and last lines are boxes and blanks.                              *)
Piece(kind) == <<kind, 0>>
Border == <<Piece("box")>> \o Cells(Padding, Piece(Blank))
Face(face) == IF face = "NONE" THEN Cells(2, Piece(Blank)) ELSE <<<<"face", face>>>>
Pieces(face, n) ==
    Border \o <<Piece("newline"), Piece("box"), Piece("name")>> \o Face(face)
    \o <<Piece("box"), <<"marks", [c \in mine |-> Percentage(c)]>>, Piece("box")>>
    \o Cells(n, Piece("book")) \o Cells(Padding, Piece(Blank)) \o <<Piece("newline")>> \o Border

filterOut == {"newline", "box"}
SpacePrinted(line) == line[Len(line)] = Piece(Blank)

PrintPiece(line, p) ==
    CASE p[1] \in filterOut \union {Blank} -> IF SpacePrinted(line) THEN line ELSE Append(line, Piece(Blank))
      [] p[1] = "face"                   -> line \o <<Piece(Blank), p>>     \* " NORMAL"
      [] OTHER                           -> Append(line, p)

Trim(line) == IF SpacePrinted(line) THEN SubSeq(line, 1, Len(line) - 1) ELSE line

printLine(pieces) == Trim(FoldLeft(PrintPiece, <<Piece("Student:"), Piece(Blank)>>, pieces))

Shown(face) ==
    IF lineMode THEN printed' = printLine(Pieces(face, 0)') /\ UNCHANGED row
                ELSE row' = printEvent(row, toStringStudent(face, 0)') /\ UNCHANGED printed

(* In the order of study: the books are asked for, a seat is looked for,   *)
(* studying has made progress, and the books have been left.               *)
ShownStudy(n) ==
    IF lineMode THEN Shown("STUDYING") ELSE
    /\ row' = FoldLeft(printEvent, row,
                  <<toStringStudent("REQ_BOOKS", n), toStringStudent("REQ_SEAT", n),
                    toStringStudent("STUDYING", n)', toStringStudent("STUDYING", 0)'>>)
    /\ UNCHANGED printed

FaceOf == [sleep |-> "SLEEPING", breakfast |-> "BREAKFAST", lunch |-> "LUNCH",
           dinner |-> "DINNER"]

StudyShown ==
    \E now \in Halves : MayStudy(now) /\ \E books \in chooseBooksToStudy :
        /\ study(now, books)
        /\ \E n \in 1..Cardinality(BooksLeft) : n = Cardinality(books) /\ ShownStudy(n)

switchToLineMode == lineMode' = TRUE /\ Option(global) /\ UNCHANGED shownVars
switchToWindowMode == lineMode' = FALSE /\ Option(global) /\ UNCHANGED shownVars

done ==
    /\ Evening
    /\ IF stage' = "done" THEN Shown("DONE") ELSE UNCHANGED shownVars
fun == stage = "fun" /\ Spend /\ Shown("HAVING_FUN")
SleepOrEat == \E s \in DOMAIN FaceOf : stage = s /\ Spend /\ Shown(FaceOf[s])
enroll == enrollCourse /\ Shown("NORMAL")

ScreenNext ==
    \/ switchToLineMode \/ switchToWindowMode
    \/ /\ UNCHANGED lineMode
       /\ \/ (processArgs \/ Start \/ initAllCourses \/ NoStudy) /\ UNCHANGED shownVars
          \/ newStudent /\ Shown("NONE")
          \/ enroll \/ SleepOrEat \/ StudyShown \/ fun \/ done

ScreenInit == Init /\ lineMode = FALSE /\ row = <<>> /\ printed = <<>>
ScreenSpec == ScreenInit /\ [][ScreenNext]_screenVars /\ Fairness

---------------------------------------------------------------------------
(* Properties.                                                             *)

Apart(a, b) ==
    \/ a.line + a.lines <= b.line \/ b.line + b.lines <= a.line
    \/ a.column + a.columns <= b.column \/ b.column + b.columns <= a.column

(* Whatever the options are, no two texts are drawn over one another once  *)
(* everything has its place, and every seat of the library is drawn in one *)
(* place and no other (initSimulation, toStringTables).                    *)
ScreenDivided ==
    stage = "enrollCourse" =>
    /\ \A areas \in {initSimulation} : \A i, j \in DOMAIN areas : i < j => Apart(areas[i], areas[j])
    /\ {SeatDrawn(p[1], p[2], p[3]) : p \in Positions} = 0..numSeats - 1
    /\ Cardinality(Positions) = numSeats

(* Texts of different lengths are written over one another and nothing is  *)
(* cleared, and yet nothing of an earlier text remains: when the student   *)
(* is not in the library, its box shows how far it is with its courses and *)
(* no book.  A line has that too, in words and with one blank between them *)
(* (toStringStudent, printEvent).                                          *)
NothingStale ==
    /\ row # <<>> =>
        /\ row[2] = [c \in mine |-> Percentage(c)]
        /\ \A i \in 3..Len(row) : row[i] = Blank
    /\ printed # <<>> =>
        /\ printed[Len(printed)] = <<"marks", [c \in mine |-> Percentage(c)]>>
        /\ [i \in DOMAIN printed |-> printed[i][1]] \in
              {<<"Student:", Blank, "name", Blank, "marks">>,
               <<"Student:", Blank, "name", Blank, "face", Blank, "marks">>}
=============================================================================
