------------------------------ MODULE Studies ------------------------------
(***************************************************************************)
(* How the options of the simulation (soipc_p/simulation.cpp), the course  *)
(* units (all-courses.cpp, course-unit.cpp) and the course loop of one     *)
(* student (student.cpp: newStudent, life, enrollCourse, study) depend on  *)
(* one another.  The visit to the library inside study is module Library,  *)
(* the messages of a student are in Librarian and Logger: here a study     *)
(* session is one step, and students do not disturb one another.           *)
(*                                                                         *)
(* The books of a course are the positions of its list, which              *)
(* randomBookListFromLibrary keeps distinct; a course is the sequence of   *)
(* the times its books must be studied.  A loop that draws until something *)
(* suits is a choice among what suits.                                     *)
(***************************************************************************)
EXTENDS Integers, Sequences, FiniteSetsExt

CONSTANTS
    MAX_BOOKS, MAX_COURSE_UNITS,    \* limits of the options, global.h
    MAX_SEATS, MAX_STUDENTS,
    BookCopies,                     \* bound: the numbers of copies an option gives
    MaxTime,                        \* bound: the longest time an option gives
    MaxOptions,                     \* bound: how many options are given
    Defaults                        \* the parameters without options

Parameters == [NUM_BOOKS: 1..MAX_BOOKS, NUM_COURSE_UNITS: 1..MAX_COURSE_UNITS,
               MAX_BOOKS_PER_COURSE: 1..MAX_BOOKS,
               MIN_BOOK_STUDY_TIME_UNITS: 1..MaxTime, MAX_BOOK_STUDY_TIME_UNITS: 1..MaxTime,
               MIN_STUDY_TIME_UNITS: 1..MaxTime, MAX_STUDY_TIME_UNITS: 1..MaxTime,
               MAX_BOOK_COPIES: BookCopies, NUM_STUDENTS: 1..MAX_STUDENTS,
               NUM_TABLES: 1..MAX_SEATS, NUM_SEATS_PER_TABLE: 1..MAX_SEATS]

ASSUME StudiesAssumption ==
    /\ {MAX_BOOKS, MAX_COURSE_UNITS, MAX_SEATS, MAX_STUDENTS, MaxTime} \subseteq Nat \ {0}
    /\ BookCopies \subseteq Nat \ {0}
    /\ MaxOptions \in Nat
    /\ Defaults \in Parameters
    /\ Defaults.MAX_BOOKS_PER_COURSE < Defaults.NUM_BOOKS
    /\ Defaults.MIN_STUDY_TIME_UNITS <= Defaults.MAX_STUDY_TIME_UNITS
    /\ Defaults.NUM_SEATS_PER_TABLE % 2 = 0 /\ Defaults.MAX_BOOK_COPIES <= 99

VARIABLES
    stage,      \* where the program, and then the student, is
    global,     \* the parameters
    given,      \* how many options have been read, until Start
    courses,    \* the course units: for each book of the list its time
    mine,       \* the courses of the student
    left,       \* how many more courses the loop of life goes through
    concludedCourses, actualCourse, completionPercentage, studyTime,
    studied     \* history: the courses all of whose books have been studied

program == <<global, given, courses>>
student == <<mine, left, concludedCourses, actualCourse, completionPercentage, studyTime, studied>>
vars == <<stage, program, student>>

NoCourse == 0   \* the code's -1: courses count from 1 here

Init ==
    /\ stage = "processArgs" /\ global = Defaults /\ given = 0 /\ courses = <<>>
    /\ mine = {} /\ left = 0 /\ concludedCourses = <<>> /\ studied = {}
    /\ actualCourse = NoCourse /\ completionPercentage = 0 /\ studyTime = <<>>

---------------------------------------------------------------------------
(* The options.  An invalid one ends the program before anything starts.   *)

Option(p) ==
    /\ stage = "processArgs" /\ given < MaxOptions
    /\ global' = p /\ given' = given + 1
    /\ UNCHANGED <<stage, courses, student>>

NumBooks == \E n \in 1..MAX_BOOKS : Option([global EXCEPT !.NUM_BOOKS = n])
NumCourses == \E n \in 1..MAX_COURSE_UNITS : Option([global EXCEPT !.NUM_COURSE_UNITS = n])

(* Checked against the number of books given so far.                       *)
MaxBooksPerCourse ==
    \E n \in 1..global.NUM_BOOKS : Option([global EXCEPT !.MAX_BOOKS_PER_COURSE = n])

BookStudyTime == \E max \in 1..MaxTime : \E min \in 1..max :
    Option([global EXCEPT !.MIN_BOOK_STUDY_TIME_UNITS = min, !.MAX_BOOK_STUDY_TIME_UNITS = max])
StudyTime == \E max \in 1..MaxTime : \E min \in 1..max :
    Option([global EXCEPT !.MIN_STUDY_TIME_UNITS = min, !.MAX_STUDY_TIME_UNITS = max])

(* An even number of seats, for the two sides of a table.                  *)
NumSeats == \E n, m \in 1..MAX_SEATS :
    /\ m % 2 = 0 /\ n * m <= MAX_SEATS
    /\ Option([global EXCEPT !.NUM_TABLES = n, !.NUM_SEATS_PER_TABLE = m])
NumStudents == \E n \in 1..MAX_STUDENTS : Option([global EXCEPT !.NUM_STUDENTS = n])
NumCopies == \E max \in BookCopies : max <= 99 /\ Option([global EXCEPT !.MAX_BOOK_COPIES = max])

Start ==
    /\ stage = "processArgs"
    /\ stage' = "initAllCourses"
    /\ given' = 0
    /\ UNCHANGED <<global, courses, student>>

---------------------------------------------------------------------------
(* Initialisation.                                                         *)

(* What randomInt can return: min also where max is below it.              *)
randomInt(min, max) == {min} \union (min..max)

(* The assertion of randomBookListFromLibrary.                             *)
ListPossible(n) == n >= 1 /\ n < global.NUM_BOOKS

newCourseUnit(n) ==
    [1..n -> randomInt(global.MIN_BOOK_STUDY_TIME_UNITS, global.MAX_BOOK_STUDY_TIME_UNITS)]

initAllCourses ==
    /\ stage = "initAllCourses" /\ Len(courses) < global.NUM_COURSE_UNITS
    /\ \E n \in randomInt(1, global.MAX_BOOKS_PER_COURSE) :
        \/ ~ListPossible(n) /\ stage' = "aborted" /\ UNCHANGED courses
        \/ /\ ListPossible(n)
           /\ \E c \in newCourseUnit(n) : courses' = Append(courses, c)
           /\ UNCHANGED stage
    /\ UNCHANGED <<global, given, student>>

(* Never all the courses, unless there is only one.                        *)
randomCourseList == UNION {kSubset(n, DOMAIN courses) : n \in randomInt(1, Len(courses) - 1)}

(* concludedCourses comes from malloc and is not cleared.                  *)
newStudent ==
    /\ stage = "initAllCourses" /\ Len(courses) = global.NUM_COURSE_UNITS
    /\ mine' \in randomCourseList
    /\ concludedCourses' \in [mine' -> {0, 1}]
    /\ left' = Cardinality(mine')
    /\ stage' = "enrollCourse"
    /\ UNCHANGED <<program, actualCourse, completionPercentage, studyTime, studied>>

---------------------------------------------------------------------------
(* The life of the student.                                                *)

(* Mutant: the percentage of the course before is kept.                    *)
EnrollKeepsPercentage ==
    /\ stage = "enrollCourse"
    /\ \E c \in mine :
        /\ concludedCourses[c] = 0
        /\ actualCourse' = c
        /\ studyTime' = [b \in DOMAIN courses[c] |-> 0]
    /\ stage' = "sleep"
    /\ UNCHANGED <<program, mine, left, concludedCourses, completionPercentage, studied>>

(* Where every course counts as concluded, it looks for one for ever.      *)
enrollCourse ==
    /\ stage = "enrollCourse"
    /\ \E c \in mine :
        /\ concludedCourses[c] = 0
        /\ actualCourse' = c
        /\ studyTime' = [b \in DOMAIN courses[c] |-> 0]
    /\ completionPercentage' = 0
    /\ stage' = "sleep"
    /\ UNCHANGED <<program, mine, left, concludedCourses, studied>>

TheDay == [sleep |-> "breakfast", breakfast |-> "morning", lunch |-> "afternoon",
           dinner |-> "fun", fun |-> "evening"]

Spend ==
    /\ stage \in DOMAIN TheDay
    /\ stage' = TheDay[stage]
    /\ UNCHANGED <<program, student>>

Required == courses[actualCourse]
Total(time) == FoldFunction(LAMBDA a, b : a + b, 0, time)

(* Mutant: the share of each book is cut to an integer before the sum.     *)
PercentageOfShares(time) ==
    Total([b \in DOMAIN time |->
        (100 * (IF time[b] >= Required[b] THEN Required[b] ELSE time[b])) \div Total(Required)])

completionPercentageCourseUnit(time) ==
    (100 * Total([b \in DOMAIN time |-> IF time[b] >= Required[b] THEN Required[b] ELSE time[b]]))
        \div Total(Required)

(* Mutant: books that have had their time are chosen again.                *)
BooksAll == DOMAIN Required

(* A list of n books, n drawn from 1..numBooks and cut to the books left.  *)
BooksLeft == {b \in DOMAIN Required : studyTime[b] < Required[b]}
chooseBooksToStudy == {books \in SUBSET BooksLeft : books # {}}

(* Mutant: the time is divided among all the books of the course.          *)
ProgressOverCourse(timeSpent, books) == timeSpent \div Len(Required)

Progress(timeSpent, books) == timeSpent \div Cardinality(books)

(* The rest of study, with the books it has chosen.                        *)
StudyBooks(books, next) ==
    \E timeSpent \in randomInt(global.MIN_STUDY_TIME_UNITS, global.MAX_STUDY_TIME_UNITS) :
        LET time == [b \in DOMAIN studyTime |->
                        IF b \in books THEN studyTime[b] + Progress(timeSpent, books) ELSE studyTime[b]]
            percentage == completionPercentageCourseUnit(time)
        IN /\ studyTime' = time
           /\ completionPercentage' = percentage
           /\ concludedCourses' = IF percentage = 100 THEN [concludedCourses EXCEPT ![actualCourse] = 1]
                                                      ELSE concludedCourses
           /\ studied' = IF \A b \in DOMAIN time : time[b] >= Required[b]
                         THEN studied \union {actualCourse} ELSE studied
           /\ stage' = next
           /\ UNCHANGED <<program, mine, left, actualCourse>>

Halves == {<<"morning", "lunch">>, <<"afternoon", "dinner">>}

MayStudy(now) == stage = now[1] /\ completionPercentage < 100
study(now, books) == MayStudy(now) /\ StudyBooks(books, now[2])

(* A course that is concluded, or the assertion on idxListSize.            *)
NoStudy == \E now \in Halves :
    /\ stage = now[1]
    /\ \/ completionPercentage = 100 /\ stage' = now[2]
       \/ completionPercentage < 100 /\ BooksLeft = {} /\ stage' = "aborted"
    /\ UNCHANGED <<program, student>>

Study == \E now \in Halves : MayStudy(now) /\ \E books \in chooseBooksToStudy : study(now, books)

(* The conditions of the two loops of life, and done.                      *)
Evening ==
    /\ stage = "evening"
    /\ left' = IF completionPercentage = 100 THEN left - 1 ELSE left
    /\ stage' = IF completionPercentage < 100 THEN "sleep"
                ELSE IF left = 1 THEN "done" ELSE "enrollCourse"
    /\ UNCHANGED <<program, mine, concludedCourses, actualCourse, completionPercentage, studyTime, studied>>

processArgs ==
    \/ NumBooks \/ NumCourses \/ MaxBooksPerCourse \/ BookStudyTime \/ StudyTime
    \/ NumSeats \/ NumStudents \/ NumCopies
life == enrollCourse \/ Spend \/ Study \/ NoStudy \/ Evening

(* processArgs and initSimulation go on, and so does the student.  What    *)
(* randomInt can return it returns again and again: some study session is  *)
(* long enough for the number of books taken to it.                        *)
Next == processArgs \/ Start \/ initAllCourses \/ newStudent \/ life

Spec == Init /\ [][Next]_vars
Fairness ==
    /\ WF_vars(Start) /\ WF_vars(initAllCourses) /\ WF_vars(newStudent) /\ WF_vars(life)
    /\ SF_vars(Study /\ studyTime' # studyTime)
---------------------------------------------------------------------------
(* Properties.                                                             *)

Stages == {"processArgs", "initAllCourses", "enrollCourse", "morning", "afternoon", "evening",
           "done", "aborted"} \union DOMAIN TheDay

(* The parameters are in the ranges the options allow, the counters of the *)
(* student agree with its courses, and no book is studied on once it has   *)
(* had its time: it is exceeded by less than one visit (chooseBooksToStudy,*)
(* study).                                                                 *)
TypeOK ==
    /\ stage \in Stages
    /\ global \in Parameters /\ given \in 0..MaxOptions
    /\ Len(courses) <= global.NUM_COURSE_UNITS
    /\ mine \subseteq DOMAIN courses /\ left \in 0..Cardinality(mine)
    /\ concludedCourses \in [mine -> {0, 1}] /\ studied \subseteq mine
    /\ actualCourse \in mine \union {NoCourse} /\ completionPercentage \in 0..100
    /\ actualCourse # NoCourse =>
        \A b \in DOMAIN Required :
            studyTime[b] \in 0..(Required[b] + global.MAX_STUDY_TIME_UNITS - 1)

(* The only assertion that can fail is the one on the length of a book     *)
(* list, and only with an option -m, or -b, that lets a course ask for     *)
(* every book there is.  In particular a course whose percentage is below  *)
(* 100 always has a book left to choose (student.cpp, line 505).           *)
AbortsOnlyOnLongLists ==
    stage = "aborted" => mine = {} /\ global.MAX_BOOKS_PER_COURSE >= global.NUM_BOOKS

(* A student is done only when it has studied every book of every one of   *)
(* its courses for the time it needs: none is skipped, counted twice, or   *)
(* concluded by what was left from the course before it, and whatever      *)
(* concludedCourses held at first.                                         *)
DoneMeansStudied == stage = "done" => studied = mine

(* Initialised with lists shorter than the library, and with a clear       *)
(* concludedCourses, every student is done in the end.                     *)
CanFinish == stage = "enrollCourse" /\ studied = {} /\ \A c \in mine : concludedCourses[c] = 0
StudentsFinish == CanFinish ~> stage = "done"
=============================================================================
