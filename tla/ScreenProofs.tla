---------------------------- MODULE ScreenProofs ----------------------------
(***************************************************************************)
(* Proofs about Studies and Screen: how a student gets through its courses *)
(* and what is shown of it, for any options.                               *)
(*                                                                         *)
(* Totals and texts are folds.  What a fold computes is proved by way of   *)
(* the function it is defined with: that there is one, and what it is for  *)
(* each argument, by the least argument for which it is not (Least).       *)
(***************************************************************************)
EXTENDS Screen, FiniteSetTheorems, FunctionTheorems, WellFoundedInduction, TLAPS

-----------------------------------------------------------------------------
(* Least and greatest elements.                                            *)

\* A set of natural numbers that is not empty has a least element.
LEMMA Least ==
  ASSUME NEW S \in SUBSET Nat, S # {}
  PROVE  \E m \in S : \A k \in S : m <= k
<1> DEFINE less == {ss \in Nat \X Nat : ss[1] < ss[2]}
<1>1. IsWellFoundedOn(less, Nat)
  BY NatLessThanWellFounded DEF OpToRel
<1>2. PICK m \in S : \A k \in S : ~(<<k, m>> \in less)
  <2> HIDE DEF less
  <2>1. QED
    BY <1>1, WFMin
<1>3. \A k \in S : k \in Nat /\ m \in Nat /\ ~(k < m)
  BY <1>2
<1>4. QED
  BY <1>3

\* Max of a set, once its greatest element is known.
LEMMA MaxIs ==
  ASSUME NEW T, NEW m \in Nat, m \in T, \A x \in T : x \in Nat /\ x <= m
  PROVE  Max(T) = m
<1>1. \A x \in T : m >= x
  OBVIOUS
<1>2. \A x \in T : (\A y \in T : x >= y) => x = m
  OBVIOUS
<1>3. QED
  BY <1>1, <1>2 DEF Max

-----------------------------------------------------------------------------
(***************************************************************************)
(* Totals.                                                                 *)
(***************************************************************************)
\* The element that a fold over a set takes first.
AnyOf(T) == CHOOSE x \in T : TRUE

\* The function behind a sum over finite sets: what it is for a set, for each element it
\* may take first.
Adds(it, time, D) ==
    /\ it[{}] = 0
    /\ \A T \in SUBSET D : T # {} => it[T] = time[AnyOf(T)] + it[T \ {AnyOf(T)}]

LEMMA Smaller ==
  ASSUME NEW D, IsFiniteSet(D), NEW T \in SUBSET D, T # {}
  PROVE  /\ AnyOf(T) \in T /\ T \ {AnyOf(T)} \in SUBSET D
         /\ Cardinality(T) \in Nat /\ Cardinality(T \ {AnyOf(T)}) \in Nat
         /\ Cardinality(T \ {AnyOf(T)}) = Cardinality(T) - 1
<1>1. AnyOf(T) \in T
  BY DEF AnyOf
<1>2. IsFiniteSet(T)
  BY FS_Subset
<1>3. QED
  BY <1>1, <1>2, FS_RemoveElement, FS_CardinalityType

\* Total is computed by such a function: there is one for the sets of up to n elements, for
\* each n.
LEMMA TotalAdds ==
  ASSUME NEW time, IsFiniteSet(DOMAIN time)
  PROVE  \E it : Adds(it, time, DOMAIN time) /\ Total(time) = it[DOMAIN time]
<1> DEFINE D == DOMAIN time
           Body(g) == [T \in SUBSET D |-> IF T = {} THEN 0 ELSE time[AnyOf(T)] + g[T \ {AnyOf(T)}]]
           IsFcn(g) == g = [T \in SUBSET D |-> g[T]]
           UpTo(g, n) == \A T \in SUBSET D : Cardinality(T) <= n => g[T] = Body(g)[T]
           Bad == {n \in Nat : ~\E g : IsFcn(g) /\ UpTo(g, n)}
<1>1. Bad = {}
  <2> SUFFICES ASSUME Bad # {} PROVE FALSE
    OBVIOUS
  <2>1. PICK n \in Bad : \A k \in Bad : n <= k
    <3>1. Bad \in SUBSET Nat
      OBVIOUS
    <3> HIDE DEF Bad
    <3>2. QED
      BY <3>1, Least
  <2>2. n \in Nat
    OBVIOUS
  <2>3. CASE n = 0
    <3> DEFINE g == [T \in SUBSET D |-> 0]
    <3>1. \A T \in SUBSET D : Cardinality(T) <= 0 => T = {}
      <4>1. ASSUME NEW T \in SUBSET D, T # {}
            PROVE  ~(Cardinality(T) <= 0)
        <5>1. /\ Cardinality(T) \in Nat /\ Cardinality(T \ {AnyOf(T)}) \in Nat
              /\ Cardinality(T \ {AnyOf(T)}) = Cardinality(T) - 1
          BY <4>1, Smaller
        <5>2. QED
          BY <5>1
      <4>2. QED
        BY <4>1
    <3>2. IsFcn(g) /\ UpTo(g, 0)
      BY <3>1
    <3> HIDE DEF UpTo, IsFcn, g
    <3>3. QED
      BY <2>3, <3>2
  <2>4. CASE n # 0
    <3>1. n - 1 \in Nat /\ n - 1 \notin Bad
      <4> HIDE DEF Bad
      <4>1. QED
        BY <2>1, <2>2, <2>4
    <3>2. PICK g : IsFcn(g) /\ UpTo(g, n - 1)
      <4> HIDE DEF UpTo, IsFcn
      <4>1. QED
        BY <3>1
    <3> DEFINE h == Body(g)
    <3>3. ASSUME NEW T \in SUBSET D, Cardinality(T) <= n, T # {}
          PROVE  h[T \ {AnyOf(T)}] = g[T \ {AnyOf(T)}]
      <4>1. T \ {AnyOf(T)} \in SUBSET D /\ Cardinality(T \ {AnyOf(T)}) <= n - 1
        BY <2>2, <3>3, Smaller
      <4> HIDE DEF Body
      <4>2. QED
        BY <3>2, <4>1
    <3>4. UpTo(h, n)
      <4> SUFFICES ASSUME NEW T \in SUBSET D, Cardinality(T) <= n
                   PROVE  h[T] = Body(h)[T]
        OBVIOUS
      <4>1. CASE T = {}
        BY <4>1
      <4>2. CASE T # {}
        <5>1. h[T] = time[AnyOf(T)] + g[T \ {AnyOf(T)}]
          BY <4>2
        <5>2. Body(h)[T] = time[AnyOf(T)] + h[T \ {AnyOf(T)}]
          <6> HIDE DEF h
          <6>1. QED
            BY <4>2
        <5> HIDE DEF h, Body
        <5>3. QED
          BY <3>3, <4>2, <5>1, <5>2
      <4>3. QED
        BY <4>1, <4>2
    <3>5. IsFcn(h)
      OBVIOUS
    <3> HIDE DEF h, UpTo, IsFcn
    <3>6. QED
      BY <3>4, <3>5
  <2>5. QED
    BY <2>3, <2>4
<1> DEFINE it == CHOOSE g : g = Body(g)
<1>2. it = Body(it)
  <2>1. Cardinality(D) \in Nat /\ Cardinality(D) \notin Bad
    BY <1>1, FS_CardinalityType
  <2>2. PICK g : IsFcn(g) /\ UpTo(g, Cardinality(D))
    <3> HIDE DEF UpTo, IsFcn
    <3>1. QED
      BY <2>1
  <2>3. \A T \in SUBSET D : Cardinality(T) <= Cardinality(D)
    BY FS_Subset
  <2>4. \A T \in SUBSET D : g[T] = Body(g)[T]
    <3> HIDE DEF Body
    <3>1. QED
      BY <2>2, <2>3
  <2>6. g = Body(g)
    <3>1. g = [T \in SUBSET D |-> Body(g)[T]]
      <4> HIDE DEF Body
      <4>1. QED
        BY <2>2, <2>4
    <3>2. QED
      BY <3>1
  <2> HIDE DEF Body
  <2>7. QED
    BY <2>6
<1>3. Total(time) = it[D]
  BY DEF Total, FoldFunction, FoldFunctionOnSet, MapThenFoldSet, AnyOf
<1> HIDE DEF it
<1>4. Adds(it, time, D)
  <2>1. \A T \in SUBSET D : it[T] = IF T = {} THEN 0 ELSE time[AnyOf(T)] + it[T \ {AnyOf(T)}]
    BY <1>2
  <2>2. it[{}] = 0
    BY <2>1
  <2>3. \A T \in SUBSET D : T # {} => it[T] = time[AnyOf(T)] + it[T \ {AnyOf(T)}]
    BY <2>1
  <2>4. QED
    BY <2>2, <2>3, Zenon DEF Adds
<1>5. QED
  BY <1>3, <1>4

\* A set of subsets that has neither the empty set nor, with a set, the one from which its
\* element was taken, is empty.
LEMMA NoneBad ==
  ASSUME NEW D, IsFiniteSet(D), NEW Bad \in SUBSET (SUBSET D), {} \notin Bad,
         \A T \in SUBSET D : T # {} /\ T \ {AnyOf(T)} \notin Bad => T \notin Bad
  PROVE  Bad = {}
<1> SUFFICES ASSUME Bad # {} PROVE FALSE
  OBVIOUS
<1> DEFINE sizes == {Cardinality(T) : T \in Bad}
<1>1. sizes \in SUBSET Nat
  BY FS_Subset, FS_CardinalityType
<1>2. PICK n \in sizes : \A k \in sizes : n <= k
  <2>1. sizes # {}
    OBVIOUS
  <2> HIDE DEF sizes
  <2>2. QED
    BY <1>1, <2>1, Least
<1>3. PICK T \in Bad : n = Cardinality(T)
  BY <1>2
<1>4. T \in SUBSET D /\ T # {}
  OBVIOUS
<1>5. T \ {AnyOf(T)} \in Bad
  BY <1>4
<1>6. Cardinality(T \ {AnyOf(T)}) \in sizes
  BY <1>5
<1>7. /\ Cardinality(T) \in Nat /\ Cardinality(T \ {AnyOf(T)}) \in Nat
      /\ Cardinality(T \ {AnyOf(T)}) = Cardinality(T) - 1
  BY <1>4, Smaller
<1> HIDE DEF sizes
<1>8. QED
  BY <1>2, <1>3, <1>6, <1>7

\* A total of larger times is larger.
LEMMA TotalsCompare ==
  ASSUME NEW D, IsFiniteSet(D), NEW f \in [D -> Nat], NEW g \in [D -> Nat],
         \A b \in D : f[b] <= g[b]
  PROVE  /\ Total(f) \in Nat /\ Total(g) \in Nat /\ Total(f) <= Total(g)
         /\ (\E b \in D : f[b] < g[b]) => Total(f) < Total(g)
<1>1. PICK fs : Adds(fs, f, D) /\ Total(f) = fs[D]
  BY TotalAdds
<1>2. PICK gs : Adds(gs, g, D) /\ Total(g) = gs[D]
  BY TotalAdds
<1> DEFINE P(T) == /\ fs[T] \in Nat /\ gs[T] \in Nat /\ fs[T] <= gs[T]
                   /\ (\E b \in T : f[b] < g[b]) => fs[T] < gs[T]
           Bad == {T \in SUBSET D : ~P(T)}
<1>3. {} \notin Bad
  BY <1>1, <1>2 DEF Adds
<1>4. ASSUME NEW T \in SUBSET D, T # {}, T \ {AnyOf(T)} \notin Bad
      PROVE  T \notin Bad
  <2> DEFINE x == AnyOf(T)
             U == T \ {x}
  <2>1. x \in T /\ U \in SUBSET D
    BY <1>4, Smaller
  <2>2. P(U)
    BY <1>4, <2>1
  <2>3. fs[T] = f[x] + fs[U] /\ gs[T] = g[x] + gs[U]
    BY <1>1, <1>2, <1>4 DEF Adds
  <2>4. f[x] \in Nat /\ g[x] \in Nat /\ f[x] <= g[x]
    BY <2>1
  <2>5. ASSUME NEW b \in T, f[b] < g[b]
        PROVE  f[x] < g[x] \/ fs[U] < gs[U]
    <3> HIDE DEF x
    <3>1. QED
      BY <2>2, <2>5
  <2>6. P(T)
    <3> HIDE DEF x, U
    <3>1. QED
      BY <2>2, <2>3, <2>4, <2>5
  <2>7. QED
    BY <2>6
<1>5. Bad = {}
  <2>1. Bad \in SUBSET (SUBSET D)
    OBVIOUS
  <2> HIDE DEF Bad
  <2>2. QED
    BY <1>3, <1>4, <2>1, NoneBad
<1>6. P(D)
  BY <1>5
<1>7. QED
  BY <1>1, <1>2, <1>6

\* A total of nothing.
LEMMA TotalOfZeros ==
  ASSUME NEW D, IsFiniteSet(D), NEW f, f = [b \in D |-> 0]
  PROVE  Total(f) = 0
<1>1. PICK it : Adds(it, f, D) /\ Total(f) = it[D]
  BY TotalAdds
<1> DEFINE Bad == {T \in SUBSET D : it[T] # 0}
<1>2. {} \notin Bad
  BY <1>1 DEF Adds
<1>3. ASSUME NEW T \in SUBSET D, T # {}, T \ {AnyOf(T)} \notin Bad
      PROVE  T \notin Bad
  <2>1. AnyOf(T) \in T /\ T \ {AnyOf(T)} \in SUBSET D
    BY <1>3, Smaller
  <2>2. it[T] = f[AnyOf(T)] + it[T \ {AnyOf(T)}]
    BY <1>1, <1>3 DEF Adds
  <2>3. QED
    BY <1>3, <2>1, <2>2
<1>4. Bad = {}
  <2>1. Bad \in SUBSET (SUBSET D)
    OBVIOUS
  <2> HIDE DEF Bad
  <2>2. QED
    BY <1>2, <1>3, <2>1, NoneBad
<1>5. QED
  BY <1>1, <1>4

-----------------------------------------------------------------------------
(***************************************************************************)
(* The share of a course that has been studied.                            *)
(***************************************************************************)
Capped(required, time) ==
    [b \in DOMAIN time |-> IF time[b] >= required[b] THEN required[b] ELSE time[b]]
Share(required, time) == (100 * Total(Capped(required, time))) \div Total(required)
Enough(required, time) == \A b \in DOMAIN time : time[b] >= required[b]

LEMMA DivisionBounds ==
  ASSUME NEW a \in Nat, NEW d \in Nat \ {0}
  PROVE  /\ a \div d \in Nat
         /\ (a \div d) * d <= a /\ a < (a \div d) * d + d
OBVIOUS

LEMMA Times ==
  ASSUME NEW a \in Nat, NEW b \in Nat, NEW d \in Nat, a <= b
  PROVE  a * d <= b * d /\ a * d \in Nat /\ b * d \in Nat
OBVIOUS

LEMMA HundredTimes ==
  ASSUME NEW s \in Nat, NEW t \in Nat \ {0}, s <= t
  PROVE  LET q == (100 * s) \div t
         IN  q \in 0..100 /\ (q = 100 <=> s = t) /\ (s = 0 => q = 0)
<1> DEFINE q == (100 * s) \div t
<1>1. q \in Nat /\ q * t <= 100 * s /\ 100 * s < q * t + t
  BY DivisionBounds
<1> HIDE DEF q
<1>2. q <= 100
  <2>1. CASE q >= 101
    <3>1. 101 * t <= q * t
      BY <1>1, <2>1, Times
    <3>2. QED
      BY <1>1, <3>1
  <2>2. QED
    BY <1>1, <2>1
<1>3. q = 100 => s = t
  BY <1>1
<1>4. ASSUME s = t PROVE q = 100
  <2>1. CASE q <= 99
    <3>1. q * t <= 99 * t
      BY <1>1, <2>1, Times
    <3>2. QED
      BY <1>1, <1>4, <3>1
  <2>2. QED
    BY <1>1, <1>2, <2>1
<1>5. ASSUME s = 0 PROVE q = 0
  <2>1. CASE q >= 1
    <3>1. 1 * t <= q * t
      BY <1>1, <2>1, Times
    <3>2. QED
      BY <1>1, <1>5, <3>1
  <2>2. QED
    BY <1>1, <2>1
<1>6. QED
  BY <1>1, <1>2, <1>3, <1>4, <1>5 DEF q

\* A whole percentage, which is 100 exactly when each book has had its time: what is cut off
\* by the division never makes up for a book.
LEMMA ShareIsOfAll ==
  ASSUME NEW n \in Nat \ {0}, NEW required \in [1..n -> Nat \ {0}], NEW time \in [1..n -> Nat]
  PROVE  /\ Share(required, time) \in 0..100
         /\ Share(required, time) = 100 <=> Enough(required, time)
         /\ (\A b \in 1..n : time[b] = 0) => Share(required, time) = 0
<1> DEFINE D == 1..n
           capped == Capped(required, time)
           zeros == [b \in D |-> 0]
<1>1. IsFiniteSet(D) /\ 1 \in D
  BY FS_Interval
<1>2. /\ required \in [D -> Nat] /\ zeros \in [D -> Nat]
      /\ capped = [b \in D |-> IF time[b] >= required[b] THEN required[b] ELSE time[b]]
  BY DEF Capped
<1>3. capped \in [D -> Nat] /\ \A b \in D : capped[b] <= required[b]
  BY <1>2
<1>4. /\ Total(capped) \in Nat /\ Total(required) \in Nat /\ Total(capped) <= Total(required)
      /\ (\E b \in D : capped[b] < required[b]) => Total(capped) < Total(required)
  <2> HIDE DEF D, capped
  <2>1. QED
    BY <1>1, <1>2, <1>3, TotalsCompare
<1>5. Total(required) > 0
  <2>1. \A b \in D : zeros[b] <= required[b] /\ zeros[b] < required[b]
    OBVIOUS
  <2>2. Total(zeros) = 0
    BY <1>1, TotalOfZeros
  <2>3. Total(zeros) < Total(required)
    <3> HIDE DEF D, zeros
    <3>1. QED
      BY <1>1, <1>2, <2>1, TotalsCompare
  <2>4. QED
    BY <1>4, <2>2, <2>3
<1> DEFINE s == Total(capped)
           t == Total(required)
<1>6. /\ (100 * s) \div t \in 0..100
      /\ (100 * s) \div t = 100 <=> s = t
      /\ s = 0 => (100 * s) \div t = 0
  <2>1. s \in Nat /\ t \in Nat \ {0} /\ s <= t
    BY <1>4, <1>5
  <2> HIDE DEF s, t
  <2>2. LET q == (100 * s) \div t IN q \in 0..100 /\ (q = 100 <=> s = t) /\ (s = 0 => q = 0)
    BY <2>1, HundredTimes
  <2>3. QED
    BY <2>2
<1>7. s = t <=> Enough(required, time)
  <2>1. CASE Enough(required, time)
    <3>1. capped = required
      BY <1>2, <2>1 DEF Enough
    <3>2. QED
      BY <2>1, <3>1
  <2>2. CASE ~Enough(required, time)
    <3>1. PICK b \in D : time[b] < required[b]
      BY <2>2 DEF Enough
    <3>2. capped[b] < required[b]
      BY <1>2, <3>1
    <3>3. s < t
      <4> HIDE DEF D, capped
      <4>1. QED
        BY <1>4, <3>2
    <3>4. QED
      BY <1>4, <2>2, <3>3
  <2>3. QED
    BY <2>1, <2>2
<1>8. ASSUME \A b \in 1..n : time[b] = 0 PROVE s = 0
  <2>1. capped = zeros
    BY <1>2, <1>8
  <2>2. QED
    BY <1>1, <2>1, TotalOfZeros
<1>9. QED
  BY <1>6, <1>7, <1>8 DEF Share

-----------------------------------------------------------------------------
(***************************************************************************)
(* The invariant of the student.                                           *)
(***************************************************************************)
Unborn == {"processArgs", "initAllCourses", "aborted"}
Day == {"sleep", "breakfast", "morning", "lunch", "afternoon", "dinner", "fun", "evening"}

OptionsOK ==
    /\ global \in Parameters /\ given \in 0..MaxOptions
    /\ global.MIN_STUDY_TIME_UNITS <= global.MAX_STUDY_TIME_UNITS
    /\ global.NUM_SEATS_PER_TABLE % 2 = 0 /\ global.MAX_BOOK_COPIES <= 99

Course == UNION {[1..n -> Nat \ {0}] : n \in 1..global.MAX_BOOKS_PER_COURSE}
CoursesOK ==
    /\ courses \in Seq(Course) /\ Len(courses) <= global.NUM_COURSE_UNITS
    /\ stage = "processArgs" => courses = <<>>

\* Before there is a student; the program aborts only then.
NoStudent ==
    stage \in Unborn =>
        /\ mine = {} /\ actualCourse = NoCourse /\ studied = {} /\ left = 0
        /\ completionPercentage = 0
        /\ stage = "aborted" => global.MAX_BOOKS_PER_COURSE >= global.NUM_BOOKS

\* The course being studied: its percentage is that of the times, and it is entered in the
\* books exactly when it is complete.
Studying ==
    actualCourse # NoCourse =>
        /\ actualCourse \in mine
        /\ studyTime \in [DOMAIN Required -> Nat]
        /\ \A b \in DOMAIN Required :
              studyTime[b] <= Required[b] + global.MAX_STUDY_TIME_UNITS - 1
        /\ completionPercentage = Share(Required, studyTime)
        /\ completionPercentage = 100 => actualCourse \in studied
        /\ stage \in Day /\ completionPercentage # 100 => actualCourse \notin studied

\* Of the courses the loop of life is to go through, those are left that are not studied,
\* and the one that has just been completed.
Counted ==
    stage \notin Unborn =>
        /\ mine # {} /\ IsFiniteSet(mine)
        /\ \A c \in studied : concludedCourses[c] = 1
        /\ left \in Nat
        /\ left + Cardinality(studied) =
              Cardinality(mine) + (IF stage \in Day /\ completionPercentage = 100 THEN 1 ELSE 0)
        /\ stage \in Day => actualCourse # NoCourse
        /\ stage # "done" => left > 0
        /\ stage = "done" => left = 0

SInv ==
    /\ stage \in Unborn \union Day \union {"enrollCourse", "done"}
    /\ OptionsOK /\ CoursesOK /\ NoStudent /\ Studying /\ Counted
    /\ mine \subseteq DOMAIN courses /\ studied \subseteq mine
    /\ concludedCourses \in [mine -> {0, 1}]
    /\ actualCourse \in mine \union {NoCourse}
    /\ completionPercentage \in 0..100

LEMMA SInitOK == Init => SInv
<1> SUFFICES ASSUME Init PROVE SInv
  OBVIOUS
<1>1. OptionsOK
  BY StudiesAssumption DEF Init, OptionsOK
<1>2. CoursesOK
  <2>1. <<>> \in Seq(Course) /\ Len(<<>>) = 0
    OBVIOUS
  <2>2. 0 <= global.NUM_COURSE_UNITS
    BY <1>1 DEF OptionsOK, Parameters
  <2>3. QED
    BY <2>1, <2>2 DEF Init, CoursesOK
<1>3. NoStudent /\ Studying /\ Counted
  BY DEF Init, NoStudent, Studying, Counted, Unborn
<1>4. concludedCourses \in [mine -> {0, 1}]
  BY DEF Init
<1>5. QED
  BY <1>1, <1>2, <1>3, <1>4 DEF Init, SInv, Unborn

\* The parameters are counts.
LEMMA Counts ==
  ASSUME NEW p \in Parameters
  PROVE  /\ p.NUM_BOOKS \in Nat \ {0} /\ p.NUM_COURSE_UNITS \in Nat \ {0}
         /\ p.MAX_BOOKS_PER_COURSE \in Nat \ {0}
         /\ p.MIN_BOOK_STUDY_TIME_UNITS \in Nat \ {0} /\ p.MAX_BOOK_STUDY_TIME_UNITS \in Nat \ {0}
         /\ p.MIN_STUDY_TIME_UNITS \in Nat \ {0} /\ p.MAX_STUDY_TIME_UNITS \in Nat \ {0}
         /\ p.MAX_BOOK_COPIES \in Nat \ {0} /\ p.NUM_STUDENTS \in Nat \ {0}
         /\ p.NUM_TABLES \in Nat \ {0} /\ p.NUM_SEATS_PER_TABLE \in Nat \ {0}
<1>1. /\ p.NUM_BOOKS \in 1..MAX_BOOKS /\ p.NUM_COURSE_UNITS \in 1..MAX_COURSE_UNITS
      /\ p.MAX_BOOKS_PER_COURSE \in 1..MAX_BOOKS
      /\ p.MIN_BOOK_STUDY_TIME_UNITS \in 1..MaxTime /\ p.MAX_BOOK_STUDY_TIME_UNITS \in 1..MaxTime
      /\ p.MIN_STUDY_TIME_UNITS \in 1..MaxTime /\ p.MAX_STUDY_TIME_UNITS \in 1..MaxTime
      /\ p.MAX_BOOK_COPIES \in BookCopies /\ p.NUM_STUDENTS \in 1..MAX_STUDENTS
      /\ p.NUM_TABLES \in 1..MAX_SEATS /\ p.NUM_SEATS_PER_TABLE \in 1..MAX_SEATS
  BY DEF Parameters
<1>2. /\ MAX_BOOKS \in Nat /\ MAX_COURSE_UNITS \in Nat /\ MaxTime \in Nat
      /\ MAX_STUDENTS \in Nat /\ MAX_SEATS \in Nat /\ BookCopies \subseteq Nat \ {0}
  BY StudiesAssumption
<1>3. \A k \in Nat : \A x \in 1..k : x \in Nat \ {0}
  OBVIOUS
<1>4. QED
  BY <1>1, <1>2, <1>3, Zenon

LEMMA OptionOK ==
  ASSUME SInv, processArgs \/ Option(global)
  PROVE  SInv'
<1>1. PICK p : Option(p) /\ p \in Parameters
              /\ p.MIN_STUDY_TIME_UNITS <= p.MAX_STUDY_TIME_UNITS
              /\ p.NUM_SEATS_PER_TABLE % 2 = 0 /\ p.MAX_BOOK_COPIES <= 99
  <2> USE DEF SInv, OptionsOK, Parameters
  <2>1. CASE NumBooks
    <3>1. PICK n \in 1..MAX_BOOKS : Option([global EXCEPT !.NUM_BOOKS = n])
      BY <2>1 DEF NumBooks
    <3>2. QED
      BY <3>1
  <2>9. CASE NumCourses
    <3>1. PICK n \in 1..MAX_COURSE_UNITS : Option([global EXCEPT !.NUM_COURSE_UNITS = n])
      BY <2>9 DEF NumCourses
    <3>2. QED
      BY <3>1
  <2>10. CASE NumStudents
    <3>1. PICK n \in 1..MAX_STUDENTS : Option([global EXCEPT !.NUM_STUDENTS = n])
      BY <2>10 DEF NumStudents
    <3>2. QED
      BY <3>1
  <2>2. CASE MaxBooksPerCourse
    <3>1. PICK n \in 1..global.NUM_BOOKS : Option([global EXCEPT !.MAX_BOOKS_PER_COURSE = n])
      BY <2>2 DEF MaxBooksPerCourse
    <3>2. n \in 1..MAX_BOOKS
      BY <3>1, StudiesAssumption
    <3>3. QED
      BY <3>1, <3>2
  <2>3. CASE BookStudyTime
    <3>1. PICK max \in 1..MaxTime : \E min \in 1..max :
             Option([global EXCEPT !.MIN_BOOK_STUDY_TIME_UNITS = min, !.MAX_BOOK_STUDY_TIME_UNITS = max])
      BY <2>3 DEF BookStudyTime
    <3>2. PICK min \in 1..max :
             Option([global EXCEPT !.MIN_BOOK_STUDY_TIME_UNITS = min, !.MAX_BOOK_STUDY_TIME_UNITS = max])
      BY <3>1
    <3>3. min \in 1..MaxTime /\ min <= max
      BY <3>1, <3>2, StudiesAssumption
    <3> DEFINE p == [global EXCEPT !.MIN_BOOK_STUDY_TIME_UNITS = min, !.MAX_BOOK_STUDY_TIME_UNITS = max]
    <3>4. p \in Parameters
      BY <3>3 DEF OptionsOK
    <3>5. /\ p.MIN_STUDY_TIME_UNITS <= p.MAX_STUDY_TIME_UNITS
          /\ p.NUM_SEATS_PER_TABLE % 2 = 0 /\ p.MAX_BOOK_COPIES <= 99
      BY <3>3 DEF OptionsOK
    <3>6. Option(p)
      BY <3>2, Zenon
    <3> HIDE DEF p
    <3>7. QED
      BY <3>4, <3>5, <3>6, Zenon
  <2>4. CASE StudyTime
    <3>1. PICK max \in 1..MaxTime : \E min \in 1..max :
             Option([global EXCEPT !.MIN_STUDY_TIME_UNITS = min, !.MAX_STUDY_TIME_UNITS = max])
      BY <2>4 DEF StudyTime
    <3>2. PICK min \in 1..max :
             Option([global EXCEPT !.MIN_STUDY_TIME_UNITS = min, !.MAX_STUDY_TIME_UNITS = max])
      BY <3>1
    <3>3. min \in 1..MaxTime /\ min <= max
      BY <3>1, <3>2, StudiesAssumption
    <3> DEFINE p == [global EXCEPT !.MIN_STUDY_TIME_UNITS = min, !.MAX_STUDY_TIME_UNITS = max]
    <3>4. p \in Parameters
      BY <3>3 DEF OptionsOK
    <3>5. /\ p.MIN_STUDY_TIME_UNITS <= p.MAX_STUDY_TIME_UNITS
          /\ p.NUM_SEATS_PER_TABLE % 2 = 0 /\ p.MAX_BOOK_COPIES <= 99
      BY <3>3 DEF OptionsOK
    <3>6. Option(p)
      BY <3>2, Zenon
    <3> HIDE DEF p
    <3>7. QED
      BY <3>4, <3>5, <3>6, Zenon
  <2>5. CASE NumSeats
    <3>1. PICK n \in 1..MAX_SEATS, m \in 1..MAX_SEATS :
             /\ m % 2 = 0
             /\ Option([global EXCEPT !.NUM_TABLES = n, !.NUM_SEATS_PER_TABLE = m])
      BY <2>5 DEF NumSeats
    <3> DEFINE p == [global EXCEPT !.NUM_TABLES = n, !.NUM_SEATS_PER_TABLE = m]
    <3>4. p \in Parameters
      BY <3>1 DEF OptionsOK
    <3>5. /\ p.MIN_STUDY_TIME_UNITS <= p.MAX_STUDY_TIME_UNITS
          /\ p.NUM_SEATS_PER_TABLE % 2 = 0 /\ p.MAX_BOOK_COPIES <= 99
      BY <3>1 DEF OptionsOK
    <3>6. Option(p)
      BY <3>1, Zenon
    <3> HIDE DEF p
    <3>7. QED
      BY <3>4, <3>5, <3>6, Zenon
  <2>6. CASE NumCopies
    <3>1. PICK max \in BookCopies :
             max <= 99 /\ Option([global EXCEPT !.MAX_BOOK_COPIES = max])
      BY <2>6 DEF NumCopies
    <3>2. QED
      BY <3>1
  <2>7. CASE Option(global)
    BY <2>7
  <2>8. QED
    BY <2>1, <2>2, <2>3, <2>4, <2>5, <2>6, <2>7, <2>9, <2>10 DEF processArgs
<1> USE DEF Option
<1>2. /\ stage = "processArgs" /\ stage' = stage /\ courses' = courses /\ courses = <<>>
      /\ UNCHANGED student /\ global' = p
  BY <1>1 DEF SInv, CoursesOK
<1>3. OptionsOK'
  BY <1>1, StudiesAssumption DEF SInv, OptionsOK
<1>4. CoursesOK'
  <2>1. <<>> \in Seq(Course') /\ Len(<<>>) = 0
    OBVIOUS
  <2>2. 0 <= global'.NUM_COURSE_UNITS
    BY <1>3 DEF OptionsOK, Parameters
  <2>3. QED
    BY <1>2, <2>1, <2>2 DEF CoursesOK
<1>5. NoStudent' /\ Studying' /\ Counted'
  BY <1>2 DEF SInv, NoStudent, Studying, Counted, Unborn, student
<1>6. QED
  BY <1>2, <1>3, <1>4, <1>5 DEF SInv, student

\* Stages follow one another while nothing else changes.
LEMMA StageOK ==
  ASSUME SInv, UNCHANGED <<program, student>>, stage \in Day, stage' \in Day
  PROVE  SInv'
<1>1. OptionsOK' /\ CoursesOK'
  BY DEF SInv, OptionsOK, CoursesOK, program, Course, Day
<1>2. NoStudent' /\ Studying'
  BY DEF SInv, NoStudent, Studying, student, program, Required, Day, Unborn
<1>3. Counted'
  BY DEF SInv, Counted, student, Day, Unborn
<1>4. QED
  BY <1>1, <1>2, <1>3 DEF SInv, student, program

LEMMA StartOK ==
  ASSUME SInv, Start
  PROVE  SInv'
<1>1. OptionsOK' /\ CoursesOK'
  BY StudiesAssumption DEF SInv, OptionsOK, CoursesOK, Start, Course
<1>2. NoStudent' /\ Studying' /\ Counted'
  BY DEF SInv, NoStudent, Studying, Counted, student, Unborn, Start
<1>3. QED
  BY <1>1, <1>2 DEF SInv, student, Start, Unborn

LEMMA initAllCoursesOK ==
  ASSUME SInv, initAllCourses
  PROVE  SInv'
<1> USE DEF initAllCourses
<1>1. OptionsOK'
  BY DEF SInv, OptionsOK
<1>2. PICK n \in randomInt(1, global.MAX_BOOKS_PER_COURSE) :
        \/ ~ListPossible(n) /\ stage' = "aborted" /\ UNCHANGED courses
        \/ /\ ListPossible(n)
           /\ \E c \in newCourseUnit(n) : courses' = Append(courses, c)
           /\ UNCHANGED stage
  OBVIOUS
<1>3. /\ global.MAX_BOOKS_PER_COURSE \in Nat \ {0} /\ global.NUM_BOOKS \in Nat
      /\ global.NUM_COURSE_UNITS \in Nat
      /\ global.MIN_BOOK_STUDY_TIME_UNITS \in Nat \ {0} /\ global.MAX_BOOK_STUDY_TIME_UNITS \in Nat
  BY Counts DEF SInv, OptionsOK
<1>4. n \in 1..global.MAX_BOOKS_PER_COURSE
  BY <1>2, <1>3 DEF randomInt
<1>5. CoursesOK' /\ DOMAIN courses \subseteq DOMAIN courses'
  <2>1. CASE UNCHANGED courses
    BY <2>1 DEF SInv, CoursesOK, Course
  <2>2. CASE courses' # courses
    <3>1. PICK c \in newCourseUnit(n) : courses' = Append(courses, c)
      BY <1>2, <2>2
    <3>2. c \in [1..n -> Nat \ {0}]
      BY <1>3 DEF newCourseUnit, randomInt
    <3>3. c \in Course /\ Course' = Course
      BY <1>4, <3>2 DEF Course
    <3>4. courses \in Seq(Course) /\ Len(courses) < global.NUM_COURSE_UNITS
      BY DEF SInv, CoursesOK
    <3>5. courses' \in Seq(Course') /\ Len(courses') <= global.NUM_COURSE_UNITS
      BY <1>3, <3>1, <3>3, <3>4
    <3>6. DOMAIN courses \subseteq DOMAIN courses'
      BY <3>1, <3>4
    <3>7. QED
      BY <1>2, <2>2, <3>5, <3>6 DEF CoursesOK
  <2>3. QED
    BY <2>1, <2>2
<1>6. stage' = "aborted" => global.MAX_BOOKS_PER_COURSE >= global.NUM_BOOKS
  BY <1>2, <1>3, <1>4 DEF ListPossible
<1>7. NoStudent' /\ Studying' /\ Counted'
  BY <1>2, <1>6 DEF SInv, NoStudent, Studying, Counted, student, Unborn
<1>8. QED
  BY <1>1, <1>2, <1>5, <1>7 DEF SInv, student, Unborn

LEMMA newStudentOK ==
  ASSUME SInv, newStudent
  PROVE  SInv'
<1> USE DEF newStudent
<1>1. OptionsOK' /\ CoursesOK'
  BY DEF SInv, OptionsOK, CoursesOK, program, Course
<1>2. Len(courses) \in Nat \ {0} /\ DOMAIN courses = 1..Len(courses)
  BY DEF SInv, OptionsOK, CoursesOK, Parameters
<1>3. PICK n \in randomInt(1, Len(courses) - 1) : mine' \in kSubset(n, DOMAIN courses)
  BY DEF randomCourseList
<1>4. n \in Nat \ {0} /\ mine' \subseteq DOMAIN courses /\ Cardinality(mine') = n
  BY <1>2, <1>3 DEF randomInt, kSubset
<1>5. IsFiniteSet(mine') /\ mine' # {}
  <2>1. IsFiniteSet(DOMAIN courses)
    BY <1>2, FS_Interval
  <2>2. QED
    BY <1>4, <2>1, FS_Subset, FS_EmptySet
<1>6. studied' = {} /\ actualCourse' = NoCourse /\ completionPercentage' = 0
  BY DEF SInv, NoStudent, Unborn
<1>7. NoStudent' /\ Studying'
  BY <1>6 DEF NoStudent, Studying, Unborn
<1>8. Counted'
  <2>1. Cardinality(studied') = 0
    BY <1>6, FS_EmptySet
  <2>2. QED
    BY <1>4, <1>5, <1>6, <2>1 DEF Counted, Unborn, Day
<1>9. QED
  BY <1>1, <1>4, <1>6, <1>7, <1>8 DEF SInv, program

-----------------------------------------------------------------------------
(***************************************************************************)
(* The steps of the student.                                               *)
(***************************************************************************)
\* A course is a list of times that are not zero.
LEMMA CourseIs ==
  ASSUME SInv, NEW c \in mine
  PROVE  \E n \in Nat \ {0} : /\ courses[c] \in [1..n -> Nat \ {0}]
                              /\ n <= global.MAX_BOOKS_PER_COURSE
<1>1. courses \in Seq(Course) /\ c \in DOMAIN courses
  BY DEF SInv, CoursesOK
<1>2. courses[c] \in Course
  BY <1>1
<1>3. PICK n \in 1..global.MAX_BOOKS_PER_COURSE : courses[c] \in [1..n -> Nat \ {0}]
  BY <1>2 DEF Course
<1>4. global.MAX_BOOKS_PER_COURSE \in Nat
  BY Counts DEF SInv, OptionsOK
<1>5. QED
  BY <1>3, <1>4

LEMMA enrollCourseOK ==
  ASSUME SInv, enrollCourse
  PROVE  SInv'
<1> USE DEF enrollCourse
<1>1. OptionsOK' /\ CoursesOK'
  BY DEF SInv, OptionsOK, CoursesOK, program, Course
<1>2. PICK c \in mine : /\ concludedCourses[c] = 0 /\ actualCourse' = c
                        /\ studyTime' = [b \in DOMAIN courses[c] |-> 0]
  OBVIOUS
<1>3. PICK n \in Nat \ {0} : courses[c] \in [1..n -> Nat \ {0}]
  BY CourseIs
<1>4. c \notin studied /\ c \in DOMAIN courses /\ DOMAIN courses \subseteq Nat \ {0}
  BY <1>2 DEF SInv, Counted, Unborn, CoursesOK
<1>5. Required' = courses[c] /\ DOMAIN Required' = 1..n
  BY <1>2, <1>3 DEF Required, program
<1>6. completionPercentage' = Share(Required', studyTime')
  <2>1. studyTime' \in [1..n -> Nat] /\ \A b \in 1..n : studyTime'[b] = 0
    BY <1>2, <1>3
  <2>2. Share(courses[c], studyTime') = 0
    BY <1>3, <2>1, ShareIsOfAll
  <2>3. QED
    BY <1>5, <2>2
<1>7. Studying'
  <2>1. global.MAX_STUDY_TIME_UNITS \in Nat \ {0}
    BY Counts DEF SInv, OptionsOK
  <2>2. \A b \in 1..n : Required'[b] \in Nat \ {0} /\ studyTime'[b] = 0
    BY <1>2, <1>3, <1>5
  <2>3. \A b \in DOMAIN Required' : studyTime'[b] <= Required'[b] + global'.MAX_STUDY_TIME_UNITS - 1
    BY <1>5, <2>1, <2>2 DEF program
  <2>4. studyTime' \in [DOMAIN Required' -> Nat]
    BY <1>2, <1>3, <1>5
  <2>5. QED
    BY <1>2, <1>4, <1>6, <2>3, <2>4 DEF Studying
<1>8. NoStudent' /\ Counted'
  BY <1>2, <1>4 DEF SInv, Counted, NoStudent, Unborn, Day, NoCourse
<1>9. QED
  BY <1>1, <1>2, <1>7, <1>8 DEF SInv, program, Day

\* What has been studied is part of the time spent.
LEMMA ProgressBound ==
  ASSUME NEW t \in Nat, NEW k \in Nat \ {0}
  PROVE  t \div k \in 0..t
<1> DEFINE q == t \div k
<1>1. q \in Nat /\ q * k <= t
  BY DivisionBounds
<1> HIDE DEF q
<1>2. 1 * q <= k * q
  BY <1>1, Times
<1>3. QED
  BY <1>1, <1>2 DEF q

\* While the student is on a course.
LEMMA OnCourse ==
  ASSUME SInv, stage \in Day
  PROVE  /\ actualCourse \in mine /\ actualCourse # NoCourse
         /\ studyTime \in [DOMAIN Required -> Nat]
         /\ \E n \in Nat \ {0} : Required \in [1..n -> Nat \ {0}]
<1>1. stage \notin Unborn
  BY DEF Day, Unborn
<1>2. actualCourse # NoCourse
  BY <1>1 DEF SInv, Counted
<1>3. actualCourse \in mine /\ studyTime \in [DOMAIN Required -> Nat]
  BY <1>2 DEF SInv, Studying
<1>4. \E n \in Nat \ {0} : Required \in [1..n -> Nat \ {0}]
  BY <1>3, CourseIs DEF Required
<1>5. QED
  BY <1>2, <1>3, <1>4

LEMMA StudyBooksOK ==
  ASSUME SInv, stage \in Day, completionPercentage < 100,
         NEW books \in chooseBooksToStudy, NEW next \in Day, StudyBooks(books, next)
  PROVE  SInv'
<1>1. /\ actualCourse \in mine /\ actualCourse # NoCourse
      /\ studyTime \in [DOMAIN Required -> Nat]
  BY OnCourse
<1>2. PICK n \in Nat \ {0} : Required \in [1..n -> Nat \ {0}]
  BY OnCourse
<1>3. PICK timeSpent \in randomInt(global.MIN_STUDY_TIME_UNITS, global.MAX_STUDY_TIME_UNITS) :
        LET time == [b \in DOMAIN studyTime |->
                        IF b \in books THEN studyTime[b] + Progress(timeSpent, books) ELSE studyTime[b]]
            percentage == completionPercentageCourseUnit(time)
        IN /\ studyTime' = time
           /\ completionPercentage' = percentage
           /\ concludedCourses' = IF percentage = 100 THEN [concludedCourses EXCEPT ![actualCourse] = 1]
                                                      ELSE concludedCourses
           /\ studied' = IF \A b \in DOMAIN time : time[b] >= Required[b]
                         THEN studied \union {actualCourse} ELSE studied
           /\ stage' = next
           /\ UNCHANGED <<program, mine, left, actualCourse>>
  BY DEF StudyBooks
<1> DEFINE p == Progress(timeSpent, books)
           time == [b \in DOMAIN studyTime |-> IF b \in books THEN studyTime[b] + p ELSE studyTime[b]]
<1>4. /\ studyTime' = time
      /\ completionPercentage' = completionPercentageCourseUnit(time)
      /\ concludedCourses' = IF completionPercentageCourseUnit(time) = 100
                             THEN [concludedCourses EXCEPT ![actualCourse] = 1] ELSE concludedCourses
      /\ studied' = IF \A b \in DOMAIN time : time[b] >= Required[b]
                    THEN studied \union {actualCourse} ELSE studied
      /\ stage' = next /\ UNCHANGED <<program, mine, left, actualCourse>>
  BY <1>3, Zenon
<1>5. p \in 0..global.MAX_STUDY_TIME_UNITS /\ global.MAX_STUDY_TIME_UNITS \in Nat
  <2>1. timeSpent \in Nat /\ timeSpent <= global.MAX_STUDY_TIME_UNITS
        /\ global.MAX_STUDY_TIME_UNITS \in Nat
    BY Counts DEF SInv, OptionsOK, randomInt
  <2>2. Cardinality(books) \in Nat \ {0}
    <3>1. books \subseteq 1..n /\ books # {}
      BY <1>2 DEF chooseBooksToStudy, BooksLeft
    <3>2. IsFiniteSet(1..n)
      BY FS_Interval
    <3>3. IsFiniteSet(books)
      BY <3>1, <3>2, FS_Subset
    <3>4. QED
      BY <3>1, <3>3, FS_EmptySet, FS_CardinalityType
  <2>3. timeSpent \div Cardinality(books) \in 0..timeSpent
    BY <2>1, <2>2, ProgressBound
  <2>4. QED
    BY <2>1, <2>3 DEF Progress
<1> HIDE DEF p
<1>6. time \in [1..n -> Nat] /\ DOMAIN Required = 1..n
  BY <1>1, <1>2, <1>5
<1>7. \A b \in 1..n : time[b] <= Required[b] + global.MAX_STUDY_TIME_UNITS - 1
  <2> SUFFICES ASSUME NEW b \in 1..n
               PROVE  time[b] <= Required[b] + global.MAX_STUDY_TIME_UNITS - 1
    OBVIOUS
  <2>1. Required[b] \in Nat /\ studyTime[b] \in Nat
    BY <1>1, <1>2
  <2>2. CASE b \in books
    <3>1. studyTime[b] < Required[b]
      BY <2>2 DEF chooseBooksToStudy, BooksLeft
    <3>2. time[b] = studyTime[b] + p
      BY <1>1, <1>2, <2>2
    <3>3. QED
      BY <1>5, <2>1, <3>1, <3>2
  <2>3. CASE b \notin books
    <3>1. time[b] = studyTime[b]
      BY <1>1, <1>2, <2>3
    <3>2. studyTime[b] <= Required[b] + global.MAX_STUDY_TIME_UNITS - 1
      BY <1>1, <1>2 DEF SInv, Studying
    <3>3. QED
      BY <3>1, <3>2
  <2>4. QED
    BY <2>2, <2>3
<1> HIDE DEF time
<1>8. completionPercentageCourseUnit(time) = Share(Required, time)
  BY DEF completionPercentageCourseUnit, Share, Capped
<1>9. /\ Share(Required, time) \in 0..100
      /\ Share(Required, time) = 100 <=> Enough(Required, time)
  BY <1>2, <1>6, ShareIsOfAll
<1>10. Required' = Required /\ global' = global /\ courses' = courses /\ given' = given
       /\ mine' = mine /\ left' = left /\ actualCourse' = actualCourse
  BY <1>4 DEF Required, program
<1>11. OptionsOK' /\ CoursesOK'
  BY <1>4, <1>10 DEF SInv, OptionsOK, CoursesOK, Course, Day
<1>12. /\ stage \notin Unborn /\ next \notin Unborn /\ stage # "enrollCourse" /\ next # "enrollCourse"
       /\ stage # "done" /\ next # "done"
  BY DEF Unborn, Day
<1>13. actualCourse \notin studied /\ studied \subseteq mine /\ IsFiniteSet(studied)
       /\ IsFiniteSet(mine)
  BY <1>1, <1>12, FS_Subset DEF SInv, Studying, Counted
<1>14. concludedCourses \in [mine -> {0, 1}] /\ \A c \in studied : concludedCourses[c] = 1
  BY <1>12 DEF SInv, Counted
<1>15. left + Cardinality(studied) = Cardinality(mine) /\ left \in Nat /\ mine # {} /\ left > 0
       /\ Cardinality(studied) \in Nat /\ Cardinality(mine) \in Nat
  BY <1>12, <1>13, FS_CardinalityType DEF SInv, Counted
<1>16. CASE Enough(Required, time)
  <2>1. /\ studied' = studied \union {actualCourse} /\ completionPercentage' = 100
        /\ concludedCourses' = [concludedCourses EXCEPT ![actualCourse] = 1]
    BY <1>4, <1>8, <1>9, <1>16 DEF Enough
  <2>2. Cardinality(studied') = Cardinality(studied) + 1
    BY <1>13, <2>1, FS_AddElement
  <2>3. /\ concludedCourses' \in [mine -> {0, 1}]
        /\ \A c \in studied' : concludedCourses'[c] = 1
    BY <1>1, <1>13, <1>14, <2>1
  <2>4. Counted'
    BY <1>4, <1>10, <1>12, <1>13, <1>15, <1>1, <2>1, <2>2, <2>3 DEF Counted
  <2>5. Studying'
    BY <1>1, <1>4, <1>6, <1>7, <1>8, <1>9, <1>10, <2>1 DEF Studying
  <2>6. NoStudent'
    BY <1>4, <1>12 DEF NoStudent
  <2>7. studied' \subseteq mine
    BY <1>1, <1>13, <2>1
  <2>8. QED
    BY <1>1, <1>4, <1>8, <1>9, <1>10, <1>11, <2>3, <2>4, <2>5, <2>6, <2>7 DEF SInv
<1>17. CASE ~Enough(Required, time)
  <2>1. /\ studied' = studied /\ completionPercentage' # 100
        /\ concludedCourses' = concludedCourses
    BY <1>4, <1>8, <1>9, <1>17 DEF Enough
  <2>4. Counted'
    BY <1>4, <1>10, <1>12, <1>13, <1>14, <1>15, <1>1, <2>1 DEF Counted
  <2>5. Studying'
    BY <1>1, <1>4, <1>6, <1>7, <1>8, <1>10, <1>13, <2>1 DEF Studying
  <2>6. NoStudent'
    BY <1>4, <1>12 DEF NoStudent
  <2>8. QED
    BY <1>1, <1>4, <1>8, <1>9, <1>10, <1>11, <1>13, <1>14, <2>1, <2>4, <2>5, <2>6 DEF SInv
<1>18. QED
  BY <1>16, <1>17

LEMMA StudyOK ==
  ASSUME SInv, NEW now \in Halves, NEW books \in chooseBooksToStudy, study(now, books)
  PROVE  SInv'
<1>1. /\ stage \in Day /\ now[2] \in Day /\ completionPercentage < 100
      /\ StudyBooks(books, now[2])
  BY DEF study, MayStudy, Halves, Day
<1>2. QED
  BY <1>1, StudyBooksOK

\* A course whose percentage is below 100 has a book left: study does not abort.
LEMMA NoStudyOK ==
  ASSUME SInv, NoStudy
  PROVE  SInv' /\ stage' \in {"lunch", "dinner"}
<1>1. PICK now \in Halves :
        /\ stage = now[1]
        /\ \/ completionPercentage = 100 /\ stage' = now[2]
           \/ completionPercentage < 100 /\ BooksLeft = {} /\ stage' = "aborted"
        /\ UNCHANGED <<program, student>>
  BY DEF NoStudy
<1>2. stage \in Day /\ now[2] \in Day /\ now[2] \in {"lunch", "dinner"}
  BY <1>1 DEF Halves, Day
<1>3. ~(completionPercentage < 100 /\ BooksLeft = {})
  <2> SUFFICES ASSUME BooksLeft = {} PROVE completionPercentage = 100
    BY DEF SInv
  <2>1. PICK n \in Nat \ {0} : Required \in [1..n -> Nat \ {0}]
    BY <1>2, OnCourse
  <2>2. studyTime \in [1..n -> Nat] /\ completionPercentage = Share(Required, studyTime)
    BY <1>2, <2>1, OnCourse DEF SInv, Studying
  <2>3. \A b \in 1..n : ~(studyTime[b] < Required[b])
    BY <2>1 DEF BooksLeft
  <2>4. Enough(Required, studyTime)
    BY <2>1, <2>2, <2>3 DEF Enough
  <2>5. QED
    BY <2>1, <2>2, <2>4, ShareIsOfAll
<1>4. stage' = now[2] /\ UNCHANGED <<program, student>>
  BY <1>1, <1>3
<1>5. QED
  BY <1>2, <1>4, StageOK

LEMMA EveningOK ==
  ASSUME SInv, Evening
  PROVE  SInv'
<1> USE DEF Evening
<1>1. stage \in Day /\ stage \notin Unborn /\ stage # "done"
  BY DEF Day, Unborn
<1>2. /\ global' = global /\ given' = given /\ courses' = courses /\ mine' = mine
      /\ actualCourse' = actualCourse /\ concludedCourses' = concludedCourses
      /\ completionPercentage' = completionPercentage /\ studyTime' = studyTime
      /\ studied' = studied /\ Required' = Required
  BY DEF program, Required
<1>3. OptionsOK' /\ CoursesOK'
  BY <1>2 DEF SInv, OptionsOK, CoursesOK, Course
<1>4. completionPercentage \in 0..100 /\ left \in Nat /\ left > 0
  BY <1>1 DEF SInv, Counted
<1>5. CASE completionPercentage = 100
  <2>1. left' = left - 1 /\ stage' \notin Day /\ stage' \notin Unborn
        /\ stage' \in {"enrollCourse", "done"}
        /\ (stage' = "done" <=> left' = 0)
    BY <1>4, <1>5 DEF Day, Unborn
  <2>2. IsFiniteSet(mine) /\ IsFiniteSet(studied)
    BY <1>1, FS_Subset DEF SInv, Counted
  <2>3. Counted'
    BY <1>1, <1>2, <1>4, <1>5, <2>1, <2>2, FS_CardinalityType DEF SInv, Counted
  <2>4. Studying' /\ NoStudent'
    BY <1>2, <1>5, <2>1 DEF SInv, Studying, NoStudent
  <2>5. QED
    BY <1>2, <1>3, <2>1, <2>3, <2>4 DEF SInv
<1>6. CASE completionPercentage < 100
  <2>1. left' = left /\ stage' = "sleep"
    BY <1>4, <1>6
  <2>2. UNCHANGED <<program, student>>
    BY <1>2, <2>1 DEF program, student
  <2>3. QED
    BY <1>1, <2>1, <2>2, StageOK DEF Day
<1>7. QED
  BY <1>4, <1>5, <1>6

LEMMA SpendOK ==
  ASSUME SInv, Spend
  PROVE  SInv'
<1>1. stage \in Day /\ stage' \in Day /\ UNCHANGED <<program, student>>
  BY DEF Spend, TheDay, Day
<1>2. QED
  BY <1>1, StageOK

\* Whatever is shown along with it, a step is one of the options, of the initialisation, or
\* of the student.
LEMMA StepsAre ==
  ASSUME ScreenNext
  PROVE  \/ processArgs \/ Option(global) \/ Start \/ initAllCourses \/ newStudent
         \/ enrollCourse \/ Spend \/ NoStudy \/ Evening
         \/ \E now \in Halves : \E books \in chooseBooksToStudy : study(now, books)
BY DEF ScreenNext, switchToLineMode, switchToWindowMode, enroll, SleepOrEat, StudyShown, fun, done

LEMMA StepOK ==
  ASSUME SInv, [ScreenNext]_screenVars
  PROVE  SInv'
<1>1. CASE UNCHANGED screenVars
  BY <1>1 DEF screenVars, vars, program, student, SInv, OptionsOK, CoursesOK, Course, NoStudent,
              Studying, Counted, Required
<1>2. CASE ScreenNext
  <2>1. CASE processArgs \/ Option(global)
    BY <2>1, OptionOK
  <2>2. CASE Start
    BY <2>2, StartOK
  <2>3. CASE initAllCourses
    BY <2>3, initAllCoursesOK
  <2>4. CASE newStudent
    BY <2>4, newStudentOK
  <2>5. CASE enrollCourse
    BY <2>5, enrollCourseOK
  <2>6. CASE Spend
    BY <2>6, SpendOK
  <2>7. CASE NoStudy
    BY <2>7, NoStudyOK
  <2>8. CASE Evening
    BY <2>8, EveningOK
  <2>9. ASSUME NEW now \in Halves, NEW books \in chooseBooksToStudy, study(now, books)
        PROVE  SInv'
    BY <2>9, StudyOK
  <2>10. QED
    BY <1>2, <2>1, <2>2, <2>3, <2>4, <2>5, <2>6, <2>7, <2>8, <2>9, StepsAre, Zenon
<1>3. QED
  BY <1>1, <1>2

\* The invariant of the student holds whatever the options are, and however long the student
\* studies.
THEOREM StudiesInductive == ScreenSpec => []SInv
<1>1. ScreenInit => SInv
  BY SInitOK DEF ScreenInit
<1>2. SInv /\ [ScreenNext]_screenVars => SInv'
  BY StepOK
<1>3. QED
  BY <1>1, <1>2, PTL DEF ScreenSpec

LEMMA TypesFollow == SInv => TypeOK
<1> SUFFICES ASSUME SInv PROVE TypeOK
  OBVIOUS
<1>1. stage \in Stages
  BY DEF SInv, Stages, TheDay, Unborn, Day
<1>2. left \in 0..Cardinality(mine)
  <2>1. CASE stage \in Unborn
    <3>1. mine = {} /\ left = 0
      BY <2>1 DEF SInv, NoStudent
    <3>2. QED
      BY <3>1, FS_EmptySet
  <2>2. CASE stage \notin Unborn
    <3>1. /\ IsFiniteSet(mine) /\ studied \subseteq mine /\ left \in Nat
          /\ left + Cardinality(studied) =
                Cardinality(mine) + (IF stage \in Day /\ completionPercentage = 100 THEN 1 ELSE 0)
      BY <2>2 DEF SInv, Counted
    <3>2. IsFiniteSet(studied) /\ Cardinality(studied) \in Nat /\ Cardinality(mine) \in Nat
      BY <3>1, FS_Subset, FS_CardinalityType
    <3>3. CASE stage \in Day /\ completionPercentage = 100
      <4>1. studied # {}
        BY <2>2, <3>3 DEF SInv, Counted, Studying
      <4>2. Cardinality(studied) # 0
        BY <3>2, <4>1, FS_EmptySet
      <4>3. QED
        BY <3>1, <3>2, <3>3, <4>2
    <3>4. CASE ~(stage \in Day /\ completionPercentage = 100)
      BY <3>1, <3>2, <3>4
    <3>5. QED
      BY <3>3, <3>4
  <2>3. QED
    BY <2>1, <2>2
<1>3. ASSUME actualCourse # NoCourse, NEW b \in DOMAIN Required
      PROVE  studyTime[b] \in 0..(Required[b] + global.MAX_STUDY_TIME_UNITS - 1)
  <2>1. actualCourse \in mine
    BY <1>3 DEF SInv, Studying
  <2>2. Required[b] \in Nat \ {0}
    BY <1>3, <2>1, CourseIs DEF Required
  <2>3. global.MAX_STUDY_TIME_UNITS \in Nat
    BY Counts DEF SInv, OptionsOK
  <2>4. QED
    BY <1>3, <2>2, <2>3 DEF SInv, Studying
<1>4. QED
  BY <1>1, <1>2, <1>3 DEF SInv, OptionsOK, CoursesOK, TypeOK

\* The parameters stay in their ranges and the counters of the student agree with its
\* courses; no book is exceeded by a whole visit (processArgs, study).
THEOREM StudiesTyped == ScreenSpec => []TypeOK
BY StudiesInductive, TypesFollow, PTL

\* An assertion fails only where the options let a course ask for every book there is: the
\* one of chooseBooksToStudy never does, for a course below 100 per cent has a book left.
THEOREM AbortsRarely == ScreenSpec => []AbortsOnlyOnLongLists
<1>1. SInv => AbortsOnlyOnLongLists
  BY DEF SInv, NoStudent, AbortsOnlyOnLongLists, Unborn
<1>2. QED
  BY <1>1, StudiesInductive, PTL

\* A student that is done has studied each of its courses, all of the books of each, whatever
\* concludedCourses held at first and whatever the percentages were rounded to (life).
THEOREM DoneStudied == ScreenSpec => []DoneMeansStudied
<1>1. SInv => DoneMeansStudied
  <2> SUFFICES ASSUME SInv, stage = "done" PROVE studied = mine
    BY DEF DoneMeansStudied
  <2>1. stage \notin Unborn /\ stage \notin Day
    BY DEF Unborn, Day
  <2>2. /\ IsFiniteSet(mine) /\ studied \subseteq mine /\ left = 0
        /\ left + Cardinality(studied) = Cardinality(mine) + 0
    BY <2>1 DEF SInv, Counted
  <2>3. Cardinality(studied) = Cardinality(mine)
    BY <2>2, FS_Subset, FS_CardinalityType
  <2>4. QED
    BY <2>2, <2>3, FS_Subset
<1>2. QED
  BY <1>1, StudiesInductive, PTL

-----------------------------------------------------------------------------
(***************************************************************************)
(* Everything has its place.                                               *)
(***************************************************************************)
\* The library's texts are as wide as the column of the next one takes them to be, with the
\* two columns the number of copies has.
LEMMA ShelfFits ==
  ASSUME OptionsOK
  PROVE  /\ Longest(toStringBookShelfs) \in Nat /\ lengthBookShelf \in Nat
         /\ Longest(toStringBookShelfs) = lengthBookShelf
         /\ Len(toStringBookShelfs) = 9
<1> DEFINE half == global.NUM_BOOKS \div 2
           other == global.NUM_BOOKS - half
           text == toStringBookShelfs
           T == {text[l] : l \in DOMAIN text}
           m == IF other = 1 THEN 8 ELSE 6 * other + 1
<1>1. global.NUM_BOOKS \in Nat \ {0} /\ Copies(global.MAX_BOOK_COPIES) = 2
  BY Counts DEF OptionsOK, Copies
<1>2. half \in Nat /\ other \in Nat \ {0} /\ half <= other /\ other = (global.NUM_BOOKS + 1) \div 2
  <2> DEFINE up == (global.NUM_BOOKS + 1) \div 2
  <2>1. half \in Nat /\ half * 2 <= global.NUM_BOOKS /\ global.NUM_BOOKS < half * 2 + 2
    BY <1>1, DivisionBounds
  <2>2. /\ up \in Nat /\ up * 2 <= global.NUM_BOOKS + 1
        /\ global.NUM_BOOKS + 1 < up * 2 + 2
    <3>1. global.NUM_BOOKS + 1 \in Nat
      BY <1>1
    <3>2. QED
      BY <3>1, DivisionBounds
  <2> HIDE DEF half, up
  <2>3. half \in Nat /\ other \in Nat \ {0} /\ half <= other /\ other = up
    BY <1>1, <2>1, <2>2
  <2>4. QED
    BY <2>3 DEF up
<1>3. /\ BooksLine(half) = 6 * half + 1 /\ BooksLine(other) = 6 * other + 1
      /\ Frame(other) = 6 * other + 1
      /\ Frame(half) \in Nat /\ Frame(half) <= 6 * other + 1
  <2> HIDE DEF half, other
  <2>1. QED
    BY <1>1, <1>2 DEF BooksLine, Frame
<1>4. text = <<8, Frame(half), BooksLine(half), Frame(half), 0, 0,
               Frame(other), BooksLine(other), Frame(other)>>
  BY DEF toStringBookShelfs
<1> HIDE DEF half, other
<1>5. /\ T = {8, Frame(half), BooksLine(half), 0, Frame(other), BooksLine(other)}
      /\ Len(text) = 9
  <2>1. DOMAIN text = 1..9 /\ Len(text) = 9
    BY <1>4
  <2>2. T = {text[1], text[2], text[3], text[4], text[5], text[6], text[7], text[8], text[9]}
    <3>1. 1..9 = {1, 2, 3, 4, 5, 6, 7, 8, 9}
      OBVIOUS
    <3> HIDE DEF text
    <3>2. QED
      BY <2>1, <3>1
  <2>3. QED
    BY <1>4, <2>1, <2>2
<1>6. Max(T) = m
  <2>1. m \in T /\ m \in Nat /\ \A x \in T : x \in Nat /\ x <= m
    <3> HIDE DEF T
    <3>1. QED
      BY <1>2, <1>3, <1>5
  <2> HIDE DEF T, m
  <2>2. QED
    BY <2>1, MaxIs
<1>7. lengthBookShelf = m
  <2>1. lengthBookShelf = Max({8, 6 * other + 1})
    <3>1. ((global.NUM_BOOKS + 1) \div 2) * 6 + 1 = 6 * other + 1
      BY <1>2
    <3>2. QED
      BY <3>1 DEF lengthBookShelf
  <2> DEFINE U == {8, 6 * other + 1}
  <2>2. m \in U /\ m \in Nat /\ \A x \in U : x \in Nat /\ x <= m
    BY <1>2
  <2> HIDE DEF m, U
  <2>3. Max(U) = m
    BY <2>2, MaxIs
  <2>4. QED
    BY <2>1, <2>3 DEF U
<1>8. QED
  BY <1>2, <1>5, <1>6, <1>7 DEF Longest

LEMMA LibrarianFits ==
  /\ Longest(toStringLibrarian) = 39 /\ Len(toStringLibrarian) = 4
  /\ lengthLibrarian = 39
<1> DEFINE text == toStringLibrarian
           T == {text[l] : l \in DOMAIN text}
<1>1. text = <<10, 39, 39, 39>>
  BY DEF toStringLibrarian
<1>2. DOMAIN text = {1, 2, 3, 4} /\ Len(text) = 4
  BY <1>1
<1>3. T = {10, 39}
  BY <1>1, <1>2
<1>4. Max(T) = 39
  <2>1. 39 \in T /\ \A x \in T : x \in Nat /\ x <= 39
    BY <1>3
  <2> HIDE DEF T
  <2>2. QED
    BY <2>1, MaxIs
<1>5. QED
  BY <1>2, <1>4 DEF Longest, lengthLibrarian

\* Two sequences of any things, one after the other.
LEMMA Joined ==
  ASSUME NEW a, NEW b, NEW k \in Nat, NEW n \in Nat,
         a = [i \in 1..k |-> a[i]], b = [i \in 1..n |-> b[i]]
  PROVE  /\ DOMAIN (a \o b) = 1..(k + n) /\ Len(a \o b) = k + n
         /\ a \o b = [i \in 1..(k + n) |-> IF i <= k THEN a[i] ELSE b[i - k]]
<1> DEFINE S == {a[i] : i \in 1..k} \union {b[i] : i \in 1..n}
<1>1. a \in Seq(S) /\ b \in Seq(S) /\ Len(a) = k /\ Len(b) = n
  <2>1. a \in [1..k -> S] /\ b \in [1..n -> S]
    OBVIOUS
  <2>2. DOMAIN a = 1..k /\ DOMAIN b = 1..n
    OBVIOUS
  <2> HIDE DEF S
  <2>3. QED
    BY <2>1, <2>2
<1> HIDE DEF S
<1>2. a \o b \in Seq(S) /\ Len(a \o b) = k + n
  BY <1>1
<1>3. \A i \in 1..(k + n) : (a \o b)[i] = IF i <= k THEN a[i] ELSE b[i - k]
  BY <1>1
<1>4. QED
  BY <1>2, <1>3

\* The areas of initSimulation: five of their own and then the students'.
LEMMA AreasAre ==
  ASSUME OptionsOK
  PROVE  /\ DOMAIN initSimulation = 1..(5 + global.NUM_STUDENTS)
         /\ initSimulation[1] = registerLogger(0, 0, toStringBookShelfs)
         /\ initSimulation[2] = registerLogger(2, lengthBookShelf + 2, toStringTables)
         /\ initSimulation[3] = registerLogger(10, 0, toStringLibrarian)
         /\ initSimulation[4] = registerLogger(10, lengthLibrarian + 1, toStringAllCourses)
         /\ initSimulation[5] = registerLogger(15, 0, <<9>>)
         /\ \A i \in 6..(5 + global.NUM_STUDENTS) :
               initSimulation[i] = registerLogger(16 + 3 * (i - 6), 0, <<StudentLine, StudentLine, StudentLine>>)
<1> DEFINE n == global.NUM_STUDENTS
           A1 == registerLogger(0, 0, toStringBookShelfs)
           A2 == registerLogger(2, lengthBookShelf + 2, toStringTables)
           A3 == registerLogger(10, 0, toStringLibrarian)
           A4 == registerLogger(10, lengthLibrarian + 1, toStringAllCourses)
           A5 == registerLogger(15, 0, <<9>>)
           St(l) == registerLogger(l, 0, <<StudentLine, StudentLine, StudentLine>>)
           a == <<A1, A2>>
           b == <<A3, A4, A5>>
           c == [i \in 1..n |-> St(16 + 3 * (i - 1))]
<1>1. n \in Nat
  BY Counts DEF OptionsOK
<1>2. initSimulation = a \o b \o c
  BY <1>1 DEF initSimulation, initLibrary
<1> HIDE DEF A1, A2, A3, A4, A5, St, n
<1>3. /\ DOMAIN (a \o b) = 1..5
      /\ a \o b = [i \in 1..5 |-> IF i <= 2 THEN a[i] ELSE b[i - 2]]
  <2>1. a = [i \in 1..2 |-> a[i]] /\ b = [i \in 1..3 |-> b[i]]
    OBVIOUS
  <2> HIDE DEF a, b
  <2>2. DOMAIN (a \o b) = 1..(2 + 3) /\ a \o b = [i \in 1..(2 + 3) |-> IF i <= 2 THEN a[i] ELSE b[i - 2]]
    BY <2>1, Joined
  <2>3. QED
    BY <2>2
<1> DEFINE ab == a \o b
<1>4. ab[1] = A1 /\ ab[2] = A2 /\ ab[3] = A3 /\ ab[4] = A4 /\ ab[5] = A5
  BY <1>3
<1>5. /\ DOMAIN (ab \o c) = 1..(5 + n)
      /\ ab \o c = [i \in 1..(5 + n) |-> IF i <= 5 THEN ab[i] ELSE c[i - 5]]
  <2>1. ab = [i \in 1..5 |-> ab[i]] /\ c = [i \in 1..n |-> c[i]]
    BY <1>3
  <2> HIDE DEF ab, c
  <2>2. QED
    BY <1>1, <2>1, Joined
<1>6. initSimulation = ab \o c
  BY <1>2
<1> HIDE DEF ab
<1>7. \A i \in 6..(5 + n) : initSimulation[i] = St(16 + 3 * (i - 6))
  <2> SUFFICES ASSUME NEW i \in 6..(5 + n) PROVE initSimulation[i] = St(16 + 3 * (i - 6))
    OBVIOUS
  <2>1. i \in 1..(5 + n) /\ ~(i <= 5) /\ i - 5 \in 1..n /\ (i - 5) - 1 = i - 6
    BY <1>1
  <2>2. initSimulation[i] = c[i - 5]
    BY <1>5, <1>6, <2>1
  <2>3. QED
    BY <2>1, <2>2
<1>8. /\ initSimulation[1] = A1 /\ initSimulation[2] = A2 /\ initSimulation[3] = A3
      /\ initSimulation[4] = A4 /\ initSimulation[5] = A5
  BY <1>1, <1>4, <1>5, <1>6
<1>9. QED
  BY <1>5, <1>6, <1>7, <1>8 DEF n, A1, A2, A3, A4, A5, St

LEMMA AreasApart ==
  ASSUME OptionsOK,
         NEW i \in DOMAIN initSimulation, NEW j \in DOMAIN initSimulation, i < j
  PROVE  Apart(initSimulation[i], initSimulation[j])
<1> DEFINE n == global.NUM_STUDENTS
           Ends(k) == IF k = 1 THEN 9 ELSE IF k = 2 THEN 8 ELSE IF k \in {3, 4} THEN 14
                      ELSE IF k = 5 THEN 16 ELSE 19 + 3 * (k - 6)
           Begins(k) == IF k = 1 THEN 0 ELSE IF k = 2 THEN 2 ELSE IF k \in {3, 4} THEN 10
                        ELSE IF k = 5 THEN 15 ELSE 16 + 3 * (k - 6)
<1>1. n \in Nat /\ DOMAIN initSimulation = 1..(5 + n)
  BY Counts, AreasAre DEF OptionsOK
<1>2. /\ Len(toStringBookShelfs) = 9 /\ Len(toStringTables) = 6 /\ Len(toStringLibrarian) = 4
      /\ Len(toStringAllCourses) = 4 /\ Len(<<9>>) = 1
      /\ Len(<<StudentLine, StudentLine, StudentLine>>) = 3
  BY ShelfFits, LibrarianFits DEF toStringTables, toStringAllCourses
<1>3. ASSUME NEW k \in 1..(5 + n)
      PROVE  /\ initSimulation[k].line = Begins(k)
             /\ initSimulation[k].line + initSimulation[k].lines = Ends(k)
  <2>1. CASE k \in 1..5
    BY <1>2, <2>1, AreasAre DEF registerLogger
  <2>2. CASE k \in 6..(5 + n)
    <3>1. initSimulation[k] = registerLogger(16 + 3 * (k - 6), 0, <<StudentLine, StudentLine, StudentLine>>)
      BY <2>2, AreasAre
    <3>2. QED
      BY <1>1, <1>2, <2>2, <3>1 DEF registerLogger
  <2>3. QED
    BY <1>1, <2>1, <2>2
<1>4. i \in Nat /\ j \in Nat /\ i \in 1..(5 + n) /\ j \in 1..(5 + n)
  BY <1>1
<1>5. CASE i = 1 /\ j = 2
  <2>1. /\ initSimulation[1].column = 0
        /\ initSimulation[1].columns = Longest(toStringBookShelfs)
        /\ initSimulation[2].column = lengthBookShelf + 2
    BY AreasAre DEF registerLogger
  <2>2. QED
    BY <1>5, <2>1, ShelfFits DEF Apart
<1>6. CASE i = 3 /\ j = 4
  <2>1. /\ initSimulation[3].column = 0
        /\ initSimulation[3].columns = Longest(toStringLibrarian)
        /\ initSimulation[4].column = lengthLibrarian + 1
    BY AreasAre DEF registerLogger
  <2>2. QED
    BY <1>6, <2>1, LibrarianFits DEF Apart
<1>7. CASE ~(i = 1 /\ j = 2) /\ ~(i = 3 /\ j = 4)
  <2>1. Ends(i) <= Begins(j)
    BY <1>4, <1>7
  <2>2. initSimulation[i].line + initSimulation[i].lines <= initSimulation[j].line
    <3>1. initSimulation[i].line + initSimulation[i].lines = Ends(i)
      BY <1>3, <1>4
    <3>2. initSimulation[j].line = Begins(j)
      BY <1>3, <1>4
    <3> HIDE DEF Ends, Begins
    <3>3. QED
      BY <2>1, <3>1, <3>2
  <2>3. QED
    BY <2>2 DEF Apart
<1>8. QED
  BY <1>5, <1>6, <1>7

\* A number is written with a digit and a rest in one way.
LEMMA Digits ==
  ASSUME NEW H \in Nat \ {0}, NEW t \in Nat, NEW u \in Nat, NEW s \in 0..(H - 1), NEW v \in 0..(H - 1),
         t * H + s = u * H + v
  PROVE  t = u /\ s = v
<1>1. CASE t < u
  <2>1. (t + 1) * H <= u * H
    BY <1>1, Times
  <2>2. (t + 1) * H = t * H + H
    OBVIOUS
  <2>3. QED
    BY <2>1, <2>2
<1>2. CASE u < t
  <2>1. (u + 1) * H <= t * H
    BY <1>2, Times
  <2>2. (u + 1) * H = u * H + H
    OBVIOUS
  <2>3. QED
    BY <2>1, <2>2
<1>3. CASE t = u
  <2>1. t * H \in Nat /\ u * H \in Nat /\ t * H = u * H
    BY <1>3
  <2>2. QED
    BY <1>3, <2>1
<1>4. QED
  BY <1>1, <1>2, <1>3

\* Each number below n * H has a digit below n and a rest.
LEMMA DigitsExist ==
  ASSUME NEW H \in Nat \ {0}, NEW n \in Nat, NEW q \in 0..(n * H - 1)
  PROVE  \E t \in 0..(n - 1) : \E s \in 0..(H - 1) : q = t * H + s
<1> DEFINE t == q \div H
<1>1. q \in Nat /\ n * H \in Nat /\ q < n * H
  OBVIOUS
<1>2. t \in Nat /\ t * H <= q /\ q < t * H + H
  BY <1>1, DivisionBounds
<1> HIDE DEF t
<1>3. t <= n - 1
  <2>1. CASE t >= n
    <3>1. n * H <= t * H
      BY <1>2, <2>1, Times
    <3>2. QED
      BY <1>1, <1>2, <3>1
  <2>2. QED
    BY <1>2, <2>1
<1>4. t * H \in Nat
  BY <1>2
<1>5. q - t * H \in 0..(H - 1)
  BY <1>1, <1>2, <1>4
<1>6. q = t * H + (q - t * H)
  BY <1>1, <1>4
<1>7. QED
  BY <1>2, <1>3, <1>5, <1>6

\* A digit below n and a rest are a number below n * H.
LEMMA DigitsBelow ==
  ASSUME NEW H \in Nat \ {0}, NEW n \in Nat, NEW t \in 0..(n - 1), NEW s \in 0..(H - 1)
  PROVE  t * H + s \in 0..(n * H - 1)
<1>1. (t + 1) * H <= n * H /\ n * H \in Nat
  BY Times
<1>2. (t + 1) * H = t * H + H /\ t * H \in Nat
  OBVIOUS
<1>3. QED
  BY <1>1, <1>2

\* Each seat of the library is drawn in one place: the sides, tables and seats count through
\* the seats, because the number of seats of a table is even.
LEMMA SeatsDrawn ==
  ASSUME OptionsOK
  PROVE  /\ {SeatDrawn(p[1], p[2], p[3]) : p \in Positions} = 0..numSeats - 1
         /\ Cardinality(Positions) = numSeats
<1> DEFINE n == global.NUM_TABLES
           m == global.NUM_SEATS_PER_TABLE
           H == global.NUM_SEATS_PER_TABLE \div 2
           B == n * H
<1>1. n \in Nat \ {0} /\ m \in Nat \ {0} /\ m % 2 = 0
  BY Counts DEF OptionsOK
<1>2. m = 2 * H /\ H \in Nat \ {0}
  BY <1>1
<1>3. B \in Nat \ {0} /\ numSeats = 2 * B
  <2>1. n * m = 2 * (n * H)
    <3> HIDE DEF m, H, n
    <3>1. n * m = n * (2 * H)
      BY <1>2
    <3>2. n * (2 * H) = 2 * (n * H)
      BY <1>1, <1>2
    <3>3. QED
      BY <3>1, <3>2
  <2>2. n * H \in Nat \ {0}
    <3> HIDE DEF m, H, n
    <3>1. 1 * H <= n * H /\ n * H \in Nat
      BY <1>1, <1>2, Times
    <3>2. QED
      BY <1>2, <3>1
  <2>3. QED
    BY <2>1, <2>2 DEF numSeats
<1>4. ASSUME NEW side \in {0, 1}, NEW t \in Nat, NEW s \in Nat
      PROVE  SeatDrawn(side, t, s) = side * B + (t * H + s)
  <2>1. (side * n * m) \div 2 = side * B
    <3>1. n * m = 2 * B
      BY <1>3 DEF numSeats
    <3>2. CASE side = 0
      <4> HIDE DEF B, n, m
      <4>1. side * n * m = 0 /\ side * B = 0
        BY <1>1, <1>3, <3>2
      <4>2. QED
        BY <4>1
    <3>3. CASE side = 1
      <4> HIDE DEF B, n, m
      <4>1. side * n * m = 2 * B /\ side * B = B
        BY <1>1, <1>3, <3>1, <3>3
      <4>2. (2 * B) \div 2 = B
        BY <1>3
      <4>3. QED
        BY <4>1, <4>2
    <3>4. QED
      BY <3>2, <3>3
  <2>2. SeatDrawn(side, t, s) = (side * n * m) \div 2 + t * H + s
    BY DEF SeatDrawn
  <2> HIDE DEF B, H, n, m
  <2>3. side * B \in Nat /\ t * H \in Nat
    BY <1>2, <1>3
  <2>4. QED
    BY <2>1, <2>2, <2>3
<1>5. Positions = {0, 1} \X (0..(n - 1)) \X (0..(H - 1))
  BY DEF Positions
<1> DEFINE f == [p \in Positions |-> SeatDrawn(p[1], p[2], p[3])]
           K == 2 * B
<1> HIDE DEF n, m, H, B
<1>6. ASSUME NEW p \in Positions
      PROVE  /\ p[1] \in {0, 1} /\ p[2] \in 0..(n - 1) /\ p[3] \in 0..(H - 1)
             /\ p = <<p[1], p[2], p[3]>>
             /\ p[2] * H + p[3] \in 0..(B - 1)
             /\ f[p] = p[1] * B + (p[2] * H + p[3])
             /\ f[p] \in 0..(K - 1)
  <2>1. /\ p[1] \in {0, 1} /\ p[2] \in 0..(n - 1) /\ p[3] \in 0..(H - 1)
        /\ p = <<p[1], p[2], p[3]>>
    BY <1>5
  <2>2. p[2] * H + p[3] \in 0..(B - 1)
    BY <1>1, <1>2, <2>1, DigitsBelow DEF B
  <2>3. f[p] = p[1] * B + (p[2] * H + p[3])
    BY <1>4, <2>1
  <2>4. f[p] \in 0..(K - 1)
    BY <1>3, <2>1, <2>2, <2>3
  <2>5. QED
    BY <2>1, <2>2, <2>3, <2>4
<1>7. ASSUME NEW p \in Positions, NEW q \in Positions, f[p] = f[q]
      PROVE  p = q
  <2>1. p[1] * B + (p[2] * H + p[3]) = q[1] * B + (q[2] * H + q[3])
    BY <1>6, <1>7
  <2>2. p[1] = q[1] /\ p[2] * H + p[3] = q[2] * H + q[3]
    <3>1. /\ p[1] \in Nat /\ q[1] \in Nat
          /\ p[2] * H + p[3] \in 0..(B - 1) /\ q[2] * H + q[3] \in 0..(B - 1)
      BY <1>6
    <3> DEFINE a == p[2] * H + p[3]
               b == q[2] * H + q[3]
    <3> HIDE DEF a, b
    <3>2. p[1] = q[1] /\ a = b
      <4>1. /\ p[1] \in Nat /\ q[1] \in Nat /\ a \in 0..(B - 1) /\ b \in 0..(B - 1)
            /\ p[1] * B + a = q[1] * B + b /\ B \in Nat \ {0}
        BY <1>3, <2>1, <3>1 DEF a, b
      <4>2. \A t, u \in Nat : \A s, v \in 0..(B - 1) : t * B + s = u * B + v => t = u /\ s = v
        BY <4>1, Digits
      <4>3. QED
        BY <4>1, <4>2
    <3>3. QED
      BY <3>2 DEF a, b
  <2>3. p[2] = q[2] /\ p[3] = q[3]
    <3> DEFINE t == p[2]
               u == q[2]
               s == p[3]
               v == q[3]
    <3>1. /\ t \in Nat /\ u \in Nat /\ s \in 0..(H - 1) /\ v \in 0..(H - 1)
          /\ H \in Nat \ {0} /\ t * H + s = u * H + v
      BY <1>1, <1>2, <1>6, <2>2
    <3> HIDE DEF t, u, s, v
    <3>2. t = u /\ s = v
      BY <3>1, Digits
    <3>3. QED
      BY <3>2 DEF t, u, s, v
  <2>4. QED
    BY <1>6, <2>2, <2>3
<1>8. ASSUME NEW k \in 0..(K - 1)
      PROVE  \E p \in Positions : f[p] = k
  <2>1. PICK side \in 0..1 : \E r \in 0..(B - 1) : k = side * B + r
    <3>1. k \in 0..(2 * B - 1) /\ 2 \in Nat /\ 2 - 1 = 1
      OBVIOUS
    <3>2. \E side \in 0..(2 - 1) : \E r \in 0..(B - 1) : k = side * B + r
      BY <1>3, <3>1, DigitsExist
    <3>3. QED
      BY <3>1, <3>2
  <2>2. PICK r \in 0..(B - 1) : k = side * B + r
    BY <2>1
  <2>3. PICK t \in 0..(n - 1) : \E s \in 0..(H - 1) : r = t * H + s
    <3>1. n \in Nat /\ r \in 0..(n * H - 1)
      BY <1>1 DEF B
    <3>2. QED
      BY <1>2, <3>1, DigitsExist
  <2>4. PICK s \in 0..(H - 1) : r = t * H + s
    BY <2>3
  <2>5. <<side, t, s>> \in Positions /\ side \in {0, 1}
    BY <1>5
  <2>6. SeatDrawn(side, t, s) = k
    BY <1>4, <2>2, <2>4, <2>5
  <2>7. f[<<side, t, s>>] = k
    BY <2>5, <2>6
  <2>8. QED
    BY <2>5, <2>7
<1>9. {SeatDrawn(p[1], p[2], p[3]) : p \in Positions} = 0..(K - 1)
  <2>1. \A p \in Positions : SeatDrawn(p[1], p[2], p[3]) = f[p] /\ f[p] \in 0..(K - 1)
    BY <1>6
  <2>2. \A k \in 0..(K - 1) : \E p \in Positions : k = f[p]
    BY <1>8
  <2> HIDE DEF f, K
  <2>3. QED
    BY <2>1, <2>2
<1>10. Cardinality(Positions) = K
  <2>1. f \in Bijection(Positions, 0..(K - 1))
    <3>1. f \in [Positions -> 0..(K - 1)]
      <4>1. \A p \in Positions : SeatDrawn(p[1], p[2], p[3]) \in 0..(K - 1)
        BY <1>6
      <4> HIDE DEF K
      <4>2. QED
        BY <4>1
    <3> HIDE DEF f
    <3>2. f \in Injection(Positions, 0..(K - 1))
      BY <1>7, <3>1 DEF Injection, IsInjective
    <3>3. f \in Surjection(Positions, 0..(K - 1))
      BY <1>8, <3>1 DEF Surjection
    <3>4. QED
      BY <3>2, <3>3 DEF Bijection
  <2>2. IsFiniteSet(0..(K - 1)) /\ Cardinality(0..(K - 1)) = K
    <3>1. K \in Nat
      BY <1>3
    <3> HIDE DEF K
    <3>2. QED
      BY <3>1, FS_Interval
  <2>3. ExistsBijection(Positions, 0..(K - 1))
    BY <2>1 DEF ExistsBijection
  <2> HIDE DEF K
  <2>4. ExistsBijection(0..(K - 1), Positions)
    BY <2>3, Fun_ExistsBijSymmetric
  <2>5. QED
    BY <2>2, <2>4, FS_Bijection
<1>11. QED
  BY <1>3, <1>9, <1>10

\* Whatever the options are, no two texts are drawn over one another, and every seat is drawn
\* in one place (initSimulation, toStringTables).
THEOREM ScreenIsDivided == ScreenSpec => []ScreenDivided
<1>1. SInv => ScreenDivided
  <2> SUFFICES ASSUME OptionsOK PROVE ScreenDivided
    BY DEF SInv
  <2>1. \A i, j \in DOMAIN initSimulation : i < j => Apart(initSimulation[i], initSimulation[j])
    BY AreasApart
  <2>2. QED
    BY <2>1, SeatsDrawn DEF ScreenDivided
<1>2. QED
  BY <1>1, StudiesInductive, PTL

-----------------------------------------------------------------------------
(***************************************************************************)
(* Folds over texts.  No prover here takes an operator as a parameter: the *)
(* trace of a fold is proved once for each of the two.                     *)
(***************************************************************************)
PrintAll(line, s) == FoldLeft(PrintPiece, line, s)
Written(screen, texts) == FoldLeft(printEvent, screen, texts)
Printing(f, s, n) == \A k \in 1..n : f[k] = PrintPiece(f[k - 1], s[k])
Writing(f, s, n) == \A k \in 1..n : f[k] = printEvent(f[k - 1], s[k])

\* A line is printed piece by piece: the fold is the last of the lines on the way.
LEMMA PrintTrace ==
  ASSUME NEW base, NEW s, NEW n \in Nat, DOMAIN s = 1..n
  PROVE  \E f : /\ PrintAll(base, s) = f[n] /\ f[0] = base /\ Printing(f, s, n)
<1> DEFINE Body(g, m) ==
             [T \in SUBSET (1..m) |-> IF T = {} THEN base ELSE PrintPiece(g[T \ {Max(T)}], s[Max(T)])]
           Bad == {m \in 0..n : ~\E g : g = Body(g, m)}
<1>1. Bad = {}
  <2> SUFFICES ASSUME Bad # {} PROVE FALSE
    OBVIOUS
  <2>1. PICK m \in Bad : \A k \in Bad : m <= k
    <3>1. Bad \in SUBSET Nat
      OBVIOUS
    <3> HIDE DEF Bad
    <3>2. QED
      BY <3>1, Least
  <2>2. CASE m = 0
    <3> DEFINE g == [T \in SUBSET (1..0) |-> base]
    <3>1. g = Body(g, 0)
      OBVIOUS
    <3>2. QED
      BY <2>2, <3>1
  <2>3. CASE m # 0
    <3>1. m \in Nat /\ m >= 1 /\ m <= n /\ m - 1 \in 0..n
      BY <2>3
    <3>2. m - 1 \notin Bad
      <4> HIDE DEF Bad
      <4>1. QED
        BY <2>1, <3>1
    <3>3. PICK g : g = Body(g, m - 1)
      BY <3>1, <3>2
    <3> DEFINE h == [T \in SUBSET (1..m) |-> IF m \in T THEN PrintPiece(g[T \ {m}], s[m]) ELSE g[T]]
    <3>4. h = Body(h, m)
      <4> SUFFICES ASSUME NEW T \in SUBSET (1..m)
                   PROVE  h[T] = IF T = {} THEN base ELSE PrintPiece(h[T \ {Max(T)}], s[Max(T)])
        OBVIOUS
      <4>1. CASE m \in T
        <5>1. \A x \in T : x \in Nat /\ x <= m
          BY <3>1
        <5>2. Max(T) = m
          BY <3>1, <4>1, <5>1, MaxIs
        <5>3. T \ {m} \in SUBSET (1..m) /\ m \notin T \ {m}
          OBVIOUS
        <5>4. h[T \ {m}] = g[T \ {m}]
          BY <5>3
        <5>5. QED
          BY <4>1, <5>2, <5>4
      <4>2. CASE m \notin T
        <5>1. T \in SUBSET (1..(m - 1))
          BY <3>1, <4>2
        <5>2. h[T] = g[T]
          BY <4>2
        <5>3. h[T \ {Max(T)}] = g[T \ {Max(T)}]
          <6>1. T \ {Max(T)} \in SUBSET (1..m) /\ m \notin T \ {Max(T)}
            BY <4>2
          <6>2. QED
            BY <6>1
        <5>4. g[T] = IF T = {} THEN base ELSE PrintPiece(g[T \ {Max(T)}], s[Max(T)])
          BY <3>3, <5>1
        <5>5. QED
          BY <5>2, <5>3, <5>4
      <4>3. QED
        BY <4>1, <4>2
    <3> HIDE DEF h
    <3>5. QED
      BY <2>1, <3>4
  <2>4. QED
    BY <2>2, <2>3
<1> DEFINE iter == CHOOSE g : g = Body(g, n)
<1>2. iter = Body(iter, n)
  <2>1. n \notin Bad
    BY <1>1, Zenon
  <2>2. \E g : g = Body(g, n)
    <3>1. n \in 0..n
      OBVIOUS
    <3> HIDE DEF Body
    <3>2. QED
      BY <2>1, <3>1
  <2> HIDE DEF Body, Bad
  <2>3. QED
    BY <2>2
<1>3. PrintAll(base, s) = iter[1..n]
  BY DEF PrintAll, FoldLeft, MapThenFoldSet
<1> HIDE DEF iter
<1>4. iter[1..0] = base
  BY <1>2
<1>5. ASSUME NEW k \in 1..n PROVE iter[1..k] = PrintPiece(iter[1..(k - 1)], s[k])
  <2>1. k \in Nat /\ k \in 1..k /\ 1..k \in SUBSET (1..n)
    OBVIOUS
  <2>2. Max(1..k) = k
    <3>1. \A x \in 1..k : x \in Nat /\ x <= k
      OBVIOUS
    <3>2. QED
      BY <2>1, <3>1, MaxIs
  <2>3. (1..k) \ {k} = 1..(k - 1)
    OBVIOUS
  <2>4. iter[1..k] = PrintPiece(iter[(1..k) \ {k}], s[k])
    BY <1>2, <2>1, <2>2
  <2>5. QED
    BY <2>3, <2>4
<1> DEFINE f == [k \in 0..n |-> iter[1..k]]
<1>6. f[n] = iter[1..n] /\ f[0] = iter[1..0]
  OBVIOUS
<1>7. ASSUME NEW k \in 1..n PROVE f[k] = PrintPiece(f[k - 1], s[k])
  <2>1. f[k] = iter[1..k] /\ f[k - 1] = iter[1..(k - 1)]
    OBVIOUS
  <2> HIDE DEF f
  <2>2. QED
    BY <1>5, <2>1
<1> HIDE DEF f
<1>8. QED
  BY <1>3, <1>4, <1>6, <1>7 DEF Printing

\* One text after another is written on the screen.
LEMMA EventTrace ==
  ASSUME NEW base, NEW s, NEW n \in Nat, DOMAIN s = 1..n
  PROVE  \E f : /\ Written(base, s) = f[n] /\ f[0] = base /\ Writing(f, s, n)
<1> DEFINE Body(g, m) ==
             [T \in SUBSET (1..m) |-> IF T = {} THEN base ELSE printEvent(g[T \ {Max(T)}], s[Max(T)])]
           Bad == {m \in 0..n : ~\E g : g = Body(g, m)}
<1>1. Bad = {}
  <2> SUFFICES ASSUME Bad # {} PROVE FALSE
    OBVIOUS
  <2>1. PICK m \in Bad : \A k \in Bad : m <= k
    <3>1. Bad \in SUBSET Nat
      OBVIOUS
    <3> HIDE DEF Bad
    <3>2. QED
      BY <3>1, Least
  <2>2. CASE m = 0
    <3> DEFINE g == [T \in SUBSET (1..0) |-> base]
    <3>1. g = Body(g, 0)
      OBVIOUS
    <3>2. QED
      BY <2>2, <3>1
  <2>3. CASE m # 0
    <3>1. m \in Nat /\ m >= 1 /\ m <= n /\ m - 1 \in 0..n
      BY <2>3
    <3>2. m - 1 \notin Bad
      <4> HIDE DEF Bad
      <4>1. QED
        BY <2>1, <3>1
    <3>3. PICK g : g = Body(g, m - 1)
      BY <3>1, <3>2
    <3> DEFINE h == [T \in SUBSET (1..m) |-> IF m \in T THEN printEvent(g[T \ {m}], s[m]) ELSE g[T]]
    <3>4. h = Body(h, m)
      <4> SUFFICES ASSUME NEW T \in SUBSET (1..m)
                   PROVE  h[T] = IF T = {} THEN base ELSE printEvent(h[T \ {Max(T)}], s[Max(T)])
        OBVIOUS
      <4>1. CASE m \in T
        <5>1. \A x \in T : x \in Nat /\ x <= m
          BY <3>1
        <5>2. Max(T) = m
          BY <3>1, <4>1, <5>1, MaxIs
        <5>3. T \ {m} \in SUBSET (1..m) /\ m \notin T \ {m}
          OBVIOUS
        <5>4. h[T \ {m}] = g[T \ {m}]
          BY <5>3
        <5>5. QED
          BY <4>1, <5>2, <5>4
      <4>2. CASE m \notin T
        <5>1. T \in SUBSET (1..(m - 1))
          BY <3>1, <4>2
        <5>2. h[T] = g[T]
          BY <4>2
        <5>3. h[T \ {Max(T)}] = g[T \ {Max(T)}]
          <6>1. T \ {Max(T)} \in SUBSET (1..m) /\ m \notin T \ {Max(T)}
            BY <4>2
          <6>2. QED
            BY <6>1
        <5>4. g[T] = IF T = {} THEN base ELSE printEvent(g[T \ {Max(T)}], s[Max(T)])
          BY <3>3, <5>1
        <5>5. QED
          BY <5>2, <5>3, <5>4
      <4>3. QED
        BY <4>1, <4>2
    <3> HIDE DEF h
    <3>5. QED
      BY <2>1, <3>4
  <2>4. QED
    BY <2>2, <2>3
<1> DEFINE iter == CHOOSE g : g = Body(g, n)
<1>2. iter = Body(iter, n)
  <2>1. n \notin Bad
    BY <1>1, Zenon
  <2>2. \E g : g = Body(g, n)
    <3>1. n \in 0..n
      OBVIOUS
    <3> HIDE DEF Body
    <3>2. QED
      BY <2>1, <3>1
  <2> HIDE DEF Body, Bad
  <2>3. QED
    BY <2>2
<1>3. Written(base, s) = iter[1..n]
  BY DEF Written, FoldLeft, MapThenFoldSet
<1> HIDE DEF iter
<1>4. iter[1..0] = base
  BY <1>2
<1>5. ASSUME NEW k \in 1..n PROVE iter[1..k] = printEvent(iter[1..(k - 1)], s[k])
  <2>1. k \in Nat /\ k \in 1..k /\ 1..k \in SUBSET (1..n)
    OBVIOUS
  <2>2. Max(1..k) = k
    <3>1. \A x \in 1..k : x \in Nat /\ x <= k
      OBVIOUS
    <3>2. QED
      BY <2>1, <3>1, MaxIs
  <2>3. (1..k) \ {k} = 1..(k - 1)
    OBVIOUS
  <2>4. iter[1..k] = printEvent(iter[(1..k) \ {k}], s[k])
    BY <1>2, <2>1, <2>2
  <2>5. QED
    BY <2>3, <2>4
<1> DEFINE f == [k \in 0..n |-> iter[1..k]]
<1>6. f[n] = iter[1..n] /\ f[0] = iter[1..0]
  OBVIOUS
<1>7. ASSUME NEW k \in 1..n PROVE f[k] = printEvent(f[k - 1], s[k])
  <2>1. f[k] = iter[1..k] /\ f[k - 1] = iter[1..(k - 1)]
    OBVIOUS
  <2> HIDE DEF f
  <2>2. QED
    BY <1>5, <2>1
<1> HIDE DEF f
<1>8. QED
  BY <1>3, <1>4, <1>6, <1>7 DEF Writing

-----------------------------------------------------------------------------
(***************************************************************************)
(* The line printed for the student.                                       *)
(***************************************************************************)
IsText(s, n) == n \in Nat /\ s = [i \in 1..n |-> s[i]]

\* Two traces of the same pieces, from the same line, are the same.
LEMMA SameTrace ==
  ASSUME NEW n \in Nat, NEW f, NEW g, NEW s, f[0] = g[0], Printing(f, s, n), Printing(g, s, n)
  PROVE  f[n] = g[n]
<1> DEFINE Bad == {k \in 0..n : f[k] # g[k]}
<1>1. CASE Bad # {}
  <2>1. PICK m \in Bad : \A k \in Bad : m <= k
    <3>1. Bad \in SUBSET Nat
      OBVIOUS
    <3> HIDE DEF Bad
    <3>2. QED
      BY <1>1, <3>1, Least
  <2>2. m \in 1..n
    <3>1. m # 0
      OBVIOUS
    <3>2. QED
      BY <3>1
  <2>3. f[m - 1] = g[m - 1]
    <3>1. m - 1 \in 0..n /\ ~(m <= m - 1)
      BY <2>2
    <3>2. QED
      BY <2>1, <3>1
  <2>4. f[m] = g[m]
    BY <2>2, <2>3 DEF Printing
  <2>5. QED
    BY <2>4
<1>2. CASE Bad = {}
  <2>1. n \in 0..n
    OBVIOUS
  <2>2. QED
    BY <1>2, <2>1
<1>3. QED
  BY <1>1, <1>2

LEMMA PrintJoined ==
  ASSUME NEW line, NEW a, NEW b, NEW k, NEW n, IsText(a, k), IsText(b, n)
  PROVE  PrintAll(line, a \o b) = PrintAll(PrintAll(line, a), b)
<1> DEFINE ab == a \o b
           m == k + n
<1>1. k \in Nat /\ n \in Nat /\ m \in Nat /\ DOMAIN a = 1..k /\ DOMAIN b = 1..n
  BY DEF IsText
<1>2. DOMAIN ab = 1..m /\ ab = [i \in 1..m |-> IF i <= k THEN a[i] ELSE b[i - k]]
  BY <1>1, Joined DEF IsText
<1>3. PICK f : PrintAll(line, a) = f[k] /\ f[0] = line /\ Printing(f, a, k)
  BY <1>1, PrintTrace
<1>4. PICK g : PrintAll(f[k], b) = g[n] /\ g[0] = f[k] /\ Printing(g, b, n)
  BY <1>1, PrintTrace
<1>5. PICK h : PrintAll(line, ab) = h[m] /\ h[0] = line /\ Printing(h, ab, m)
  <2> HIDE DEF ab, m
  <2>1. QED
    BY <1>1, <1>2, PrintTrace
<1> HIDE DEF ab
<1>6. h[k] = f[k]
  <2>1. Printing(h, a, k)
    <3>1. \A j \in 1..k : j \in 1..m /\ ab[j] = a[j]
      BY <1>1, <1>2
    <3>2. QED
      BY <1>5, <3>1 DEF Printing
  <2>2. QED
    BY <1>1, <1>3, <1>5, <2>1, SameTrace
<1> DEFINE e == [j \in 0..n |-> h[k + j]]
<1>7. e[n] = g[n]
  <2>1. Printing(e, b, n)
    <3> SUFFICES ASSUME NEW j \in 1..n PROVE e[j] = PrintPiece(e[j - 1], b[j])
      BY DEF Printing
    <3>1. k + j \in 1..m /\ ab[k + j] = b[j]
      BY <1>1, <1>2
    <3>2. h[k + j] = PrintPiece(h[(k + j) - 1], b[j])
      BY <1>5, <3>1 DEF Printing
    <3>3. e[j] = h[k + j] /\ e[j - 1] = h[(k + j) - 1]
      BY <1>1
    <3> HIDE DEF e
    <3>4. QED
      BY <3>2, <3>3
  <2>2. e[0] = g[0]
    <3>1. 0 \in 0..n /\ k + 0 = k
      BY <1>1
    <3>2. QED
      BY <1>4, <1>6, <3>1
  <2> HIDE DEF e
  <2>3. QED
    BY <1>1, <1>4, <2>1, <2>2, SameTrace
<1>8. e[n] = h[m]
  BY <1>1
<1>9. QED
  BY <1>3, <1>4, <1>5, <1>7, <1>8 DEF ab

\* Pieces after a blank that print nothing more.
Skipped(s, n) == \A k \in 1..n : s[k][1] \in filterOut \union {Blank}

LEMMA PrintSkipped ==
  ASSUME NEW line, NEW s, NEW n, IsText(s, n), SpacePrinted(line), Skipped(s, n)
  PROVE  PrintAll(line, s) = line
<1>1. n \in Nat /\ DOMAIN s = 1..n
  BY DEF IsText
<1>2. PICK f : PrintAll(line, s) = f[n] /\ f[0] = line /\ Printing(f, s, n)
  BY <1>1, PrintTrace
<1> DEFINE g == [k \in 0..n |-> line]
<1>3. Printing(g, s, n)
  <2>1. \A k \in 1..n : g[k] = line /\ g[k - 1] = line
    BY <1>1
  <2>2. \A k \in 1..n : PrintPiece(line, s[k]) = line
    BY DEF PrintPiece, Skipped, filterOut, Blank
  <2> HIDE DEF g
  <2>3. QED
    BY <2>1, <2>2 DEF Printing
<1>4. g[0] = f[0] /\ g[n] = line
  BY <1>1, <1>2
<1> HIDE DEF g
<1>5. g[n] = f[n]
  BY <1>1, <1>2, <1>3, <1>4, SameTrace
<1>6. QED
  BY <1>2, <1>4, <1>5

\* One piece.
LEMMA PrintOne ==
  ASSUME NEW line, NEW p
  PROVE  PrintAll(line, <<p>>) = PrintPiece(line, p)
<1> DEFINE s == <<p>>
<1>1. DOMAIN s = 1..1 /\ s[1] = p /\ 1 \in Nat
  OBVIOUS
<1> HIDE DEF s
<1>2. PICK f : PrintAll(line, s) = f[1] /\ f[0] = line /\ Printing(f, s, 1)
  BY <1>1, PrintTrace
<1>3. f[1] = PrintPiece(f[0], s[1])
  <2>1. 1 \in 1..1 /\ 1 - 1 = 0
    OBVIOUS
  <2>2. f[1] = PrintPiece(f[1 - 1], s[1])
    BY <1>2, <2>1, Zenon DEF Printing
  <2>3. QED
    BY <2>1, <2>2
<1>4. QED
  BY <1>1, <1>2, <1>3 DEF s

\* Texts, one after the other.
LEMMA TextsJoined ==
  ASSUME NEW a, NEW b, NEW k \in Nat, NEW n \in Nat, IsText(a, k), IsText(b, n)
  PROVE  /\ IsText(a \o b, k + n) /\ DOMAIN (a \o b) = 1..(k + n)
         /\ a \o b = [i \in 1..(k + n) |-> IF i <= k THEN a[i] ELSE b[i - k]]
<1> DEFINE ab == a \o b
           m == k + n
<1>1. k \in Nat /\ n \in Nat /\ m \in Nat
  BY DEF IsText
<1>2. DOMAIN ab = 1..m /\ ab = [i \in 1..m |-> IF i <= k THEN a[i] ELSE b[i - k]]
  BY <1>1, Joined DEF IsText
<1>3. ab = [i \in 1..m |-> ab[i]]
  BY <1>2
<1>4. QED
  BY <1>1, <1>2, <1>3 DEF IsText

LEMMA SkippedJoined ==
  ASSUME NEW a, NEW b, NEW k, NEW n, IsText(a, k), IsText(b, n), Skipped(a, k), Skipped(b, n)
  PROVE  IsText(a \o b, k + n) /\ Skipped(a \o b, k + n)
<1> DEFINE ab == a \o b
<1>1. k \in Nat /\ n \in Nat
  BY DEF IsText
<1>2. IsText(ab, k + n) /\ ab = [i \in 1..(k + n) |-> IF i <= k THEN a[i] ELSE b[i - k]]
  BY <1>1, TextsJoined
<1>3. ASSUME NEW i \in 1..(k + n) PROVE ab[i][1] \in filterOut \union {Blank}
  <2>1. ab[i] = IF i <= k THEN a[i] ELSE b[i - k]
    BY <1>2
  <2> HIDE DEF ab
  <2>2. CASE i <= k
    <3>1. i \in 1..k
      BY <2>2
    <3>2. QED
      BY <2>1, <2>2, <3>1 DEF Skipped
  <2>3. CASE ~(i <= k)
    <3>1. i - k \in 1..n
      BY <1>1, <2>3
    <3>2. QED
      BY <2>1, <2>3, <3>1 DEF Skipped
  <2>4. QED
    BY <2>2, <2>3
<1>4. QED
  BY <1>2, <1>3 DEF Skipped

\* The pieces of the student's text, with no book, for a padding and percentages.
Gap == Piece(Blank)
BorderOf(d) == <<Piece("box")>> \o Cells(d, Piece(Blank))
LineOf(d, marks, face) ==
    BorderOf(d) \o <<Piece("newline"), Piece("box"), Piece("name")>> \o Face(face)
    \o <<Piece("box"), <<"marks", marks>>, Piece("box")>>
    \o Cells(0, Piece("book")) \o Cells(d, Piece(Blank)) \o <<Piece("newline")>> \o BorderOf(d)

LEMMA TailSkipped ==
  ASSUME NEW d \in Nat
  PROVE  /\ IsText(BorderOf(d), 1 + d) /\ Skipped(BorderOf(d), 1 + d)
         /\ IsText(Cells(0, Piece("book")), 0) /\ Skipped(Cells(0, Piece("book")), 0)
         /\ IsText(Cells(d, Piece(Blank)), d) /\ Skipped(Cells(d, Piece(Blank)), d)
         /\ IsText(<<Piece("newline")>>, 1) /\ Skipped(<<Piece("newline")>>, 1)
         /\ IsText(<<Piece("box")>>, 1) /\ Skipped(<<Piece("box")>>, 1)
<1>1. IsText(<<Piece("box")>>, 1) /\ Skipped(<<Piece("box")>>, 1)
  BY DEF IsText, Skipped, Piece, filterOut
<1>2. IsText(Cells(d, Piece(Blank)), d) /\ Skipped(Cells(d, Piece(Blank)), d)
  BY DEF IsText, Skipped, Piece, Cells
<1>3. IsText(BorderOf(d), 1 + d) /\ Skipped(BorderOf(d), 1 + d)
  BY <1>1, <1>2, SkippedJoined DEF BorderOf
<1>4. IsText(Cells(0, Piece("book")), 0) /\ Skipped(Cells(0, Piece("book")), 0)
  BY DEF IsText, Skipped, Cells
<1>5. IsText(<<Piece("newline")>>, 1) /\ Skipped(<<Piece("newline")>>, 1)
  BY DEF IsText, Skipped, Piece, filterOut
<1>6. QED
  BY <1>1, <1>2, <1>3, <1>4, <1>5

\* Two pieces, and three.
LEMMA PrintTwo ==
  ASSUME NEW line, NEW p, NEW q
  PROVE  PrintAll(line, <<p, q>>) = PrintPiece(PrintPiece(line, p), q)
<1> DEFINE s == <<p, q>>
<1>1. DOMAIN s = 1..2 /\ s[1] = p /\ s[2] = q /\ 2 \in Nat
  OBVIOUS
<1> HIDE DEF s
<1>2. PICK f : PrintAll(line, s) = f[2] /\ f[0] = line /\ Printing(f, s, 2)
  BY <1>1, PrintTrace
<1>3. f[1] = PrintPiece(f[0], s[1]) /\ f[2] = PrintPiece(f[1], s[2])
  <2>1. 1 \in 1..2 /\ 1 - 1 = 0 /\ 2 \in 1..2 /\ 2 - 1 = 1
    OBVIOUS
  <2>2. f[1] = PrintPiece(f[1 - 1], s[1]) /\ f[2] = PrintPiece(f[2 - 1], s[2])
    BY <1>2, <2>1, Zenon DEF Printing
  <2>3. QED
    BY <2>1, <2>2
<1>4. QED
  BY <1>1, <1>2, <1>3 DEF s

LEMMA PrintThree ==
  ASSUME NEW line, NEW p, NEW q, NEW r
  PROVE  PrintAll(line, <<p, q, r>>) = PrintPiece(PrintPiece(PrintPiece(line, p), q), r)
<1> DEFINE s == <<p, q, r>>
<1>1. DOMAIN s = 1..3 /\ s[1] = p /\ s[2] = q /\ s[3] = r /\ 3 \in Nat
  OBVIOUS
<1> HIDE DEF s
<1>2. PICK f : PrintAll(line, s) = f[3] /\ f[0] = line /\ Printing(f, s, 3)
  BY <1>1, PrintTrace
<1>3. /\ f[1] = PrintPiece(f[0], s[1]) /\ f[2] = PrintPiece(f[1], s[2])
      /\ f[3] = PrintPiece(f[2], s[3])
  <2>1. 1 \in 1..3 /\ 1 - 1 = 0 /\ 2 \in 1..3 /\ 2 - 1 = 1 /\ 3 \in 1..3 /\ 3 - 1 = 2
    OBVIOUS
  <2>2. /\ f[1] = PrintPiece(f[1 - 1], s[1]) /\ f[2] = PrintPiece(f[2 - 1], s[2])
        /\ f[3] = PrintPiece(f[3 - 1], s[3])
    BY <1>2, <2>1, Zenon DEF Printing
  <2>3. QED
    BY <2>1, <2>2
<1>4. QED
  BY <1>1, <1>2, <1>3 DEF s

\* A piece at the end of a line, and the last piece taken away.
LEMMA Appended ==
  ASSUME NEW line, NEW n \in Nat, IsText(line, n), NEW p
  PROVE  LET t == Append(line, p)
         IN  /\ IsText(t, n + 1) /\ Len(line) = n /\ Len(t) = n + 1 /\ t[n + 1] = p
             /\ \A i \in 1..n : t[i] = line[i]
<1> DEFINE t == Append(line, p)
<1>1. n \in Nat /\ line = [i \in 1..n |-> line[i]]
  BY DEF IsText
<1>2. Len(line) = n
  BY <1>1
<1>3. t = [i \in 1..(n + 1) |-> IF i = n + 1 THEN p ELSE line[i]]
  BY <1>1, <1>2
<1> HIDE DEF t
<1>4. /\ t = [i \in 1..(n + 1) |-> t[i]] /\ Len(t) = n + 1 /\ t[n + 1] = p
      /\ \A i \in 1..n : t[i] = line[i]
  BY <1>1, <1>3
<1>5. QED
  BY <1>1, <1>2, <1>4 DEF IsText, t

LEMMA LastTaken ==
  ASSUME NEW line, NEW n \in Nat, IsText(line, n + 1)
  PROVE  LET t == SubSeq(line, 1, Len(line) - 1)
         IN  IsText(t, n) /\ \A i \in 1..n : t[i] = line[i]
<1> DEFINE t == SubSeq(line, 1, Len(line) - 1)
<1>1. Len(line) = n + 1
  BY DEF IsText
<1>2. t = SubSeq(line, 0 + 1, n)
  BY <1>1
<1>3. t = [i \in 1..(n - 0) |-> line[i + 0]]
  <2>1. 0 \in Nat
    OBVIOUS
  <2>2. SubSeq(line, 0 + 1, n) = [i \in 1..(n - 0) |-> line[i + 0]]
    OBVIOUS
  <2>3. QED
    BY <1>2, <2>2
<1> HIDE DEF t
<1>4. t = [i \in 1..n |-> t[i]] /\ \A i \in 1..n : t[i] = line[i]
  BY <1>3
<1>5. QED
  BY <1>4 DEF IsText, t

\* A line that has come to the percentages, and the line that is printed in the end.
FacedLine(line, n, face) ==
    /\ IsText(line, n) /\ line[n] = Gap
    /\ line[1] = Piece("Student:") /\ line[2] = Gap /\ line[3] = Piece("name") /\ line[4] = Gap
    /\ n \in {4, 6} /\ (n = 6 => line[5] = <<"face", face>>)

LineSays(line, marks) ==
    \E n \in {5, 7} :
        /\ IsText(line, n) /\ line[n] = <<"marks", marks>>
        /\ line[1][1] = "Student:" /\ line[2][1] = Blank /\ line[3][1] = "name" /\ line[4][1] = Blank
        /\ n = 7 => line[5][1] = "face" /\ line[6][1] = Blank

\* What is printed for a piece.
LEMMA PiecePrinted ==
  ASSUME NEW line, NEW n \in Nat, IsText(line, n)
  PROVE  /\ \A p : p[1] \in filterOut \union {Blank} =>
                PrintPiece(line, p) = IF line[n] = Gap THEN line ELSE Append(line, Gap)
         /\ \A p : p[1] \in {"name", "marks"} => PrintPiece(line, p) = Append(line, p)
         /\ \A p : p[1] = "face" => PrintPiece(line, p) = line \o <<Gap, p>>
<1>1. Len(line) = n
  BY DEF IsText
<1>2. QED
  BY <1>1 DEF PrintPiece, filterOut, SpacePrinted, Gap, Blank

\* The pieces up to the face and the frame after it.
LEMMA FacePrinted ==
  ASSUME NEW line, line = <<Piece("Student:"), Gap>>, NEW face
  PROVE  \E n : FacedLine(PrintPiece(PrintAll(PrintPiece(line, Piece("name")), Face(face)), Piece("box")), n, face)
<1> DEFINE begun == PrintPiece(line, Piece("name"))
           named == Append(begun, Gap)
<1>1. IsText(line, 2) /\ line[1] = Piece("Student:") /\ line[2] = Gap
  <2> DEFINE l == <<Piece("Student:"), Gap>>
  <2>1. IsText(l, 2) /\ l[1] = Piece("Student:") /\ l[2] = Gap
    BY DEF IsText
  <2>2. line = l
    BY DEF Gap
  <2> HIDE DEF l
  <2>3. QED
    BY <2>1, <2>2
<1>2. /\ Piece("name")[1] \in {"name", "marks"} /\ Piece("box")[1] \in filterOut \union {Blank}
      /\ Gap[1] \in filterOut \union {Blank} /\ Piece("name") # Gap
  BY DEF Piece, filterOut, Gap, Blank
<1>3. begun = Append(line, Piece("name"))
  BY DEF PrintPiece, Piece, filterOut, Blank
<1>4. /\ IsText(begun, 3) /\ begun[1] = Piece("Student:") /\ begun[2] = Gap
      /\ begun[3] = Piece("name")
  <2>1. LET t == Append(line, Piece("name"))
        IN  IsText(t, 3) /\ t[3] = Piece("name") /\ \A i \in 1..2 : t[i] = line[i]
    BY <1>1, Appended
  <2> HIDE DEF begun
  <2>2. QED
    BY <1>1, <1>3, <2>1
<1> HIDE DEF begun
<1>5. /\ IsText(named, 4) /\ named[1] = Piece("Student:") /\ named[2] = Gap
      /\ named[3] = Piece("name") /\ named[4] = Gap
  <2>1. IsText(named, 4) /\ named[4] = Gap /\ \A i \in 1..3 : named[i] = begun[i]
    BY <1>4, Appended
  <2> HIDE DEF named
  <2>2. QED
    BY <1>4, <2>1
<1> HIDE DEF named
<1>6. CASE face = "NONE"
  <2>1. Face(face) = <<Gap, Gap>>
    <3>1. Face(face) = [i \in 1..2 |-> Gap]
      BY <1>6 DEF Face, Cells, Gap
    <3>2. QED
      BY <3>1
  <2>2. PrintPiece(begun, Gap) = named
    BY <1>2, <1>4, PiecePrinted DEF named
  <2>3. PrintPiece(named, Gap) = named /\ PrintPiece(named, Piece("box")) = named
    BY <1>2, <1>5, PiecePrinted
  <2>4. PrintAll(begun, Face(face)) = named
    BY <2>1, <2>2, <2>3, PrintTwo
  <2>5. FacedLine(named, 4, face)
    BY <1>5 DEF FacedLine
  <2>6. QED
    BY <2>3, <2>4, <2>5 DEF begun
<1>7. CASE face # "NONE"
  <2> DEFINE F == <<"face", face>>
             two == <<Gap, F>>
             K == begun \o two
             T == Append(K, Gap)
  <2>1. Face(face) = <<F>> /\ F[1] = "face" /\ F # Gap
    BY <1>7 DEF Face, Gap, Piece, Blank
  <2>2. IsText(two, 2) /\ two[1] = Gap /\ two[2] = F
    BY DEF IsText
  <2> HIDE DEF F
  <2>3. PrintPiece(begun, F) = K
    BY <1>4, <2>1, PiecePrinted
  <2> HIDE DEF two
  <2>4. /\ IsText(K, 5) /\ K[1] = Piece("Student:") /\ K[2] = Gap /\ K[3] = Piece("name")
        /\ K[4] = Gap /\ K[5] = F
    <3>1. IsText(K, 3 + 2) /\ K = [i \in 1..(3 + 2) |-> IF i <= 3 THEN begun[i] ELSE two[i - 3]]
      BY <1>4, <2>2, TextsJoined
    <3> HIDE DEF K
    <3>2. QED
      BY <1>4, <2>2, <3>1
  <2> HIDE DEF K
  <2>5. PrintPiece(K, Piece("box")) = T
    BY <1>2, <2>1, <2>4, PiecePrinted
  <2>6. FacedLine(T, 6, face)
    <3>1. IsText(T, 6) /\ T[6] = Gap /\ \A i \in 1..5 : T[i] = K[i]
      BY <2>4, Appended
    <3> HIDE DEF T
    <3>2. QED
      BY <2>4, <3>1 DEF FacedLine, F
  <2>7. PrintAll(begun, Face(face)) = K
    BY <2>1, <2>3, PrintOne
  <2>8. QED
    BY <2>5, <2>6, <2>7 DEF begun
<1>8. QED
  BY <1>6, <1>7

\* The percentages, the frame after them, and what is taken away at the end.
LEMMA MarksPrinted ==
  ASSUME NEW line, NEW n, NEW face, FacedLine(line, n, face), NEW marks
  PROVE  LET t == PrintPiece(PrintPiece(line, <<"marks", marks>>), Piece("box"))
         IN  SpacePrinted(t) /\ LineSays(Trim(t), marks)
<1> DEFINE M == <<"marks", marks>>
           l == Append(line, M)
           t == Append(l, Gap)
           r == SubSeq(t, 1, Len(t) - 1)
<1>1. n \in {4, 6} /\ n \in Nat /\ n + 1 \in Nat /\ IsText(line, n)
  BY DEF FacedLine
<1>2. M[1] \in {"name", "marks"} /\ M # Gap /\ Piece("box")[1] \in filterOut \union {Blank}
  BY DEF Gap, Piece, Blank, filterOut
<1> HIDE DEF M
<1>3. PrintPiece(line, M) = l
  BY <1>1, <1>2, PiecePrinted
<1>4. IsText(l, n + 1) /\ l[n + 1] = M /\ \A i \in 1..n : l[i] = line[i]
  BY <1>1, Appended
<1> HIDE DEF l
<1> DEFINE m == n + 1
<1> HIDE DEF m
<1>5. m \in Nat /\ IsText(l, m) /\ l[m] = M
  BY <1>1, <1>4 DEF m
<1>6. PrintPiece(l, Piece("box")) = t
  BY <1>2, <1>5, PiecePrinted
<1>7. /\ IsText(t, m + 1) /\ t[m + 1] = Gap /\ Len(t) = m + 1
      /\ \A i \in 1..m : t[i] = l[i]
  BY <1>5, Appended
<1> HIDE DEF t
<1>8. SpacePrinted(t) /\ Trim(t) = r
  BY <1>7 DEF SpacePrinted, Trim, Gap
<1>9. IsText(r, m) /\ \A i \in 1..m : r[i] = t[i]
  BY <1>5, <1>7, LastTaken
<1> HIDE DEF r
<1>10. r[m] = M /\ \A i \in 1..n : r[i] = line[i]
  <2>1. m \in 1..m /\ \A i \in 1..n : i \in 1..m
    BY <1>1 DEF m
  <2>2. QED
    BY <1>4, <1>5, <1>7, <1>9, <2>1
<1>11. LineSays(r, marks)
  <2>1. /\ r[1] = Piece("Student:") /\ r[2] = Gap /\ r[3] = Piece("name") /\ r[4] = Gap
        /\ n = 6 => r[5] = <<"face", face>> /\ r[6] = Gap
    BY <1>1, <1>10 DEF FacedLine
  <2>2. m \in {5, 7} /\ (m = 7 => n = 6)
    BY <1>1 DEF m
  <2>3. QED
    BY <1>9, <1>10, <2>1, <2>2 DEF LineSays, Gap, Piece, M
<1>12. QED
  BY <1>3, <1>6, <1>8, <1>11 DEF M

\* The line printed for a student: its name, its face if it has one, and how far it is with
\* its courses, with one blank between them.
LEMMA LinePrinted ==
  ASSUME NEW d \in Nat, NEW marks, NEW face
  PROVE  LineSays(printLine(LineOf(d, marks, face)), marks)
<1> DEFINE L == <<Piece("Student:"), Gap>>
           B == BorderOf(d)
           X == <<Piece("newline"), Piece("box"), Piece("name")>>
           F == Face(face)
           Y == <<Piece("box"), <<"marks", marks>>, Piece("box")>>
           C == Cells(0, Piece("book"))
           D == Cells(d, Gap)
           N == <<Piece("newline")>>
           k == IF face = "NONE" THEN 2 ELSE 1
           begun == PrintPiece(L, Piece("name"))
           K == PrintPiece(PrintAll(begun, F), Piece("box"))
           T == PrintPiece(PrintPiece(K, <<"marks", marks>>), Piece("box"))
<1>1. /\ IsText(B, 1 + d) /\ Skipped(B, 1 + d) /\ IsText(C, 0) /\ Skipped(C, 0)
      /\ IsText(D, d) /\ Skipped(D, d) /\ IsText(N, 1) /\ Skipped(N, 1)
  BY TailSkipped DEF Gap
<1>2. IsText(X, 3) /\ IsText(Y, 3)
  BY DEF IsText
<1>3. IsText(F, k) /\ k \in Nat
  BY DEF IsText, Face, Cells
<1>4. SpacePrinted(L)
  BY DEF SpacePrinted, Gap
<1>5. PrintPiece(L, Piece("newline")) = L /\ PrintPiece(L, Piece("box")) = L
  BY <1>4 DEF PrintPiece, filterOut, Piece, Blank
<1>6. PrintAll(L, B) = L
  <2> HIDE DEF L, B
  <2>1. QED
    BY <1>1, <1>4, PrintSkipped
<1>7. PrintAll(L, X) = begun
  BY <1>5, PrintThree
<1>8. SpacePrinted(T) /\ LineSays(Trim(T), marks)
  <2>1. PICK n : FacedLine(K, n, face)
    BY FacePrinted DEF Gap
  <2> HIDE DEF K
  <2>2. QED
    BY <2>1, MarksPrinted
<1>9. PrintAll(PrintAll(begun, F), Y) = T
  BY PrintThree
<1>10. PrintAll(T, C) = T /\ PrintAll(T, D) = T /\ PrintAll(T, N) = T /\ PrintAll(T, B) = T
  <2> HIDE DEF T, C, D, N, B
  <2>1. QED
    BY <1>1, <1>8, PrintSkipped
<1> HIDE DEF L, B, X, F, Y, C, D, N, k, begun, K, T
<1> DEFINE t1 == B \o X
           t2 == t1 \o F
           t3 == t2 \o Y
           t4 == t3 \o C
           t5 == t4 \o D
           t6 == t5 \o N
           t7 == t6 \o B
           n1 == (1 + d) + 3
           n2 == n1 + k
           n3 == n2 + 3
           n4 == n3 + 0
           n5 == n4 + d
           n6 == n5 + 1
<1>11. IsText(t1, n1) /\ n1 \in Nat /\ PrintAll(L, t1) = begun
  <2>1. 1 + d \in Nat
    OBVIOUS
  <2>2. QED
    BY <1>1, <1>2, <1>6, <1>7, <2>1, TextsJoined, PrintJoined
<1> HIDE DEF t1, n1
<1>12. IsText(t2, n2) /\ n2 \in Nat /\ PrintAll(L, t2) = PrintAll(begun, F)
  BY <1>3, <1>11, TextsJoined, PrintJoined
<1> HIDE DEF t2, n2
<1>13. IsText(t3, n3) /\ n3 \in Nat /\ PrintAll(L, t3) = T
  BY <1>2, <1>9, <1>12, TextsJoined, PrintJoined
<1> HIDE DEF t3, n3
<1>14. IsText(t4, n4) /\ n4 \in Nat /\ PrintAll(L, t4) = T
  BY <1>1, <1>10, <1>13, TextsJoined, PrintJoined
<1> HIDE DEF t4, n4
<1>15. IsText(t5, n5) /\ n5 \in Nat /\ PrintAll(L, t5) = T
  BY <1>1, <1>10, <1>14, TextsJoined, PrintJoined
<1> HIDE DEF t5, n5
<1>16. IsText(t6, n6) /\ n6 \in Nat /\ PrintAll(L, t6) = T
  BY <1>1, <1>10, <1>15, TextsJoined, PrintJoined
<1> HIDE DEF t6, n6
<1>17. PrintAll(L, t7) = T
  BY <1>1, <1>10, <1>16, PrintJoined
<1>18. t7 = LineOf(d, marks, face)
  BY DEF t1, t2, t3, t4, t5, t6, LineOf, B, X, F, Y, C, D, N, Gap
<1> HIDE DEF t7
<1>19. printLine(t7) = Trim(PrintAll(L, t7))
  BY DEF printLine, PrintAll, L, Gap
<1>20. QED
  BY <1>8, <1>17, <1>18, <1>19

-----------------------------------------------------------------------------
(***************************************************************************)
(* The student's box in window mode.                                       *)
(***************************************************************************)
\* The row of a text, for a number of columns for the books and of the padding; a screen that
\* is blank but for the columns of the books; and one that shows the percentages too.
RowText(face, marks, b, d) == <<face, marks>> \o Cells(b, "book") \o Cells(d, Blank)
Rest(r, b) == \E q \in Nat : IsText(r, q) /\ \A i \in 1..q : i >= 3 + b => r[i] = Blank
RowShows(r, marks, b) == r # <<>> /\ r[2] = marks /\ Rest(r, b)

LEMMA RowTextIs ==
  ASSUME NEW face, NEW marks, NEW b \in Nat, NEW d \in Nat
  PROVE  LET t == RowText(face, marks, b, d)
         IN  /\ IsText(t, 2 + b + d) /\ t[2] = marks
             /\ \A i \in 1..(2 + b + d) : i >= 3 + b => t[i] = Blank
<1> DEFINE h == <<face, marks>>
           B == Cells(b, "book")
           D == Cells(d, Blank)
           hB == h \o B
           t == hB \o D
           n == 2 + b
<1>1. IsText(h, 2) /\ h[2] = marks
  BY DEF IsText
<1>2. IsText(B, b) /\ IsText(D, d) /\ \A i \in 1..d : D[i] = Blank
  BY DEF IsText, Cells
<1> HIDE DEF h, B, D
<1>3. IsText(hB, n) /\ hB = [i \in 1..n |-> IF i <= 2 THEN h[i] ELSE B[i - 2]] /\ n \in Nat
  BY <1>1, <1>2, TextsJoined
<1>4. hB[2] = marks /\ 2 \in 1..n /\ n + 1 = 3 + b
  BY <1>1, <1>3
<1> HIDE DEF n
<1>5. n \in Nat /\ IsText(hB, n) /\ IsText(D, d)
  BY <1>2, <1>3
<1> HIDE DEF hB
<1>6. IsText(t, n + d) /\ t = [i \in 1..(n + d) |-> IF i <= n THEN hB[i] ELSE D[i - n]]
  BY <1>5, TextsJoined
<1>7. t[2] = marks /\ \A i \in 1..(n + d) : i >= 3 + b => t[i] = Blank
  <2> HIDE DEF t
  <2>1. t[2] = marks
    BY <1>4, <1>5, <1>6
  <2>2. ASSUME NEW i \in 1..(n + d), i >= 3 + b
        PROVE  t[i] = Blank
    <3>1. ~(i <= n) /\ i - n \in 1..d
      BY <1>4, <1>5, <2>2
    <3>2. QED
      BY <1>2, <1>6, <3>1
  <2>3. QED
    BY <2>1, <2>2
<1>8. t = RowText(face, marks, b, d)
  BY DEF RowText, h, B, D, hB
<1> HIDE DEF t
<1>9. QED
  BY <1>6, <1>7, <1>8 DEF n

\* A text is written over a screen: what it does not cover stays.
Covers(w, r, q, text, t) ==
    \E m \in Nat : /\ m >= t /\ IsText(w, m)
                   /\ \A i \in 1..t : w[i] = text[i]
                   /\ \A i \in (t + 1)..m : i <= q /\ w[i] = r[i]

LEMMA EventIs ==
  ASSUME NEW r, NEW q \in Nat, IsText(r, q), NEW text, NEW t \in Nat, IsText(text, t)
  PROVE  Covers(printEvent(r, text), r, q, text, t)
<1> DEFINE w == printEvent(r, text)
           rest == IF q <= t THEN 0 ELSE q - t
           tail == SubSeq(r, t + 1, q)
<1>1. Len(r) = q /\ Len(text) = t
  BY DEF IsText
<1>2. tail = [i \in 1..(q - t) |-> r[i + t]]
  OBVIOUS
<1>3. rest \in Nat /\ 1..(q - t) = 1..rest
  OBVIOUS
<1> HIDE DEF tail
<1>4. IsText(tail, rest) /\ \A i \in 1..rest : tail[i] = r[i + t]
  <2> HIDE DEF rest
  <2>1. tail = [i \in 1..rest |-> r[i + t]]
    BY <1>2, <1>3
  <2>2. QED
    BY <1>3, <2>1 DEF IsText
<1>5. w = text \o tail
  BY <1>1 DEF printEvent, tail
<1>6. /\ IsText(w, t + rest)
      /\ w = [i \in 1..(t + rest) |-> IF i <= t THEN text[i] ELSE tail[i - t]]
  <2> HIDE DEF w, rest
  <2>1. /\ IsText(text \o tail, t + rest)
        /\ text \o tail = [i \in 1..(t + rest) |-> IF i <= t THEN text[i] ELSE tail[i - t]]
    BY <1>3, <1>4, TextsJoined
  <2>2. QED
    BY <1>5, <2>1
<1> HIDE DEF w
<1>7. \A i \in 1..t : w[i] = text[i]
  <2> HIDE DEF rest
  <2>1. QED
    BY <1>3, <1>6
<1>8. ASSUME NEW i \in (t + 1)..(t + rest) PROVE i <= q /\ w[i] = r[i]
  <2>1. i - t \in 1..rest /\ (i - t) + t = i /\ ~(i <= t) /\ i <= q /\ i \in 1..(t + rest)
    OBVIOUS
  <2> HIDE DEF rest
  <2>2. w[i] = tail[i - t]
    BY <1>6, <2>1
  <2>3. tail[i - t] = r[i]
    BY <1>4, <2>1
  <2>4. QED
    BY <2>1, <2>2, <2>3
<1>9. t + rest \in Nat /\ t + rest >= t
  OBVIOUS
<1> HIDE DEF rest
<1>10. QED
  BY <1>6, <1>7, <1>8, <1>9 DEF w, Covers

\* Nothing remains of the books of an earlier text that the padding covers.
LEMMA RowWritten ==
  ASSUME NEW r, NEW b \in Nat, Rest(r, b), NEW face, NEW marks, NEW c \in Nat, NEW d \in Nat, b <= c + d
  PROVE  RowShows(printEvent(r, RowText(face, marks, c, d)), marks, c)
<1> DEFINE text == RowText(face, marks, c, d)
           t == 2 + c + d
           w == printEvent(r, text)
<1>1. PICK q \in Nat : IsText(r, q) /\ \A i \in 1..q : i >= 3 + b => r[i] = Blank
  BY DEF Rest
<1>2. /\ IsText(text, t) /\ text[2] = marks /\ t \in Nat
      /\ \A i \in 1..t : i >= 3 + c => text[i] = Blank
  <2>1. LET x == RowText(face, marks, c, d)
        IN  /\ IsText(x, 2 + c + d) /\ x[2] = marks
            /\ \A i \in 1..(2 + c + d) : i >= 3 + c => x[i] = Blank
    BY RowTextIs
  <2> HIDE DEF text
  <2>2. QED
    BY <2>1 DEF text
<1> HIDE DEF text
<1>3. PICK m \in Nat : /\ m >= t /\ IsText(w, m)
                       /\ \A i \in 1..t : w[i] = text[i]
                       /\ \A i \in (t + 1)..m : i <= q /\ w[i] = r[i]
  <2> HIDE DEF t
  <2>1. Covers(w, r, q, text, t)
    BY <1>1, <1>2, EventIs
  <2>2. QED
    BY <2>1 DEF Covers
<1> HIDE DEF w
<1>4. w[2] = marks
  BY <1>2, <1>3
<1>5. ASSUME NEW i \in 1..m, i >= 3 + c PROVE w[i] = Blank
  <2>1. CASE i <= t
    <3>1. i \in 1..t
      BY <2>1
    <3> HIDE DEF t
    <3>2. QED
      BY <1>2, <1>3, <1>5, <3>1
  <2>2. CASE i > t
    <3>1. i \in (t + 1)..m /\ i >= 3 + b
      BY <1>3, <2>2
    <3>2. i \in 1..q /\ w[i] = r[i]
      <4> HIDE DEF t
      <4>1. QED
        BY <1>3, <3>1
    <3>3. QED
      BY <1>1, <3>1, <3>2
  <2>3. QED
    BY <2>1, <2>2
<1>6. w # <<>>
  <2>1. m >= 2 /\ DOMAIN w = 1..m
    BY <1>3 DEF IsText
  <2>2. 1 \in DOMAIN w
    BY <2>1
  <2>3. QED
    BY <2>2
<1>7. Rest(w, c)
  BY <1>3, <1>5 DEF Rest
<1>8. QED
  BY <1>4, <1>6, <1>7 DEF RowShows, w, text

\* Four texts, one after the other.
LEMMA WrittenFour ==
  ASSUME NEW r, NEW a, NEW b, NEW c, NEW d
  PROVE  Written(r, <<a, b, c, d>>) = printEvent(printEvent(printEvent(printEvent(r, a), b), c), d)
<1> DEFINE s == <<a, b, c, d>>
<1>1. DOMAIN s = 1..4 /\ s[1] = a /\ s[2] = b /\ s[3] = c /\ s[4] = d /\ 4 \in Nat
  OBVIOUS
<1> HIDE DEF s
<1>2. PICK f : Written(r, s) = f[4] /\ f[0] = r /\ Writing(f, s, 4)
  BY <1>1, EventTrace
<1>3. /\ f[1] = printEvent(f[0], s[1]) /\ f[2] = printEvent(f[1], s[2])
      /\ f[3] = printEvent(f[2], s[3]) /\ f[4] = printEvent(f[3], s[4])
  <2>1. /\ 1 \in 1..4 /\ 1 - 1 = 0 /\ 2 \in 1..4 /\ 2 - 1 = 1 /\ 3 \in 1..4 /\ 3 - 1 = 2
        /\ 4 \in 1..4 /\ 4 - 1 = 3
    OBVIOUS
  <2>2. /\ f[1] = printEvent(f[1 - 1], s[1]) /\ f[2] = printEvent(f[2 - 1], s[2])
        /\ f[3] = printEvent(f[3 - 1], s[3]) /\ f[4] = printEvent(f[4 - 1], s[4])
    BY <1>2, <2>1, Zenon DEF Writing
  <2>3. QED
    BY <2>1, <2>2
<1>4. QED
  BY <1>1, <1>2, <1>3 DEF s

-----------------------------------------------------------------------------
(***************************************************************************)
(* The invariant of what is shown: until there is a student nothing is;    *)
(* then, in the one mode or the other, how far it is with its courses.     *)
(***************************************************************************)
Marks == [c \in mine |-> Percentage(c)]

NInv ==
    /\ stage \in Unborn => row = <<>> /\ printed = <<>>
    /\ lineMode \in BOOLEAN
    /\ Rest(row, 0)
    /\ row # <<>> => ~lineMode /\ row[2] = Marks
    /\ printed # <<>> => lineMode /\ LineSays(printed, Marks)

LEMMA RestOfNothing == Rest(<<>>, 0)
<1>1. IsText(<<>>, 0)
  BY DEF IsText
<1>2. QED
  BY <1>1 DEF Rest

LEMMA PaddingIs ==
  ASSUME SInv
  PROVE  Padding = 3 * global.MAX_BOOKS_PER_COURSE + 1 /\ Padding \in Nat
BY Counts DEF SInv, OptionsOK, Padding

\* Whatever was there before, a text shows how far the student is when it is written.
LEMMA ShownOK ==
  ASSUME NInv, SInv', UNCHANGED lineMode, NEW face, Shown(face), stage' \notin Unborn
  PROVE  NInv'
<1>1. Padding' \in Nat
  <2>1. global' \in Parameters
    BY DEF SInv, OptionsOK
  <2>2. global'.MAX_BOOKS_PER_COURSE \in Nat
    BY <2>1, Counts
  <2>3. QED
    BY <2>2 DEF Padding
<1>2. CASE lineMode
  <2>1. printed' = printLine(Pieces(face, 0)') /\ row' = row
    BY <1>2 DEF Shown
  <2>2. Pieces(face, 0)' = LineOf(Padding', Marks', face)
    BY DEF Pieces, Border, BorderOf, LineOf, Marks, Gap
  <2>3. LineSays(printed', Marks')
    BY <1>1, <2>1, <2>2, LinePrinted
  <2>4. row' = <<>>
    BY <1>2, <2>1 DEF NInv
  <2>5. QED
    BY <1>2, <2>3, <2>4, RestOfNothing DEF NInv
<1>3. CASE ~lineMode
  <2>1. row' = printEvent(row, toStringStudent(face, 0)') /\ printed' = printed
    BY <1>3 DEF Shown
  <2>2. toStringStudent(face, 0)' = RowText(face, Marks', 0, Padding')
    BY DEF toStringStudent, Fields, BooksLength, RowText, Marks
  <2>3. RowShows(row', Marks', 0)
    <3>1. Rest(row, 0)
      BY DEF NInv
    <3>2. \A d \in Nat : RowShows(printEvent(row, RowText(face, Marks', 0, d)), Marks', 0)
      <4>1. \A d \in Nat : 0 \in Nat /\ 0 <= 0 + d
        OBVIOUS
      <4>2. QED
        BY <3>1, <4>1, RowWritten
    <3>3. QED
      BY <1>1, <2>1, <2>2, <3>2
  <2>4. printed' = <<>>
    BY <1>3, <2>1 DEF NInv
  <2>5. QED
    BY <1>3, <2>3, <2>4 DEF NInv, RowShows
<1>4. QED
  BY <1>2, <1>3 DEF NInv

\* The books that are shown fit in the padding that is written over them afterwards.
LEMMA BooksFit ==
  ASSUME SInv, stage \in Day, NEW books \in chooseBooksToStudy
  PROVE  BooksLength(Cardinality(books)) \in Nat /\ BooksLength(Cardinality(books)) <= Padding
<1>1. actualCourse \in mine
  BY OnCourse
<1>2. PICK n \in Nat \ {0} : /\ courses[actualCourse] \in [1..n -> Nat \ {0}]
                             /\ n <= global.MAX_BOOKS_PER_COURSE
  BY <1>1, CourseIs
<1>3. books \subseteq 1..n
  BY <1>2 DEF chooseBooksToStudy, BooksLeft, Required
<1>4. IsFiniteSet(1..n) /\ Cardinality(1..n) = n
  BY FS_Interval
<1>5. Cardinality(books) \in Nat /\ Cardinality(books) <= n
  BY <1>3, <1>4, FS_Subset, FS_CardinalityType
<1>6. global.MAX_BOOKS_PER_COURSE \in Nat
  BY Counts DEF SInv, OptionsOK
<1>7. QED
  BY <1>2, <1>5, <1>6, PaddingIs DEF BooksLength

LEMMA StudyShownOK ==
  ASSUME SInv, SInv', NInv, UNCHANGED lineMode, StudyShown
  PROVE  NInv'
<1>1. PICK now \in Halves, books \in chooseBooksToStudy :
        MayStudy(now) /\ study(now, books) /\ ShownStudy(Cardinality(books))
  BY DEF StudyShown
<1>2. stage \in Day /\ stage' \notin Unborn /\ global' = global
  BY <1>1 DEF study, MayStudy, StudyBooks, Halves, Day, Unborn, program
<1>3. CASE lineMode
  <2>1. Shown("STUDYING")
    BY <1>1, <1>3 DEF ShownStudy
  <2>2. QED
    BY <1>2, <2>1, ShownOK
<1>4. CASE ~lineMode
  <2> DEFINE n == Cardinality(books)
             b == BooksLength(n)
             d == Padding
             A == RowText("REQ_BOOKS", Marks, b, d)
             B == RowText("REQ_SEAT", Marks, b, d)
             C == RowText("STUDYING", Marks', b, d)
             D == RowText("STUDYING", Marks', 0, d)
             r1 == printEvent(row, A)
             r2 == printEvent(r1, B)
             r3 == printEvent(r2, C)
             r4 == printEvent(r3, D)
  <2>1. b \in Nat /\ d \in Nat /\ b <= d
    BY <1>2, BooksFit, PaddingIs
  <2>2. row' = FoldLeft(printEvent, row,
                  <<toStringStudent("REQ_BOOKS", n), toStringStudent("REQ_SEAT", n),
                    toStringStudent("STUDYING", n)', toStringStudent("STUDYING", 0)'>>)
        /\ printed' = printed
    BY <1>1, <1>4 DEF ShownStudy
  <2>3. /\ toStringStudent("REQ_BOOKS", n) = A /\ toStringStudent("REQ_SEAT", n) = B
        /\ toStringStudent("STUDYING", n)' = C /\ toStringStudent("STUDYING", 0)' = D
    <3>1. Padding' = Padding
      BY <1>2 DEF Padding
    <3>2. QED
      BY <3>1 DEF toStringStudent, Fields, RowText, Marks, BooksLength
  <2> HIDE DEF A, B, C, D
  <2>4. row' = Written(row, <<A, B, C, D>>)
    BY <2>2, <2>3 DEF Written
  <2>5. row' = r4
    BY <2>4, WrittenFour
  <2> HIDE DEF n, b, d
  <2>6. Rest(r1, b)
    <3>1. Rest(row, 0) /\ 0 \in Nat /\ 0 <= b + d
      BY <2>1 DEF NInv
    <3>2. QED
      BY <2>1, <3>1, RowWritten DEF A, RowShows
  <2> HIDE DEF r1
  <2>7. Rest(r2, b)
    <3>1. b <= b + d
      BY <2>1
    <3>2. QED
      BY <2>1, <2>6, <3>1, RowWritten DEF B, RowShows
  <2> HIDE DEF r2
  <2>8. Rest(r3, b)
    <3>1. b <= b + d
      BY <2>1
    <3>2. QED
      BY <2>1, <2>7, <3>1, RowWritten DEF C, RowShows
  <2> HIDE DEF r3
  <2>9. RowShows(r4, Marks', 0)
    <3>1. 0 \in Nat /\ b <= 0 + d
      BY <2>1
    <3>2. QED
      BY <2>1, <2>8, <3>1, RowWritten DEF D
  <2>10. printed' = <<>>
    BY <1>4, <2>2 DEF NInv
  <2>11. QED
    BY <1>2, <1>4, <2>5, <2>9, <2>10 DEF NInv, RowShows
<1>5. QED
  BY <1>3, <1>4 DEF NInv

\* A step that leaves what is shown as it is leaves the percentages.
LEMMA NotShownOK ==
  ASSUME NInv, UNCHANGED <<lineMode, shownVars>>, UNCHANGED Marks, stage' \notin Unborn
  PROVE  NInv'
BY DEF NInv, shownVars

LEMMA UnbornOK ==
  ASSUME NInv, stage \in Unborn, UNCHANGED shownVars, lineMode' \in BOOLEAN
  PROVE  NInv'
BY RestOfNothing DEF NInv, shownVars

LEMMA NStepOK ==
  ASSUME SInv, SInv', NInv, [ScreenNext]_screenVars
  PROVE  NInv'
<1>1. CASE UNCHANGED screenVars
  <2>1. UNCHANGED Marks
    BY <1>1 DEF screenVars, vars, student, Marks, Percentage
  <2>2. QED
    BY <1>1, <2>1 DEF screenVars, vars, shownVars, NInv
<1>2. CASE switchToLineMode \/ switchToWindowMode
  <2>1. stage \in Unborn /\ UNCHANGED shownVars /\ lineMode' \in BOOLEAN
    BY <1>2 DEF switchToLineMode, switchToWindowMode, Option, Unborn
  <2>2. QED
    BY <2>1, UnbornOK
<1>3. CASE UNCHANGED lineMode /\ (processArgs \/ Start \/ initAllCourses \/ NoStudy) /\ UNCHANGED shownVars
  <2>1. CASE processArgs \/ Start \/ initAllCourses
    <3>1. stage \in Unborn
      BY <2>1 DEF processArgs, NumBooks, NumCourses, MaxBooksPerCourse, BookStudyTime, StudyTime,
                  NumSeats, NumStudents, NumCopies, Option, Start, initAllCourses, Unborn
    <3>2. QED
      BY <1>3, <3>1, UnbornOK DEF NInv
  <2>2. CASE NoStudy
    <3>1. stage' \notin Unborn
      BY <2>2, NoStudyOK DEF Unborn
    <3>2. UNCHANGED Marks
      BY <2>2 DEF NoStudy, student, Marks, Percentage
    <3>3. QED
      BY <1>3, <3>1, <3>2, NotShownOK
  <2>3. QED
    BY <1>3, <2>1, <2>2
<1>4. CASE UNCHANGED lineMode /\ newStudent /\ Shown("NONE")
  BY <1>4, ShownOK DEF newStudent, Unborn
<1>5. CASE UNCHANGED lineMode /\ enroll
  BY <1>5, ShownOK DEF enroll, enrollCourse, Unborn
<1>6. CASE UNCHANGED lineMode /\ SleepOrEat
  <2>1. PICK s \in DOMAIN FaceOf : stage = s /\ Spend /\ Shown(FaceOf[s])
    BY <1>6 DEF SleepOrEat
  <2>2. stage' \notin Unborn
    BY <2>1 DEF Spend, TheDay, Unborn
  <2>3. QED
    BY <1>6, <2>1, <2>2, ShownOK
<1>7. CASE UNCHANGED lineMode /\ StudyShown
  BY <1>7, StudyShownOK
<1>8. CASE UNCHANGED lineMode /\ fun
  BY <1>8, ShownOK DEF fun, Spend, TheDay, Unborn
<1>9. CASE UNCHANGED lineMode /\ done
  <2>1. stage' \notin Unborn
    BY <1>9 DEF done, Evening, Unborn
  <2>2. CASE stage' = "done"
    BY <1>9, <2>1, <2>2, ShownOK DEF done
  <2>3. CASE stage' # "done"
    <3>1. UNCHANGED Marks
      BY <1>9 DEF done, Evening, Marks, Percentage
    <3>2. QED
      BY <1>9, <2>1, <2>3, <3>1, NotShownOK DEF done
  <2>4. QED
    BY <2>2, <2>3
<1>10. QED
  BY <1>1, <1>2, <1>3, <1>4, <1>5, <1>6, <1>7, <1>8, <1>9 DEF ScreenNext

LEMMA SaysWords ==
  ASSUME NEW line, NEW marks, LineSays(line, marks)
  PROVE  /\ line[Len(line)] = <<"marks", marks>>
         /\ [i \in DOMAIN line |-> line[i][1]] \in
              {<<"Student:", Blank, "name", Blank, "marks">>,
               <<"Student:", Blank, "name", Blank, "face", Blank, "marks">>}
<1>1. PICK n \in {5, 7} :
        /\ IsText(line, n) /\ line[n] = <<"marks", marks>>
        /\ line[1][1] = "Student:" /\ line[2][1] = Blank /\ line[3][1] = "name" /\ line[4][1] = Blank
        /\ n = 7 => line[5][1] = "face" /\ line[6][1] = Blank
  BY DEF LineSays
<1>2. Len(line) = n /\ DOMAIN line = 1..n
  BY <1>1 DEF IsText
<1> DEFINE words == [i \in DOMAIN line |-> line[i][1]]
<1>3. CASE n = 5
  <2> DEFINE five == <<"Student:", Blank, "name", Blank, "marks">>
  <2>1. words = [i \in 1..5 |-> line[i][1]] /\ 1..5 = {1, 2, 3, 4, 5} /\ line[5][1] = "marks"
    BY <1>1, <1>2, <1>3
  <2>2. /\ five = [i \in 1..5 |-> five[i]] /\ five[1] = "Student:" /\ five[2] = Blank
        /\ five[3] = "name" /\ five[4] = Blank /\ five[5] = "marks"
    OBVIOUS
  <2> HIDE DEF five
  <2>3. \A i \in 1..5 : line[i][1] = five[i]
    BY <1>1, <2>1, <2>2
  <2>4. words = five
    BY <2>1, <2>2, <2>3
  <2>5. QED
    BY <1>1, <1>2, <2>4 DEF five
<1>4. CASE n = 7
  <2> DEFINE seven == <<"Student:", Blank, "name", Blank, "face", Blank, "marks">>
  <2>1. words = [i \in 1..7 |-> line[i][1]] /\ 1..7 = {1, 2, 3, 4, 5, 6, 7} /\ line[7][1] = "marks"
    BY <1>1, <1>2, <1>4
  <2>2. /\ seven = [i \in 1..7 |-> seven[i]] /\ seven[1] = "Student:" /\ seven[2] = Blank
        /\ seven[3] = "name" /\ seven[4] = Blank /\ seven[5] = "face" /\ seven[6] = Blank
        /\ seven[7] = "marks"
    OBVIOUS
  <2> HIDE DEF seven
  <2>3. \A i \in 1..7 : line[i][1] = seven[i]
    BY <1>1, <1>4, <2>1, <2>2
  <2>4. words = seven
    BY <2>1, <2>2, <2>3
  <2>5. QED
    BY <1>1, <1>2, <2>4 DEF seven
<1>5. QED
  BY <1>3, <1>4

\* Nothing of an earlier text remains: outside the library the student's box, or its line,
\* shows how far the student is with its courses, and no book (toStringStudent, printEvent).
THEOREM NothingIsStale == ScreenSpec => []NothingStale
<1>1. ScreenInit => NInv
  BY RestOfNothing DEF ScreenInit, NInv
<1>2. SInv /\ SInv' /\ NInv /\ [ScreenNext]_screenVars => NInv'
  BY NStepOK
<1>3. NInv => NothingStale
  <2> SUFFICES ASSUME NInv PROVE NothingStale
    OBVIOUS
  <2>1. ASSUME row # <<>>
        PROVE  row[2] = [c \in mine |-> Percentage(c)] /\ \A i \in 3..Len(row) : row[i] = Blank
    <3>1. PICK q \in Nat : IsText(row, q) /\ \A i \in 1..q : i >= 3 + 0 => row[i] = Blank
      BY DEF NInv, Rest
    <3>2. Len(row) = q
      BY <3>1 DEF IsText
    <3>3. \A i \in 3..q : i \in 1..q /\ i >= 3 + 0
      OBVIOUS
    <3>4. QED
      BY <2>1, <3>1, <3>2, <3>3 DEF NInv, Marks
  <2>2. ASSUME printed # <<>>
        PROVE  LineSays(printed, [c \in mine |-> Percentage(c)])
    BY <2>2 DEF NInv, Marks
  <2>3. QED
    BY <2>1, <2>2, SaysWords DEF NothingStale
<1>4. QED
  BY <1>1, <1>2, <1>3, StudiesInductive, PTL DEF ScreenSpec
=============================================================================
