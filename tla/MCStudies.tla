----------------------------- MODULE MCStudies -----------------------------
EXTENDS Screen

MCDefaults == [NUM_BOOKS |-> 3, NUM_COURSE_UNITS |-> 1, MAX_BOOKS_PER_COURSE |-> 2,
               MIN_BOOK_STUDY_TIME_UNITS |-> 1, MAX_BOOK_STUDY_TIME_UNITS |-> 2,
               MIN_STUDY_TIME_UNITS |-> 1, MAX_STUDY_TIME_UNITS |-> 2,
               MAX_BOOK_COPIES |-> 99, NUM_STUDENTS |-> 2, NUM_TABLES |-> 1, NUM_SEATS_PER_TABLE |-> 4]
=============================================================================
