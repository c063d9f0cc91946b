---------------------------- MODULE MCLibrarian ----------------------------
EXTENDS Librarian, TLC

CONSTANTS s1, s2

OneStudent == {s1}
TwoStudents == {s1, s2}
\* The students run the same code and no property tells them apart.
StudentSymmetry == Permutations(TwoStudents)
=============================================================================
