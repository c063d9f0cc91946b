----------------------------- MODULE MCLibrary -----------------------------
EXTENDS Library, TLC

CONSTANTS s1, s2, librarian, a, b

MCStudents == {s1, s2}
MCBooks == {a, b}
MCQuantity == (a :> 2) @@ (b :> 1)
MCBookLists == {<<a>>, <<b, a>>}
\* The students run the same code and no property tells them apart.
StudentSymmetry == Permutations(MCStudents)
=============================================================================
