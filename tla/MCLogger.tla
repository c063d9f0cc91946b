------------------------------ MODULE MCLogger ------------------------------
EXTENDS Logger, TLC

CONSTANT s1
MCStudents == {s1}
=============================================================================
