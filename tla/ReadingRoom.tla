---------------------------- MODULE ReadingRoom ----------------------------
(***************************************************************************)
(* What the library promises its users, with every semaphore, counter and  *)
(* loop removed: a student gets a whole list of books or none of them, the *)
(* shelf never lends a copy it does not have nor takes back one it did not *)
(* lend, and a seat has at most one occupant, who alone can leave it.      *)
(***************************************************************************)
EXTENDS Integers, Sequences

CONSTANTS Students, Books, Quantity, BookLists, Seats, Nobody

VARIABLES onShelf, occupant

vars == <<onShelf, occupant>>

Init ==
    /\ onShelf = Quantity
    /\ occupant = [seat \in Seats |-> Nobody]

InList(b, list) == \E k \in 1..Len(list) : list[k] = b

Lend(list) ==
    /\ \A b \in Books : InList(b, list) => onShelf[b] > 0
    /\ onShelf' = [b \in Books |-> IF InList(b, list) THEN onShelf[b] - 1 ELSE onShelf[b]]
    /\ UNCHANGED occupant

TakeBack(b) ==
    /\ onShelf[b] < Quantity[b]
    /\ onShelf' = [onShelf EXCEPT ![b] = @ + 1]
    /\ UNCHANGED occupant

Take(student, seat) ==
    /\ occupant[seat] = Nobody
    /\ \A other \in Seats : occupant[other] # student
    /\ occupant' = [occupant EXCEPT ![seat] = student]
    /\ UNCHANGED onShelf

Leave(seat) ==
    /\ occupant[seat] # Nobody
    /\ occupant' = [occupant EXCEPT ![seat] = Nobody]
    /\ UNCHANGED onShelf

Next ==
    \/ \E list \in BookLists : Lend(list)
    \/ \E b \in Books : TakeBack(b)
    \/ \E seat \in Seats : Leave(seat) \/ \E student \in Students : Take(student, seat)

Spec == Init /\ [][Next]_vars
=============================================================================
