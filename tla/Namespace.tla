----------------------------- MODULE Namespace -----------------------------
(***************************************************************************)
(* What the users of a mounted volume may rely on, whatever the other      *)
(* users do: a directory is a set of links, each a name for an inode at    *)
(* some place; links appear under names nobody has, disappear, and take    *)
(* another name, each at once; and a user who asks about a name is told    *)
(* whether there was a link of that name at an instant since the question. *)
(* That a name has one link only is not promised: a link may be renamed to *)
(* a name that is taken.                                                   *)
(***************************************************************************)
CONSTANTS Clients, Places, Names, Inodes, Root, NoLink

VARIABLES
    links,    \* what is at each place
    asked,    \* the name each user asked about last
    answer    \* "found", "missing", or "none" as long as there is no answer
vars == <<links, asked, answer>>

Link(n, in) == [name |-> n, in |-> in]
Named(n) == \E p \in Places : links[p] # NoLink /\ links[p].name = n

Init ==
    /\ links \in [Places -> {NoLink} \union [name : Names, in : Inodes \union {Root}]]
    /\ asked \in [Clients -> Names]
    /\ answer = [c \in Clients |-> "none"]

Create(p, n, in) ==
    /\ links[p] = NoLink
    /\ ~Named(n)
    /\ links' = [links EXCEPT ![p] = Link(n, in)]
    /\ UNCHANGED <<asked, answer>>

Remove(p) ==
    /\ links[p] # NoLink
    /\ links' = [links EXCEPT ![p] = NoLink]
    /\ UNCHANGED <<asked, answer>>

Rename(p, q, n) ==
    /\ links[p] # NoLink
    /\ q = p \/ links[q] = NoLink
    /\ links' = [links EXCEPT ![p] = NoLink, ![q] = Link(n, links[p].in)]
    /\ UNCHANGED <<asked, answer>>

Ask(c, n) ==
    /\ asked' = [asked EXCEPT ![c] = n]
    /\ answer' = [answer EXCEPT ![c] = "none"]
    /\ UNCHANGED links

Answer(c) ==
    /\ answer[c] = "none"
    /\ answer' = [answer EXCEPT ![c] = IF Named(asked[c]) THEN "found" ELSE "missing"]
    /\ UNCHANGED <<links, asked>>

Next ==
    \/ \E p \in Places : Remove(p)
    \/ \E p \in Places, n \in Names :
          \/ \E in \in Inodes : Create(p, n, in)
          \/ \E q \in Places : Rename(p, q, n)
    \/ \E c \in Clients : Answer(c) \/ \E n \in Names : Ask(c, n)

Spec == Init /\ [][Next]_vars
=============================================================================
