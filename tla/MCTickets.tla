------------------------------ MODULE MCTickets ------------------------------
EXTENDS Tickets, TLC
CONSTANTS s1, s2, u1, u2
MCAgent == [s \in Staff |-> IF s = s1 THEN u1 ELSE u2]
\* Two members of the staff with one request each are interchangeable, and so
\* are the addresses.
Swap == (s1 :> s2) @@ (s2 :> s1) @@ (u1 :> u2) @@ (u2 :> u1)
Symmetry == Permutations(Emails) \cup {Swap @@ p : p \in Permutations(Emails)}
=============================================================================
