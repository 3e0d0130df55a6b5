------------------------------ MODULE MCBounces ------------------------------
(* Two mails to an address that bounces twice, a bounce of another, and one *)
(* that cannot be read.                                                     *)
EXTENDS Bounces, TLC

CONSTANTS e1, e2, n1, n2, n3, n4

MailTo == [m \in Mails |-> e1]
NoticeAbout == [n \in Notices |-> IF n = n3 THEN e2 ELSE e1]

Symmetry == Permutations(Mails) \cup Permutations({n1, n2})
===============================================================================
