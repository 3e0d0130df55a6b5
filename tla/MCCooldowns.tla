----------------------------- MODULE MCCooldowns -----------------------------
(* Two forms at once; the last address belongs to a domain with no mail.    *)
EXTENDS Cooldowns, TLC

CONSTANTS e1, e2, e3

DomainOf == [e \in Emails |-> IF e = e3 THEN "nomail" ELSE "mail"]
Good == {"mail"}

\* Requests are alike, and so are client addresses and those of one domain.
Symmetry == Permutations(Requests) \cup Permutations(Addresses) \cup Permutations(Emails \ {e3})
===============================================================================
