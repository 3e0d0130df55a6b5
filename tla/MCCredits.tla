------------------------------ MODULE MCCredits ------------------------------
EXTENDS Credits, TLC
CONSTANTS g1, g2
MCCost == [g \in Generates |-> IF g = g1 THEN 2 ELSE 3]
MCRows == <<[credits |-> 2, expireat |-> 5], [credits |-> 2, expireat |-> 7]>>
MCNoRows == <<>>
=============================================================================
