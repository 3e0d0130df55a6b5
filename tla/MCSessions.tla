----------------------------- MODULE MCSessions -----------------------------
(* Sessions for TLC: what may be renamed without changing anything. *)
EXTENDS Sessions, TLC

Symmetry == Permutations(Ids) \cup Permutations(Requests) \cup Permutations(Browsers)
=============================================================================
