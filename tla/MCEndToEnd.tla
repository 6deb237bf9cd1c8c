----------------------------- MODULE MCEndToEnd -----------------------------
(* EndToEnd on small sets; calls and recognizers are interchangeable.      *)
EXTENDS EndToEnd, TLC

Symmetry == Permutations(Reqs) \cup Permutations(Recs)
=============================================================================
