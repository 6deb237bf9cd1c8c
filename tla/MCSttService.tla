---------------------------- MODULE MCSttService ----------------------------
(* SttService on small sets of model values.                               *)
EXTENDS SttService, TLC

(* Ids, calls and recognizers are interchangeable: no definition tells two *)
(* of them apart.  Only the runs without liveness use the symmetry.        *)
Symmetry == Permutations(Ids) \cup Permutations(Reqs) \cup Permutations(Recs)
=============================================================================
