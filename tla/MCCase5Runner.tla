---------------------------- MODULE MCCase5Runner ----------------------------
(***************************************************************************)
(* Instances of Case5Runner for TLC.                                       *)
(***************************************************************************)
EXTENDS Case5Runner, TLC

\* Process ids and results are only compared with each other.
Symmetry == Permutations(Proc) \cup Permutations(Result)
=============================================================================
