---------------------------- MODULE MCRuntimeMetrics ----------------------------
(***************************************************************************)
(* Instances of RuntimeMetrics.                                            *)
(***************************************************************************)
EXTENDS RuntimeMetrics, TLC

\* The third record is larger than the file may be.
Weights == [r \in Records |-> IF r = 3 THEN 3 ELSE 1]

Symmetry == Permutations(Servers)

================================================================================
