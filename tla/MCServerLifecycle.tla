--------------------------- MODULE MCServerLifecycle ---------------------------
(***************************************************************************)
(* Instances of ServerLifecycle.                                           *)
(***************************************************************************)
EXTENDS ServerLifecycle, TLC

\* The threads of the UI are alike, and so are the process ids.
Symmetry == Permutations(Ui) \cup Permutations(Pids)

================================================================================
