--------------------------- MODULE MCProcessPool ---------------------------
(***************************************************************************)
(* Constants of ProcessPool that a configuration file cannot spell out,    *)
(* and the symmetry of its children for runs without liveness.             *)
(***************************************************************************)
EXTENDS ProcessPool, TLC

Indeterminate == {-1}
TwoOrIndeterminate == {-1, 2}

ChildSymmetry == Permutations(Launched)

=============================================================================
