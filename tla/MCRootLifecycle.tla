-------------------------- MODULE MCRootLifecycle --------------------------
(* Two processes, and three directories: one that is not cup's or that is   *)
(* uninstalled, its successor, and one more build in progress.              *)
EXTENDS RootLifecycle, TLC

CONSTANTS p1, p2, d1, d2, d3

MCProc   == {p1, p2}
MCDir    == {d1, d2, d3}
MCPair   == {d1, d2}
Symmetry == Permutations(MCProc) \cup Permutations(MCDir)
=============================================================================
