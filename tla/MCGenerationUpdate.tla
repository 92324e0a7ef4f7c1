-------------------------- MODULE MCGenerationUpdate --------------------------
(* Three releases; the first two ship the same LICENSE, the last two the    *)
(* same notices.                                                            *)
EXTENDS GenerationUpdate, TLC

CONSTANTS p1, p2

MCVersion == 1..3
MCBlob    == {"r1", "r2", "r3", "l1", "l3", "n1", "n2", "b1", "b2", "b3"}
MCBytes   ==
  [v \in MCVersion |->
    CASE v = 1 -> [release |-> "r1", license |-> "l1", notices |-> "n1", binary |-> "b1"]
      [] v = 2 -> [release |-> "r2", license |-> "l1", notices |-> "n2", binary |-> "b2"]
      [] OTHER -> [release |-> "r3", license |-> "l3", notices |-> "n2", binary |-> "b3"]]
MCProc    == {p1, p2}
Symmetry  == Permutations(MCProc)
=============================================================================
