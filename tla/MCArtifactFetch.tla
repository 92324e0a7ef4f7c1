--------------------------- MODULE MCArtifactFetch ---------------------------
(* The files of one fetch, its copy, and one more put there from outside. *)
EXTENDS ArtifactFetch, TLC

FileSymmetry == Permutations(File)
==============================================================================
