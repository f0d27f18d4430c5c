--------------------------- MODULE MCDockerTarget ---------------------------
(* Instances of DockerTarget for TLC: the cfg files give the constants. *)
EXTENDS DockerTarget, TLC

Symmetry == Permutations(Names) \cup Permutations(Values)
=============================================================================
