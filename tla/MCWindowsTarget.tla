--------------------------- MODULE MCWindowsTarget ---------------------------
(* Instances of WindowsTarget for TLC: the cfg files give the constants. *)
EXTENDS WindowsTarget, TLC

Symmetry == Permutations(Builds)
=============================================================================
