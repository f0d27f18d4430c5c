----------------------------- MODULE MCDeployer -----------------------------
(* Instances of Deployer for TLC: the cfg files give the constants. *)
EXTENDS Deployer, TLC

\* Handlers and artifacts are interchangeable: the safety runs identify
\* states that differ by a permutation of them.
Symmetry == Permutations(Callers) \cup Permutations(Artifacts)
=============================================================================
