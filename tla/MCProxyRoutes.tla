---------------------------- MODULE MCProxyRoutes ----------------------------
(* Instances of ProxyRoutes for TLC: the cfg files give the constants. *)
EXTENDS ProxyRoutes, TLC

CONSTANTS app, shop,                \* names of two sites
          App                       \* the first one, spelled differently

\* routeID lower-cases a name and drops its trailing dot before hashing it.
Canonical == [d \in Domains |-> IF d = App THEN app ELSE d]

Symmetry == Permutations(Projects) \cup Permutations(Handlers)
=============================================================================
