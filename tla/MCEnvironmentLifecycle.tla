----------------------- MODULE MCEnvironmentLifecycle -----------------------
(* EnvironmentLifecycle on small sets of sessions and handlers. *)
EXTENDS EnvironmentRefinement, TLC

\* Identifiers of sessions and of handlers are interchangeable.
Symmetric == Permutations(Sessions) \cup Permutations(Requests)
=============================================================================
