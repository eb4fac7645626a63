----------------------------- MODULE MCPackageCache -----------------------------
(* PackageCache with few deployments and packages.                         *)
EXTENDS PackageCache, TLC

CONSTANTS d1, d2, d3, w1, w2, p1, p2

\* One deployment can meet a package that it failed to remove before.
MCMaxLoads == [d \in Deployments |-> IF d = d1 THEN 2 ELSE 1]

MCSymmetry == Permutations({d2, d3}) \cup Permutations({w1, w2}) \cup Permutations({p1, p2})
===============================================================================
