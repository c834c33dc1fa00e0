---------------------------- MODULE MCLifecycle ----------------------------
(* Instances of Lifecycle for TLC. *)
EXTENDS Lifecycle, TLC

\* NodeClaims are interchangeable.  The servers of a run are not: one of them has no
\* createdAt, one may register a Node.
Symmetry == Permutations(Claims)

============================================================================
