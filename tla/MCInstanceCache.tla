--------------------------- MODULE MCInstanceCache ---------------------------
(* Instances of InstanceCache for TLC. *)
EXTENDS InstanceCache, TLC

CONSTANTS managedBy, team, ours, theirs

\* No labels, and one of the user's own that comes with a claim to the managed key.
AskedLabels == {<<>>, (team :> theirs) @@ (managedBy :> theirs)}

=============================================================================
