------------------------------ MODULE MCDrift ------------------------------
(* An instance of Drift for TLC. *)
EXTENDS Drift, TLC

CONSTANTS z1, z2

BothZones == {z1, z2}

\* The second differs from the first in its labels only, the third in its zones.
ThreeSpecs ==
  {[zones |-> {z1}, image |-> "i", labels |-> "l"],
   [zones |-> {z1}, image |-> "i", labels |-> "m"],
   [zones |-> {z1, z2}, image |-> "i", labels |-> "l"]}

=============================================================================
