----------------------------- MODULE MCNodeClass -----------------------------
(* Instances of NodeClass for TLC. *)
EXTENDS NodeClass, TLC

CONSTANTS z1, z2

BothZones == {z1, z2}

\* STACKIT lists nothing yet, one zone, or both.
Growing == {{}, {z1}, {z1, z2}}

SpecOf(zones, network, nics, labels) ==
  [zones |-> zones, network |-> network, nics |-> nics, labels |-> labels]

\* Every zone of the region, and a zone it may not have, with NICs that cannot be shared.
TwoSpecs == {SpecOf({}, TRUE, 0, "valid"), SpecOf({z2}, FALSE, 2, "valid")}

\* One that is always accepted.
OneSpec == {SpecOf({z1}, TRUE, 0, "valid")}

=============================================================================
