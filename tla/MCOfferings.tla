----------------------------- MODULE MCOfferings -----------------------------
(* Instances of Offerings for TLC. *)
EXTENDS Offerings, TLC

CONSTANTS z1, z2

\* One NodeClass, or two that list different zones.
OneZone == {{z1}}
Apart == {{z1}, {z2}}
Overlapping == {{z1}, {z1, z2}}

=============================================================================
