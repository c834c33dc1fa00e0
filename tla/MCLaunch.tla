------------------------------ MODULE MCLaunch ------------------------------
(* Instances of Launch for TLC. *)
EXTENDS Launch

Machine(vcpus, ram) == [vcpus |-> vcpus, ram |-> ram, disk |-> 0]

\* The first is the cheapest and the second the largest.
MCMachines == [small |-> Machine(1, 4096), large |-> Machine(4, 16384)]

MCOverrides == [small |-> 1]

Plain == [maxPods |-> None, podsPerCore |-> 0, kubeReserved |-> <<>>, systemReserved |-> <<>>,
          evictionHard |-> None, evictionSoft |-> None]

\* Pods limited by the CPUs, a share of memory for the system, and soft eviction above
\* the hard one.
Tuned == [maxPods |-> 250, podsPerCore |-> 20, kubeReserved |-> [cpu |-> 200, storage |-> 976562],
          systemReserved |-> [memory |-> 200],
          evictionHard |-> [percent |-> FALSE, value |-> 50],
          evictionSoft |-> [percent |-> TRUE, value |-> 10]]

\* With the smallest boot volume that leaves room beside the operating system, what is
\* reserved by default is more than there is; one too small for the operating system counts
\* as that one.
MCNodeClasses == {[kubelet |-> Plain, bootVolumeGB |-> 20], [kubelet |-> Plain, bootVolumeGB |-> 5],
                  [kubelet |-> Tuned, bootVolumeGB |-> 3]}

\* The first claim fits on every machine type with the plain kubelet configuration and the
\* larger boot volume only, to the last MiB, thousandth of a CPU and block of storage; the
\* second to the last block on the smaller one with the other configuration.  The name of
\* the second is as long as the first prefix allows, and too long with the second.
MCPrefixLengths == {21, 22}

MCWanted ==
  [any  |-> [types |-> {"small", "large"}, zones |-> Zones, nameLength |-> 40,
             requests |-> [cpu |-> 940, memory |-> 2223, storage |-> 29152848]],
   big  |-> [types |-> {"large"}, zones |-> {"z1"}, nameLength |-> 41,
             requests |-> [cpu |-> 3800, pods |-> 20, storage |-> 976563]]]

=============================================================================
