--------------------------- MODULE InstanceTypes ---------------------------
(***************************************************************************)
(* What the instance type resolver and the price model compute from a      *)
(* machine type and the kubelet configuration of a NodeClass.              *)
(*                                                                         *)
(* A machine type is a record [vcpus, ram, disk].  CPU is counted in       *)
(* thousandths, memory in MiB, storage in blocks of 512 bytes (which makes *)
(* both 1G and 1Gi whole numbers).  Amounts of resources are functions     *)
(* from the names of the resources they mention.                           *)
(***************************************************************************)
EXTENDS Integers, FiniteSetsExt

CONSTANTS
  VMMemoryOverhead,   \* thousandths of the memory lost to the hypervisor and the kernel
  None                \* a setting that is not set

Resources == {"cpu", "memory", "pods", "storage"}

AtLeast(n, d) == IF n < d THEN d ELSE n
AtMost(n, d) == IF n > d THEN d ELSE n
CeilDiv(n, d) == (n + d - 1) \div d

\* lo.Assign of two maps: the second wins.
Assign(f, g) == [r \in DOMAIN f \cup DOMAIN g |-> IF r \in DOMAIN g THEN g[r] ELSE f[r]]

Amount(f, r) == IF r \in DOMAIN f THEN f[r] ELSE 0

----------------------------------------------------------------------------
(* What a machine type and a kubelet configuration are.                    *)

\* The last tier of the CPU reservation ends above every machine type.
IsMachine(machine) ==
  /\ machine.vcpus \in Nat /\ machine.vcpus <= 2147483
  /\ machine.ram \in Nat /\ machine.disk \in Nat

IsReservation(f) == \A r \in DOMAIN f : f[r] \in Nat

\* Whole percentages and quantities; no rule keeps them from being negative.
Signals == [percent : BOOLEAN, value : Int]

\* What the validation rules of KubeletConfiguration let through.
IsKubelet(kubelet) ==
  /\ kubelet.maxPods \in Nat \cup {None} /\ kubelet.podsPerCore \in Nat
  /\ IsReservation(kubelet.kubeReserved) /\ IsReservation(kubelet.systemReserved)
  /\ {kubelet.evictionHard, kubelet.evictionSoft} \subseteq Signals \cup {None}

\* Options.Validate: a fraction of the memory, and never all of it.
ASSUME OverheadAssumption == VMMemoryOverhead \in 0..999

----------------------------------------------------------------------------
(* Capacity.                                                               *)

Cpu(machine) == 1000 * machine.vcpus

Memory(machine) == machine.ram - CeilDiv(machine.ram * VMMemoryOverhead, 1000)

GB == 1953125    \* 1G
GiB == 2097152   \* 1Gi

\* 4 GB stay with the operating system; the boot volume counts, never the machine's disk.
EphemeralStorage(bootVolumeGB) == AtLeast(bootVolumeGB - 4, 1) * GB

Pods(machine, kubelet) ==
  LET count == IF kubelet.maxPods = None THEN 110 ELSE kubelet.maxPods
  IN  IF kubelet.podsPerCore = 0 THEN count ELSE AtMost(kubelet.podsPerCore * machine.vcpus, count)

Capacity(machine, bootVolumeGB, kubelet) ==
  [cpu |-> Cpu(machine), memory |-> Memory(machine),
   pods |-> Pods(machine, kubelet), storage |-> EphemeralStorage(bootVolumeGB)]

----------------------------------------------------------------------------
(* Overhead.                                                               *)

\* The share is in ten-thousandths.  The code's last tier ends at 2^31, which no machine
\* reaches and TLC's integers do not either.
Tiers == <<[start |-> 0,    end |-> 1000,       share |-> 600],
           [start |-> 1000, end |-> 2000,       share |-> 100],
           [start |-> 2000, end |-> 4000,       share |-> 50],
           [start |-> 4000, end |-> 2147483647, share |-> 25]>>

InTier(milli, tier) ==
  IF milli < tier.start THEN 0 ELSE ((AtMost(milli, tier.end) - tier.start) * tier.share) \div 10000

TieredCPU(milli) ==
  InTier(milli, Tiers[1]) + InTier(milli, Tiers[2]) + InTier(milli, Tiers[3]) + InTier(milli, Tiers[4])

\* Reference: thousandths of a CPU reserved on a machine with v whole CPUs.
ReservedCPU(v) == CASE v = 0 -> 0 [] v = 1 -> 60 [] v = 2 -> 70 [] v = 3 -> 75
                    [] v >= 4 -> 80 + (5 * (v - 4)) \div 2

KubeReserved(machine, kubelet) ==
  Assign([cpu     |-> TieredCPU(Cpu(machine)),
          memory  |-> 11 * Pods(machine, kubelet) + 255,
          storage |-> GiB],
         kubelet.kubeReserved)

\* A signal is a quantity or a percentage of the memory; 100% switches it off.  The code
\* rounds a percentage up to whole bytes.  Capacity, reservations and requests are whole MiB
\* here, and what is a whole MiB fits beside the one exactly when it fits beside the other.
EvictionSignal(memory, signal) ==
  IF ~signal.percent THEN signal.value
  ELSE IF signal.value = 100 THEN 0
  ELSE CeilDiv(memory * signal.value, 100)

\* What is configured replaces the default, also when it is less.
Evictions(memory, kubelet) ==
  LET signals == {kubelet.evictionHard, kubelet.evictionSoft} \ {None}
  IN  IF signals = {} THEN {100} ELSE {EvictionSignal(memory, signal) : signal \in signals}

EvictionThreshold(memory, kubelet) == Max(Evictions(memory, kubelet))

Overhead(machine, kubelet) ==
  LET eviction == [memory |-> EvictionThreshold(Memory(machine), kubelet)]
  IN  [r \in Resources |-> Amount(KubeReserved(machine, kubelet), r)
                           + Amount(kubelet.systemReserved, r) + Amount(eviction, r)]

\* Karpenter's InstanceType.Allocatable; it may be negative.
Allocatable(machine, bootVolumeGB, kubelet) ==
  [r \in Resources |-> Capacity(machine, bootVolumeGB, kubelet)[r] - Overhead(machine, kubelet)[r]]

----------------------------------------------------------------------------
(* Prices, in 1/1024 of a thousandth of a cent per hour.                   *)

EurPerVCPUHour == 2460 * 1024
EurPerGiBHour == 330           \* for each MiB
EurPerGiBDiskHour == 7 * 1024

\* A machine type that reports no resources must not look free.
ModelPrice(machine) ==
  LET price == machine.vcpus * EurPerVCPUHour + machine.ram * EurPerGiBHour
               + machine.disk * EurPerGiBDiskHour
  IN  IF price <= 0 THEN EurPerVCPUHour ELSE price

=============================================================================
