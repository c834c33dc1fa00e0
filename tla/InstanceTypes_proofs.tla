------------------------ MODULE InstanceTypes_proofs ------------------------
(***************************************************************************)
(* What the resolver promises of the resources of a node, proved for every *)
(* machine type, boot volume and kubelet configuration that the validation *)
(* rules let through.                                                      *)
(***************************************************************************)
EXTENDS InstanceTypes, TLAPS

\* Rounding up a thousandth share never gives less (memory).
LEMMA RoundedUp ==
  ASSUME NEW n \in Int
  PROVE  CeilDiv(n, 1000) \in Int /\ n <= 1000 * CeilDiv(n, 1000) /\ 1000 * CeilDiv(n, 1000) < n + 1000
BY DEF CeilDiv

\* The share lost to the virtualization is taken from the memory, and never all of it.
LEMMA MemoryAmount ==
  ASSUME NEW machine, IsMachine(machine)
  PROVE  /\ Memory(machine) \in Nat
         /\ 1000 * Memory(machine) <= machine.ram * (1000 - VMMemoryOverhead)
<1> DEFINE ram == machine.ram
           lost == CeilDiv(ram * VMMemoryOverhead, 1000)
<1>1. ram \in Nat /\ VMMemoryOverhead \in 0..999
  BY OverheadAssumption DEF IsMachine
<1>2. /\ ram * VMMemoryOverhead \in Int
      /\ ram * VMMemoryOverhead <= 1000 * ram
      /\ ram * (1000 - VMMemoryOverhead) = 1000 * ram - ram * VMMemoryOverhead
  <2> HIDE DEF ram
  <2>1. 0 <= ram * (1000 - VMMemoryOverhead)
    BY <1>1
  <2>2. ram * (1000 - VMMemoryOverhead) = 1000 * ram - ram * VMMemoryOverhead
    BY <1>1
  <2>3. ram * VMMemoryOverhead \in Int
    BY <1>1
  <2> QED  BY <1>1, <2>1, <2>2, <2>3
<1>3. /\ lost \in Int /\ ram * VMMemoryOverhead <= 1000 * lost
      /\ 1000 * lost < ram * VMMemoryOverhead + 1000
  BY <1>2, RoundedUp
<1>4. Memory(machine) = ram - lost
  BY DEF Memory
<1>5. ram - lost \in Nat /\ 1000 * (ram - lost) <= ram * (1000 - VMMemoryOverhead)
  <2> HIDE DEF ram, lost
  <2> QED  BY <1>1, <1>2, <1>3
<1> QED  BY <1>4, <1>5

\* An eviction signal asks for an amount of memory, also in per cent.
LEMMA SignalAmount ==
  ASSUME NEW memory \in Int, NEW signal \in Signals
  PROVE  EvictionSignal(memory, signal) \in Int
<1>1. signal.value \in Int
  BY DEF Signals
<1>2. memory * signal.value \in Int
  BY <1>1
<1>3. \A n \in Int : CeilDiv(n, 100) \in Int
  BY DEF CeilDiv
<1> QED  BY <1>1, <1>2, <1>3 DEF EvictionSignal

\* The larger of one or two amounts is one of them (resources.MaxResources).
LEMMA LargerOfTwo ==
  ASSUME NEW a \in Int, NEW b \in Int, NEW S, S = {a, b}
  PROVE  Max(S) \in S /\ \A x \in S : x <= Max(S)
<1>1. \E x \in S : \A y \in S : x >= y
  <2>1. CASE a <= b
    <3>1. \A y \in S : b >= y
      BY <2>1
    <3> QED  BY <3>1
  <2>2. CASE b <= a
    <3>1. \A y \in S : a >= y
      BY <2>2
    <3> QED  BY <3>1
  <2> QED  BY <2>1, <2>2
<1>2. Max(S) \in S /\ \A y \in S : Max(S) >= y
  BY <1>1 DEF Max
<1> QED  BY <1>2

\* The threshold is an amount, and none of the signals asks for more (evictionThreshold).
LEMMA ThresholdAmount ==
  ASSUME NEW memory \in Int, NEW kubelet, IsKubelet(kubelet)
  PROVE  /\ EvictionThreshold(memory, kubelet) \in Int
         /\ \A eviction \in Evictions(memory, kubelet) :
              eviction \in Int /\ eviction <= EvictionThreshold(memory, kubelet)
<1> DEFINE hard == kubelet.evictionHard
           soft == kubelet.evictionSoft
           amount(signal) == EvictionSignal(memory, signal)
<1>1. (hard # None => amount(hard) \in Int) /\ (soft # None => amount(soft) \in Int)
  <2>1. hard \in Signals \cup {None} /\ soft \in Signals \cup {None}
    BY DEF IsKubelet
  <2> QED  BY <2>1, SignalAmount
<1>2. PICK a \in Int, b \in Int : Evictions(memory, kubelet) = {a, b}
  <2>1. CASE hard = None /\ soft = None
    <3>1. Evictions(memory, kubelet) = {100, 100}
      BY <2>1 DEF Evictions
    <3> QED  BY <3>1
  <2>2. CASE hard # None /\ soft = None
    <3>1. Evictions(memory, kubelet) = {amount(hard), amount(hard)}
      BY <2>2 DEF Evictions
    <3> QED  BY <1>1, <2>2, <3>1
  <2>3. CASE hard = None /\ soft # None
    <3>1. Evictions(memory, kubelet) = {amount(soft), amount(soft)}
      BY <2>3 DEF Evictions
    <3> QED  BY <1>1, <2>3, <3>1
  <2>4. CASE hard # None /\ soft # None
    <3>1. Evictions(memory, kubelet) = {amount(hard), amount(soft)}
      BY <2>4 DEF Evictions
    <3> QED  BY <1>1, <2>4, <3>1
  <2> QED  BY <2>1, <2>2, <2>3, <2>4
<1>3. /\ EvictionThreshold(memory, kubelet) \in Evictions(memory, kubelet)
      /\ \A eviction \in Evictions(memory, kubelet) : eviction <= EvictionThreshold(memory, kubelet)
  BY <1>2, LargerOfTwo DEF EvictionThreshold
<1> QED  BY <1>2, <1>3

----------------------------------------------------------------------------
(* What is held back.                                                      *)

\* Adding up the tiers gives 60, 70, 75 and 80 thousandths for the first four CPUs and two
\* and a half for each further one, rounded down (kubeReservedResources).
LEMMA TiersAddUp ==
  ASSUME NEW v \in Nat, v <= 2147483
  PROVE  TieredCPU(1000 * v) = ReservedCPU(v)
<1> DEFINE milli == 1000 * v
<1>1. /\ Tiers[1] = [start |-> 0, end |-> 1000, share |-> 600]
      /\ Tiers[2] = [start |-> 1000, end |-> 2000, share |-> 100]
      /\ Tiers[3] = [start |-> 2000, end |-> 4000, share |-> 50]
      /\ Tiers[4] = [start |-> 4000, end |-> 2147483647, share |-> 25]
  BY DEF Tiers
<1>2. InTier(milli, Tiers[1]) = IF v = 0 THEN 0 ELSE 60
  BY <1>1 DEF InTier, AtMost
<1>3. InTier(milli, Tiers[2]) = IF v <= 1 THEN 0 ELSE 10
  BY <1>1 DEF InTier, AtMost
<1>4. InTier(milli, Tiers[3]) = IF v <= 2 THEN 0 ELSE IF v = 3 THEN 5 ELSE 10
  BY <1>1 DEF InTier, AtMost
<1>5. InTier(milli, Tiers[4]) = IF v < 4 THEN 0 ELSE (5 * (v - 4)) \div 2
  <2>1. \A n \in Nat : (25000 * n) \div 10000 = (5 * n) \div 2
    OBVIOUS
  <2>2. InTier(milli, Tiers[4]) = IF v < 4 THEN 0 ELSE (25000 * (v - 4)) \div 10000
    BY <1>1 DEF InTier, AtMost
  <2> QED  BY <2>1, <2>2
<1>6. TieredCPU(milli) = InTier(milli, Tiers[1]) + InTier(milli, Tiers[2])
                           + InTier(milli, Tiers[3]) + InTier(milli, Tiers[4])
  BY DEF TieredCPU
<1> HIDE DEF milli
<1>7. CASE v < 4
  <2>1. TieredCPU(milli) = IF v = 0 THEN 0 ELSE IF v = 1 THEN 60 ELSE IF v = 2 THEN 70 ELSE 75
    BY <1>2, <1>3, <1>4, <1>5, <1>6, <1>7
  <2>2. ReservedCPU(v) = IF v = 0 THEN 0 ELSE IF v = 1 THEN 60 ELSE IF v = 2 THEN 70 ELSE 75
    BY <1>7 DEF ReservedCPU
  <2> QED  BY <2>1, <2>2 DEF milli
<1>8. CASE v >= 4
  <2>1. (5 * (v - 4)) \div 2 \in Nat
    BY <1>8
  <2>2. ReservedCPU(v) = 80 + (5 * (v - 4)) \div 2
    BY <1>8 DEF ReservedCPU
  <2>3. TieredCPU(milli) = 80 + (5 * (v - 4)) \div 2
    BY <1>2, <1>3, <1>4, <1>5, <1>6, <1>8, <2>1
  <2> QED  BY <2>2, <2>3 DEF milli
<1> QED  BY <1>7, <1>8

\* What is configured as reserved for the kubelet replaces the default.
Held(kubelet, r, default) ==
  IF r \in DOMAIN kubelet.kubeReserved THEN kubelet.kubeReserved[r] ELSE default

\* Of each resource, the kubelet's reservation is the configured one or the default.
LEMMA HeldForKubelet ==
  ASSUME NEW machine, NEW kubelet
  PROVE  /\ Amount(KubeReserved(machine, kubelet), "cpu") = Held(kubelet, "cpu", TieredCPU(Cpu(machine)))
         /\ Amount(KubeReserved(machine, kubelet), "memory")
              = Held(kubelet, "memory", 11 * Pods(machine, kubelet) + 255)
         /\ Amount(KubeReserved(machine, kubelet), "storage") = Held(kubelet, "storage", GiB)
         /\ Amount(KubeReserved(machine, kubelet), "pods") = Held(kubelet, "pods", 0)
BY DEF KubeReserved, Assign, Amount, Held

\* The number of pods is a number.
LEMMA PodsAmount ==
  ASSUME NEW machine, IsMachine(machine), NEW kubelet, IsKubelet(kubelet)
  PROVE  Pods(machine, kubelet) \in Nat
<1>1. /\ machine.vcpus \in Nat /\ kubelet.podsPerCore \in Nat
      /\ kubelet.maxPods = None \/ kubelet.maxPods \in Nat
  BY DEF IsMachine, IsKubelet
<1>2. kubelet.podsPerCore * machine.vcpus \in Nat
  BY <1>1
<1> QED  BY <1>1, <1>2 DEF Pods, AtMost

\* Tiers of the reservation are amounts.
LEMMA ReservedAmount ==
  ASSUME NEW v \in Nat
  PROVE  ReservedCPU(v) \in Nat
BY DEF ReservedCPU

\* What is left on a node for pods: its capacity without what is held back, resource by
\* resource (NewInstanceType, InstanceType.Allocatable).
THEOREM AllocatableAmount ==
  ASSUME NEW machine, IsMachine(machine), NEW bootVolumeGB \in Nat,
         NEW kubelet, IsKubelet(kubelet)
  PROVE  LET left == Allocatable(machine, bootVolumeGB, kubelet)
             system(r) == Amount(kubelet.systemReserved, r)
         IN  /\ left \in [Resources -> Int]
             /\ left["cpu"] + Held(kubelet, "cpu", ReservedCPU(machine.vcpus)) + system("cpu")
                  = 1000 * machine.vcpus
             /\ left["memory"] + Held(kubelet, "memory", 11 * Pods(machine, kubelet) + 255)
                  + system("memory") + EvictionThreshold(Memory(machine), kubelet) = Memory(machine)
             /\ left["storage"] + Held(kubelet, "storage", GiB) + system("storage") + 4 * GB
                  = AtLeast(bootVolumeGB, 5) * GB
<1> DEFINE left == Allocatable(machine, bootVolumeGB, kubelet)
           system(r) == Amount(kubelet.systemReserved, r)
           eviction == EvictionThreshold(Memory(machine), kubelet)
           cpu == Held(kubelet, "cpu", ReservedCPU(machine.vcpus))
           memory == Held(kubelet, "memory", 11 * Pods(machine, kubelet) + 255)
           storage == Held(kubelet, "storage", GiB)
           pods == Held(kubelet, "pods", 0)
<1>1. \A r \in Resources : system(r) \in Nat
  BY DEF IsKubelet, IsReservation, Amount
<1>2. cpu \in Nat /\ memory \in Nat /\ storage \in Nat /\ pods \in Nat
  <2>1. \A r : \A n \in Nat : Held(kubelet, r, n) \in Nat
    BY DEF IsKubelet, IsReservation, Held
  <2>2. ReservedCPU(machine.vcpus) \in Nat /\ 11 * Pods(machine, kubelet) + 255 \in Nat /\ GiB \in Nat
    BY PodsAmount, ReservedAmount DEF IsMachine, GiB
  <2> QED  BY <2>1, <2>2
<1>3. Memory(machine) \in Nat /\ eviction \in Int
  BY MemoryAmount, ThresholdAmount
<1>4. TieredCPU(Cpu(machine)) = ReservedCPU(machine.vcpus)
  BY TiersAddUp DEF IsMachine, Cpu
<1>5. /\ Overhead(machine, kubelet)["cpu"] = cpu + system("cpu")
      /\ Overhead(machine, kubelet)["memory"] = memory + system("memory") + eviction
      /\ Overhead(machine, kubelet)["storage"] = storage + system("storage")
      /\ Overhead(machine, kubelet)["pods"] = pods + system("pods")
  <2>1. \A x : /\ Amount([memory |-> x], "memory") = x /\ Amount([memory |-> x], "cpu") = 0
               /\ Amount([memory |-> x], "storage") = 0 /\ Amount([memory |-> x], "pods") = 0
    BY DEF Amount
  <2> QED  BY <1>1, <1>2, <1>3, <1>4, <2>1, HeldForKubelet DEF Overhead, Resources
<1>6. /\ Capacity(machine, bootVolumeGB, kubelet)["cpu"] = 1000 * machine.vcpus
      /\ Capacity(machine, bootVolumeGB, kubelet)["memory"] = Memory(machine)
      /\ Capacity(machine, bootVolumeGB, kubelet)["storage"] = EphemeralStorage(bootVolumeGB)
      /\ Capacity(machine, bootVolumeGB, kubelet)["pods"] = Pods(machine, kubelet)
  BY DEF Capacity, Cpu
<1>7. /\ EphemeralStorage(bootVolumeGB) \in Nat
      /\ EphemeralStorage(bootVolumeGB) + 4 * GB = AtLeast(bootVolumeGB, 5) * GB
  BY DEF EphemeralStorage, AtLeast, GB
<1>8. /\ left["cpu"] = 1000 * machine.vcpus - (cpu + system("cpu"))
      /\ left["memory"] = Memory(machine) - (memory + system("memory") + eviction)
      /\ left["storage"] = EphemeralStorage(bootVolumeGB) - (storage + system("storage"))
      /\ left["pods"] = Pods(machine, kubelet) - (pods + system("pods"))
      /\ left = [r \in Resources |-> left[r]]
  BY <1>5, <1>6 DEF Allocatable, Resources
<1>9. system("cpu") \in Nat /\ system("memory") \in Nat /\ system("storage") \in Nat /\ system("pods") \in Nat
  BY <1>1 DEF Resources
<1>10. 1000 * machine.vcpus \in Nat /\ Pods(machine, kubelet) \in Nat
  BY PodsAmount DEF IsMachine
<1> HIDE DEF left, system, eviction, cpu, memory, storage, pods
<1>11. left \in [Resources -> Int]
  BY <1>2, <1>3, <1>7, <1>8, <1>9, <1>10 DEF Resources
<1>12. /\ left["cpu"] + cpu + system("cpu") = 1000 * machine.vcpus
       /\ left["memory"] + memory + system("memory") + eviction = Memory(machine)
       /\ left["storage"] + storage + system("storage") + 4 * GB = AtLeast(bootVolumeGB, 5) * GB
  BY <1>2, <1>3, <1>7, <1>8, <1>9, <1>10 DEF GB
<1> QED  BY <1>11, <1>12 DEF left, system, eviction, cpu, memory, storage

=============================================================================
