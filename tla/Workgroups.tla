----------------------------- MODULE Workgroups ----------------------------
(***************************************************************************)
(* createWorkgroups of RoundRobinDistribution and of                       *)
(* GPUAffineRRDistribution, the latter with and without                    *)
(* WITH_NUMA_LOCAL_GROUPS: which ranks become GPU controllers, and which   *)
(* controller every other rank works with.  All ranks gather the same data *)
(* and compute the same result, so one computation stands for them all.    *)
(***************************************************************************)
EXTENDS Integers, Sequences, SequencesExt, FiniteSets

CONSTANTS P,            \* num_procs
          Placements,   \* where the ranks and the GPUs may be
          Distance(_, _)   \* numa_distance

Procs == 0 .. P - 1

\* What the tools say of a host, one line after the other: NUMA nodes, with the
\* number lstopo gives them and the one the operating system does, and PCI
\* devices.  A PCI id is a domain and the rest of the id.
PciIds == Nat \X Nat
Lines  == [kind : {"node"}, logical : Nat, os : Nat] \cup [kind : {"pci"}, id : PciIds]

\* Hosts are numbered by their first rank; numa[r] is the node of the CPU that rank
\* r runs on, -1 if unknown.  Ranks of one host may see other GPUs: "in
\* heterogeneous (CPU+GPU) runs the CPU-only ranks see zero GPUs".
ASSUME PlacementAssumption ==
    /\ P \in Nat \ {0}
    /\ \A p \in Placements :
          /\ p.host \in [Procs -> Nat] /\ p.numa \in [Procs -> Int]
          /\ \A r \in Procs : \A h \in 0 .. p.host[r] - 1 : \E q \in 0 .. r : p.host[q] = h
          /\ p.runtime \in {"cuda", "veda", "none"}
          /\ \A r \in Procs : p.visible[r] \in Seq(PciIds)
          /\ \A r \in Procs : p.lstopo[p.host[r]] \in Seq(Lines)
          /\ \A r \in Procs, q \in Procs : Distance(p.numa[r], p.numa[q]) \in Nat

VARIABLES placement,    \* a member of Placements
          strategy,     \* "round robin", "gpu affine" or "numa local"
          gpus,         \* the NUMA nodes of the GPUs that each rank has discovered
          stage,        \* where createWorkgroups is
          device,       \* my_gpu_device_ of each rank, -1 unless it is a controller
          gpu,          \* the next GPU to assign, as a position of AllGpus
          group,        \* color, or assigned_group while it is computed
          domains       \* the NUMA domains, host and node, still to be assigned

given     == << placement, strategy, gpus >>
groupVars == << given, stage, device, gpu, group, domains >>

Least(S) == CHOOSE r \in S : \A q \in S : r <= q

HostRanks(h) == {r \in Procs : placement.host[r] = h}
\* The NUMA domain of a rank.
DomainOf(r) == << placement.host[r], placement.numa[r] >>

Hosts == {placement.host[r] : r \in Procs}

Controllers == {r \in Procs : device[r] >= 0}
Devices     == Cardinality(Controllers)      \* num_devices_total_

\* work_type_rank: the position among the controllers or among the others.
TypeRank(r) == Cardinality({q \in 0 .. r - 1 : q \in Controllers <=> r \in Controllers})

Members(g) == {r \in Procs : group[r] = g}

GroupInit ==
    /\ placement \in Placements
    /\ strategy \in {"round robin", "gpu affine", "numa local"}
    /\ gpus = [r \in Procs |-> << >>]
    /\ stage = "discover"
    /\ device = [r \in Procs |-> -1]
    /\ gpu = 1
    /\ group = [r \in Procs |-> -1]
    /\ domains = {}

-----------------------------------------------------------------------------
(***************************************************************************)
(* The GPUs of a rank                                                      *)
(***************************************************************************)
\* Without a library of CUDA or VEDA there is no device.
DeviceCount(r) == IF placement.runtime = "none" THEN 0 ELSE Len(placement.visible[r])

\* The device is looked for by its PCI id without the domain, and its node is the
\* nearest one above it; -1 if either is missing.
NodeAbove(lines, id) ==
    LET found == SelectInSeq(lines, LAMBDA l : l.kind = "pci" /\ l.id[2] = id[2])
        above == SelectLastInSubSeq(lines, 1, found, LAMBDA l : l.kind = "node")
    IN  IF above = 0 THEN -1 ELSE lines[above].logical

\* All ranks look for the NUMA nodes of their GPUs, in the order of CUDA; VEDA
\* devices are "currently not implemented".  The round robin only counts.
DiscoverGPUs ==
    /\ stage = "discover"
    /\ gpus' = [r \in Procs |->
          IF strategy # "round robin" /\ placement.runtime = "cuda"
          THEN [i \in 1 .. DeviceCount(r) |->
                  NodeAbove(placement.lstopo[placement.host[r]], placement.visible[r][i])]
          ELSE << >>]
    /\ stage' = "controllers"
    /\ UNCHANGED << placement, strategy, device, gpu, group, domains >>

-----------------------------------------------------------------------------
(***************************************************************************)
(* GPU controllers                                                         *)
(***************************************************************************)
\* RoundRobinDistribution: the first ranks of a host, one for each device.
NodeControllers ==
    /\ stage = "controllers" /\ strategy = "round robin"
    /\ device' = [r \in Procs |->
          LET nodeRank == Cardinality({q \in HostRanks(placement.host[r]) : q < r})
          IN  IF nodeRank < DeviceCount(r) THEN nodeRank ELSE -1]
    /\ stage' = "color"
    /\ UNCHANGED << given, gpu, group, domains >>

\* Host h has the GPUs that the first of its ranks sees that sees any.
GpusOf(h) ==
    LET seeing == {r \in HostRanks(h) : gpus[r] # << >>}
    IN  IF seeing = {} THEN << >> ELSE gpus[Least(seeing)]

\* The GPUs of all hosts in order: host, index and NUMA node.
AllGpus ==
    LET OfHost(h) == [i \in 1 .. Len(GpusOf(h)) |->
                        [host |-> h, index |-> i - 1, numa |-> GpusOf(h)[i]]]
    IN  FlattenSeq([h \in 1 .. Cardinality(Hosts) |-> OfHost(h - 1)])

\* Mutated form of AffineController: a rank of the GPU's NUMA node is taken
\* although it already is a controller.
AffineController_Taken ==
    /\ stage = "controllers" /\ strategy # "round robin"
    /\ gpu <= Len(AllGpus)
    /\ LET g     == AllGpus[gpu]
           free  == HostRanks(g.host) \ Controllers
           local == {r \in HostRanks(g.host) : g.numa >= 0 /\ placement.numa[r] = g.numa}
       IN  device' = IF local # {} THEN [device EXCEPT ![Least(local)] = g.index]
                     ELSE IF free # {} THEN [device EXCEPT ![Least(free)] = g.index]
                     ELSE device
    /\ gpu' = gpu + 1
    /\ UNCHANGED << given, stage, group, domains >>

\* GPUAffineRRDistribution: the lowest free rank of the GPU's NUMA node, or else
\* of its host, becomes the controller of the GPU.
AffineController ==
    /\ stage = "controllers" /\ strategy # "round robin"
    /\ gpu <= Len(AllGpus)
    /\ LET g     == AllGpus[gpu]
           free  == HostRanks(g.host) \ Controllers
           local == {r \in free : g.numa >= 0 /\ placement.numa[r] = g.numa}
       IN  device' = IF local # {} THEN [device EXCEPT ![Least(local)] = g.index]
                     ELSE IF free # {} THEN [device EXCEPT ![Least(free)] = g.index]
                     ELSE device
    /\ gpu' = gpu + 1
    /\ UNCHANGED << given, stage, group, domains >>

AffineDone ==
    /\ stage = "controllers" /\ strategy # "round robin"
    /\ gpu > Len(AllGpus)
    /\ stage' = "color"
    /\ UNCHANGED << given, device, gpu, group, domains >>

-----------------------------------------------------------------------------
(***************************************************************************)
(* Groups                                                                  *)
(***************************************************************************)
\* Without devices the group is the whole application.
NoDevices ==
    /\ stage = "color" /\ Devices = 0
    /\ stage' = "done"
    /\ UNCHANGED << given, device, gpu, group, domains >>

\* Controllers and workers are dealt to the groups in turn.
RoundRobinColor ==
    /\ stage = "color" /\ Devices > 0 /\ strategy # "numa local"
    /\ group' = [r \in Procs |-> TypeRank(r) % Devices]
    /\ stage' = "done"
    /\ UNCHANGED << given, device, gpu, domains >>

\* Every controller is in its own group before the domains are assigned.
OwnGroups ==
    /\ stage = "color" /\ Devices > 0 /\ strategy = "numa local"
    /\ group' = [r \in Procs |-> IF r \in Controllers THEN TypeRank(r) ELSE -1]
    /\ domains' = {DomainOf(r) : r \in Procs}
    /\ stage' = "home"
    /\ UNCHANGED << given, device, gpu >>

\* The first of domains in the order of std::map.
Current == CHOOSE d \in domains : \A e \in domains \ {d} :
              d[1] < e[1] \/ (d[1] = e[1] /\ d[2] < e[2])

Unassigned(d) == {r \in Procs : DomainOf(r) = d /\ group[r] = -1}

\* The controller of group g.
ControllerOf(g) == CHOOSE r \in Controllers : TypeRank(r) = g

\* Mutated form of Capacity: the first group takes all ranks that are left over.
Capacity_First(g) == P \div Devices + (IF g = 0 THEN P % Devices ELSE 0)

Capacity(g) == P \div Devices + (IF g < P % Devices THEN 1 ELSE 0)
Room(g)     == Capacity(g) - Cardinality(Members(g))

\* The room lowest ranks of ranks join group g.
Assign(ranks, g) ==
    LET chosen == {r \in ranks : Cardinality({q \in ranks : q < r}) < Room(g)}
    IN  group' = [r \in Procs |-> IF r \in chosen THEN g ELSE group[r]]

\* The domain of a controller goes to its group, as far as there is room; of two
\* controllers in a domain the later one counts.
HomeDomain ==
    /\ stage = "home"
    /\ LET home == {g \in 0 .. Devices - 1 : DomainOf(ControllerOf(g)) = Current}
       IN  IF home = {} THEN UNCHANGED group
           ELSE Assign(Unassigned(Current), CHOOSE g \in home : \A f \in home : f <= g)
    /\ stage' = "best"
    /\ UNCHANGED << given, device, gpu, domains >>

\* How far group g is from domain d: the NUMA distance, or a large number across
\* hosts; ties go to the group of the same pair of NUMA nodes, then to the one
\* with fewer members, then to the first.
CrossHost == 1000000

Badness(g, d) ==
    LET c     == ControllerOf(g)
        near  == /\ placement.host[c] = d[1]
                 /\ placement.numa[c] >= 0 /\ d[2] >= 0
        slit  == Distance(d[2], placement.numa[c])
    IN  << IF near /\ slit > 0 THEN slit ELSE CrossHost,
           IF near /\ d[2] \div 2 = placement.numa[c] \div 2 THEN 0 ELSE 1,
           Cardinality(Members(g)),
           g >>

Before(a, b) == \E i \in 1 .. 4 : a[i] < b[i] /\ \A j \in 1 .. i - 1 : a[j] = b[j]

\* The rest of the domain goes to the best group with room, as far as it has any.
\* If no group had room, the fallback group would take nobody and the loop would
\* go on for ever.
BestGroup ==
    /\ stage = "best" /\ Unassigned(Current) # {}
    /\ LET open == {g \in 0 .. Devices - 1 : Room(g) > 0}
           best == CHOOSE g \in open : \A f \in open \ {g} :
                      Before(Badness(g, Current), Badness(f, Current))
       IN  IF open = {} THEN UNCHANGED group ELSE Assign(Unassigned(Current), best)
    /\ UNCHANGED << given, stage, device, gpu, domains >>

NextDomain ==
    /\ stage = "best" /\ Unassigned(Current) = {}
    /\ domains' = domains \ {Current}
    /\ stage' = IF domains' # {} THEN "home" ELSE "done"
    /\ UNCHANGED << given, device, gpu, group >>

CreateWorkgroups ==
    \/ DiscoverGPUs
    \/ NodeControllers \/ AffineController \/ AffineDone
    \/ NoDevices \/ RoundRobinColor \/ OwnGroups
    \/ HomeDomain \/ BestGroup \/ NextDomain

-----------------------------------------------------------------------------
\* Mutated form of Order: the rank decides, for controllers, too.
Order_Rank(r) == r

\* MPI_Comm_split sorts the ranks of a color by this key and then by rank.
Order(r) == IF r \in Controllers THEN 0 ELSE r + Devices

WorkgroupRank(r) ==
    Cardinality({q \in Members(group[r]) :
                    Order(q) < Order(r) \/ (Order(q) = Order(r) /\ q < r)})

\* "making sure the gpu master is rank 0": every rank is in a group with one
\* controller, which is rank 0 of it.
OneControllerFirst ==
    stage = "done" /\ Devices > 0 =>
        \A r \in Procs : \E c \in Members(group[r]) \cap Controllers :
            WorkgroupRank(c) = 0 /\ Members(group[r]) \cap Controllers = {c}

\* All ranks of host h see the same GPUs.
Alike(h) == \A r \in HostRanks(h), q \in HostRanks(h) : placement.visible[r] = placement.visible[q]

\* The node that lists the device, as the operating system numbers it.
NodeOf(lines, id) ==
    LET above == SelectLastInSubSeq(lines, 1,
                    SelectInSeq(lines, LAMBDA l : l.kind = "pci" /\ l.id = id),
                    LAMBDA l : l.kind = "node")
    IN  IF above = 0 THEN -1 ELSE lines[above].os

\* The two numberings of nodes agree, and so do no two devices but for the domain.
Unambiguous(lines) ==
    \A i \in DOMAIN lines :
        IF lines[i].kind = "node" THEN lines[i].logical = lines[i].os
        ELSE \A j \in DOMAIN lines \ {i} :
                lines[j].kind = "pci" => lines[i].id[2] # lines[j].id[2]

\* The GPUs of host h are listed, and their nodes have a rank for each of them.
RanksAtGpus(h) ==
    LET ids == placement.visible[Least(HostRanks(h))]
        On(n) == {i \in DOMAIN ids : NodeOf(placement.lstopo[h], ids[i]) = n}
    IN  \A i \in DOMAIN ids :
            LET n == NodeOf(placement.lstopo[h], ids[i])
            IN  n >= 0 /\ Cardinality(On(n)) <= Cardinality({r \in HostRanks(h) : placement.numa[r] = n})

Serving(h) == Controllers \cap HostRanks(h)

\* No GPU is shared by two controllers, and none is idle that a rank of its host
\* could control, as far as the strategy knows of it.
EachGpuOnce(h) ==
    LET known == IF strategy = "round robin" THEN DeviceCount(Least(HostRanks(h))) ELSE Len(GpusOf(h))
        ranks == Cardinality(HostRanks(h))
    IN  /\ \A r \in Serving(h), q \in Serving(h) : r # q => device[r] # device[q]
        /\ strategy # "round robin" \/ Alike(h) =>
              Cardinality(Serving(h)) = IF known < ranks THEN known ELSE ranks

\* "Assign GPU controllers: lowest rank per NUMA node where a GPU lives": where
\* there are ranks for them, GPUs are controlled from their own node.
ServedLocally(h) ==
    /\ strategy # "round robin" /\ placement.runtime = "cuda"
    /\ Alike(h) /\ Unambiguous(placement.lstopo[h]) /\ RanksAtGpus(h)
    => \A r \in Serving(h) :
          placement.numa[r] = NodeOf(placement.lstopo[h], placement.visible[r][device[r] + 1])

\* On every host the GPUs have the controllers they should have.
GpusServed == stage = "done" => \A h \in Hosts : EachGpuOnce(h) /\ ServedLocally(h)

\* No controller serves two ranks more than another, however the ranks and the
\* GPUs are spread over hosts and NUMA nodes.
GroupsBalanced ==
    stage = "done" /\ Devices > 0 =>
        \A f \in 0 .. Devices - 1, g \in 0 .. Devices - 1 :
            Cardinality(Members(f)) <= Cardinality(Members(g)) + 1
=============================================================================
