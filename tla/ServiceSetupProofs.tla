------------------------- MODULE ServiceSetupProofs -------------------------
(***************************************************************************)
(* What the constructor of AIxeleratorService<T> establishes, for every    *)
(* number of ranks, every placement and every batch: the groups have one   *)
(* controller each and are of one size, the hybrid work is split evenly,   *)
(* the segments of the ranks tile the controller's buffer, and the         *)
(* strategies that inference() runs are initialised; every GPU has one     *)
(* controller, if there is a rank for it, and from its own node.           *)
(***************************************************************************)
EXTENDS ServiceSetup, FiniteNaturals

Making == stage \in {"discover", "controllers", "color", "home", "best", "done"}

\* While createWorkgroups looks for a group for every rank, the controllers have
\* theirs, and the ranks without one are in a domain still to come.
Forming ==
    stage \in {"home", "best"} =>
        /\ Devices > 0
        /\ group \in [Procs -> -1 .. Devices - 1]
        /\ \A c \in Controllers : group[c] = TypeRank(c)
        /\ \A r \in Procs : group[r] = -1 => DomainOf(r) \in domains

\* In the end all ranks have a group.
Formed ==
    stage = "done" /\ Devices > 0 =>
        /\ group \in [Procs -> 0 .. Devices - 1]
        /\ \A c \in Controllers : group[c] = TypeRank(c)

GroupsInv ==
    /\ stage \in {"discover", "controllers", "color", "home", "best", "done",
                  "enter", "split", "ready", "died"}
    /\ Making => placement \in Placements
    /\ Forming
    /\ Formed

-----------------------------------------------------------------------------
\* Controllers are numbered from 0 to Devices - 1.
LEMMA ControllersAreNumbered ==
    /\ P \in Nat /\ P > 0
    /\ Devices \in Nat
    /\ \A r \in Procs : TypeRank(r) \in Nat
    /\ \A c \in Controllers : TypeRank(c) \in 0 .. Devices - 1
    /\ \A c \in Controllers, d \in Controllers : TypeRank(c) = TypeRank(d) => c = d
    /\ \A g \in 0 .. Devices - 1 : \E c \in Controllers : TypeRank(c) = g
<1>1. P \in Nat /\ P > 0
    BY PlacementAssumption
<1>2. IsFiniteSet(Procs) /\ Controllers \subseteq Procs /\ Procs \subseteq Nat
    BY <1>1, FS_Interval DEF Procs, Controllers
<1>3. Controllers \in SUBSET Nat /\ IsFiniteSet(Controllers) /\ Devices \in Nat
    BY <1>2, FS_Subset, FS_CardinalityType DEF Devices
<1>4. ASSUME NEW c \in Controllers PROVE TypeRank(c) = Position(Controllers, c)
  <2>1. c \in Nat /\ \A q \in Controllers : q \in Nat
      BY <1>3
  <2>2. \A q : q \in 0 .. c - 1 <=> q \in Nat /\ q < c
      BY <2>1
  <2>3. {q \in 0 .. c - 1 : q \in Controllers <=> c \in Controllers} = {q \in Controllers : q < c}
      BY <2>1, <2>2
  <2>4. QED
      BY <2>3 DEF TypeRank, Position
<1>5. \A c \in Controllers : TypeRank(c) \in Nat /\ TypeRank(c) < Devices
    BY <1>3, <1>4, PositionFacts DEF Devices
<1>6. ASSUME NEW c \in Controllers, NEW d \in Controllers, TypeRank(c) = TypeRank(d)
      PROVE  c = d
  <2>1. c \in Nat /\ d \in Nat
      BY <1>3
  <2>2. c < d => Position(Controllers, c) < Position(Controllers, d)
      BY <1>3, <2>1, PositionFacts
  <2>3. d < c => Position(Controllers, d) < Position(Controllers, c)
      BY <1>3, <2>1, PositionFacts
  <2>4. Position(Controllers, c) = Position(Controllers, d) /\ Position(Controllers, c) \in Nat
      BY <1>4, <1>5, <1>6
  <2>5. ~(c < d) /\ ~(d < c)
      BY <2>2, <2>3, <2>4
  <2>6. QED
      BY <2>1, <2>5
<1>7. ASSUME NEW g \in 0 .. Devices - 1 PROVE \E c \in Controllers : TypeRank(c) = g
  <2>1. g \in Nat /\ g < Cardinality(Controllers)
      BY <1>3 DEF Devices
  <2>2. PICK c \in Controllers : Position(Controllers, c) = g
      BY <1>3, <2>1, PositionTaken
  <2>3. QED
      BY <1>4, <2>2
<1>8. ASSUME NEW r \in Procs PROVE TypeRank(r) \in Nat
  <2>1. r \in Nat
      BY <1>2
  <2>2. IsFiniteSet(0 .. r - 1)
      BY <2>1, FS_Interval
  <2>3. IsFiniteSet({q \in 0 .. r - 1 : q \in Controllers <=> r \in Controllers})
      BY <2>2, FS_Subset
  <2>4. QED
      BY <2>3, FS_CardinalityType DEF TypeRank
<1>9. QED
    BY <1>1, <1>3, <1>5, <1>6, <1>7, <1>8

\* Of finitely many groups with marks that end in their own number, one is
\* better than all others.
LEMMA BestExists ==
    ASSUME NEW S \in SUBSET Nat, S # {}, NEW mark,
           \A g \in S : \A k \in 1 .. 4 : mark[g][k] \in Nat,
           \A g \in S : mark[g][4] = g
    PROVE  \E g \in S : \A f \in S \ {g} : Before(mark[g], mark[f])
<1>0. ASSUME NEW R \in SUBSET S, R # {}, NEW k \in 1 .. 4
      PROVE  \E g \in R : \A f \in R : mark[g][k] <= mark[f][k]
  <2> DEFINE M == {mark[g][k] : g \in R}
  <2>1. \A g \in R : mark[g][k] \in Nat /\ mark[g][k] \in M
      OBVIOUS
  <2>2. M \in SUBSET Nat /\ M # {}
      BY <1>0, <2>1
  <2>3. PICK m \in M : \A y \in M : m <= y
      BY <2>2, LeastElement
  <2>4. PICK g \in R : m = mark[g][k]
      BY <2>3
  <2>5. QED
      BY <2>1, <2>3, <2>4
<1>1. PICK a \in S : \A f \in S : mark[a][1] <= mark[f][1]
  <2>1. S \in SUBSET S /\ S # {} /\ 1 \in 1 .. 4
      OBVIOUS
  <2>2. QED
      BY <1>0, <2>1
<1> DEFINE R1 == {f \in S : mark[f][1] = mark[a][1]}
<1>2. PICK b \in R1 : \A f \in R1 : mark[b][2] <= mark[f][2]
  <2>1. R1 \in SUBSET S /\ a \in R1 /\ 2 \in 1 .. 4
      OBVIOUS
  <2>2. QED
      BY <1>0, <2>1
<1> DEFINE R2 == {f \in R1 : mark[f][2] = mark[b][2]}
<1>3. PICK c \in R2 : \A f \in R2 : mark[c][3] <= mark[f][3]
  <2>1. R2 \in SUBSET S /\ b \in R2 /\ 3 \in 1 .. 4
      OBVIOUS
  <2>2. QED
      BY <1>0, <2>1
<1> DEFINE R3 == {f \in R2 : mark[f][3] = mark[c][3]}
<1>4. PICK d \in R3 : \A f \in R3 : mark[d][4] <= mark[f][4]
  <2>1. R3 \in SUBSET S /\ c \in R3 /\ 4 \in 1 .. 4
      OBVIOUS
  <2>2. QED
      BY <1>0, <2>1
<1>5. d \in S /\ mark[d][1] = mark[a][1] /\ mark[d][2] = mark[b][2] /\ mark[d][3] = mark[c][3]
    OBVIOUS
<1>6. ASSUME NEW f \in S \ {d} PROVE Before(mark[d], mark[f])
  <2>1. \A k \in 1 .. 4 : mark[d][k] \in Nat /\ mark[f][k] \in Nat
      BY <1>5
  <2>2. mark[d][4] # mark[f][4]
      BY <1>5
  <2>3. CASE f \notin R1
    <3>1. mark[d][1] < mark[f][1]
        BY <1>1, <1>5, <2>1, <2>3
    <3>2. QED
        BY <3>1 DEF Before
  <2>4. CASE f \in R1 /\ f \notin R2
    <3>1. mark[d][1] = mark[f][1] /\ mark[d][2] < mark[f][2]
        BY <1>2, <1>5, <2>1, <2>4
    <3>2. \A j \in 1 .. 2 - 1 : mark[d][j] = mark[f][j]
        BY <3>1
    <3>3. QED
        BY <3>1, <3>2 DEF Before
  <2>5. CASE f \in R2 /\ f \notin R3
    <3>1. mark[d][1] = mark[f][1] /\ mark[d][2] = mark[f][2] /\ mark[d][3] < mark[f][3]
        BY <1>3, <1>5, <2>1, <2>5
    <3>2. \A j \in 1 .. 3 - 1 : mark[d][j] = mark[f][j]
        BY <3>1
    <3>3. QED
        BY <3>1, <3>2 DEF Before
  <2>6. CASE f \in R3
    <3>1. /\ mark[d][1] = mark[f][1] /\ mark[d][2] = mark[f][2] /\ mark[d][3] = mark[f][3]
          /\ mark[d][4] < mark[f][4]
        BY <1>4, <1>5, <2>1, <2>2, <2>6
    <3>2. \A j \in 1 .. 4 - 1 : mark[d][j] = mark[f][j]
        BY <3>1
    <3>3. QED
        BY <3>1, <3>2 DEF Before
  <2>7. QED
      BY <2>3, <2>4, <2>5, <2>6
<1>7. QED
    BY <1>5, <1>6

\* BestGroup finds its group: a group with room is never worse than itself, and
\* no two are equally good.
LEMMA BestIsOpen ==
    ASSUME placement \in Placements, Unassigned(Current) # {},
           NEW open \in SUBSET (0 .. Devices - 1), open # {}
    PROVE  \E g \in open : \A f \in open \ {g} : Before(Badness(g, Current), Badness(f, Current))
<1> DEFINE mark == [g \in open |-> Badness(g, Current)]
<1>1. PICK r \in Procs : Current = << placement.host[r], placement.numa[r] >>
    BY DEF Unassigned, DomainOf
<1>2. /\ open \in SUBSET Nat /\ Devices \in Nat
      /\ \A g \in open : \E c \in Controllers : TypeRank(c) = g
  <2>1. Devices \in Nat
      BY ControllersAreNumbered
  <2>2. QED
      BY <2>1, ControllersAreNumbered
<1>3. IsFiniteSet(Procs)
    BY PlacementAssumption, FS_Interval DEF Procs
<1>4. ASSUME NEW g \in open
      PROVE  /\ Badness(g, Current)[1] \in Nat /\ Badness(g, Current)[2] \in Nat
             /\ Badness(g, Current)[3] \in Nat /\ Badness(g, Current)[4] = g
  <2>1. ControllerOf(g) \in Procs
      BY <1>2 DEF ControllerOf, Controllers
  <2>2. Distance(placement.numa[r], placement.numa[ControllerOf(g)]) \in Nat
      BY <2>1, PlacementAssumption
  <2>3. Distance(Current[2], placement.numa[ControllerOf(g)]) \in Nat
      BY <1>1, <2>2
  <2>4. Cardinality(Members(g)) \in Nat
      BY <1>3, FS_Subset, FS_CardinalityType DEF Members
  <2>5. Badness(g, Current)[1] \in Nat
      BY <2>3 DEF Badness, CrossHost
  <2>6. QED
      BY <2>4, <2>5 DEF Badness
<1>5. \A g \in open : mark[g][4] = g
    BY <1>4
<1>6. ASSUME NEW g \in open, NEW k \in 1 .. 4 PROVE mark[g][k] \in Nat
  <2>1. k = 1 \/ k = 2 \/ k = 3 \/ k = 4
      OBVIOUS
  <2>2. mark[g] = Badness(g, Current) /\ g \in Nat
      BY <1>2
  <2>3. QED
      BY <1>4, <2>1, <2>2
<1> HIDE DEF mark
<1>7. PICK g \in open : \A f \in open \ {g} : Before(mark[g], mark[f])
    BY <1>2, <1>5, <1>6, BestExists
<1>8. QED
    BY <1>7 DEF mark

\* Putting ranks without a group into one keeps the rest as it is.
LEMMA AssignKeeps ==
    ASSUME Forming, stage \in {"home", "best"}, stage' \in {"home", "best"},
           NEW g \in 0 .. Devices - 1, NEW d, Assign(Unassigned(d), g),
           UNCHANGED << placement, device, domains >>
    PROVE  Forming'
<1>1. /\ Devices > 0 /\ Devices \in Nat
      /\ group \in [Procs -> -1 .. Devices - 1]
      /\ \A c \in Controllers : group[c] = TypeRank(c) /\ TypeRank(c) \in Nat
      /\ \A r \in Procs : group[r] = -1 => DomainOf(r) \in domains
    BY ControllersAreNumbered DEF Forming, Controllers
<1>2. /\ Controllers' = Controllers /\ Devices' = Devices
      /\ \A r : TypeRank(r)' = TypeRank(r) /\ DomainOf(r)' = DomainOf(r)
    BY DEF Controllers, Devices, TypeRank, DomainOf
<1>3. PICK chosen \in SUBSET Unassigned(d) : group' = [r \in Procs |-> IF r \in chosen THEN g ELSE group[r]]
    BY DEF Assign
<1>4. \A r \in chosen : r \in Procs /\ group[r] = -1
    BY <1>3 DEF Unassigned
<1>5. group' \in [Procs -> -1 .. Devices - 1]
  <2>1. \A r \in Procs : (IF r \in chosen THEN g ELSE group[r]) \in -1 .. Devices - 1
      BY <1>1
  <2>2. QED
      BY <1>3, <2>1
<1>6. ASSUME NEW c \in Controllers PROVE group'[c] = TypeRank(c)
  <2>1. c \notin chosen /\ c \in Procs
      BY <1>1, <1>4 DEF Controllers
  <2>2. QED
      BY <1>1, <1>3, <2>1
<1>7. ASSUME NEW r \in Procs, group'[r] = -1 PROVE DomainOf(r) \in domains
  <2>1. r \notin chosen
      BY <1>1, <1>3, <1>7
  <2>2. QED
      BY <1>1, <1>3, <1>7, <2>1
<1>8. QED
    BY <1>1, <1>2, <1>5, <1>6, <1>7 DEF Forming

-----------------------------------------------------------------------------
\* A step of the distribution keeps the invariant of the groups.
LEMMA GroupsKept ==
    ASSUME GroupsInv, CreateWorkgroups
    PROVE  GroupsInv'
<1> USE DEF GroupsInv, Making
<1>1. ASSUME DiscoverGPUs PROVE GroupsInv'
    BY <1>1 DEF DiscoverGPUs, Forming, Formed
<1>2. ASSUME NodeControllers PROVE GroupsInv'
    BY <1>2 DEF NodeControllers, given, Forming, Formed
<1>3. ASSUME AffineController PROVE GroupsInv'
    BY <1>3 DEF AffineController, given, Forming, Formed
<1>4. ASSUME AffineDone PROVE GroupsInv'
    BY <1>4 DEF AffineDone, given, Forming, Formed
<1>5. ASSUME NoDevices PROVE GroupsInv'
  <2>1. stage' = "done" /\ placement' \in Placements
      BY <1>5 DEF NoDevices, given
  <2>2. Devices' = 0
      BY <1>5 DEF NoDevices, Devices, Controllers
  <2>3. QED
      BY <2>1, <2>2 DEF Forming, Formed
<1>6. ASSUME RoundRobinColor PROVE GroupsInv'
  <2>1. stage' = "done" /\ placement' \in Placements
      BY <1>6 DEF RoundRobinColor, given
  <2>2. /\ Controllers' = Controllers /\ Devices' = Devices
        /\ \A r : TypeRank(r)' = TypeRank(r)
        /\ Devices > 0 /\ Devices \in Nat
      BY <1>6, ControllersAreNumbered DEF RoundRobinColor, Controllers, Devices, TypeRank
  <2>3. group' = [r \in Procs |-> TypeRank(r) % Devices]
      BY <1>6 DEF RoundRobinColor
  <2>4. \A r \in Procs : TypeRank(r) % Devices \in 0 .. Devices - 1
      BY <2>2, ControllersAreNumbered
  <2>5. ASSUME NEW c \in Controllers PROVE group'[c] = TypeRank(c)
    <3>1. TypeRank(c) \in 0 .. Devices - 1 /\ c \in Procs
        BY ControllersAreNumbered DEF Controllers
    <3>2. TypeRank(c) % Devices = TypeRank(c)
        BY <2>2, <3>1
    <3>3. QED
        BY <2>3, <3>1, <3>2
  <2>6. QED
      BY <2>1, <2>2, <2>3, <2>4, <2>5 DEF Forming, Formed
<1>7. ASSUME OwnGroups PROVE GroupsInv'
  <2>1. stage' = "home" /\ placement' \in Placements
      BY <1>7 DEF OwnGroups, given
  <2>2. /\ Controllers' = Controllers /\ Devices' = Devices
        /\ \A r : TypeRank(r)' = TypeRank(r) /\ DomainOf(r)' = DomainOf(r)
        /\ Devices > 0 /\ Devices \in Nat
      BY <1>7, ControllersAreNumbered DEF OwnGroups, given, Controllers, Devices, TypeRank, DomainOf
  <2>3. /\ group' = [r \in Procs |-> IF r \in Controllers THEN TypeRank(r) ELSE -1]
        /\ domains' = {DomainOf(r) : r \in Procs}
      BY <1>7 DEF OwnGroups
  <2>4. \A r \in Procs : (IF r \in Controllers THEN TypeRank(r) ELSE -1) \in -1 .. Devices - 1
      BY <2>2, ControllersAreNumbered
  <2>5. \A c \in Controllers : group'[c] = TypeRank(c)
      BY <2>3 DEF Controllers
  <2>6. QED
      BY <2>1, <2>2, <2>3, <2>4, <2>5 DEF Forming, Formed
<1>8. ASSUME HomeDomain PROVE GroupsInv'
  <2> DEFINE home == {g \in 0 .. Devices - 1 : DomainOf(ControllerOf(g)) = Current}
  <2>1. /\ stage = "home" /\ stage' = "best" /\ placement' \in Placements
        /\ UNCHANGED << placement, device, domains >>
      BY <1>8 DEF HomeDomain, given
  <2>2. CASE home = {}
    <3>1. UNCHANGED group
        BY <1>8, <2>2 DEF HomeDomain
    <3>2. Forming'
        BY <2>1, <3>1 DEF Forming, Devices, Controllers, TypeRank, DomainOf
    <3>3. QED
        BY <2>1, <3>2 DEF Formed
  <2>3. CASE home # {}
    <3>1. home \in SUBSET Nat /\ IsFiniteSet(home)
      <4>1. Devices \in Nat
          BY ControllersAreNumbered
      <4>2. IsFiniteSet(0 .. Devices - 1)
          BY <4>1, FS_Interval
      <4>3. QED
          BY <4>1, <4>2, FS_Subset
    <3>2. \E g \in home : \A f \in home : f <= g
        BY <2>3, <3>1, GreatestElement
    <3>3. PICK g \in 0 .. Devices - 1 : Assign(Unassigned(Current), g)
        BY <1>8, <2>3, <3>2 DEF HomeDomain
    <3>4. Forming'
        BY <2>1, <3>3, AssignKeeps
    <3>5. QED
        BY <2>1, <3>4 DEF Formed
  <2>4. QED
      BY <2>2, <2>3
<1>9. ASSUME BestGroup PROVE GroupsInv'
  <2> DEFINE open == {g \in 0 .. Devices - 1 : Room(g) > 0}
  <2>1. /\ stage = "best" /\ stage' = "best" /\ placement' \in Placements
        /\ UNCHANGED << placement, device, domains >>
      BY <1>9 DEF BestGroup, given
  <2>2. CASE open = {}
    <3>1. UNCHANGED group
        BY <1>9, <2>2 DEF BestGroup
    <3>2. Forming'
        BY <2>1, <3>1 DEF Forming, Devices, Controllers, TypeRank, DomainOf
    <3>3. QED
        BY <2>1, <3>2 DEF Formed
  <2>3. CASE open # {}
    <3>1. placement \in Placements /\ Unassigned(Current) # {}
        BY <1>9 DEF BestGroup
    <3>2. \E g \in open : \A f \in open \ {g} : Before(Badness(g, Current), Badness(f, Current))
        BY <2>3, <3>1, BestIsOpen
    <3>3. PICK g \in 0 .. Devices - 1 : Assign(Unassigned(Current), g)
        BY <1>9, <2>3, <3>2 DEF BestGroup
    <3>4. Forming'
        BY <2>1, <3>3, AssignKeeps
    <3>5. QED
        BY <2>1, <3>4 DEF Formed
  <2>4. QED
      BY <2>2, <2>3
<1>10. ASSUME NextDomain PROVE GroupsInv'
  <2>1. /\ stage = "best" /\ Unassigned(Current) = {}
        /\ domains' = domains \ {Current}
        /\ stage' = IF domains' # {} THEN "home" ELSE "done"
        /\ placement' \in Placements
        /\ UNCHANGED << placement, device, group >>
      BY <1>10 DEF NextDomain, given
  <2>2. /\ Controllers' = Controllers /\ Devices' = Devices
        /\ \A r : TypeRank(r)' = TypeRank(r) /\ DomainOf(r)' = DomainOf(r)
        /\ Devices > 0 /\ Devices \in Nat
        /\ group \in [Procs -> -1 .. Devices - 1]
        /\ \A c \in Controllers : group[c] = TypeRank(c)
      BY <2>1, ControllersAreNumbered DEF Forming, Controllers, Devices, TypeRank, DomainOf
  <2>3. \A r \in Procs : group[r] = -1 => DomainOf(r) \in domains'
      BY <2>1 DEF Forming, Unassigned
  <2>4. CASE domains' # {}
      BY <2>1, <2>2, <2>3, <2>4 DEF Forming, Formed
  <2>5. CASE domains' = {}
    <3>1. \A r \in Procs : group[r] \in -1 .. Devices - 1 /\ group[r] # -1
        BY <2>2, <2>3, <2>5
    <3>2. \A r \in Procs : group[r] \in 0 .. Devices - 1
        BY <2>2, <3>1
    <3>3. group' \in [Procs -> 0 .. Devices' - 1]
        BY <2>1, <2>2, <3>2
    <3>4. QED
        BY <2>1, <2>2, <2>5, <3>3 DEF Forming, Formed
  <2>6. QED
      BY <2>4, <2>5
<1>11. QED
    BY <1>1, <1>2, <1>3, <1>4, <1>5, <1>6, <1>7, <1>8, <1>9, <1>10 DEF CreateWorkgroups

\* The finished groups have their controller as rank 0.
LEMMA FormedHasOne == GroupsInv => OneControllerFirst
<1> SUFFICES ASSUME Formed, stage = "done", Devices > 0, NEW r \in Procs
             PROVE  \E c \in Members(group[r]) \cap Controllers :
                        WorkgroupRank(c) = 0 /\ Members(group[r]) \cap Controllers = {c}
    BY DEF GroupsInv, OneControllerFirst
<1>1. /\ P \in Nat /\ Devices \in Nat
      /\ \A c \in Controllers, d \in Controllers : TypeRank(c) = TypeRank(d) => c = d
      /\ \A g \in 0 .. Devices - 1 : \E c \in Controllers : TypeRank(c) = g
    BY ControllersAreNumbered
<1>2. /\ group \in [Procs -> 0 .. Devices - 1]
      /\ \A c \in Controllers : group[c] = TypeRank(c)
    BY DEF Formed
<1>3. PICK c \in Controllers : TypeRank(c) = group[r]
    BY <1>1, <1>2
<1>4. group[c] = group[r]
    BY <1>2, <1>3
<1>5. Members(group[r]) \cap Controllers = {c}
    BY <1>1, <1>2, <1>3 DEF Members, Controllers
<1>6. WorkgroupRank(c) = 0
  <2>1. ASSUME NEW q \in Members(group[c]), Order(q) < Order(c) \/ (Order(q) = Order(c) /\ q < c)
        PROVE  FALSE
    <3>1. c \in Nat /\ q \in Nat /\ q \in Procs
        BY <1>1 DEF Members, Controllers, Procs
    <3>2. Order(c) = 0
        BY DEF Order
    <3>3. q \notin Controllers => Order(q) > 0
        BY <1>1, <3>1 DEF Order
    <3>4. q \in Controllers => q = c
        BY <1>4, <1>5
    <3>5. q \in Controllers
        BY <2>1, <3>2, <3>3, <1>1, <3>1 DEF Order
    <3>6. QED
        BY <2>1, <3>1, <3>2, <3>4, <3>5
  <2>2. {q \in Members(group[c]) : Order(q) < Order(c) \/ (Order(q) = Order(c) /\ q < c)} = {}
      BY <2>1
  <2>3. QED
      BY <2>2, FS_EmptySet DEF WorkgroupRank
<1>7. QED
    BY <1>5, <1>6

-----------------------------------------------------------------------------
\* The workers of the group.
Others == 1 .. size - 1

\* In round k every worker that is not full has k samples, and those below i have
\* one more.
Dealt(k) ==
    /\ \A r \in Others :
          LET turn == IF r < i THEN k + 1 ELSE k
          IN  cpuwork[r] = IF batch[r] < turn THEN batch[r] ELSE turn
    /\ anyGiven <=> \E r \in Others : r < i /\ k < batch[r]

\* The controller of the group deals the host work in rounds, and none of it is
\* lost on the way.
Dealing ==
    /\ pc[0] = "gather" => SumOver(batch, Members0) < IntBound
    /\ pc[0] = "give" =>
        /\ i \in 1 .. size /\ remaining \in Nat
        /\ SumOver(cpuwork, Others) + remaining = hostWork
        /\ \E k \in Nat : Dealt(k)

Dealer ==
    pc[0] = "done" =>
        /\ IsSplit(cpuwork, batch, Others, hostWork)
        /\ onDevice => share[0] = << 0, batch[0] >>

SplitTypes ==
    /\ batch \in [Members0 -> 0 .. MaxBatch]
    /\ rounded \in Int /\ hostWork \in Nat
    /\ \E S : pc \in [Members0 -> S]
    /\ \E S : share \in [Members0 -> S]
    /\ cpuwork \in [Others -> Nat]

Sizes == stage \in {"enter", "split", "ready", "died"} => size \in 1 .. P /\ onDevice \in BOOLEAN

SplitInv == Splitting => SplitTypes /\ Dealing /\ Dealer

-----------------------------------------------------------------------------
\* The sums of the split are those of the reference.
LEMMA SplitSums ==
    ASSUME NEW n \in Nat, NEW f, NEW S
    PROVE  Split(n)!SumOver(f, S) = SumOver(f, S)
BY DEF Split!SumOver, SumOver, Split!MapThenSumSet, MapThenSumSet,
       Split!MapThenFoldSet, MapThenFoldSet

LEMMA SplitIsTheSame ==
    ASSUME NEW n \in Nat, NEW f, NEW g, NEW S, NEW w
    PROVE  Split(n)!IsSplit(f, g, S, w) <=> IsSplit(f, g, S, w)
<1>1. Split(n)!SumOver(f, S) = SumOver(f, S) /\ Split(n)!SumOver(g, S) = SumOver(g, S)
    BY SplitSums
<1>2. QED
    BY <1>1 DEF Split!IsSplit, IsSplit

\* The sets of the group that the split is about.
LEMMA Group ==
    ASSUME Sizes, stage \in {"enter", "split", "ready", "died"}
    PROVE  /\ size \in Nat /\ size > 0 /\ 0 \in Members0 /\ 0 \notin Others
           /\ Others \subseteq Members0 /\ Members0 \subseteq Nat
           /\ IsFiniteSet(Others) /\ Cardinality(Others) = size - 1
           /\ IsFiniteSet(Members0)
<1>1. size \in Nat /\ size > 0
    BY PlacementAssumption DEF Sizes
<1>2. IsFiniteSet(Others) /\ Cardinality(Others) = size - 1 /\ IsFiniteSet(Members0)
    BY <1>1, FS_Interval DEF Others, Members0
<1>3. QED
    BY <1>1, <1>2 DEF Others, Members0

\* A worker changes its own place and share only.
LEMMA WorkerDoes ==
    ASSUME WorkerStep, Sizes
    PROVE  \E r \in Others :
              /\ \E label : pc' = [pc EXCEPT ![r] = label]
              /\ share' = share \/ \E pair : share' = [share EXCEPT ![r] = pair]
              /\ stage = "split"
              /\ UNCHANGED << groupVars, size, onDevice, initVars >>
              /\ UNCHANGED << batch, rounded, hostWork, cpuwork, remaining, i, anyGiven >>
<1>1. PICK n \in 1 .. P : /\ size = n /\ stage = "split"
                          /\ \E r \in 1 .. n - 1 : Split(n)!Worker(r)
                          /\ UNCHANGED << groupVars, size, onDevice, initVars >>
    BY DEF WorkerStep
<1>2. PICK r \in 1 .. n - 1 : Split(n)!Worker(r)
    BY <1>1
<1>3. r \in Others
    BY <1>1, <1>2 DEF Others
<1>4. /\ \E label : pc' = [pc EXCEPT ![r] = label]
      /\ share' = share \/ \E pair : share' = [share EXCEPT ![r] = pair]
      /\ UNCHANGED << batch, rounded, hostWork, cpuwork, remaining, i, anyGiven >>
    BY <1>2 DEF Split!Worker, Split!ContributeBatch, Split!ReceiveShare, Split!Goto
<1>5. QED
    BY <1>1, <1>3, <1>4

\* The controller of the group that is followed.
LEMMA ControllerDoes ==
    ASSUME ControllerStep
    PROVE  /\ \E n \in 1 .. P : size = n /\ Split(n)!Controller
           /\ stage = "split"
           /\ UNCHANGED << groupVars, size, onDevice, initVars >>
BY DEF ControllerStep

\* A number that fits an int stays what it is.
LEMMA Int32Keeps ==
    ASSUME NEW x \in Nat, x < IntBound
    PROVE  Int32(x) = x
<1>1. IntBound \in Nat /\ IntBound > 0
    BY SetupAssumption
<1>2. PICK b \in Nat : b = 2 * IntBound /\ b > 0
    BY <1>1
<1>3. x + IntBound \in Nat /\ x + IntBound < b
    BY <1>1, <1>2
<1>4. (x + IntBound) % b = x + IntBound
    BY <1>2, <1>3
<1>5. QED
    BY <1>1, <1>2, <1>4 DEF Int32

LEMMA GatherDoes ==
    ASSUME NEW n \in Nat, size = n, Split(n)!GatherBatches, rounded \in Int,
           SumOver(batch, Members0) \in Nat, SumOver(batch, Members0) < IntBound
    PROVE  /\ hostWork' \in Nat
           /\ pc' = [pc EXCEPT ![0] = "base"]
           /\ UNCHANGED << batch, rounded, cpuwork, remaining, i, anyGiven, share, sent >>
<1>1. Split(n)!SumOver(batch, Members0) = SumOver(batch, Members0)
    BY SplitSums
<1>2. Split(n)!Total = Int32(SumOver(batch, Members0))
    BY <1>1 DEF Split!Total, Split!Ranks, Split!Int32, Int32, Members0
<1>3. Split(n)!Total = SumOver(batch, Members0)
    BY <1>2, Int32Keeps
<1>4. QED
    BY <1>3 DEF Split!GatherBatches, Split!Clamp, Split!Goto

LEMMA AssignDoes ==
    ASSUME NEW n \in Nat, size = n, Split(n)!AssignBase
    PROVE  LET base == hostWork \div (size - 1)
               work == [r \in Others |-> IF batch[r] < base THEN batch[r] ELSE base]
           IN  /\ \/ /\ size = 1 /\ pc' = [pc EXCEPT ![0] = "fault"]
                     /\ UNCHANGED << cpuwork, remaining >>
                  \/ /\ size # 1 /\ pc' = [pc EXCEPT ![0] = "give"]
                     /\ cpuwork' = work
                     /\ remaining' = hostWork - SumOver(work, Others)
               /\ i' = 1 /\ anyGiven' = FALSE
               /\ UNCHANGED << batch, rounded, hostWork, share, sent >>
<1> DEFINE base == hostWork \div (size - 1)
           work == [r \in Others |-> IF batch[r] < base THEN batch[r] ELSE base]
<1>1. Split(n)!Workers = Others
    BY DEF Split!Workers, Others
<1>2. [r \in Others |-> Split(n)!BaseWork(r)] = work
    BY DEF Split!BaseWork
<1>3. Split(n)!SumOver(work, Others) = SumOver(work, Others)
    BY SplitSums
<1> HIDE DEF work
<1>4. /\ \/ /\ size = 1 /\ pc' = [pc EXCEPT ![0] = "fault"]
            /\ UNCHANGED << cpuwork, remaining >>
         \/ /\ size # 1 /\ pc' = [pc EXCEPT ![0] = "give"]
            /\ cpuwork' = work
            /\ remaining' = hostWork - SumOver(work, Others)
      /\ i' = 1 /\ anyGiven' = FALSE
      /\ UNCHANGED << batch, rounded, hostWork, share, sent >>
    BY <1>1, <1>2, <1>3 DEF Split!AssignBase, Split!Goto
<1>5. QED
    BY <1>4 DEF work

\* What a step of the controller does to its own place.
LEMMA PlaceOfController ==
    ASSUME SplitTypes, 0 \in Members0, NEW label, pc' = [pc EXCEPT ![0] = label]
    PROVE  pc'[0] = label /\ \E S : pc' \in [Members0 -> S]
<1>1. PICK S : pc \in [Members0 -> S]
    BY DEF SplitTypes
<1>2. pc' \in [Members0 -> S \cup {label}]
    BY <1>1
<1>3. QED
    BY <1>1, <1>2

LEMMA GatherKeeps ==
    ASSUME NEW n \in 1 .. P, size = n, Split(n)!GatherBatches, SplitTypes, Dealing, Sizes,
           stage = "split", UNCHANGED << stage, size, onDevice >>
    PROVE  SplitTypes' /\ Dealing' /\ Dealer'
<1>1. /\ size \in Nat /\ 0 \in Members0 /\ IsFiniteSet(Members0)
      /\ Members0' = Members0 /\ Others' = Others
    BY Group DEF Members0, Others
<1>2. n \in Nat /\ SumOver(batch, Members0) \in Nat
  <2>1. \A r \in Members0 : batch[r] \in Nat
      BY SetupAssumption DEF SplitTypes
  <2>2. QED
      BY <1>1, <2>1, SumFacts
<1>3. /\ hostWork' \in Nat
      /\ pc' = [pc EXCEPT ![0] = "base"]
      /\ UNCHANGED << batch, rounded, cpuwork, remaining, i, anyGiven, share, sent >>
  <2>1. pc[0] = "gather"
      BY DEF Split!GatherBatches
  <2>2. QED
      BY <1>2, <2>1, GatherDoes DEF SplitTypes, Dealing
<1>4. pc'[0] = "base" /\ \E S : pc' \in [Members0 -> S]
    BY <1>1, <1>3, PlaceOfController
<1>5. SplitTypes'
    BY <1>1, <1>3, <1>4 DEF SplitTypes
<1>6. QED
    BY <1>4, <1>5 DEF Dealing, Dealer

\* The base work: no more than there is to do.
LEMMA BaseKeeps ==
    ASSUME NEW n \in 1 .. P, size = n, Split(n)!AssignBase, SplitTypes, Sizes,
           stage = "split", UNCHANGED << stage, size, onDevice >>
    PROVE  SplitTypes' /\ Dealing' /\ Dealer'
<1> DEFINE base == hostWork \div (size - 1)
           work == [r \in Others |-> IF batch[r] < base THEN batch[r] ELSE base]
<1>1. /\ size \in Nat /\ size > 0 /\ 0 \in Members0 /\ Others \subseteq Members0
      /\ IsFiniteSet(Others) /\ Cardinality(Others) = size - 1
      /\ Members0' = Members0 /\ Others' = Others
    BY Group DEF Members0, Others
<1>2. /\ \/ /\ size = 1 /\ pc' = [pc EXCEPT ![0] = "fault"]
            /\ UNCHANGED << cpuwork, remaining >>
         \/ /\ size # 1 /\ pc' = [pc EXCEPT ![0] = "give"]
            /\ cpuwork' = work
            /\ remaining' = hostWork - SumOver(work, Others)
      /\ i' = 1 /\ anyGiven' = FALSE
      /\ UNCHANGED << batch, rounded, hostWork, share, sent >>
    BY <1>1, AssignDoes
<1>3. CASE size = 1
  <2>1. pc'[0] = "fault" /\ (\E S : pc' \in [Members0 -> S]) /\ UNCHANGED cpuwork
      BY <1>1, <1>2, <1>3, PlaceOfController
  <2>2. SplitTypes'
      BY <1>1, <1>2, <2>1 DEF SplitTypes
  <2>3. QED
      BY <2>1, <2>2 DEF Dealing, Dealer
<1>4. CASE size # 1
  <2>1. pc'[0] = "give" /\ (\E S : pc' \in [Members0 -> S]) /\ cpuwork' = work
        /\ remaining' = hostWork - SumOver(work, Others)
      BY <1>1, <1>2, <1>4, PlaceOfController
  <2>2. hostWork \in Nat /\ \A r \in Others : batch[r] \in Nat
      BY <1>1, SetupAssumption DEF SplitTypes
  <2>3. base \in Nat /\ (size - 1) * base <= hostWork
    <3>1. size - 1 \in Nat /\ size - 1 > 0
        BY <1>1, <1>4
    <3>2. QED
        BY <2>2, <3>1
  <2> HIDE DEF base
  <2>4. \A r \in Others : work[r] \in Nat /\ work[r] <= base
      BY <2>2, <2>3
  <2>5. work \in [Others -> Nat]
      BY <2>4
  <2> HIDE DEF work
  <2>6. SumOver(work, Others) \in Nat /\ SumOver(work, Others) <= (size - 1) * base
      BY <1>1, <2>3, <2>4, SumFacts, SumIsBounded
  <2>7. remaining' \in Nat /\ SumOver(work, Others) + remaining' = hostWork
    <3>1. (size - 1) * base \in Nat
        BY <1>1, <1>4, <2>3
    <3>2. SumOver(work, Others) <= hostWork
        BY <2>2, <2>3, <2>6, <3>1
    <3>3. QED
        BY <2>1, <2>2, <2>6, <3>2
  <2>8. ASSUME NEW k \in Nat, k = base PROVE Dealt(k)'
    <3>1. \A r \in Others : r \in Nat /\ r >= 1 /\ i' = 1
        BY <1>1, <1>2 DEF Others
    <3>2. \A r \in Others : cpuwork'[r] = IF batch'[r] < k THEN batch'[r] ELSE k
        BY <1>2, <2>1, <2>8 DEF work
    <3>3. \A r \in Others : ~(r < i')
        BY <3>1
    <3>4. QED
        BY <1>1, <1>2, <3>2, <3>3 DEF Dealt
  <2>9. SplitTypes'
      BY <1>1, <1>2, <2>1, <2>5 DEF SplitTypes
  <2>10. i' \in 1 .. size'
      BY <1>1, <1>2
  <2>11. SumOver(cpuwork, Others)' = SumOver(work, Others)
      BY <1>1, <2>1
  <2>12. Dealing'
      BY <1>2, <2>1, <2>3, <2>7, <2>8, <2>10, <2>11 DEF Dealing
  <2>13. QED
      BY <2>1, <2>9, <2>12 DEF Dealer
<1>5. QED
    BY <1>3, <1>4

LEMMA GiveDoes ==
    ASSUME NEW n \in Nat, size = n, Split(n)!GiveOne
    PROVE  /\ pc[0] = "give" /\ remaining > 0 /\ i <= size - 1
           /\ \/ /\ cpuwork[i] < batch[i]
                 /\ cpuwork' = [cpuwork EXCEPT ![i] = @ + 1]
                 /\ remaining' = remaining - 1
                 /\ anyGiven' = TRUE
              \/ ~(cpuwork[i] < batch[i]) /\ UNCHANGED << cpuwork, remaining, anyGiven >>
           /\ i' = i + 1
           /\ UNCHANGED << batch, rounded, pc, hostWork, share, sent >>
BY DEF Split!GiveOne

\* Worker i gets one more sample, or is full in this round.
LEMMA GiveKeeps ==
    ASSUME NEW n \in 1 .. P, size = n, Split(n)!GiveOne, SplitTypes, Dealing, Sizes,
           stage = "split", UNCHANGED << stage, size, onDevice >>
    PROVE  SplitTypes' /\ Dealing' /\ Dealer'
<1>1. /\ size \in Nat /\ size > 0 /\ IsFiniteSet(Others) /\ Others \subseteq Members0
      /\ Members0' = Members0 /\ Others' = Others
    BY Group DEF Members0, Others
<1>2. /\ pc[0] = "give" /\ remaining > 0 /\ i <= size - 1
      /\ \/ /\ cpuwork[i] < batch[i]
            /\ cpuwork' = [cpuwork EXCEPT ![i] = @ + 1]
            /\ remaining' = remaining - 1
            /\ anyGiven' = TRUE
         \/ ~(cpuwork[i] < batch[i]) /\ UNCHANGED << cpuwork, remaining, anyGiven >>
      /\ i' = i + 1
      /\ UNCHANGED << batch, rounded, pc, hostWork, share, sent >>
    BY <1>1, GiveDoes
<1>3. /\ i \in 1 .. size /\ remaining \in Nat
      /\ SumOver(cpuwork, Others) + remaining = hostWork
    BY <1>2 DEF Dealing
<1>4. PICK k \in Nat : Dealt(k)
    BY <1>2 DEF Dealing
<1>5. /\ i \in Others /\ i \in Nat
      /\ \A r \in Others : r \in Nat /\ batch[r] \in Nat
      /\ cpuwork \in [Others -> Nat] /\ hostWork \in Nat
  <2>1. i \in Others
      BY <1>1, <1>2, <1>3 DEF Others
  <2>2. \A r \in Others : r \in Nat /\ batch[r] \in Nat
      BY <1>1, SetupAssumption DEF SplitTypes, Others
  <2>3. QED
      BY <2>1, <2>2 DEF SplitTypes
<1>6. cpuwork[i] = IF batch[i] < k THEN batch[i] ELSE k
  <2>1. ~(i < i)
      BY <1>5
  <2>2. QED
      BY <1>4, <1>5, <2>1 DEF Dealt
<1>7. cpuwork' \in [Others -> Nat]
    BY <1>2, <1>5
<1>8. remaining' \in Nat /\ SumOver(cpuwork', Others) + remaining' = hostWork
  <2>1. CASE cpuwork[i] < batch[i]
    <3>1. \A r \in Others \ {i} : cpuwork'[r] = cpuwork[r]
        BY <1>2, <1>5
    <3>2. cpuwork'[i] = cpuwork[i] + 1 /\ cpuwork[i] \in Nat /\ cpuwork'[i] \in Nat
        BY <1>2, <1>5, <2>1
    <3>3. SumOver(cpuwork', Others) + cpuwork[i] = SumOver(cpuwork, Others) + cpuwork'[i]
      <4>1. /\ IsFiniteSet(Others) /\ i \in Others
            /\ \A r \in Others : cpuwork[r] \in Nat
          BY <1>1, <1>5
      <4>2. QED
          BY <3>1, <3>2, <4>1, SumOfUpdate
    <3>4. SumOver(cpuwork', Others) \in Nat /\ SumOver(cpuwork, Others) \in Nat
        BY <1>1, <1>5, <1>7, SumFacts
    <3>5. remaining' = remaining - 1 /\ remaining' \in Nat
        BY <1>2, <1>3, <2>1
    <3>6. QED
        BY <1>3, <3>2, <3>3, <3>4, <3>5
  <2>2. CASE ~(cpuwork[i] < batch[i])
      BY <1>2, <1>3, <2>2
  <2>3. QED
      BY <2>1, <2>2
<1>9. Dealt(k)'
  <2>1. ASSUME NEW r \in Others
        PROVE  cpuwork'[r] = IF batch[r] < (IF r < i + 1 THEN k + 1 ELSE k)
                             THEN batch[r] ELSE (IF r < i + 1 THEN k + 1 ELSE k)
    <3>1. cpuwork[r] = IF batch[r] < (IF r < i THEN k + 1 ELSE k)
                       THEN batch[r] ELSE (IF r < i THEN k + 1 ELSE k)
        BY <1>4 DEF Dealt
    <3>2. CASE r = i
      <4>1. cpuwork'[i] = IF cpuwork[i] < batch[i] THEN cpuwork[i] + 1 ELSE cpuwork[i]
          BY <1>2, <1>5
      <4>2. i < i + 1 /\ batch[i] \in Nat
          BY <1>5
      <4>3. QED
          BY <1>6, <3>2, <4>1, <4>2
    <3>3. CASE r # i
      <4>1. cpuwork'[r] = cpuwork[r]
          BY <1>2, <1>5, <3>3
      <4>2. r < i <=> r < i + 1
          BY <1>5, <3>3
      <4>3. QED
          BY <3>1, <4>1, <4>2
    <3>4. QED
        BY <3>2, <3>3
  <2>2. anyGiven' <=> \E r \in Others : r < i + 1 /\ k < batch[r]
    <3>1. anyGiven <=> \E r \in Others : r < i /\ k < batch[r]
        BY <1>4 DEF Dealt
    <3>2. \A r \in Others : r < i + 1 <=> r < i \/ r = i
        BY <1>5
    <3>3. cpuwork[i] < batch[i] <=> k < batch[i]
        BY <1>5, <1>6
    <3>4. CASE k < batch[i]
      <4>1. anyGiven' = TRUE
          BY <1>2, <3>3, <3>4
      <4>2. \E r \in Others : r < i + 1 /\ k < batch[r]
          BY <1>5, <3>2, <3>4
      <4>3. QED
          BY <4>1, <4>2
    <3>5. CASE ~(k < batch[i])
      <4>1. anyGiven' = anyGiven
          BY <1>2, <3>3, <3>5
      <4>2. QED
          BY <3>1, <3>2, <3>5, <4>1
    <3>6. QED
        BY <3>4, <3>5
  <2>3. QED
      BY <1>1, <1>2, <2>1, <2>2 DEF Dealt
<1>10. i' \in 1 .. size'
    BY <1>1, <1>2, <1>3
<1>11. SplitTypes'
    BY <1>1, <1>2, <1>7 DEF SplitTypes
<1>12. Dealing'
    BY <1>1, <1>2, <1>8, <1>9, <1>10 DEF Dealing
<1>13. Dealer'
    BY <1>2 DEF Dealer
<1>14. QED
    BY <1>11, <1>12, <1>13

\* The next round starts with one sample more for all that are not full.
LEMMA RoundKeeps ==
    ASSUME NEW n \in 1 .. P, size = n, Split(n)!NextRound, SplitTypes, Dealing, Sizes,
           stage = "split", UNCHANGED << stage, size, onDevice >>
    PROVE  SplitTypes' /\ Dealing' /\ Dealer'
<1>1. /\ size \in Nat /\ size > 0
      /\ Members0' = Members0 /\ Others' = Others
    BY Group DEF Members0, Others
<1>2. /\ pc[0] = "give" /\ i = size /\ i' = 1 /\ anyGiven' = FALSE
      /\ UNCHANGED << batch, rounded, pc, hostWork, cpuwork, remaining, share, sent >>
    BY DEF Split!NextRound
<1>3. PICK k \in Nat : Dealt(k)
    BY <1>2 DEF Dealing
<1>4. k + 1 \in Nat
    OBVIOUS
<1>5. \A r \in Others : r \in Nat /\ r < size /\ ~(r < 1)
    BY <1>1 DEF Others
<1>6. PICK m \in Nat : m = k + 1
    BY <1>4
<1>7. Dealt(m)'
  <2>1. \A r \in Others : cpuwork'[r] = IF batch'[r] < m THEN batch'[r] ELSE m
      BY <1>2, <1>3, <1>5, <1>6 DEF Dealt
  <2>2. \A r \in Others : ~(r < i')
      BY <1>2, <1>5
  <2>3. QED
      BY <1>1, <1>2, <2>1, <2>2 DEF Dealt
<1>8. SplitTypes'
    BY <1>1, <1>2 DEF SplitTypes
<1>9. Dealing'
  <2>1. i' \in 1 .. size'
      BY <1>1, <1>2
  <2>2. remaining' \in Nat /\ SumOver(cpuwork, Others)' + remaining' = hostWork'
      BY <1>1, <1>2 DEF Dealing
  <2>3. pc'[0] = "give"
      BY <1>2
  <2>4. QED
      BY <1>7, <2>1, <2>2, <2>3 DEF Dealing
<1>10. QED
    BY <1>2, <1>8, <1>9 DEF Dealer

LEMMA SendDoes ==
    ASSUME NEW n \in Nat, size = n, Split(n)!SendShares
    PROVE  /\ pc[0] = "give"
           /\ remaining = 0 \/ (i = size /\ ~anyGiven)
           /\ share' = [share EXCEPT ![0] = << 0, batch[0] >>]
           /\ pc' = [pc EXCEPT ![0] = "done"]
           /\ UNCHANGED << batch, rounded, hostWork, cpuwork, remaining, i, anyGiven >>
BY DEF Split!SendShares, Split!Goto

\* When all is dealt, or every worker is full, the split is the one wanted.
LEMMA DealtIsSplit ==
    ASSUME Sizes, stage = "split", SplitTypes, Dealing, pc[0] = "give",
           remaining = 0 \/ (i = size /\ ~anyGiven)
    PROVE  IsSplit(cpuwork, batch, Others, hostWork)
<1>1. /\ size \in Nat /\ size > 0 /\ IsFiniteSet(Others) /\ Others \subseteq Members0
    BY Group
<1>2. /\ i \in 1 .. size /\ remaining \in Nat
      /\ SumOver(cpuwork, Others) + remaining = hostWork
    BY DEF Dealing
<1>3. PICK k \in Nat : Dealt(k)
    BY DEF Dealing
<1>4. \A r \in Others : r \in Nat /\ r < size /\ batch[r] \in Nat /\ cpuwork[r] \in Nat
  <2>1. \A r \in Others : r \in Nat /\ r < size
      BY <1>1 DEF Others
  <2>2. \A r \in Others : batch[r] \in Nat /\ cpuwork[r] \in Nat
      BY <1>1, SetupAssumption DEF SplitTypes
  <2>3. QED
      BY <2>1, <2>2
<1>5. ASSUME NEW r \in Others
      PROVE  /\ cpuwork[r] = IF batch[r] < (IF r < i THEN k + 1 ELSE k)
                             THEN batch[r] ELSE (IF r < i THEN k + 1 ELSE k)
             /\ (IF r < i THEN k + 1 ELSE k) \in Nat
    BY <1>3 DEF Dealt
<1>6. \A r \in Others : cpuwork[r] <= batch[r]
    BY <1>4, <1>5
<1>7. \A r \in Others : cpuwork[r] \in 0 .. batch[r]
    BY <1>4, <1>6
<1>8. /\ SumOver(cpuwork, Others) <= SumOver(batch, Others)
      /\ SumOver(cpuwork, Others) \in Nat /\ SumOver(batch, Others) \in Nat
    BY <1>1, <1>4, <1>6, SumIsMonotone, SumFacts
<1>9. SumOver(cpuwork, Others) =
         IF hostWork <= SumOver(batch, Others) THEN hostWork ELSE SumOver(batch, Others)
  <2>1. CASE remaining = 0
      BY <1>2, <1>8, <2>1
  <2>2. CASE i = size /\ ~anyGiven
    <3>1. \A r \in Others : r < i /\ ~(k < batch[r])
        BY <1>3, <1>4, <2>2 DEF Dealt
    <3>2. \A r \in Others : batch[r] <= cpuwork[r]
        BY <1>4, <1>5, <3>1
    <3>3. SumOver(batch, Others) <= SumOver(cpuwork, Others)
        BY <1>1, <1>4, <3>2, SumIsMonotone
    <3>4. QED
        BY <1>2, <1>8, <3>3
  <2>3. QED
      BY <2>1, <2>2
<1>10. ASSUME NEW r \in Others, NEW q \in Others, cpuwork[r] < batch[r]
       PROVE  cpuwork[q] <= cpuwork[r] + 1 /\ (r < q => cpuwork[q] <= cpuwork[r])
  <2>1. cpuwork[r] = IF r < i THEN k + 1 ELSE k
      BY <1>4, <1>5, <1>10
  <2>2. cpuwork[q] <= IF q < i THEN k + 1 ELSE k
      BY <1>4, <1>5
  <2>3. r \in Nat /\ q \in Nat /\ i \in Nat /\ cpuwork[q] \in Nat
      BY <1>1, <1>2, <1>4
  <2>4. QED
      BY <2>1, <2>2, <2>3
<1>11. QED
    BY <1>7, <1>9, <1>10 DEF IsSplit

LEMMA SendKeeps ==
    ASSUME NEW n \in 1 .. P, size = n, Split(n)!SendShares, SplitTypes, Dealing, Sizes,
           stage = "split", UNCHANGED << stage, size, onDevice >>
    PROVE  SplitTypes' /\ Dealing' /\ Dealer'
<1>1. /\ size \in Nat /\ 0 \in Members0
      /\ Members0' = Members0 /\ Others' = Others
    BY Group DEF Members0, Others
<1>2. /\ pc[0] = "give"
      /\ remaining = 0 \/ (i = size /\ ~anyGiven)
      /\ share' = [share EXCEPT ![0] = << 0, batch[0] >>]
      /\ pc' = [pc EXCEPT ![0] = "done"]
      /\ UNCHANGED << batch, rounded, hostWork, cpuwork, remaining, i, anyGiven >>
    BY <1>1, SendDoes
<1>3. IsSplit(cpuwork, batch, Others, hostWork)
    BY <1>2, DealtIsSplit
<1>4. pc'[0] = "done" /\ \E S : pc' \in [Members0 -> S]
    BY <1>1, <1>2, PlaceOfController
<1>5. share'[0] = << 0, batch[0] >> /\ \E S : share' \in [Members0 -> S]
  <2>1. PICK S : share \in [Members0 -> S]
      BY DEF SplitTypes
  <2>2. share' \in [Members0 -> S \cup {<< 0, batch[0] >>}]
      BY <1>2, <2>1
  <2>3. share'[0] = << 0, batch[0] >>
      BY <1>1, <1>2, <2>1
  <2>4. QED
      BY <2>2, <2>3
<1>6. SplitTypes'
    BY <1>1, <1>2, <1>4, <1>5 DEF SplitTypes
<1>7. IsSplit(cpuwork, batch, Others, hostWork)'
    BY <1>1, <1>2, <1>3
<1>8. QED
    BY <1>2, <1>4, <1>5, <1>6, <1>7 DEF Dealing, Dealer

-----------------------------------------------------------------------------
SetupInv == GroupsInv /\ Sizes /\ SplitInv /\ UsedIsReady

LEMMA InitEstablishes == Init => SetupInv
<1> SUFFICES ASSUME Init PROVE SetupInv
    OBVIOUS
<1>1. stage = "discover" /\ placement \in Placements
    BY DEF Init, GroupInit
<1>2. QED
    BY <1>1 DEF SetupInv, GroupsInv, Making, Forming, Formed, Sizes, SplitInv, Splitting, UsedIsReady

LEMMA DistributeKeeps == ASSUME SetupInv, Distribute PROVE SetupInv'
<1>1. GroupsInv'
    BY GroupsKept DEF SetupInv, Distribute
<1>2. stage' \in {"controllers", "color", "home", "best", "done"}
    BY DEF Distribute, CreateWorkgroups, DiscoverGPUs, NodeControllers, AffineController,
           AffineDone, NoDevices, RoundRobinColor, OwnGroups, HomeDomain, BestGroup, NextDomain
<1>3. QED
    BY <1>1, <1>2 DEF SetupInv, Sizes, SplitInv, Splitting, UsedIsReady

\* No group is empty: its controller is in it.
LEMMA EnterKeeps == ASSUME SetupInv, NEW g \in Procs, EnterGroup(g) PROVE SetupInv'
<1>1. /\ stage = "done" /\ stage' = "enter"
      /\ IF Devices = 0 THEN g = 0 ELSE g < Devices
      /\ size' = IF Devices = 0 THEN P ELSE Cardinality(Members(g))
      /\ onDevice' \in BOOLEAN
  <2>1. onDevice' = (Devices > 0)
      BY DEF EnterGroup
  <2>2. (Devices > 0) = TRUE \/ (Devices > 0) = FALSE
      OBVIOUS
  <2>3. onDevice' \in BOOLEAN
      BY <2>1, <2>2
  <2>4. QED
      BY <2>3 DEF EnterGroup, Forget
<1>2. P \in Nat /\ P > 0 /\ Devices \in Nat /\ g \in Nat
    BY ControllersAreNumbered DEF Procs
<1>3. size' \in 1 .. P
  <2>1. CASE Devices = 0
      BY <1>1, <1>2, <2>1
  <2>2. CASE Devices # 0
    <3>1. g \in 0 .. Devices - 1 /\ Devices > 0
        BY <1>1, <1>2, <2>2
    <3>2. PICK c \in Controllers : TypeRank(c) = g
        BY <3>1, ControllersAreNumbered
    <3>3. group[c] = g /\ c \in Procs
        BY <1>1, <3>1, <3>2 DEF SetupInv, GroupsInv, Formed, Controllers
    <3>4. c \in Members(g) /\ Members(g) \subseteq Procs
        BY <3>3 DEF Members
    <3>5. IsFiniteSet(Procs) /\ Cardinality(Procs) = P
        BY <1>2, FS_Interval DEF Procs
    <3>6. IsFiniteSet(Members(g)) /\ Cardinality(Members(g)) \in Nat /\ Cardinality(Members(g)) <= P
        BY <3>4, <3>5, FS_Subset, FS_CardinalityType
    <3>7. Cardinality(Members(g)) # 0
        BY <3>4, <3>6, FS_EmptySet
    <3>8. QED
        BY <1>1, <1>2, <2>2, <3>6, <3>7
  <2>3. QED
      BY <2>1, <2>2
<1>4. QED
    BY <1>1, <1>3 DEF SetupInv, GroupsInv, Making, Forming, Formed, Sizes, SplitInv, Splitting, UsedIsReady

\* Without hybrid inference nothing is to be done on the hosts of a group with a
\* device, and its split is the empty one.
LEMMA NoHostWork ==
    ASSUME NEW S, IsFiniteSet(S), NEW b, \A r \in S : b[r] \in Nat
    PROVE  IsSplit([r \in S |-> 0], b, S, 0)
<1> DEFINE zero == [r \in S |-> 0]
<1>1. \A r \in S : zero[r] = 0 /\ zero[r] \in Nat
    OBVIOUS
<1> HIDE DEF zero
<1>2. SumOver(zero, S) \in Nat /\ SumOver(zero, S) <= SumOver(b, S) /\ SumOver(b, S) \in Nat
    BY <1>1, SumFacts, SumIsMonotone
<1>3. SumOver(zero, S) = 0
  <2>1. Cardinality(S) \in Nat
      BY FS_CardinalityType
  <2>2. SumOver(zero, S) <= Cardinality(S) * 0
    <3>1. \A r \in S : zero[r] \in Nat /\ zero[r] <= 0
        BY <1>1
    <3>2. QED
        BY <3>1, SumIsBounded
  <2>3. QED
      BY <1>2, <2>1, <2>2
<1>4. IsSplit(zero, b, S, 0)
    BY <1>1, <1>2, <1>3 DEF IsSplit
<1>5. QED
    BY <1>4 DEF zero

LEMMA ChooseKeeps == ASSUME SetupInv, NEW hybrid \in BOOLEAN, ChooseBatches(hybrid) PROVE SetupInv'
<1>1. /\ stage = "enter" /\ stage' = "split" /\ (hybrid => onDevice)
      /\ batch' \in [Members0 -> 0 .. MaxBatch]
      /\ hybrid => SamplesOf(batch') < IntBound
      /\ hostWork' = 0 /\ cpuwork' = [r \in Others |-> 0]
      /\ IF hybrid
         THEN /\ rounded' \in -1 .. SamplesOf(batch') + 1
              /\ pc' = [r \in Members0 |-> "gather"]
              /\ share' = [r \in Members0 |-> << -1, -1 >>]
         ELSE /\ rounded' = 0
              /\ pc' = [r \in Members0 |-> "done"]
              /\ share' = [r \in Members0 |->
                             IF onDevice THEN << 0, batch'[r] >> ELSE << batch'[r], 0 >>]
      /\ UNCHANGED << size, onDevice >>
    BY DEF ChooseBatches, Others
<1>2. /\ Sizes /\ Members0' = Members0 /\ Others' = Others
      /\ 0 \in Members0 /\ IsFiniteSet(Others) /\ IsFiniteSet(Members0) /\ Others \subseteq Members0
    BY <1>1, Group DEF SetupInv, Members0, Others
<1>3. Sizes'
    BY <1>1, <1>2 DEF Sizes
<1>4. \A r \in Members0 : batch'[r] \in Nat
    BY <1>1, SetupAssumption
<1>5. rounded' \in Int
  <2>1. SamplesOf(batch') = SumOver(batch', Members0)
      BY DEF SamplesOf, SumOver
  <2>2. SumOver(batch', Members0) \in Nat
      BY <1>2, <1>4, SumFacts
  <2>3. QED
      BY <1>1, <2>1, <2>2
<1>6. SplitTypes'
  <2>1. \E S : pc' \in [Members0 -> S]
    <3>1. pc' \in [Members0 -> {"gather", "done"}]
        BY <1>1
    <3>2. QED
        BY <3>1
  <2>2. \E S : share' \in [Members0 -> S]
    <3>1. CASE hybrid
      <4>1. share' \in [Members0 -> {<< -1, -1 >>}]
          BY <1>1, <3>1
      <4>2. QED
          BY <4>1
    <3>2. CASE ~hybrid
      <4>1. share' \in [Members0 -> {<< 0, batch'[r] >> : r \in Members0} \cup {<< batch'[r], 0 >> : r \in Members0}]
          BY <1>1, <3>2
      <4>2. QED
          BY <4>1
    <3>3. QED
        BY <3>1, <3>2
  <2>3. QED
      BY <1>1, <1>2, <1>5, <2>1, <2>2 DEF SplitTypes
<1>7. pc'[0] = IF hybrid THEN "gather" ELSE "done"
    BY <1>1, <1>2
<1>8. Dealing'
  <2>1. SamplesOf(batch') = SumOver(batch', Members0)
      BY DEF SamplesOf, SumOver
  <2>2. QED
      BY <1>1, <1>2, <1>7, <2>1 DEF Dealing
<1>9. Dealer'
  <2>1. SUFFICES ASSUME ~hybrid PROVE Dealer'
      BY <1>7 DEF Dealer
  <2>2. IsSplit(cpuwork', batch', Others, hostWork')
      BY <1>1, <1>2, <1>4, NoHostWork
  <2>3. onDevice' => share'[0] = << 0, batch'[0] >>
      BY <1>1, <1>2, <2>1
  <2>4. QED
      BY <1>2, <2>2, <2>3 DEF Dealer
<1>10. QED
    BY <1>1, <1>3, <1>6, <1>8, <1>9
       DEF SetupInv, GroupsInv, Making, Forming, Formed, SplitInv, UsedIsReady

\* The strategies that get work are those that are initialised.
LEMMA StrategiesKeep ==
    ASSUME SetupInv, NEW suffix \in Endings, InitInferenceStrategy(suffix)
    PROVE  SetupInv'
<1>1. /\ stage = "split" /\ stage' \in {"ready", "died"}
      /\ \A r \in Members0 : pc[r] = "done"
      /\ UNCHANGED << size, onDevice, splitVars >>
    BY DEF InitInferenceStrategy
<1>2. /\ Sizes /\ SplitTypes /\ Dealing /\ Dealer /\ onDevice \in BOOLEAN
      /\ 0 \in Members0 /\ Members0' = Members0 /\ Others' = Others
    BY <1>1, Group DEF SetupInv, SplitInv, Splitting, Members0, Others, Sizes
<1>3. Sizes'
    BY <1>1, <1>2 DEF Sizes
<1>4. SplitTypes' /\ Dealing' /\ Dealer'
    BY <1>1, <1>2 DEF splitVars, SplitTypes, Dealing, Dealer, Dealt
<1>5. UsedIsReady'
  <2> DEFINE hosts   == {r \in Members0 : HostPart(r) > 0}
             device0 == onDevice /\ DeviceHasWork(layout'.samples)
  <2>1. \A r : HostPart(r)' = HostPart(r) /\ (IsController(r)' <=> IsController(r))
      BY <1>1 DEF splitVars, HostPart, IsController
  <2>2. DevicePart' = DevicePart
      BY <1>1, <1>2, <2>1 DEF splitVars, DevicePart
  <2>3. onDevice => share[0][2] = batch[0] /\ DevicePart[0] = batch[0]
    <3>1. ASSUME onDevice PROVE share[0][2] = batch[0]
        BY <1>1, <1>2, <3>1 DEF Dealer
    <3>2. ASSUME onDevice PROVE DevicePart[0] = batch[0]
      <4>1. HostPart(0) = 0
          BY <3>2 DEF HostPart, IsController
      <4>2. batch[0] \in Nat
          BY <1>2, SetupAssumption DEF SplitTypes
      <4>3. QED
          BY <1>2, <4>1, <4>2 DEF DevicePart
    <3>3. QED
        BY <3>1, <3>2
  <2>4. \/ stage' = "ready" /\ hostReady' = hosts /\ deviceReady' = device0
        \/ stage' = "ready" /\ hosts = {} /\ ~device0
        \/ stage' = "died"
      BY DEF InitInferenceStrategy
  <2>5. device0 <=> onDevice /\ (DevicePart[0] > 0 \/ layout'.samples > 0)
      BY <2>3 DEF DeviceHasWork
  <2> HIDE DEF device0
  <2>6. ASSUME stage' = "ready"
        PROVE  /\ \A r \in Members0 : HostPart(r) > 0 => r \in hostReady'
               /\ device0 => deviceReady'
      BY <2>4, <2>6
  <2>7. QED
      BY <1>1, <1>2, <2>1, <2>2, <2>5, <2>6 DEF UsedIsReady
<1>6. QED
    BY <1>1, <1>3, <1>4, <1>5 DEF SetupInv, GroupsInv, Making, Forming, Formed, SplitInv

\* A worker's step leaves the controller's work alone.
LEMMA WorkerKeeps == ASSUME SetupInv, WorkerStep PROVE SetupInv'
<1>1. PICK r \in Others :
              /\ \E label : pc' = [pc EXCEPT ![r] = label]
              /\ share' = share \/ \E pair : share' = [share EXCEPT ![r] = pair]
              /\ stage = "split"
              /\ UNCHANGED << groupVars, size, onDevice, initVars >>
              /\ UNCHANGED << batch, rounded, hostWork, cpuwork, remaining, i, anyGiven >>
    BY WorkerDoes DEF SetupInv
<1>2. stage' = "split" /\ UNCHANGED << size, onDevice >>
    BY <1>1 DEF groupVars
<1>3. /\ SplitTypes /\ Dealing /\ Dealer
      /\ 0 \in Members0 /\ 0 \notin Others /\ Members0' = Members0 /\ Others' = Others
    BY <1>1, <1>2, Group DEF SetupInv, SplitInv, Splitting, Members0, Others
<1>4. r # 0
    BY <1>1, <1>3
<1>5. pc'[0] = pc[0] /\ \E S : pc' \in [Members0 -> S]
  <2>1. PICK S : pc \in [Members0 -> S]
      BY <1>3 DEF SplitTypes
  <2>2. PICK label : pc' = [pc EXCEPT ![r] = label]
      BY <1>1
  <2>3. pc' \in [Members0 -> S \cup {label}] /\ pc'[0] = pc[0]
      BY <1>3, <1>4, <2>1, <2>2
  <2>4. QED
      BY <2>3
<1>6. share'[0] = share[0] /\ \E S : share' \in [Members0 -> S]
  <2>1. PICK S : share \in [Members0 -> S]
      BY <1>3 DEF SplitTypes
  <2>2. CASE share' = share
      BY <2>1, <2>2
  <2>3. CASE \E pair : share' = [share EXCEPT ![r] = pair]
    <3>1. PICK pair : share' = [share EXCEPT ![r] = pair]
        BY <2>3
    <3>2. share' \in [Members0 -> S \cup {pair}] /\ share'[0] = share[0]
        BY <1>3, <1>4, <2>1, <3>1
    <3>3. QED
        BY <3>2
  <2>4. QED
      BY <1>1, <2>2, <2>3
<1>7. SplitTypes'
    BY <1>1, <1>3, <1>5, <1>6 DEF SplitTypes
<1>8. Dealing'
    BY <1>1, <1>2, <1>3, <1>5 DEF Dealing, Dealt
<1>9. Dealer'
    BY <1>1, <1>2, <1>3, <1>5, <1>6 DEF Dealer
<1>10. Sizes'
    BY <1>1, <1>2 DEF SetupInv, Sizes
<1>11. QED
    BY <1>2, <1>7, <1>8, <1>9, <1>10
       DEF SetupInv, GroupsInv, Making, Forming, Formed, SplitInv, UsedIsReady

LEMMA ControllerKeeps == ASSUME SetupInv, ControllerStep PROVE SetupInv'
<1>1. PICK n \in 1 .. P : size = n /\ Split(n)!Controller
    BY ControllerDoes
<1>2. stage = "split" /\ UNCHANGED << stage, size, onDevice >>
    BY ControllerDoes DEF groupVars
<1>3. Sizes /\ SplitTypes /\ Dealing /\ Dealer
    BY <1>2 DEF SetupInv, SplitInv, Splitting
<1>4. SplitTypes' /\ Dealing' /\ Dealer'
  <2>1. CASE Split(n)!GatherBatches
      BY <1>1, <1>2, <1>3, <2>1, GatherKeeps
  <2>2. CASE Split(n)!AssignBase
      BY <1>1, <1>2, <1>3, <2>2, BaseKeeps
  <2>3. CASE Split(n)!GiveOne
      BY <1>1, <1>2, <1>3, <2>3, GiveKeeps
  <2>4. CASE Split(n)!NextRound
      BY <1>1, <1>2, <1>3, <2>4, RoundKeeps
  <2>5. CASE Split(n)!SendShares
      BY <1>1, <1>2, <1>3, <2>5, SendKeeps
  <2>6. QED
      BY <1>1, <2>1, <2>2, <2>3, <2>4, <2>5 DEF Split!Controller
<1>5. Sizes'
    BY <1>2, <1>3 DEF Sizes
<1>6. QED
    BY <1>2, <1>4, <1>5
       DEF SetupInv, GroupsInv, Making, Forming, Formed, SplitInv, UsedIsReady

LEMMA StutterKeeps == ASSUME SetupInv, UNCHANGED vars PROVE SetupInv'
<1>1. /\ UNCHANGED << placement, strategy, gpus, stage, device, gpu, group, domains, size, onDevice >>
      /\ UNCHANGED << batch, rounded, pc, hostWork, cpuwork, remaining, i, anyGiven, share, sent >>
      /\ UNCHANGED << layout, hostReady, deviceReady >>
    BY DEF vars, groupVars, given, splitVars, initVars
<1>2. GroupsInv'
    BY <1>1 DEF SetupInv, GroupsInv, Making, Forming, Formed, Devices, Controllers, TypeRank, DomainOf
<1>3. Sizes'
    BY <1>1 DEF SetupInv, Sizes
<1>4. SplitInv'
  <2>1. Members0' = Members0 /\ Others' = Others
      BY <1>1 DEF Members0, Others
  <2>2. QED
      BY <1>1, <2>1 DEF SetupInv, SplitInv, Splitting, SplitTypes, Dealing, Dealer, Dealt
<1>5. UsedIsReady'
  <2>1. /\ Members0' = Members0 /\ DevicePart' = DevicePart
        /\ \A r : HostPart(r)' = HostPart(r) /\ (IsController(r)' <=> IsController(r))
      BY <1>1 DEF Members0, DevicePart, HostPart, IsController
  <2>2. QED
      BY <1>1, <2>1 DEF SetupInv, UsedIsReady
<1>6. QED
    BY <1>2, <1>3, <1>4, <1>5 DEF SetupInv

-----------------------------------------------------------------------------
\* The inductive invariant of the setup.
THEOREM Invariance == Spec => []SetupInv
<1>1. Init => SetupInv
    BY InitEstablishes
<1>2. SetupInv /\ [Next]_vars => SetupInv'
  <2>1. SUFFICES ASSUME SetupInv, [Next]_vars PROVE SetupInv'
      OBVIOUS
  <2>2. CASE Distribute
      BY <2>1, <2>2, DistributeKeeps
  <2>3. ASSUME NEW g \in Procs, EnterGroup(g) PROVE SetupInv'
      BY <2>1, <2>3, EnterKeeps
  <2>4. ASSUME NEW hybrid \in BOOLEAN, ChooseBatches(hybrid) PROVE SetupInv'
      BY <2>1, <2>4, ChooseKeeps
  <2>5. ASSUME NEW suffix \in Endings, InitInferenceStrategy(suffix) PROVE SetupInv'
      BY <2>1, <2>5, StrategiesKeep
  <2>6. CASE ControllerStep
      BY <2>1, <2>6, ControllerKeeps
  <2>7. CASE WorkerStep
      BY <2>1, <2>7, WorkerKeeps
  <2>8. CASE UNCHANGED vars
      BY <2>1, <2>8, StutterKeeps
  <2>9. QED
      BY <2>1, <2>2, <2>3, <2>4, <2>5, <2>6, <2>7, <2>8 DEF Next, Enter
<1>3. QED
    BY <1>1, <1>2, PTL DEF Spec

\* "making sure the gpu master is rank 0": whatever the hosts look like, every rank
\* of createWorkgroups is in a group with one controller, which is its rank 0.
THEOREM OneController == Spec => []OneControllerFirst
<1>1. SetupInv => OneControllerFirst
    BY FormedHasOne DEF SetupInv
<1>2. QED
    BY <1>1, Invariance, PTL

\* The shares that the controller of a hybrid group sends are the even split of the
\* host work, in groups of every size and for all batches.
THEOREM EvenSplit == Spec => []SplitIsEven
<1>1. SetupInv => SplitIsEven
  <2>1. SUFFICES ASSUME SetupInv, NEW n \in 1 .. P, size = n, Splitting
                 PROVE  Split(n)!SplitIsEven
      BY DEF SplitIsEven
  <2>2. n \in Nat
      BY PlacementAssumption
  <2>3. pc[0] = "done" => IsSplit(cpuwork, batch, Others, hostWork)
      BY <2>1 DEF SetupInv, SplitInv, Dealer
  <2>4. Split(n)!Workers = Others
      BY <2>1 DEF Split!Workers, Others
  <2>5. QED
      BY <2>2, <2>3, <2>4, SplitIsTheSame DEF Split!SplitIsEven
<1>2. QED
    BY <1>1, Invariance, PTL

\* inference() runs no strategy that the constructor has not initialised, however
\* the work is split and whatever the model file is.
THEOREM UsedAreReady == Spec => []UsedIsReady
<1>1. SetupInv => UsedIsReady
    BY DEF SetupInv
<1>2. QED
    BY <1>1, Invariance, PTL

-----------------------------------------------------------------------------
\* While the domains are dealt out no group outgrows its share of the ranks, and in
\* the end no group is larger than another by two.
WithinCapacity ==
    stage \in {"home", "best"} =>
        \A g \in 0 .. Devices - 1 : Cardinality(Members(g)) <= Capacity(g)

BalanceInv == WithinCapacity /\ GroupsBalanced

\* Sets of ranks are finite.
LEMMA RanksAreFinite ==
    ASSUME NEW R \in SUBSET Procs
    PROVE  IsFiniteSet(R) /\ Cardinality(R) \in Nat /\ Cardinality(R) <= P
<1>1. IsFiniteSet(Procs) /\ Cardinality(Procs) = P
    BY PlacementAssumption, FS_Interval DEF Procs
<1>2. QED
    BY <1>1, FS_Subset, FS_CardinalityType

LEMMA CapacityFacts ==
    ASSUME Devices > 0
    PROVE  /\ P \div Devices \in Nat /\ P \div Devices >= 1
           /\ P % Devices \in 0 .. Devices - 1
           /\ P = Devices * (P \div Devices) + (P % Devices)
           /\ \A g \in 0 .. Devices - 1 : /\ Capacity(g) \in Nat /\ Capacity(g) >= 1
                                          /\ Capacity(g) <= (P \div Devices) + 1
                                          /\ Capacity(g) >= P \div Devices
<1>1. P \in Nat /\ Devices \in Nat /\ Devices > 0
    BY ControllersAreNumbered
<1>2. Devices <= P
  <2>1. Controllers \in SUBSET Procs
      BY DEF Controllers
  <2>2. QED
      BY <2>1, RanksAreFinite DEF Devices
<1>3. /\ P \div Devices \in Nat /\ P \div Devices >= 1
      /\ P % Devices \in 0 .. Devices - 1
      /\ P = Devices * (P \div Devices) + (P % Devices)
    BY <1>1, <1>2
<1>4. QED
    BY <1>3 DEF Capacity

\* The capacities of the groups add up to the number of ranks.
LEMMA CapacitiesFit ==
    ASSUME Devices > 0
    PROVE  SumOver([g \in 0 .. Devices - 1 |-> Capacity(g)], 0 .. Devices - 1) = P
<1> DEFINE cap  == [g \in 0 .. Devices - 1 |-> Capacity(g)]
           base == P \div Devices
           rest == P % Devices
           UpTo(m) == m * base + (IF m < rest THEN m ELSE rest)
           Bad  == {m \in 0 .. Devices : SumOver(cap, 0 .. m - 1) # UpTo(m)}
<1>1. /\ Devices \in Nat /\ P \in Nat /\ base \in Nat /\ rest \in 0 .. Devices - 1
      /\ P = Devices * base + rest
      /\ \A g \in 0 .. Devices - 1 : cap[g] = Capacity(g) /\ cap[g] \in Nat
    BY ControllersAreNumbered, CapacityFacts
<1>2. \A g \in 0 .. Devices - 1 : cap[g] = base + (IF g < rest THEN 1 ELSE 0)
    BY <1>1 DEF Capacity
<1> HIDE DEF cap, base, rest
<1>3. Bad = {}
  <2>1. SUFFICES ASSUME Bad # {} PROVE FALSE
      OBVIOUS
  <2>2. Bad \in SUBSET Nat
      BY <1>1
  <2>3. PICK m \in Bad : \A k \in Bad : m <= k
      BY <2>1, <2>2, LeastElement
  <2>4. m \in Nat /\ m <= Devices /\ SumOver(cap, 0 .. m - 1) # UpTo(m)
      BY <1>1, <2>3
  <2>5. CASE m = 0
    <3>1. 0 .. m - 1 = {}
        BY <2>5
    <3>2. SumOver(cap, 0 .. m - 1) = 0
        BY <3>1, FS_EmptySet, SumFacts
    <3>3. UpTo(m) = 0
        BY <1>1, <2>5
    <3>4. QED
        BY <2>4, <3>2, <3>3
  <2>6. CASE m # 0
    <3>1. /\ m - 1 \in Nat /\ m - 1 \in 0 .. Devices - 1 /\ m - 1 \in 0 .. Devices
          /\ (0 .. m - 1) \ {m - 1} = 0 .. (m - 1) - 1
          /\ m - 1 \in 0 .. m - 1
        BY <1>1, <2>4, <2>6
    <3>2. m - 1 \notin Bad
      <4> HIDE DEF Bad
      <4>1. ~(m <= m - 1)
          BY <2>4
      <4>2. QED
          BY <2>3, <4>1
    <3>3. SumOver(cap, 0 .. (m - 1) - 1) = UpTo(m - 1)
        BY <3>1, <3>2
    <3>4. IsFiniteSet(0 .. m - 1) /\ \A g \in 0 .. m - 1 : cap[g] \in Nat
      <4>1. \A g \in 0 .. m - 1 : g \in 0 .. Devices - 1
          BY <1>1, <2>4
      <4>2. 0 \in Int /\ m - 1 \in Int
          BY <2>4
      <4>3. IsFiniteSet(0 .. m - 1)
          BY <4>2, FS_Interval
      <4>4. QED
          BY <1>1, <4>1, <4>3
    <3>5. SumOver(cap, 0 .. m - 1) = cap[m - 1] + SumOver(cap, 0 .. (m - 1) - 1)
      <4>1. SumOver(cap, 0 .. m - 1) = cap[m - 1] + SumOver(cap, (0 .. m - 1) \ {m - 1})
          BY <3>1, <3>4, SumFacts
      <4>2. QED
          BY <3>1, <4>1
    <3>6. cap[m - 1] = base + (IF m - 1 < rest THEN 1 ELSE 0)
        BY <1>2, <3>1
    <3>7. m * base = (m - 1) * base + base /\ (m - 1) * base \in Nat
        BY <1>1, <2>4, <3>1
    <3>8. UpTo(m) = UpTo(m - 1) + cap[m - 1]
        BY <1>1, <2>4, <3>1, <3>6, <3>7
    <3>9. UpTo(m - 1) \in Nat /\ cap[m - 1] \in Nat
        BY <1>1, <3>1, <3>7
    <3>10. QED
        BY <2>4, <3>3, <3>5, <3>8, <3>9
  <2>7. QED
      BY <2>5, <2>6
<1>4. Devices \in 0 .. Devices
    BY <1>1
<1>5. SumOver(cap, 0 .. Devices - 1) = UpTo(Devices)
    BY <1>3, <1>4
<1>6. UpTo(Devices) = P
    BY <1>1
<1>7. QED
    BY <1>5, <1>6 DEF cap

\* When every rank has a group and no group is over its capacity, all are full.
LEMMA FullIsBalanced ==
    ASSUME Devices > 0, group \in [Procs -> 0 .. Devices - 1],
           \A g \in 0 .. Devices - 1 : Cardinality(Members(g)) <= Capacity(g)
    PROVE  \A f \in 0 .. Devices - 1, g \in 0 .. Devices - 1 :
               Cardinality(Members(f)) <= Cardinality(Members(g)) + 1
<1> DEFINE D    == 0 .. Devices - 1
           filled == [g \in D |-> Cardinality({r \in Procs : group[r] = g})]
           cap  == [g \in D |-> Capacity(g)]
<1>1. Devices \in Nat /\ P \in Nat /\ IsFiniteSet(D) /\ IsFiniteSet(Procs) /\ Cardinality(Procs) = P
    BY ControllersAreNumbered, FS_Interval DEF Procs
<1>2. \A g \in D : /\ filled[g] = Cardinality(Members(g)) /\ filled[g] \in Nat
                   /\ cap[g] = Capacity(g) /\ cap[g] \in Nat
                   /\ filled[g] <= cap[g]
  <2>1. \A g \in D : Members(g) \in SUBSET Procs /\ {r \in Procs : group[r] = g} = Members(g)
      BY DEF Members
  <2>2. \A g \in D : Cardinality(Members(g)) \in Nat
      BY <2>1, RanksAreFinite
  <2>3. QED
      BY <2>1, <2>2, CapacityFacts
<1>3. \A r \in Procs : group[r] \in D
    OBVIOUS
<1>4. P = SumOver(filled, D)
    BY <1>1, <1>3, CountByClass
<1>5. SumOver(cap, D) = P
    BY CapacitiesFit
<1> HIDE DEF filled, cap, D
<1>6. \A g \in D : filled[g] = cap[g]
  <2>1. SumOver(cap, D) <= SumOver(filled, D)
      BY <1>1, <1>4, <1>5
  <2>2. \A g \in D : filled[g] \in Nat /\ cap[g] \in Nat /\ filled[g] <= cap[g]
      BY <1>2
  <2>3. QED
      BY <1>1, <2>1, <2>2, SumsMeet
<1>7. \A g \in D : /\ Cardinality(Members(g)) \in Nat
                   /\ Cardinality(Members(g)) <= (P \div Devices) + 1
                   /\ Cardinality(Members(g)) >= P \div Devices
    BY <1>2, <1>6, CapacityFacts DEF D
<1>8. P \div Devices \in Nat
    BY CapacityFacts
<1>9. QED
    BY <1>7, <1>8 DEF D

\* Assign keeps to the room of a group.
LEMMA AssignFits ==
    ASSUME Forming, stage \in {"home", "best"}, WithinCapacity,
           NEW g \in 0 .. Devices - 1, NEW d, Assign(Unassigned(d), g), UNCHANGED device
    PROVE  \A f \in 0 .. Devices - 1 : Cardinality(Members(f)') <= Capacity(f)
<1> DEFINE ranks  == Unassigned(d)
           chosen == First(ranks, Room(g))
<1>1. /\ Devices > 0 /\ Devices \in Nat /\ group \in [Procs -> -1 .. Devices - 1]
      /\ \A f \in 0 .. Devices - 1 : Cardinality(Members(f)) <= Capacity(f)
    BY ControllersAreNumbered DEF Forming, WithinCapacity
<1>2. /\ ranks \in SUBSET Procs /\ ranks \in SUBSET Nat
      /\ \A r \in ranks : group[r] = -1
    BY DEF Unassigned, Procs
<1>3. group' = [r \in Procs |-> IF r \in chosen THEN g ELSE group[r]]
    BY DEF Assign, First, Position
<1>4. \A f \in 0 .. Devices - 1 : /\ IsFiniteSet(Members(f)) /\ Cardinality(Members(f)) \in Nat
                                  /\ Capacity(f) \in Nat
  <2>1. \A f \in 0 .. Devices - 1 : Members(f) \in SUBSET Procs
      BY DEF Members
  <2>2. QED
      BY <1>1, <2>1, RanksAreFinite, CapacityFacts
<1>5. Room(g) \in Nat /\ Capacity(g) = Cardinality(Members(g)) + Room(g)
    BY <1>1, <1>4 DEF Room
<1>6. /\ IsFiniteSet(chosen) /\ Cardinality(chosen) \in Nat /\ Cardinality(chosen) <= Room(g)
      /\ chosen \subseteq ranks
  <2>1. IsFiniteSet(ranks)
      BY <1>2, RanksAreFinite
  <2>2. chosen \subseteq ranks
      BY DEF First
  <2> HIDE DEF ranks
  <2>3. QED
      BY <1>2, <1>5, <2>1, <2>2, LowPositions
<1> HIDE DEF chosen, ranks
<1>7. Members(g)' = Members(g) \cup chosen
    BY <1>1, <1>2, <1>3, <1>6 DEF Members
<1>8. \A f \in 0 .. Devices - 1 : f # g => Members(f)' = Members(f)
  <2>1. \A f \in 0 .. Devices - 1 : f # -1
      BY <1>1
  <2>2. QED
      BY <1>2, <1>3, <1>6, <2>1 DEF Members
<1>9. Cardinality(Members(g) \cup chosen) <= Capacity(g)
  <2>1. /\ Cardinality(Members(g) \cup chosen)
             = Cardinality(Members(g)) + Cardinality(chosen) - Cardinality(Members(g) \cap chosen)
        /\ Cardinality(Members(g) \cap chosen) \in Nat
    <3>1. IsFiniteSet(Members(g) \cap chosen)
        BY <1>6, FS_Intersection
    <3>2. QED
        BY <1>4, <1>6, <3>1, FS_Union, FS_CardinalityType
  <2>2. QED
      BY <1>4, <1>5, <1>6, <2>1
<1>10. QED
    BY <1>1, <1>7, <1>8, <1>9

\* Dealt out in turn, the groups are balanced: one controller each, and the workers
\* in turn.
LEMMA InTurnIsBalanced ==
    ASSUME Devices > 0, NEW f \in 0 .. Devices - 1, NEW g \in 0 .. Devices - 1
    PROVE  Cardinality({r \in Procs : TypeRank(r) % Devices = f})
              <= Cardinality({r \in Procs : TypeRank(r) % Devices = g}) + 1
<1> DEFINE W == Procs \ Controllers
           Of(h) == {r \in W : Position(W, r) % Devices = h}
           All(h) == {r \in Procs : TypeRank(r) % Devices = h}
<1>1. /\ Devices \in Nat /\ Devices > 0 /\ IsFiniteSet(W) /\ W \in SUBSET Nat /\ W \in SUBSET Procs
      /\ Procs \subseteq Nat /\ Controllers \subseteq Procs
    BY ControllersAreNumbered, RanksAreFinite DEF Procs, Controllers
<1>2. ASSUME NEW r \in W PROVE TypeRank(r) = Position(W, r)
  <2>1. r \in Nat /\ r \in Procs /\ P \in Nat /\ r < P
      BY <1>1, ControllersAreNumbered DEF Procs
  <2>2. \A q : q \in 0 .. r - 1 <=> q \in Procs /\ q < r
      BY <2>1 DEF Procs
  <2>3. {q \in 0 .. r - 1 : q \in Controllers <=> r \in Controllers} = {q \in W : q < r}
      BY <2>2
  <2>4. QED
      BY <2>3 DEF TypeRank, Position
<1>3. ASSUME NEW h \in 0 .. Devices - 1
      PROVE  Cardinality(All(h)) = Cardinality(Of(h)) + 1 /\ Cardinality(Of(h)) \in Nat
  <2>1. PICK c \in Controllers : TypeRank(c) = h
      BY ControllersAreNumbered
  <2>2. ASSUME NEW e \in Controllers PROVE TypeRank(e) % Devices = h <=> e = c
    <3>1. TypeRank(e) \in 0 .. Devices - 1
        BY ControllersAreNumbered
    <3>2. TypeRank(e) % Devices = TypeRank(e)
        BY <1>1, <3>1
    <3>3. QED
        BY <2>1, <3>2, ControllersAreNumbered
  <2>3. All(h) = Of(h) \cup {c} /\ c \notin Of(h)
      BY <1>1, <1>2, <2>1, <2>2
  <2>4. IsFiniteSet(Of(h)) /\ Cardinality(Of(h)) \in Nat
    <3>1. Of(h) \in SUBSET Procs
        BY <1>1
    <3>2. QED
        BY <3>1, RanksAreFinite
  <2>5. Cardinality(Of(h) \cup {c}) = Cardinality(Of(h)) + 1
      BY <2>3, <2>4, FS_AddElement
  <2>6. QED
      BY <2>3, <2>4, <2>5
<1>4. Cardinality(Of(f)) <= Cardinality(Of(g)) + 1
  <2> HIDE DEF W
  <2>1. QED
      BY <1>1, DealtInTurn
<1>5. /\ Cardinality(All(f)) = Cardinality(Of(f)) + 1 /\ Cardinality(Of(f)) \in Nat
      /\ Cardinality(All(g)) = Cardinality(Of(g)) + 1 /\ Cardinality(Of(g)) \in Nat
    BY <1>3
<1> HIDE DEF Of, All
<1>6. Cardinality(All(f)) <= Cardinality(All(g)) + 1
    BY <1>4, <1>5
<1>7. QED
    BY <1>6 DEF All

LEMMA BalanceKept ==
    ASSUME GroupsInv, GroupsInv', BalanceInv, CreateWorkgroups
    PROVE  BalanceInv'
<1>1. Forming /\ Formed /\ Formed' /\ WithinCapacity
    BY DEF GroupsInv, BalanceInv
<1>2. ASSUME stage' \notin {"home", "best", "done"} PROVE BalanceInv'
    BY <1>2 DEF BalanceInv, WithinCapacity, GroupsBalanced
<1>3. ASSUME DiscoverGPUs \/ NodeControllers \/ AffineController \/ AffineDone PROVE BalanceInv'
  <2>1. stage' \notin {"home", "best", "done"}
      BY <1>3 DEF DiscoverGPUs, NodeControllers, AffineController, AffineDone
  <2>2. QED
      BY <1>2, <2>1
<1>4. ASSUME UNCHANGED device
      PROVE  /\ Controllers' = Controllers /\ Devices' = Devices
             /\ \A g : Capacity(g)' = Capacity(g) /\ TypeRank(g)' = TypeRank(g)
    BY <1>4 DEF Controllers, Devices, Capacity, TypeRank
<1>5. ASSUME NoDevices PROVE BalanceInv'
  <2>1. stage' = "done" /\ Devices' = 0
      BY <1>4, <1>5 DEF NoDevices
  <2>2. QED
      BY <2>1 DEF BalanceInv, WithinCapacity, GroupsBalanced
<1>6. ASSUME RoundRobinColor PROVE BalanceInv'
  <2>1. /\ stage' = "done" /\ Devices' = Devices /\ Devices > 0
        /\ group' = [r \in Procs |-> TypeRank(r) % Devices]
      BY <1>4, <1>6 DEF RoundRobinColor
  <2>2. \A g : Members(g)' = {r \in Procs : TypeRank(r) % Devices = g}
      BY <2>1 DEF Members
  <2>3. \A f \in 0 .. Devices - 1, g \in 0 .. Devices - 1 :
            Cardinality(Members(f)') <= Cardinality(Members(g)') + 1
      BY <2>1, <2>2, InTurnIsBalanced
  <2>4. QED
      BY <2>1, <2>3 DEF BalanceInv, WithinCapacity, GroupsBalanced
<1>7. ASSUME OwnGroups PROVE BalanceInv'
  <2>1. /\ stage' = "home" /\ Devices' = Devices /\ Devices > 0 /\ Devices \in Nat
        /\ group' = [r \in Procs |-> IF r \in Controllers THEN TypeRank(r) ELSE -1]
        /\ \A g : Capacity(g)' = Capacity(g)
      BY <1>4, <1>7, ControllersAreNumbered DEF OwnGroups
  <2>2. ASSUME NEW g \in 0 .. Devices - 1 PROVE Cardinality(Members(g)') <= Capacity(g)
    <3>1. PICK c \in Controllers : TypeRank(c) = g
        BY ControllersAreNumbered
    <3>2. g # -1
        BY <2>1
    <3>3. Members(g)' = {c}
        BY <2>1, <3>1, <3>2, ControllersAreNumbered DEF Members, Controllers
    <3>4. Cardinality({c}) = 1 /\ Capacity(g) \in Nat /\ Capacity(g) >= 1
        BY <2>1, CapacityFacts, FS_Singleton
    <3>5. QED
        BY <3>3, <3>4
  <2>3. QED
      BY <2>1, <2>2 DEF BalanceInv, WithinCapacity, GroupsBalanced
<1>8. ASSUME stage \in {"home", "best"}, stage' \in {"home", "best"}, UNCHANGED device,
             UNCHANGED group \/ \E g \in 0 .. Devices - 1 : \E d : Assign(Unassigned(d), g)
      PROVE  BalanceInv'
  <2>1. Devices' = Devices /\ \A g : Capacity(g)' = Capacity(g)
      BY <1>4, <1>8
  <2>2. \A f \in 0 .. Devices - 1 : Cardinality(Members(f)') <= Capacity(f)
    <3>1. CASE UNCHANGED group
        BY <1>1, <1>8, <3>1 DEF WithinCapacity, Members
    <3>2. CASE \E g \in 0 .. Devices - 1 : \E d : Assign(Unassigned(d), g)
        BY <1>1, <1>8, <3>2, AssignFits
    <3>3. QED
        BY <1>8, <3>1, <3>2
  <2>3. QED
      BY <1>8, <2>1, <2>2 DEF BalanceInv, WithinCapacity, GroupsBalanced
<1>9. ASSUME HomeDomain PROVE BalanceInv'
  <2> DEFINE home == {g \in 0 .. Devices - 1 : DomainOf(ControllerOf(g)) = Current}
  <2>1. stage \in {"home", "best"} /\ stage' \in {"home", "best"} /\ UNCHANGED device
      BY <1>9 DEF HomeDomain
  <2>2. CASE home = {}
      BY <1>8, <1>9, <2>1, <2>2 DEF HomeDomain
  <2>3. CASE home # {}
    <3>1. home \in SUBSET Nat /\ IsFiniteSet(home)
      <4>1. Devices \in Nat
          BY ControllersAreNumbered
      <4>2. IsFiniteSet(0 .. Devices - 1)
          BY <4>1, FS_Interval
      <4>3. QED
          BY <4>1, <4>2, FS_Subset
    <3>2. \E g \in home : \A f \in home : f <= g
        BY <2>3, <3>1, GreatestElement
    <3>3. PICK g \in 0 .. Devices - 1 : Assign(Unassigned(Current), g)
        BY <1>9, <2>3, <3>2 DEF HomeDomain
    <3>4. QED
        BY <1>8, <2>1, <3>3
  <2>4. QED
      BY <2>2, <2>3
<1>10. ASSUME BestGroup PROVE BalanceInv'
  <2> DEFINE open == {g \in 0 .. Devices - 1 : Room(g) > 0}
  <2>1. stage \in {"home", "best"} /\ stage' \in {"home", "best"} /\ UNCHANGED device
      BY <1>10 DEF BestGroup
  <2>2. CASE open = {}
      BY <1>8, <1>10, <2>1, <2>2 DEF BestGroup
  <2>3. CASE open # {}
    <3>1. placement \in Placements /\ Unassigned(Current) # {}
        BY <1>10 DEF BestGroup, GroupsInv, Making
    <3>2. \E g \in open : \A f \in open \ {g} : Before(Badness(g, Current), Badness(f, Current))
        BY <2>3, <3>1, BestIsOpen
    <3>3. PICK g \in 0 .. Devices - 1 : Assign(Unassigned(Current), g)
        BY <1>10, <2>3, <3>2 DEF BestGroup
    <3>4. QED
        BY <1>8, <2>1, <3>3
  <2>4. QED
      BY <2>2, <2>3
<1>11. ASSUME NextDomain PROVE BalanceInv'
  <2>1. /\ stage = "best" /\ stage' \in {"home", "done"}
        /\ UNCHANGED << device, group >>
      BY <1>11 DEF NextDomain
  <2>2. CASE stage' = "home"
      BY <1>8, <2>1, <2>2
  <2>3. CASE stage' = "done"
    <3>1. Devices' = Devices /\ Devices > 0 /\ \A g : Members(g)' = Members(g)
        BY <1>1, <1>4, <2>1 DEF Forming, Members
    <3>2. group \in [Procs -> 0 .. Devices - 1]
        BY <1>1, <2>1, <2>3, <3>1 DEF Formed
    <3>3. \A g \in 0 .. Devices - 1 : Cardinality(Members(g)) <= Capacity(g)
        BY <1>1, <2>1 DEF WithinCapacity
    <3>4. \A f \in 0 .. Devices - 1, g \in 0 .. Devices - 1 :
              Cardinality(Members(f)) <= Cardinality(Members(g)) + 1
        BY <3>1, <3>2, <3>3, FullIsBalanced
    <3>5. QED
        BY <2>3, <3>1, <3>4 DEF BalanceInv, WithinCapacity, GroupsBalanced
  <2>4. QED
      BY <2>1, <2>2, <2>3
<1>12. QED
    BY <1>3, <1>5, <1>6, <1>7, <1>9, <1>10, <1>11 DEF CreateWorkgroups

\* No controller serves two ranks more than another: dealt out in turn or domain by
\* domain, with the NUMA nodes of every host.
THEOREM Balanced == Spec => []GroupsBalanced
<1>1. Init => BalanceInv
    BY DEF Init, GroupInit, BalanceInv, WithinCapacity, GroupsBalanced
<1>2. SetupInv /\ SetupInv' /\ BalanceInv /\ [Next]_vars => BalanceInv'
  <2>1. SUFFICES ASSUME SetupInv, SetupInv', BalanceInv, [Next]_vars PROVE BalanceInv'
      OBVIOUS
  <2>2. CASE Distribute
      BY <2>1, <2>2, BalanceKept DEF SetupInv, Distribute
  <2>3. CASE UNCHANGED vars
    <3>1. UNCHANGED << stage, device, group >>
        BY <2>3 DEF vars, groupVars
    <3>2. QED
        BY <2>1, <3>1 DEF BalanceInv, WithinCapacity, GroupsBalanced, Capacity, Members, Devices, Controllers
  <2>4. CASE Enter \/ ControllerStep \/ WorkerStep
    <3>1. stage' \in {"enter", "split", "ready", "died"}
      <4>1. CASE Enter
          BY <4>1 DEF Enter, EnterGroup, Forget, ChooseBatches, InitInferenceStrategy
      <4>2. CASE ControllerStep \/ WorkerStep
          BY <4>2 DEF ControllerStep, WorkerStep, groupVars
      <4>3. QED
          BY <2>4, <4>1, <4>2
    <3>2. QED
        BY <3>1 DEF BalanceInv, WithinCapacity, GroupsBalanced
  <2>5. QED
      BY <2>1, <2>2, <2>3, <2>4 DEF Next
<1>3. BalanceInv => GroupsBalanced
    BY DEF BalanceInv
<1>4. QED
    BY <1>1, <1>2, <1>3, Invariance, PTL DEF Spec

-----------------------------------------------------------------------------
\* The elements of the ranks below r, when the ranks contribute part.
Below(part, r) == Elements * SumOver(part, 0 .. r - 1)

LEMMA BelowFacts ==
    ASSUME NEW n \in Nat, NEW part, \A r \in 0 .. n - 1 : part[r] \in Nat
    PROVE  /\ Below(part, 0) = 0
           /\ \A r \in 0 .. n : Below(part, r) \in Nat
           /\ \A r \in 0 .. n - 1 : /\ Below(part, r + 1) = Below(part, r) + Elements * part[r]
                                    /\ Elements * part[r] \in Nat
           /\ \A q \in 0 .. n, r \in 0 .. n : q <= r => Below(part, q) <= Below(part, r)
<1>0. Elements \in Nat
    BY SetupAssumption
<1>1. \A r \in 0 .. n : IsFiniteSet(0 .. r - 1) /\ \A q \in 0 .. r - 1 : part[q] \in Nat
  <2>1. TAKE r \in 0 .. n
  <2>2. 0 \in Int /\ r - 1 \in Int
      OBVIOUS
  <2>3. \A q \in 0 .. r - 1 : q \in 0 .. n - 1
      OBVIOUS
  <2>4. QED
      BY <2>2, <2>3, FS_Interval
<1>2. \A r \in 0 .. n : SumOver(part, 0 .. r - 1) \in Nat
    BY <1>1, SumFacts
<1>3. \A r \in 0 .. n : Below(part, r) \in Nat
    BY <1>0, <1>2 DEF Below
<1>4. Below(part, 0) = 0
  <2>1. 0 .. 0 - 1 = {}
      OBVIOUS
  <2>2. SumOver(part, {}) = 0
      BY FS_EmptySet, SumFacts
  <2>3. QED
      BY <1>0, <2>1, <2>2 DEF Below
<1>5. ASSUME NEW r \in 0 .. n - 1
      PROVE  Below(part, r + 1) = Below(part, r) + Elements * part[r] /\ Elements * part[r] \in Nat
  <2>1. r + 1 \in 0 .. n /\ r \in 0 .. n /\ r \in 0 .. (r + 1) - 1
        /\ (0 .. (r + 1) - 1) \ {r} = 0 .. r - 1
      OBVIOUS
  <2>2. SumOver(part, 0 .. (r + 1) - 1) = part[r] + SumOver(part, 0 .. r - 1)
    <3>1. SumOver(part, 0 .. (r + 1) - 1) = part[r] + SumOver(part, (0 .. (r + 1) - 1) \ {r})
        BY <1>1, <2>1, SumFacts
    <3>2. QED
        BY <2>1, <3>1
  <2>3. PICK a \in Nat, b \in Nat : a = part[r] /\ b = SumOver(part, 0 .. r - 1)
      BY <1>2, <2>1
  <2>4. Elements * (a + b) = Elements * b + Elements * a /\ Elements * a \in Nat
      BY <1>0
  <2>5. QED
      BY <2>2, <2>3, <2>4 DEF Below
<1>6. ASSUME NEW q \in 0 .. n, NEW r \in 0 .. n, q <= r
      PROVE  Below(part, q) <= Below(part, r)
  <2> DEFINE Bad == {m \in q .. n : ~(Below(part, q) <= Below(part, m))}
  <2>1. SUFFICES ASSUME Bad # {} PROVE FALSE
      BY <1>6
  <2>2. Bad \in SUBSET Nat
      OBVIOUS
  <2>3. PICK m \in Bad : \A k \in Bad : m <= k
      BY <2>1, <2>2, LeastElement
  <2>4. m \in q .. n /\ ~(Below(part, q) <= Below(part, m))
      BY <2>3
  <2>5. m # q
      BY <1>3, <2>4
  <2>6. m - 1 \in q .. n /\ m - 1 \in 0 .. n - 1 /\ (m - 1) + 1 = m
      BY <2>4, <2>5
  <2>7. m - 1 \notin Bad
    <3> HIDE DEF Bad
    <3>1. ~(m <= m - 1)
        BY <2>4
    <3>2. QED
        BY <2>3, <3>1
  <2>8. Below(part, q) <= Below(part, m - 1)
      BY <2>6, <2>7
  <2>9. Below(part, m) = Below(part, m - 1) + Elements * part[m - 1] /\ Elements * part[m - 1] \in Nat
      BY <1>5, <2>6
  <2>10. Below(part, q) \in Nat /\ Below(part, m - 1) \in Nat
      BY <1>3, <2>6
  <2>11. QED
      BY <2>4, <2>8, <2>9, <2>10
<1>7. QED
    BY <1>3, <1>4, <1>5, <1>6

\* The displacements of what fits an int are the elements below a rank.
LEMMA DisplsAreBelow ==
    ASSUME size \in Nat, NEW part, \A r \in Members0 : part[r] \in Nat,
           Below(part, size) < IntBound,
           NEW counts, \A r \in Members0 : counts[r] = Elements * part[r]
    PROVE  \A r \in Members0 : Displs(counts)[r] = Below(part, r)
<1> DEFINE Solves(f) == f = [r \in Members0 |-> IF r = 0 THEN 0 ELSE Int32(f[r - 1] + counts[r - 1])]
           pre == [r \in Members0 |-> Below(part, r)]
<1>1. /\ Below(part, 0) = 0
      /\ \A r \in 0 .. size : Below(part, r) \in Nat
      /\ \A r \in Members0 : Below(part, r + 1) = Below(part, r) + Elements * part[r]
      /\ \A r \in 0 .. size : Below(part, r) <= Below(part, size)
  <2>1. PICK n \in Nat : n = size
      OBVIOUS
  <2>2. Members0 = 0 .. n - 1 /\ \A r \in 0 .. n - 1 : part[r] \in Nat
      BY <2>1 DEF Members0
  <2>3. n \in 0 .. n
      OBVIOUS
  <2>4. /\ Below(part, 0) = 0
        /\ \A r \in 0 .. n : Below(part, r) \in Nat
        /\ \A r \in 0 .. n - 1 : Below(part, r + 1) = Below(part, r) + Elements * part[r]
        /\ \A q \in 0 .. n, r \in 0 .. n : q <= r => Below(part, q) <= Below(part, r)
      BY <2>2, BelowFacts
  <2>5. \A r \in 0 .. n : r <= n
      OBVIOUS
  <2>6. QED
      BY <2>1, <2>2, <2>3, <2>4, <2>5
<1>2. ASSUME NEW r \in Members0, r # 0
      PROVE  /\ r - 1 \in Members0 /\ r - 1 \in Nat
             /\ Int32(Below(part, r - 1) + counts[r - 1]) = Below(part, r)
  <2>1. r - 1 \in Members0 /\ r - 1 \in Nat /\ (r - 1) + 1 = r /\ r \in 0 .. size
      BY <1>2 DEF Members0
  <2>2. Below(part, r - 1) + counts[r - 1] = Below(part, r)
      BY <1>1, <2>1
  <2>3. Below(part, r) \in Nat /\ Below(part, r) < IntBound
      BY <1>1, <2>1, SetupAssumption
  <2>4. QED
      BY <2>1, <2>2, <2>3, Int32Keeps
<1>3. Solves(pre)
  <2>1. ASSUME NEW r \in Members0
        PROVE  pre[r] = IF r = 0 THEN 0 ELSE Int32(pre[r - 1] + counts[r - 1])
    <3>1. CASE r = 0
        BY <1>1, <3>1
    <3>2. CASE r # 0
        BY <1>2, <3>2
    <3>3. QED
        BY <3>1, <3>2
  <2> DEFINE rhs == [r \in Members0 |-> IF r = 0 THEN 0 ELSE Int32(pre[r - 1] + counts[r - 1])]
  <2>2. pre = [r \in Members0 |-> pre[r]] /\ \A r \in Members0 : pre[r] = rhs[r]
      BY <2>1
  <2> HIDE DEF pre
  <2>3. pre = rhs
      BY <2>2
  <2>4. QED
      BY <2>3
<1>4. Displs(counts) = CHOOSE f : Solves(f)
    BY DEF Displs
<1>5. Solves(Displs(counts))
  <2> HIDE DEF Solves, pre
  <2>1. \E f : Solves(f)
      BY <1>3
  <2>2. QED
      BY <1>4, <2>1
<1> DEFINE d == Displs(counts)
           Bad == {r \in Members0 : d[r] # Below(part, r)}
<1>6. \A r \in Members0 : d[r] = IF r = 0 THEN 0 ELSE Int32(d[r - 1] + counts[r - 1])
  <2> HIDE DEF d
  <2>1. d = [r \in Members0 |-> IF r = 0 THEN 0 ELSE Int32(d[r - 1] + counts[r - 1])]
      BY <1>5 DEF d
  <2>2. QED
      BY <2>1
<1> HIDE DEF d
<1>7. SUFFICES ASSUME Bad # {} PROVE FALSE
    BY DEF d
<1>8. Bad \in SUBSET Nat
    BY DEF Members0
<1>9. PICK m \in Bad : \A k \in Bad : m <= k
    BY <1>7, <1>8, LeastElement
<1>10. m \in Members0 /\ m \in Nat /\ d[m] # Below(part, m)
    BY <1>8, <1>9
<1>11. m # 0
    BY <1>1, <1>6, <1>10
<1>12. m - 1 \in Members0 /\ Int32(Below(part, m - 1) + counts[m - 1]) = Below(part, m)
    BY <1>2, <1>10, <1>11
<1>13. m - 1 \notin Bad
  <2> HIDE DEF Bad
  <2>1. ~(m <= m - 1)
      BY <1>10
  <2>2. QED
      BY <1>9, <2>1
<1>14. d[m - 1] = Below(part, m - 1)
    BY <1>12, <1>13
<1>15. d[m] = Int32(d[m - 1] + counts[m - 1])
    BY <1>6, <1>10, <1>11
<1>16. QED
    BY <1>10, <1>12, <1>14, <1>15

\* A layout that fits an int tiles the buffer of the controller.
LEMMA LayoutTiles ==
    ASSUME size \in Nat, size > 0, NEW part, \A r \in Members0 : part[r] \in Nat,
           Elements * SamplesOf(part) < IntBound, layout = Layout(part)
    PROVE  LET total      == Elements * SamplesOf(part)
               Segment(r) == layout.displs[r] .. layout.displs[r] + layout.counts[r] - 1
           IN  /\ layout.samples * Elements = total
               /\ UNION {Segment(r) : r \in Members0} = 0 .. total - 1
               /\ \A r \in Members0 :
                     /\ Cardinality(Segment(r)) = Elements * part[r]
                     /\ \A q \in 0 .. r - 1 : layout.displs[q] + layout.counts[q] <= layout.displs[r]
<1> DEFINE total      == Elements * SamplesOf(part)
           Segment(r) == layout.displs[r] .. layout.displs[r] + layout.counts[r] - 1
           pre(r)     == Below(part, r)
<1>1. PICK n \in Nat : n = size /\ n > 0
    OBVIOUS
<1>2. /\ Members0 = 0 .. n - 1 /\ \A r \in 0 .. n - 1 : part[r] \in Nat
      /\ IsFiniteSet(Members0) /\ Elements \in Nat /\ Elements > 0
  <2>1. 0 \in Int /\ n - 1 \in Int /\ Members0 = 0 .. n - 1
      BY <1>1 DEF Members0
  <2>2. QED
      BY <2>1, FS_Interval, SetupAssumption
<1>3. /\ pre(0) = 0
      /\ \A r \in 0 .. n : pre(r) \in Nat
      /\ \A r \in 0 .. n - 1 : /\ pre(r + 1) = pre(r) + Elements * part[r]
                               /\ Elements * part[r] \in Nat
      /\ \A q \in 0 .. n, r \in 0 .. n : q <= r => pre(q) <= pre(r)
    BY <1>2, BelowFacts
<1>4. pre(n) = total /\ SamplesOf(part) \in Nat
  <2>1. SamplesOf(part) = SumOver(part, Members0)
      BY DEF SamplesOf, SumOver
  <2>2. SumOver(part, Members0) \in Nat
      BY <1>2, SumFacts
  <2>3. QED
      BY <1>2, <2>1, <2>2 DEF Below
<1> HIDE DEF pre
<1>5. total \in Nat /\ total < IntBound /\ \A r \in 0 .. n : pre(r) <= total
  <2>1. n \in 0 .. n /\ \A r \in 0 .. n : r <= n
      OBVIOUS
  <2>2. QED
      BY <1>3, <1>4, <2>1
<1>6. ASSUME NEW r \in Members0 PROVE layout.counts[r] = Elements * part[r]
  <2>1. r \in 0 .. n - 1 /\ r \in 0 .. n /\ r + 1 \in 0 .. n
      BY <1>2
  <2>2. PICK c \in Nat : c = Elements * part[r]
      BY <1>3, <2>1
  <2>3. c < IntBound
    <3>1. pre(r + 1) = pre(r) + c /\ pre(r) \in Nat /\ pre(r + 1) <= total
        BY <1>3, <1>5, <2>1, <2>2
    <3>2. QED
        BY <1>5, <2>2, <3>1, SetupAssumption
  <2>4. part[r] * Elements = c
    <3>1. part[r] \in Nat
        BY <1>2, <2>1
    <3>2. QED
        BY <1>2, <2>2, <3>1
  <2>5. layout.counts = [q \in Members0 |-> Int32(part[q] * Elements)]
      BY DEF Layout
  <2>6. QED
      BY <2>2, <2>3, <2>4, <2>5, Int32Keeps
<1>7. ASSUME NEW r \in Members0 PROVE layout.displs[r] = pre(r)
  <2>1. layout.displs = Displs(layout.counts)
      BY DEF Layout
  <2>2. Below(part, size) < IntBound
      BY <1>1, <1>4, <1>5 DEF pre
  <2>3. QED
      BY <1>2, <1>6, <2>1, <2>2, DisplsAreBelow DEF pre
<1>8. layout.samples * Elements = total
  <2>1. PICK m \in Nat : m = SamplesOf(part)
      BY <1>4
  <2>2. m <= Elements * m
      BY <1>2
  <2>3. m < IntBound
      BY <1>5, <2>1, <2>2, SetupAssumption
  <2>4. layout.samples = m
    <3>1. layout.samples = Int32(SamplesOf(part))
        BY DEF Layout
    <3>2. QED
        BY <2>1, <2>3, <3>1, Int32Keeps
  <2>5. m * Elements = Elements * m
      BY <1>2
  <2>6. QED
      BY <2>1, <2>4, <2>5
<1>9. ASSUME NEW r \in Members0
      PROVE  /\ Segment(r) = pre(r) .. pre(r + 1) - 1
             /\ pre(r) \in Nat /\ pre(r + 1) \in Nat /\ pre(r) <= pre(r + 1)
             /\ pre(r + 1) = pre(r) + Elements * part[r] /\ Elements * part[r] \in Nat
             /\ layout.displs[r] + layout.counts[r] = pre(r + 1)
  <2>1. r \in 0 .. n - 1 /\ r \in 0 .. n /\ r + 1 \in 0 .. n
      BY <1>2
  <2>2. /\ pre(r) \in Nat /\ pre(r + 1) \in Nat
        /\ pre(r + 1) = pre(r) + Elements * part[r] /\ Elements * part[r] \in Nat
      BY <1>3, <2>1
  <2>3. QED
      BY <1>6, <1>7, <2>2
<1>10. UNION {Segment(r) : r \in Members0} = 0 .. total - 1
  <2>1. ASSUME NEW x \in 0 .. total - 1 PROVE \E r \in Members0 : x \in Segment(r)
    <3> DEFINE Above == {r \in 0 .. n : x < pre(r)}
    <3>1. n \in Above /\ Above \in SUBSET Nat
        BY <1>4, <1>5
    <3>2. PICK m \in Above : \A k \in Above : m <= k
        BY <3>1, LeastElement
    <3>3. m \in 0 .. n /\ x < pre(m) /\ m # 0
        BY <1>3, <3>2
    <3>4. m - 1 \in 0 .. n /\ m - 1 \in Members0 /\ (m - 1) + 1 = m
        BY <1>2, <3>3
    <3>5. m - 1 \notin Above
      <4> HIDE DEF Above
      <4>1. ~(m <= m - 1)
          BY <3>3
      <4>2. QED
          BY <3>2, <4>1
    <3>6. ~(x < pre(m - 1)) /\ pre(m - 1) \in Nat /\ pre(m) \in Nat
        BY <1>3, <3>3, <3>4, <3>5
    <3>7. x \in pre(m - 1) .. pre(m) - 1
        BY <3>3, <3>6
    <3>8. QED
        BY <1>9, <3>4, <3>7
  <2>2. ASSUME NEW r \in Members0, NEW x \in Segment(r) PROVE x \in 0 .. total - 1
    <3>1. x \in pre(r) .. pre(r + 1) - 1 /\ pre(r) \in Nat /\ pre(r + 1) \in Nat
        BY <1>9, <2>2
    <3>2. pre(r + 1) <= total
        BY <1>2, <1>5
    <3>3. QED
        BY <1>5, <3>1, <3>2
  <2> HIDE DEF Segment, total
  <2>3. QED
      BY <2>1, <2>2
<1>11. ASSUME NEW r \in Members0
       PROVE  /\ Cardinality(Segment(r)) = Elements * part[r]
              /\ \A q \in 0 .. r - 1 : layout.displs[q] + layout.counts[q] <= layout.displs[r]
  <2>1. PICK a \in Nat, b \in Nat : a = pre(r) /\ b = pre(r + 1) /\ a <= b /\ b - a = Elements * part[r]
      BY <1>9
  <2>2. Cardinality(a .. b - 1) = b - a
    <3>1. PICK c \in Int : c = b - 1
        OBVIOUS
    <3>2. Cardinality(a .. c) = IF a > c THEN 0 ELSE c - a + 1
        BY FS_Interval
    <3>3. QED
        BY <2>1, <3>1, <3>2
  <2>3. Cardinality(Segment(r)) = Elements * part[r]
      BY <1>9, <2>1, <2>2
  <2>4. ASSUME NEW q \in 0 .. r - 1
        PROVE  layout.displs[q] + layout.counts[q] <= layout.displs[r]
    <3>1. q \in Members0 /\ q + 1 \in 0 .. n /\ r \in 0 .. n /\ q + 1 <= r
        BY <1>2
    <3>2. pre(q + 1) <= pre(r)
        BY <1>3, <3>1
    <3>3. QED
        BY <1>7, <1>9, <3>1, <3>2
  <2>5. QED
      BY <2>3, <2>4
<1>12. QED
    BY <1>8, <1>10, <1>11

-----------------------------------------------------------------------------
\* A rank is never told to keep more samples on its host than it has.
SharesFit ==
    Splitting =>
        /\ \E S : sent \in [Members0 -> S]
        /\ \A r \in Members0 : sent[r] # << -1, -1 >> => sent[r][1] \in 0 .. batch[r]
        /\ \A r \in Members0 : pc[r] = "done" => share[r][1] \in 0 .. batch[r]

LayoutIsDevicePart ==
    stage = "ready" =>
        /\ \A r \in Members0 : pc[r] = "done"
        /\ onDevice => layout = Layout(DevicePart)

\* The controller's steps.
LEMMA SharesOfController ==
    ASSUME SetupInv, SharesFit, ControllerStep
    PROVE  SharesFit'
<1>1. PICK n \in 1 .. P : size = n /\ Split(n)!Controller
    BY ControllerDoes
<1>2. stage = "split" /\ stage' = "split" /\ UNCHANGED << size, onDevice >>
    BY ControllerDoes DEF groupVars
<1>3. /\ Sizes /\ SplitTypes /\ Dealing /\ n \in Nat
      /\ 0 \in Members0 /\ Others \subseteq Members0 /\ Members0' = Members0
      /\ \A r \in Members0 : r # 0 => r \in Others
  <2>1. Sizes /\ SplitTypes /\ Dealing /\ n \in Nat
      BY <1>2, PlacementAssumption DEF SetupInv, SplitInv, Splitting
  <2>2. /\ size \in Nat /\ 0 \in Members0 /\ Others \subseteq Members0 /\ Members0' = Members0
      BY <1>2, <2>1, Group DEF Members0
  <2>3. QED
      BY <2>1, <2>2 DEF Members0, Others
<1>4. /\ \E S : sent \in [Members0 -> S]
      /\ \A r \in Members0 : sent[r] # << -1, -1 >> => sent[r][1] \in 0 .. batch[r]
      /\ \A r \in Members0 : pc[r] = "done" => share[r][1] \in 0 .. batch[r]
    BY <1>2 DEF SharesFit, Splitting
<1>5. CASE ~Split(n)!SendShares
  <2>1. /\ UNCHANGED << batch, share, sent >>
        /\ \/ UNCHANGED pc
           \/ \E label \in {"base", "give", "fault"} : pc' = [pc EXCEPT ![0] = label]
      BY <1>1, <1>5 DEF Split!Controller, Split!GatherBatches, Split!AssignBase, Split!GiveOne,
                        Split!NextRound, Split!Goto
  <2>2. \A r \in Members0 : pc'[r] = "done" => pc[r] = "done"
    <3>1. PICK S : pc \in [Members0 -> S]
        BY <1>3 DEF SplitTypes
    <3>2. QED
        BY <2>1, <3>1
  <2>3. QED
      BY <1>3, <1>4, <2>1, <2>2 DEF SharesFit
<1>6. CASE Split(n)!SendShares
  <2>1. /\ pc[0] = "give" /\ (remaining = 0 \/ (i = size /\ ~anyGiven))
        /\ share' = [share EXCEPT ![0] = << 0, batch[0] >>]
        /\ pc' = [pc EXCEPT ![0] = "done"]
        /\ UNCHANGED batch
      BY <1>1, <1>3, <1>6, SendDoes
  <2>2. sent' = [r \in Members0 |-> IF r = 0 THEN << -1, -1 >>
                                    ELSE << cpuwork[r], batch[r] - cpuwork[r] >>]
      BY <1>1, <1>6 DEF Split!SendShares, Split!Ranks, Split!None, Members0
  <2>3. IsSplit(cpuwork, batch, Others, hostWork)
      BY <1>2, <1>3, <2>1, DealtIsSplit
  <2>4. \A r \in Members0 : sent'[r] # << -1, -1 >> => sent'[r][1] \in 0 .. batch[r]
      BY <1>3, <2>2, <2>3 DEF IsSplit
  <2>5. \E S : sent' \in [Members0 -> S]
    <3>1. sent' \in [Members0 -> {<< -1, -1 >>} \cup {<< cpuwork[r], batch[r] - cpuwork[r] >> : r \in Members0}]
        BY <2>2
    <3>2. QED
        BY <3>1
  <2>6. ASSUME NEW r \in Members0, pc'[r] = "done" PROVE share'[r][1] \in 0 .. batch[r]
    <3>1. PICK S, T : pc \in [Members0 -> S] /\ share \in [Members0 -> T]
        BY <1>3 DEF SplitTypes
    <3>2. CASE r = 0
      <4>1. share'[0] = << 0, batch[0] >>
          BY <1>3, <2>1, <3>1
      <4>2. batch[0] \in Nat
          BY <1>3, SetupAssumption DEF SplitTypes
      <4>3. QED
          BY <3>2, <4>1, <4>2
    <3>3. CASE r # 0
      <4>1. share'[r] = share[r] /\ pc[r] = "done"
          BY <2>1, <2>6, <3>1, <3>3
      <4>2. QED
          BY <1>4, <4>1
    <3>4. QED
        BY <3>2, <3>3
  <2>7. QED
      BY <1>3, <2>1, <2>4, <2>5, <2>6 DEF SharesFit
<1>7. QED
    BY <1>5, <1>6

\* The workers' steps.
LEMMA SharesOfWorker ==
    ASSUME SetupInv, SharesFit, WorkerStep
    PROVE  SharesFit'
<1>1. PICK n \in 1 .. P : /\ size = n /\ stage = "split"
                          /\ \E r \in 1 .. n - 1 : Split(n)!Worker(r)
                          /\ UNCHANGED << groupVars, size, onDevice, initVars >>
    BY DEF WorkerStep
<1>2. PICK r \in 1 .. n - 1 : Split(n)!Worker(r)
    BY <1>1
<1>3. /\ stage' = "split" /\ Members0' = Members0 /\ r \in Members0
      /\ SplitTypes
  <2>1. Members0 = 0 .. n - 1
      BY <1>1 DEF Members0
  <2>2. QED
      BY <1>1, <2>1 DEF groupVars, Members0, SetupInv, SplitInv, Splitting
<1>4. /\ \E S : sent \in [Members0 -> S]
      /\ \A q \in Members0 : sent[q] # << -1, -1 >> => sent[q][1] \in 0 .. batch[q]
      /\ \A q \in Members0 : pc[q] = "done" => share[q][1] \in 0 .. batch[q]
    BY <1>1 DEF SharesFit, Splitting
<1>5. PICK S, T, U : /\ pc \in [Members0 -> S] /\ share \in [Members0 -> T]
                     /\ sent \in [Members0 -> U]
    BY <1>3, <1>4 DEF SplitTypes
<1>6. CASE Split(n)!ContributeBatch(r)
  <2>1. /\ pc' = [pc EXCEPT ![r] = "recv"]
        /\ UNCHANGED << batch, share, sent >>
      BY <1>6 DEF Split!ContributeBatch, Split!Goto
  <2>2. \A q \in Members0 : pc'[q] = "done" => pc[q] = "done"
      BY <1>5, <2>1
  <2>3. QED
      BY <1>3, <1>4, <2>1, <2>2 DEF SharesFit
<1>7. CASE Split(n)!ReceiveShare(r)
  <2>1. /\ sent[r] # << -1, -1 >>
        /\ share' = [share EXCEPT ![r] = sent[r]]
        /\ sent' = [sent EXCEPT ![r] = << -1, -1 >>]
        /\ pc' = [pc EXCEPT ![r] = "done"]
        /\ UNCHANGED batch
      BY <1>7 DEF Split!ReceiveShare, Split!Goto, Split!None
  <2>2. \E V : sent' \in [Members0 -> V]
    <3>1. sent' \in [Members0 -> U \cup {<< -1, -1 >>}]
        BY <1>5, <2>1
    <3>2. QED
        BY <3>1
  <2>3. \A q \in Members0 : sent'[q] # << -1, -1 >> => sent'[q][1] \in 0 .. batch[q]
      BY <1>4, <1>5, <2>1
  <2>4. \A q \in Members0 : pc'[q] = "done" => share'[q][1] \in 0 .. batch[q]
      BY <1>3, <1>4, <1>5, <2>1
  <2>5. QED
      BY <1>3, <2>1, <2>2, <2>3, <2>4 DEF SharesFit
<1>8. QED
    BY <1>2, <1>6, <1>7 DEF Split!Worker

\* Whoever is done has a share that fits, from the first step on.
LEMMA SharesOfChoice ==
    ASSUME SetupInv, NEW hybrid \in BOOLEAN, ChooseBatches(hybrid)
    PROVE  SharesFit'
<1>1. /\ stage = "enter" /\ stage' = "split"
      /\ batch' \in [Members0 -> 0 .. MaxBatch]
      /\ sent' = [r \in Members0 |-> << -1, -1 >>]
      /\ IF hybrid
         THEN pc' = [r \in Members0 |-> "gather"]
         ELSE share' = [r \in Members0 |->
                          IF onDevice THEN << 0, batch'[r] >> ELSE << batch'[r], 0 >>]
      /\ Members0' = Members0
    BY DEF ChooseBatches, Members0
<1>2. \A r \in Members0 : batch'[r] \in Nat
    BY <1>1, SetupAssumption
<1>3. \E S : sent' \in [Members0 -> S]
  <2>1. sent' \in [Members0 -> {<< -1, -1 >>}]
      BY <1>1
  <2>2. QED
      BY <2>1
<1>4. \A r \in Members0 : pc'[r] = "done" => share'[r][1] \in 0 .. batch'[r]
    BY <1>1, <1>2
<1>5. \A r \in Members0 : sent'[r] = << -1, -1 >>
    BY <1>1
<1>6. QED
    BY <1>1, <1>3, <1>4, <1>5 DEF SharesFit

\* The layout depends on the ranks of the group and on their parts only.
DisplsOver(ranks, counts) ==
    LET displs[r \in ranks] == IF r = 0 THEN 0 ELSE Int32(displs[r - 1] + counts[r - 1])
    IN  displs

LayoutOver(ranks, part) ==
    LET counts == [r \in ranks |-> Int32(part[r] * Elements)]
    IN  [counts  |-> counts, displs |-> DisplsOver(ranks, counts),
         samples |-> Int32(SumOver(part, ranks))]

LEMMA LayoutStays ==
    ASSUME Members0' = Members0, DevicePart' = DevicePart
    PROVE  Layout(DevicePart)' = Layout(DevicePart)
<1>1. Layout(DevicePart) = LayoutOver(Members0, DevicePart)
    BY DEF Layout, LayoutOver, Displs, DisplsOver, SamplesOf, SumOver
<1>2. Layout(DevicePart)' = LayoutOver(Members0, DevicePart)'
    BY DEF Layout, LayoutOver, Displs, DisplsOver, SamplesOf, SumOver
<1>3. LayoutOver(Members0, DevicePart)' = LayoutOver(Members0, DevicePart)
    OBVIOUS
<1>4. QED
    BY <1>1, <1>2, <1>3

\* The numbers that the final layout is made of are those of samples.
LEMMA PartsAreNumbers ==
    ASSUME SetupInv, SharesFit, LayoutIsDevicePart, stage = "ready"
    PROVE  /\ size \in Nat /\ size > 0
           /\ \A r \in Members0 : DevicePart[r] \in Nat
<1>1. /\ size \in Nat /\ size > 0 /\ SplitTypes
    BY Group DEF SetupInv, SplitInv, Splitting
<1>2. ASSUME NEW r \in Members0 PROVE DevicePart[r] \in Nat
  <2>1. share[r][1] \in 0 .. batch[r] /\ batch[r] \in Nat
      BY <1>1, SetupAssumption DEF SharesFit, LayoutIsDevicePart, Splitting, SplitTypes
  <2>2. HostPart(r) \in 0 .. batch[r]
      BY <2>1 DEF HostPart
  <2>3. QED
      BY <2>1, <2>2 DEF DevicePart
<1>3. QED
    BY <1>1, <1>2

\* As long as the group has fewer elements than an int can count, the segments of the
\* ranks are a partition of the controller's buffer, each as long as what its rank
\* sends: in groups of every size and for every split.
THEOREM SegmentsAreTiles == Spec => []SegmentsTile
<1>1. Init => SharesFit /\ LayoutIsDevicePart
    BY DEF Init, GroupInit, SharesFit, LayoutIsDevicePart, Splitting
<1>2. SetupInv /\ SharesFit /\ LayoutIsDevicePart /\ [Next]_vars => SharesFit' /\ LayoutIsDevicePart'
  <2>1. SUFFICES ASSUME SetupInv, SharesFit, LayoutIsDevicePart, [Next]_vars
                 PROVE  SharesFit' /\ LayoutIsDevicePart'
      OBVIOUS
  <2>2. ASSUME stage' \notin {"split", "ready", "died"} PROVE SharesFit' /\ LayoutIsDevicePart'
      BY <2>2 DEF SharesFit, LayoutIsDevicePart, Splitting
  <2>3. CASE Distribute
    <3>1. stage' \in {"controllers", "color", "home", "best", "done"}
        BY <2>3 DEF Distribute, CreateWorkgroups, DiscoverGPUs, NodeControllers, AffineController,
               AffineDone, NoDevices, RoundRobinColor, OwnGroups, HomeDomain, BestGroup, NextDomain
    <3>2. QED
        BY <2>2, <3>1
  <2>4. ASSUME NEW g \in Procs, EnterGroup(g) PROVE SharesFit' /\ LayoutIsDevicePart'
    <3>1. stage' = "enter"
        BY <2>4 DEF EnterGroup, Forget
    <3>2. QED
        BY <2>2, <3>1
  <2>5. ASSUME NEW hybrid \in BOOLEAN, ChooseBatches(hybrid) PROVE SharesFit' /\ LayoutIsDevicePart'
    <3>1. stage' = "split"
        BY <2>5 DEF ChooseBatches
    <3>2. QED
        BY <2>1, <2>5, <3>1, SharesOfChoice DEF LayoutIsDevicePart
  <2>6. ASSUME NEW suffix \in Endings, InitInferenceStrategy(suffix)
        PROVE  SharesFit' /\ LayoutIsDevicePart'
    <3>1. /\ stage = "split" /\ stage' \in {"ready", "died"}
          /\ \A r \in Members0 : pc[r] = "done"
          /\ layout' = IF onDevice THEN Layout(DevicePart) ELSE << >>
          /\ UNCHANGED << size, onDevice, batch, pc, cpuwork, share, sent >>
          /\ Members0' = Members0
        BY <2>6 DEF InitInferenceStrategy, splitVars, Members0
    <3>2. DevicePart' = DevicePart
      <4>1. \A r : HostPart(r)' = HostPart(r)
          BY <3>1 DEF HostPart, IsController
      <4>2. QED
          BY <3>1, <4>1 DEF DevicePart
    <3>3. onDevice' => layout' = Layout(DevicePart)'
        BY <3>1, <3>2, LayoutStays
    <3>4. SharesFit'
        BY <2>1, <3>1 DEF SharesFit, Splitting
    <3>5. QED
        BY <3>1, <3>3, <3>4 DEF LayoutIsDevicePart
  <2>7. CASE ControllerStep \/ WorkerStep
    <3>1. stage' = "split"
        BY <2>7 DEF ControllerStep, WorkerStep, groupVars
    <3>2. SharesFit'
        BY <2>1, <2>7, SharesOfController, SharesOfWorker
    <3>3. QED
        BY <3>1, <3>2 DEF LayoutIsDevicePart
  <2>8. CASE UNCHANGED vars
    <3>1. /\ UNCHANGED << stage, size, onDevice, batch, pc, cpuwork, share, sent, layout >>
          /\ Members0' = Members0
        BY <2>8 DEF vars, groupVars, splitVars, initVars, Members0
    <3>2. DevicePart' = DevicePart
      <4>1. \A r : HostPart(r)' = HostPart(r)
          BY <3>1 DEF HostPart, IsController
      <4>2. QED
          BY <3>1, <4>1 DEF DevicePart
    <3>3. SharesFit'
        BY <2>1, <3>1 DEF SharesFit, Splitting
    <3>4. Layout(DevicePart)' = Layout(DevicePart)
        BY <3>1, <3>2, LayoutStays
    <3>5. QED
        BY <2>1, <3>1, <3>3, <3>4 DEF LayoutIsDevicePart
  <2>9. QED
      BY <2>1, <2>3, <2>4, <2>5, <2>6, <2>7, <2>8 DEF Next, Enter
<1>3. SetupInv /\ SharesFit /\ LayoutIsDevicePart => SegmentsTile
  <2>1. SUFFICES ASSUME SetupInv, SharesFit, LayoutIsDevicePart, stage = "ready", onDevice,
                        Elements * SamplesOf(DevicePart) < IntBound
                 PROVE  LET total      == Elements * SamplesOf(DevicePart)
                            Segment(r) == layout.displs[r] .. layout.displs[r] + layout.counts[r] - 1
                        IN  /\ layout.samples * Elements = total
                            /\ UNION {Segment(r) : r \in Members0} = 0 .. total - 1
                            /\ \A r \in Members0 :
                                  /\ Cardinality(Segment(r)) = Elements * DevicePart[r]
                                  /\ \A q \in 0 .. r - 1 :
                                        layout.displs[q] + layout.counts[q] <= layout.displs[r]
      BY DEF SegmentsTile
  <2>2. layout = Layout(DevicePart)
      BY <2>1 DEF LayoutIsDevicePart
  <2>3. /\ size \in Nat /\ size > 0
        /\ \A r \in Members0 : DevicePart[r] \in Nat
      BY <2>1, PartsAreNumbers
  <2>4. QED
      BY <2>1, <2>2, <2>3, LayoutTiles
<1>4. QED
    BY <1>1, <1>2, <1>3, Invariance, PTL DEF Spec

-----------------------------------------------------------------------------
(***************************************************************************)
(* The GPUs of all hosts in order                                          *)
(***************************************************************************)
\* f[m] is what the m first members of s make up.
Joins(f, s, n) == f = [m \in 1 .. n |-> IF m = 1 THEN s[m] ELSE f[m - 1] \o s[m]]

LEMMA JoinExists ==
    ASSUME NEW s, NEW n \in Nat
    PROVE  \E f : Joins(f, s, n)
<1> DEFINE Bad == {m \in Nat : ~\E f : Joins(f, s, m)}
<1>1. SUFFICES ASSUME Bad # {} PROVE FALSE
    OBVIOUS
<1>2. PICK m \in Bad : \A k \in Bad : m <= k
    BY <1>1, LeastElement
<1>3. CASE m = 0
  <2> DEFINE f == [j \in 1 .. 0 |-> s]
  <2>1. f = [j \in 1 .. 0 |-> IF j = 1 THEN s[j] ELSE f[j - 1] \o s[j]]
      OBVIOUS
  <2>2. QED
      BY <2>1, <1>3 DEF Joins
<1>4. CASE m # 0
  <2>1. m - 1 \in Nat /\ m - 1 \notin Bad /\ m \in Nat
      BY <1>2, <1>4
  <2>2. PICK old : Joins(old, s, m - 1)
      BY <2>1
  <2> DEFINE f == [j \in 1 .. m |-> IF j = 1 THEN s[j] ELSE old[j - 1] \o s[j]]
  <2>3. ASSUME NEW j \in 1 .. m - 1 PROVE f[j] = old[j]
    <3>1. old[j] = IF j = 1 THEN s[j] ELSE old[j - 1] \o s[j]
        BY <2>2 DEF Joins
    <3>2. j \in 1 .. m
        BY <2>1
    <3>3. QED
        BY <3>1, <3>2
  <2>4. ASSUME NEW j \in 1 .. m PROVE f[j] = IF j = 1 THEN s[j] ELSE f[j - 1] \o s[j]
    <3>1. CASE j = 1
        BY <3>1
    <3>2. CASE j # 1
      <4>1. j - 1 \in 1 .. m - 1
          BY <3>2, <2>1
      <4>2. f[j - 1] = old[j - 1]
          BY <4>1, <2>3
      <4>3. f[j] = old[j - 1] \o s[j]
          BY <3>2
      <4> HIDE DEF f
      <4>4. QED
          BY <3>2, <4>2, <4>3
    <3>3. QED
        BY <3>1, <3>2
  <2>5. Joins(f, s, m)
    <3>1. f = [j \in 1 .. m |-> f[j]]
        OBVIOUS
    <3> DEFINE rhs == [j \in 1 .. m |-> IF j = 1 THEN s[j] ELSE f[j - 1] \o s[j]]
    <3> HIDE DEF f
    <3>2. \A j \in 1 .. m : f[j] = rhs[j]
        BY <2>4
    <3>3. f = rhs
        BY <3>1, <3>2
    <3>4. QED
        BY <3>3 DEF Joins
  <2>6. QED
      BY <2>5, <1>2
<1>5. QED
    BY <1>3, <1>4

\* What a sequence of n sequences makes up: the elements of its members and, if no
\* two of these are the same, each of them once.
Parts(F, s, n) ==
    /\ \A p \in 1 .. Len(F) : \E m \in 1 .. n : \E k \in 1 .. Len(s[m]) : F[p] = s[m][k]
    /\ \A m \in 1 .. n : \A k \in 1 .. Len(s[m]) : \E p \in 1 .. Len(F) : F[p] = s[m][k]
    /\ \A p \in 1 .. Len(F), q \in 1 .. Len(F) : F[p] = F[q] => p = q

LEMMA PartsAgree ==
    ASSUME NEW F, NEW s, NEW u, NEW n, \A m \in 1 .. n : u[m] = s[m]
    PROVE  Parts(F, u, n) <=> Parts(F, s, n)
<1>1. ASSUME NEW v, NEW w, \A m \in 1 .. n : w[m] = v[m], Parts(F, v, n) PROVE Parts(F, w, n)
  <2>1. ASSUME NEW p \in 1 .. Len(F)
        PROVE  \E m \in 1 .. n : \E k \in 1 .. Len(w[m]) : F[p] = w[m][k]
    <3>1. PICK m \in 1 .. n : \E k \in 1 .. Len(v[m]) : F[p] = v[m][k]
        BY <1>1 DEF Parts
    <3>2. w[m] = v[m]
        BY <1>1
    <3>3. QED
        BY <3>1, <3>2
  <2>2. ASSUME NEW m \in 1 .. n, NEW k \in 1 .. Len(w[m])
        PROVE  \E p \in 1 .. Len(F) : F[p] = w[m][k]
    <3>1. w[m] = v[m]
        BY <1>1
    <3>2. QED
        BY <3>1, <1>1 DEF Parts
  <2>3. QED
      BY <2>1, <2>2, <1>1 DEF Parts
<1>2. QED
    BY <1>1

NoneTwice(s, n) ==
    \A m \in 1 .. n, o \in 1 .. n : \A k \in 1 .. Len(s[m]), l \in 1 .. Len(s[o]) :
        s[m][k] = s[o][l] => m = o /\ k = l

\* One more member is joined.
LEMMA OneMorePart ==
    ASSUME NEW S, NEW n \in Nat, NEW s \in [1 .. n + 1 -> Seq(S)], NoneTwice(s, n + 1),
           NEW F \in Seq(S), Parts(F, s, n)
    PROVE  F \o s[n + 1] \in Seq(S) /\ Parts(F \o s[n + 1], s, n + 1)
<1> DEFINE t == s[n + 1]
           G == F \o t
           a == Len(F)
<1>1. /\ n + 1 \in 1 .. n + 1 /\ t \in Seq(S) /\ G \in Seq(S)
      /\ a \in Nat /\ Len(t) \in Nat /\ Len(G) = a + Len(t)
      /\ \A p \in 1 .. a : G[p] = F[p]
      /\ \A k \in 1 .. Len(t) : G[a + k] = t[k]
  <2>1. n + 1 \in 1 .. n + 1
      OBVIOUS
  <2>2. t \in Seq(S)
      BY <2>1
  <2> HIDE DEF t
  <2>3. QED
      BY <2>1, <2>2
<1>2. \A p \in 1 .. Len(G) : p \in 1 .. a \/ (p - a \in 1 .. Len(t) /\ p = a + (p - a) /\ G[p] = t[p - a])
  <2> SUFFICES ASSUME NEW p \in 1 .. Len(G), p \notin 1 .. a
               PROVE  p - a \in 1 .. Len(t) /\ p = a + (p - a) /\ G[p] = t[p - a]
      OBVIOUS
  <2> HIDE DEF G, t, a
  <2>1. p - a \in 1 .. Len(t) /\ p = a + (p - a)
      BY <1>1
  <2>2. QED
      BY <1>1, <2>1
<1>3. \A p \in 1 .. a : p \in 1 .. Len(G)
  <2> HIDE DEF G, t, a
  <2> QED
      BY <1>1
<1>4. \A k \in 1 .. Len(t) : a + k \in 1 .. Len(G)
  <2> HIDE DEF G, t, a
  <2> QED
      BY <1>1
<1>5. \A m \in 1 .. n : m \in 1 .. n + 1 /\ m # n + 1
    OBVIOUS
<1>6. \A m \in 1 .. n + 1 : m \in 1 .. n \/ m = n + 1
    OBVIOUS
<1> HIDE DEF G, a
<1>7. ASSUME NEW p \in 1 .. Len(G)
      PROVE  \E m \in 1 .. n + 1 : \E k \in 1 .. Len(s[m]) : G[p] = s[m][k]
  <2>1. CASE p \in 1 .. a
    <3>1. PICK m \in 1 .. n : \E k \in 1 .. Len(s[m]) : F[p] = s[m][k]
        BY <2>1 DEF Parts, a
    <3>2. QED
        BY <3>1, <1>1, <1>5, <2>1
  <2>2. CASE p \notin 1 .. a
      BY <2>2, <1>1, <1>2
  <2>3. QED
      BY <2>1, <2>2
<1>8. ASSUME NEW m \in 1 .. n + 1, NEW k \in 1 .. Len(s[m])
      PROVE  \E p \in 1 .. Len(G) : G[p] = s[m][k]
  <2>1. CASE m \in 1 .. n
    <3>1. PICK p \in 1 .. a : F[p] = s[m][k]
        BY <2>1 DEF Parts, a
    <3>2. QED
        BY <3>1, <1>1, <1>3
  <2>2. CASE m = n + 1
    <3>1. k \in 1 .. Len(t) /\ G[a + k] = s[m][k]
        BY <2>2, <1>1
    <3>2. QED
        BY <3>1, <1>4
  <2>3. QED
      BY <2>1, <2>2, <1>6
<1>9. ASSUME NEW p \in 1 .. a, NEW q \in 1 .. Len(G), q \notin 1 .. a PROVE G[p] # G[q]
  <2>1. PICK m \in 1 .. n : \E k \in 1 .. Len(s[m]) : F[p] = s[m][k]
      BY DEF Parts, a
  <2>2. PICK k \in 1 .. Len(s[m]) : F[p] = s[m][k]
      BY <2>1
  <2>3. q - a \in 1 .. Len(s[n + 1]) /\ G[q] = s[n + 1][q - a]
      BY <1>2, <1>9
  <2>4. m \in 1 .. n + 1 /\ n + 1 \in 1 .. n + 1 /\ m # n + 1
      BY <1>1, <1>5
  <2>5. s[m][k] # s[n + 1][q - a]
      BY <2>2, <2>3, <2>4 DEF NoneTwice
  <2>6. QED
      BY <2>2, <2>3, <2>5, <1>1
<1>10. ASSUME NEW p \in 1 .. Len(G), NEW q \in 1 .. Len(G), G[p] = G[q] PROVE p = q
  <2>1. CASE p \in 1 .. a /\ q \in 1 .. a
    <3>1. F[p] = F[q]
        BY <2>1, <1>1, <1>10
    <3>2. QED
        BY <3>1, <2>1 DEF Parts, a
  <2>2. CASE p \notin 1 .. a /\ q \notin 1 .. a
    <3>1. /\ p - a \in 1 .. Len(s[n + 1]) /\ q - a \in 1 .. Len(s[n + 1])
          /\ s[n + 1][p - a] = s[n + 1][q - a] /\ p = a + (p - a) /\ q = a + (q - a)
        BY <2>2, <1>2, <1>10
    <3>2. n + 1 \in 1 .. n + 1
        BY <1>1
    <3>3. p - a = q - a
        BY <3>1, <3>2 DEF NoneTwice
    <3>4. QED
        BY <3>1, <3>3
  <2>3. QED
      BY <2>1, <2>2, <1>9, <1>10
<1>11. QED
    BY <1>1, <1>7, <1>8, <1>10 DEF Parts, G

\* FlattenSeq joins them all.
LEMMA FlattenFacts ==
    ASSUME NEW S, NEW n \in Nat, NEW s \in [1 .. n -> Seq(S)], NoneTwice(s, n)
    PROVE  FlattenSeq(s) \in Seq(S) /\ Parts(FlattenSeq(s), s, n)
<1>1. Len(s) = n
    OBVIOUS
<1>2. CASE n = 0
  <2>1. FlattenSeq(s) = s
      BY <1>1, <1>2 DEF FlattenSeq
  <2>2. s = << >>
      BY <1>2
  <2>3. QED
      BY <2>1, <2>2, <1>2 DEF Parts
<1>3. CASE n # 0
  <2> DEFINE f == CHOOSE f : Joins(f, s, n)
  <2>1. FlattenSeq(s) = f[n]
      BY <1>1, <1>3 DEF FlattenSeq, Joins
  <2>2. Joins(f, s, n)
      BY JoinExists
  <2> HIDE DEF f
  <2>3. \A j \in 1 .. n : f[j] = IF j = 1 THEN s[j] ELSE f[j - 1] \o s[j]
      BY <2>2 DEF Joins
  <2> DEFINE Good(j) == f[j] \in Seq(S) /\ Parts(f[j], s, j)
             Bad == {j \in 1 .. n : ~Good(j)}
  <2>4. SUFFICES ASSUME Bad # {} PROVE FALSE
    <3>1. n \in 1 .. n
        BY <1>3
    <3>2. Bad = {} => Good(n)
        BY <3>1
    <3> HIDE DEF Bad
    <3>3. QED
        BY <3>2, <2>1
  <2>5. Bad \in SUBSET Nat
      OBVIOUS
  <2>6. PICK m \in Bad : \A k \in Bad : m <= k
      BY <2>4, <2>5, LeastElement
  <2>7. ASSUME NEW o \in 0 .. n - 1, NEW F \in Seq(S), Parts(F, s, o)
        PROVE  F \o s[o + 1] \in Seq(S) /\ Parts(F \o s[o + 1], s, o + 1)
    <3> DEFINE u == [j \in 1 .. o + 1 |-> s[j]]
    <3>1. o \in Nat /\ o + 1 \in 1 .. o + 1 /\ \A j \in 1 .. o + 1 : j \in 1 .. n
        OBVIOUS
    <3>2. u \in [1 .. o + 1 -> Seq(S)] /\ \A j \in 1 .. o + 1 : u[j] = s[j]
        BY <3>1
    <3> HIDE DEF u
    <3>3. NoneTwice(u, o + 1)
        BY <3>1, <3>2 DEF NoneTwice
    <3>4. Parts(F, u, o)
      <4>1. \A j \in 1 .. o : j \in 1 .. o + 1
          OBVIOUS
      <4>2. \A j \in 1 .. o : u[j] = s[j]
          BY <3>2, <4>1
      <4>3. QED
          BY <2>7, <4>2, PartsAgree
    <3>5. F \o u[o + 1] \in Seq(S) /\ Parts(F \o u[o + 1], u, o + 1)
        BY <3>1, <3>2, <3>3, <3>4, OneMorePart
    <3>6. Parts(F \o u[o + 1], s, o + 1)
        BY <3>2, <3>5, PartsAgree
    <3>7. QED
        BY <3>1, <3>2, <3>5, <3>6
  <2>8. CASE m = 1
    <3>1. f[1] = s[1] /\ s[1] \in Seq(S)
        BY <2>3, <1>3
    <3>2. << >> \in Seq(S) /\ Parts(<< >>, s, 0) /\ 0 \in 0 .. n - 1
      <4>1. << >> \in Seq(S) /\ Len(<< >>) = 0 /\ 1 .. 0 = {} /\ 0 \in 0 .. n - 1
          BY <1>3
      <4>2. QED
          BY <4>1 DEF Parts
    <3>3. Parts(<< >> \o s[1], s, 1)
      <4>1. Parts(<< >> \o s[0 + 1], s, 0 + 1)
          BY <3>2, <2>7
      <4>2. 0 + 1 = 1
          OBVIOUS
      <4>3. QED
          BY <4>1, <4>2
    <3>4. << >> \o s[1] = s[1]
        BY <3>1
    <3>5. QED
        BY <3>1, <3>3, <3>4, <2>8, <2>6
  <2>9. CASE m # 1
    <3>1. m - 1 \in 1 .. n /\ m - 1 \in 0 .. n - 1 /\ (m - 1) + 1 = m /\ ~(m <= m - 1)
        BY <2>6, <2>9
    <3>2. m - 1 \notin Bad
      <4> HIDE DEF Bad
      <4> QED
          BY <2>6, <3>1
    <3>3. Good(m - 1)
        BY <3>1, <3>2
    <3>4. f[m] = f[m - 1] \o s[m]
        BY <2>3, <2>6, <2>9
    <3>5. QED
        BY <3>1, <3>3, <3>4, <2>7, <2>6
  <2>10. QED
      BY <2>8, <2>9
<1>4. QED
    BY <1>2, <1>3

\* What discoverGPUs leaves behind.
Found ==
    gpus = [r \in Procs |->
              IF strategy # "round robin" /\ placement.runtime = "cuda"
              THEN [k \in 1 .. DeviceCount(r) |->
                      NodeAbove(placement.lstopo[placement.host[r]], placement.visible[r][k])]
              ELSE << >>]

\* Hosts and their ranks.
LEMMA HostFacts ==
    ASSUME placement \in Placements
    PROVE  /\ Cardinality(Hosts) \in Nat /\ Hosts \subseteq 0 .. Cardinality(Hosts) - 1
           /\ \A h : HostRanks(h) \in SUBSET Procs /\ HostRanks(h) \in SUBSET Nat
           /\ \A h : IsFiniteSet(HostRanks(h)) /\ Cardinality(HostRanks(h)) \in Nat
           /\ \A h \in Hosts : HostRanks(h) # {}
           /\ \A h : HostRanks(h) # {} => h \in Hosts
           /\ \A r \in Procs : /\ placement.host[r] \in Hosts /\ placement.host[r] \in Nat
                               /\ r \in HostRanks(placement.host[r])
                               /\ DeviceCount(r) \in Nat
<1>1. /\ placement.host \in [Procs -> Nat]
      /\ \A r \in Procs : \A h \in 0 .. placement.host[r] - 1 : \E q \in 0 .. r : placement.host[q] = h
      /\ \A r \in Procs : placement.visible[r] \in Seq(PciIds)
    BY PlacementAssumption
<1>2. IsFiniteSet(Procs) /\ Procs \subseteq Nat
    BY RanksAreFinite, PlacementAssumption DEF Procs
<1>3. \A h : /\ HostRanks(h) \in SUBSET Procs /\ HostRanks(h) \in SUBSET Nat
             /\ IsFiniteSet(HostRanks(h)) /\ Cardinality(HostRanks(h)) \in Nat
  <2> SUFFICES ASSUME NEW h
               PROVE  /\ HostRanks(h) \in SUBSET Procs /\ HostRanks(h) \in SUBSET Nat
                      /\ IsFiniteSet(HostRanks(h)) /\ Cardinality(HostRanks(h)) \in Nat
      OBVIOUS
  <2>1. HostRanks(h) \in SUBSET Procs
      BY DEF HostRanks
  <2>2. QED
      BY <2>1, <1>2, FS_Subset, FS_CardinalityType
<1>4. IsFiniteSet(Hosts)
  <2> DEFINE f == [r \in Procs |-> placement.host[r]]
  <2>1. f \in Surjection(Procs, Hosts)
      BY DEF Surjection, Hosts
  <2>2. QED
      BY <2>1, <1>2, FS_Surjection
<1>5. Cardinality(Hosts) \in Nat
    BY <1>4, FS_CardinalityType
<1>6. ASSUME NEW h \in Hosts PROVE h \in 0 .. Cardinality(Hosts) - 1
  <2>1. PICK r \in Procs : placement.host[r] = h
      BY DEF Hosts
  <2>2. h \in Nat
      BY <2>1, <1>1
  <2>3. ASSUME NEW g \in 0 .. h PROVE g \in Hosts
    <3>1. CASE g = h
        BY <3>1
    <3>2. CASE g # h
      <4>1. g \in 0 .. placement.host[r] - 1
          BY <2>1, <2>2, <3>2
      <4>2. PICK q \in 0 .. r : placement.host[q] = g
          BY <4>1, <1>1
      <4>3. q \in Procs
          BY <1>2, PlacementAssumption DEF Procs
      <4>4. QED
          BY <4>2, <4>3 DEF Hosts
    <3>3. QED
        BY <3>1, <3>2
  <2>4. 0 .. h \in SUBSET Hosts
      BY <2>3
  <2>5. Cardinality(0 .. h) = h + 1
      BY <2>2, FS_Interval
  <2>6. Cardinality(0 .. h) <= Cardinality(Hosts)
      BY <2>4, <1>4, FS_Subset
  <2>7. QED
      BY <2>2, <2>5, <2>6, <1>5
<1>7. /\ \A h \in Hosts : HostRanks(h) # {}
      /\ \A h : HostRanks(h) # {} => h \in Hosts
    BY DEF Hosts, HostRanks
<1>8. ASSUME NEW r \in Procs
      PROVE  /\ placement.host[r] \in Hosts /\ placement.host[r] \in Nat
             /\ r \in HostRanks(placement.host[r]) /\ DeviceCount(r) \in Nat
    BY <1>1 DEF Hosts, HostRanks, DeviceCount
<1>9. QED
    BY <1>3, <1>5, <1>6, <1>7, <1>8

LEMMA LeastIsIn ==
    ASSUME NEW S \in SUBSET Nat, S # {}
    PROVE  Least(S) \in S
<1>1. \E r \in S : \A q \in S : r <= q
    BY LeastElement
<1>2. QED
    BY <1>1 DEF Least

\* The GPUs of a host are a sequence, if only the empty one.
LEMMA GpusOfFacts ==
    ASSUME placement \in Placements, Found
    PROVE  \E V : \A h : /\ GpusOf(h) \in Seq(V)
                         /\ GpusOf(h) # << >> => h \in Hosts
<1> DEFINE V == {NodeAbove(placement.lstopo[placement.host[r]], placement.visible[r][k]) :
                    r \in Procs, k \in Nat}
<1>1. ASSUME NEW r \in Procs PROVE gpus[r] \in Seq(V)
  <2> DEFINE found == [k \in 1 .. DeviceCount(r) |->
                          NodeAbove(placement.lstopo[placement.host[r]], placement.visible[r][k])]
  <2>1. DeviceCount(r) \in Nat
      BY HostFacts
  <2>2. \A k \in 1 .. DeviceCount(r) : k \in Nat
      OBVIOUS
  <2>3. found \in [1 .. DeviceCount(r) -> V]
      BY <2>2
  <2>4. gpus[r] = found \/ gpus[r] = << >>
      BY DEF Found
  <2> HIDE DEF found, V
  <2>5. found \in Seq(V)
      BY <2>1, <2>3
  <2>6. CASE gpus[r] = found
      BY <2>5, <2>6
  <2>7. CASE gpus[r] = << >>
      BY <2>7
  <2>8. QED
      BY <2>4, <2>6, <2>7
<1> HIDE DEF V
<1>2. ASSUME NEW h PROVE GpusOf(h) \in Seq(V) /\ (GpusOf(h) # << >> => h \in Hosts)
  <2> DEFINE seeing == {r \in HostRanks(h) : gpus[r] # << >>}
  <2>1. seeing \in SUBSET Procs /\ seeing \in SUBSET Nat
      BY HostFacts
  <2>2. CASE seeing = {}
      BY <2>2 DEF GpusOf
  <2>3. CASE seeing # {}
    <3>1. Least(seeing) \in Procs /\ GpusOf(h) = gpus[Least(seeing)]
        BY <2>1, <2>3, LeastIsIn DEF GpusOf
    <3>2. h \in Hosts
        BY <2>3, HostFacts
    <3>3. QED
        BY <3>1, <3>2, <1>1
  <2>4. QED
      BY <2>2, <2>3
<1>3. QED
    BY <1>2

\* AllGpus has every GPU of every host once.
LEMMA AllGpusFacts ==
    ASSUME placement \in Placements, Found
    PROVE  /\ Len(AllGpus) \in Nat /\ \A h : Len(GpusOf(h)) \in Nat
           /\ \A k \in 1 .. Len(AllGpus) :
                 LET g == AllGpus[k] IN
                 /\ g.host \in Hosts
                 /\ g.index \in 0 .. Len(GpusOf(g.host)) - 1
                 /\ g.numa = GpusOf(g.host)[g.index + 1]
           /\ \A k \in 1 .. Len(AllGpus), l \in 1 .. Len(AllGpus) :
                 AllGpus[k].host = AllGpus[l].host /\ AllGpus[k].index = AllGpus[l].index => k = l
           /\ \A h \in Hosts : \A x \in 0 .. Len(GpusOf(h)) - 1 :
                 \E k \in 1 .. Len(AllGpus) : AllGpus[k].host = h /\ AllGpus[k].index = x
<1>1. PICK V : \A h : GpusOf(h) \in Seq(V) /\ (GpusOf(h) # << >> => h \in Hosts)
    BY GpusOfFacts
<1>2. \A h : Len(GpusOf(h)) \in Nat
    BY <1>1
<1> DEFINE n == Cardinality(Hosts)
           OfHost(h) == [k \in 1 .. Len(GpusOf(h)) |->
                           [host |-> h, index |-> k - 1, numa |-> GpusOf(h)[k]]]
           S == [host : Int, index : Int, numa : V]
           s == [h \in 1 .. n |-> OfHost(h - 1)]
<1>3. n \in Nat /\ Hosts \subseteq 0 .. n - 1
    BY HostFacts
<1>4. ASSUME NEW h \in 1 .. n
      PROVE  /\ s[h] \in Seq(S) /\ Len(s[h]) = Len(GpusOf(h - 1))
             /\ \A k \in 1 .. Len(s[h]) :
                   s[h][k] = [host |-> h - 1, index |-> k - 1, numa |-> GpusOf(h - 1)[k]]
  <2>1. s[h] = OfHost(h - 1)
      OBVIOUS
  <2>2. GpusOf(h - 1) \in Seq(V) /\ Len(GpusOf(h - 1)) \in Nat
      BY <1>1, <1>2
  <2>3. \A k \in 1 .. Len(GpusOf(h - 1)) : GpusOf(h - 1)[k] \in V /\ k - 1 \in Int /\ h - 1 \in Int
      BY <2>2
  <2>4. OfHost(h - 1) \in [1 .. Len(GpusOf(h - 1)) -> S]
      BY <2>3
  <2> HIDE DEF S, s
  <2>5. OfHost(h - 1) \in Seq(S) /\ Len(OfHost(h - 1)) = Len(GpusOf(h - 1))
    <3> DEFINE o == OfHost(h - 1)
               len == Len(GpusOf(h - 1))
    <3>1. o \in [1 .. len -> S] /\ len \in Nat
        BY <2>2, <2>4
    <3> HIDE DEF o, len
    <3>2. o \in Seq(S) /\ Len(o) = len
        BY <3>1
    <3>3. QED
        BY <3>2 DEF o, len
  <2>6. QED
      BY <2>1, <2>5
<1>5. s \in [1 .. n -> Seq(S)]
  <2>1. s = [h \in 1 .. n |-> s[h]]
      OBVIOUS
  <2> HIDE DEF s, S
  <2>2. QED
      BY <2>1, <1>4
<1>6. AllGpus = FlattenSeq(s)
    BY DEF AllGpus
<1> HIDE DEF S, s, n
<1>7. NoneTwice(s, n)
  <2> SUFFICES ASSUME NEW m \in 1 .. n, NEW o \in 1 .. n,
                      NEW k \in 1 .. Len(s[m]), NEW l \in 1 .. Len(s[o]), s[m][k] = s[o][l]
               PROVE  m = o /\ k = l
      BY DEF NoneTwice
  <2>1. /\ s[m][k] = [host |-> m - 1, index |-> k - 1, numa |-> GpusOf(m - 1)[k]]
        /\ s[o][l] = [host |-> o - 1, index |-> l - 1, numa |-> GpusOf(o - 1)[l]]
      BY <1>4
  <2>2. m - 1 = o - 1 /\ k - 1 = l - 1
    <3>1. \A a, b, c, d, e, f : [host |-> a, index |-> b, numa |-> c] = [host |-> d, index |-> e, numa |-> f]
                                => a = d /\ b = e
        OBVIOUS
    <3>2. [host |-> m - 1, index |-> k - 1, numa |-> GpusOf(m - 1)[k]]
            = [host |-> o - 1, index |-> l - 1, numa |-> GpusOf(o - 1)[l]]
        BY <2>1
    <3>3. QED
        BY <3>1, <3>2
  <2>3. k \in Int /\ l \in Int /\ m \in Int /\ o \in Int
      BY <1>3
  <2>4. QED
      BY <2>2, <2>3
<1>8. AllGpus \in Seq(S) /\ Parts(AllGpus, s, n)
    BY <1>3, <1>5, <1>6, <1>7, FlattenFacts
<1>9. Len(AllGpus) \in Nat
    BY <1>8
<1>10. ASSUME NEW k \in 1 .. Len(AllGpus)
       PROVE  /\ AllGpus[k].host \in Hosts
              /\ AllGpus[k].index \in 0 .. Len(GpusOf(AllGpus[k].host)) - 1
              /\ AllGpus[k].numa = GpusOf(AllGpus[k].host)[AllGpus[k].index + 1]
              /\ AllGpus[k] = [host |-> AllGpus[k].host, index |-> AllGpus[k].index,
                               numa |-> GpusOf(AllGpus[k].host)[AllGpus[k].index + 1]]
  <2>1. PICK m \in 1 .. n : \E l \in 1 .. Len(s[m]) : AllGpus[k] = s[m][l]
      BY <1>8 DEF Parts
  <2>2. PICK l \in 1 .. Len(s[m]) : AllGpus[k] = s[m][l]
      BY <2>1
  <2>3. /\ AllGpus[k] = [host |-> m - 1, index |-> l - 1, numa |-> GpusOf(m - 1)[l]]
        /\ l \in 1 .. Len(GpusOf(m - 1))
      BY <2>2, <1>4
  <2>4. Len(GpusOf(m - 1)) \in Nat /\ l \in Nat /\ (l - 1) + 1 = l /\ l - 1 \in 0 .. Len(GpusOf(m - 1)) - 1
      BY <2>3, <1>2
  <2>5. GpusOf(m - 1) # << >>
      BY <2>3, <2>4
  <2>6. m - 1 \in Hosts
      BY <2>5, <1>1
  <2>7. AllGpus[k].host = m - 1 /\ AllGpus[k].index = l - 1 /\ AllGpus[k].numa = GpusOf(m - 1)[l]
      BY <2>3
  <2>8. QED
      BY <2>3, <2>4, <2>6, <2>7
<1>11. ASSUME NEW k \in 1 .. Len(AllGpus), NEW l \in 1 .. Len(AllGpus),
              AllGpus[k].host = AllGpus[l].host, AllGpus[k].index = AllGpus[l].index
       PROVE  k = l
  <2>1. AllGpus[k] = AllGpus[l]
      BY <1>10, <1>11
  <2>2. QED
      BY <2>1, <1>8 DEF Parts
<1>12. ASSUME NEW h \in Hosts, NEW x \in 0 .. Len(GpusOf(h)) - 1
       PROVE  \E k \in 1 .. Len(AllGpus) : AllGpus[k].host = h /\ AllGpus[k].index = x
  <2>1. h \in 0 .. n - 1 /\ h + 1 \in 1 .. n /\ (h + 1) - 1 = h
      BY <1>3
  <2>2. x + 1 \in 1 .. Len(GpusOf(h)) /\ (x + 1) - 1 = x
      BY <1>2
  <2>3. x + 1 \in 1 .. Len(s[h + 1])
      BY <2>1, <2>2, <1>4
  <2>4. s[h + 1][x + 1].host = h /\ s[h + 1][x + 1].index = x
    <3>1. s[h + 1][x + 1] = [host |-> (h + 1) - 1, index |-> (x + 1) - 1,
                             numa |-> GpusOf((h + 1) - 1)[x + 1]]
        BY <2>1, <2>3, <1>4
    <3>2. QED
        BY <2>1, <2>2, <3>1
  <2>5. PICK k \in 1 .. Len(AllGpus) : AllGpus[k] = s[h + 1][x + 1]
      BY <2>1, <2>3, <1>8 DEF Parts
  <2>6. QED
      BY <2>4, <2>5
<1>13. QED
    BY <1>2, <1>9, <1>10, <1>11, <1>12

\* Where the listing is unambiguous, the node that discoverGPUs finds is the right one.
LEMMA NodesAgree ==
    ASSUME NEW lines \in Seq(Lines), Unambiguous(lines), NEW id, NodeOf(lines, id) >= 0
    PROVE  NodeAbove(lines, id) = NodeOf(lines, id)
<1> DEFINE Same == {k \in 1 .. Len(lines) : lines[k].kind = "pci" /\ lines[k].id = id}
           Like == {k \in 1 .. Len(lines) : lines[k].kind = "pci" /\ lines[k].id[2] = id[2]}
           Nodes(found) == {k \in 1 .. found : lines[k].kind = "node"}
           LastNode(found) == IF Nodes(found) # {} THEN Max(Nodes(found)) ELSE 0
           At(S) == IF S # {} THEN Min(S) ELSE 0
<1>1. /\ NodeOf(lines, id) = IF LastNode(At(Same)) = 0 THEN -1 ELSE lines[LastNode(At(Same))].os
      /\ NodeAbove(lines, id) = IF LastNode(At(Like)) = 0 THEN -1 ELSE lines[LastNode(At(Like))].logical
    BY DEF NodeOf, NodeAbove, SelectInSeq, SelectLastInSubSeq
<1>2. Len(lines) \in Nat /\ DOMAIN lines = 1 .. Len(lines)
    OBVIOUS
<1>3. LastNode(At(Same)) # 0
  <2> HIDE DEF LastNode, At, Same
  <2> QED
      BY <1>1
<1>4. Same # {}
  <2>1. SUFFICES ASSUME Same = {} PROVE FALSE
      OBVIOUS
  <2>2. At(Same) = 0
      BY <2>1
  <2>3. Nodes(0) = {}
      OBVIOUS
  <2> HIDE DEF Same, Nodes
  <2>4. LastNode(0) = 0
      BY <2>3
  <2>5. QED
      BY <2>2, <2>4, <1>3
<1>5. Same = Like
  <2>1. PICK j \in Same : TRUE
      BY <1>4
  <2>2. j \in DOMAIN lines /\ lines[j].kind = "pci" /\ lines[j].id[2] = id[2]
      BY <2>1, <1>2
  <2>3. ASSUME NEW k \in Like PROVE k = j
    <3>1. k \in DOMAIN lines /\ lines[k].kind = "pci" /\ lines[k].id[2] = id[2]
        BY <1>2
    <3>2. lines[k].kind # "node"
        BY <3>1
    <3>3. \A o \in DOMAIN lines \ {k} : lines[o].kind = "pci" => lines[k].id[2] # lines[o].id[2]
        BY <3>1, <3>2 DEF Unambiguous
    <3>4. QED
        BY <3>1, <3>3, <2>2
  <2>4. Same \subseteq Like
      OBVIOUS
  <2> HIDE DEF Same, Like
  <2>5. QED
      BY <2>1, <2>3, <2>4
<1> DEFINE last == LastNode(At(Same))
<1>6. last \in Nodes(At(Same)) /\ At(Same) \in 1 .. Len(lines)
  <2>1. Same \in SUBSET Nat
      OBVIOUS
  <2>2. At(Same) \in Same
    <3> HIDE DEF Same
    <3>1. \E x \in Same : \A y \in Same : x <= y
        BY <2>1, <1>4, LeastElement
    <3>2. Min(Same) \in Same
        BY <3>1 DEF Min
    <3>3. QED
        BY <3>2, <1>4
  <2>3. At(Same) \in 1 .. Len(lines) /\ At(Same) \in Nat
    <3> HIDE DEF At
    <3> QED
        BY <2>2
  <2> DEFINE at == At(Same)
  <2>4. Nodes(at) \in SUBSET (1 .. at) /\ IsFiniteSet(1 .. at)
    <3>1. at \in Nat
        BY <2>3
    <3> HIDE DEF at
    <3>2. QED
        BY <3>1, FS_Interval
  <2>5. IsFiniteSet(Nodes(at)) /\ Nodes(at) \in SUBSET Nat
    <3>1. at \in Nat
        BY <2>3
    <3>2. 1 .. at \in SUBSET Nat
        BY <3>1
    <3> HIDE DEF at, Nodes
    <3>3. QED
        BY <2>4, <3>2, FS_Subset
  <2>6. Nodes(at) # {}
      BY <1>3
  <2>7. Max(Nodes(at)) \in Nodes(at)
    <3> HIDE DEF at, Nodes
    <3>1. \E x \in Nodes(at) : \A y \in Nodes(at) : y <= x
        BY <2>5, <2>6, GreatestElement
    <3>2. \E x \in Nodes(at) : \A y \in Nodes(at) : x >= y
        BY <3>1, <2>5
    <3>3. QED
        BY <3>2 DEF Max
  <2>8. QED
      BY <2>3, <2>6, <2>7
<1>7. last \in DOMAIN lines /\ lines[last].kind = "node"
  <2> HIDE DEF last, At
  <2> QED
      BY <1>2, <1>6
<1>8. lines[last].logical = lines[last].os
  <2> HIDE DEF last
  <2> QED
      BY <1>7 DEF Unambiguous
<1>9. QED
  <2>1. LastNode(At(Like)) = last
      BY <1>5
  <2> HIDE DEF last, LastNode, At, Same, Like
  <2>2. NodeOf(lines, id) = lines[last].os
      BY <1>1, <1>3 DEF last
  <2>3. NodeAbove(lines, id) = lines[last].logical
      BY <1>1, <1>3, <2>1 DEF last
  <2>4. QED
      BY <1>8, <2>2, <2>3

\* What ServedLocally asks of a host.
Locatable(h) ==
    /\ strategy # "round robin" /\ placement.runtime = "cuda"
    /\ Alike(h) /\ Unambiguous(placement.lstopo[h]) /\ RanksAtGpus(h)

\* The node of each GPU of such a host is known.
LEMMA LocatedGpus ==
    ASSUME placement \in Placements, Found, NEW h \in Hosts, Locatable(h)
    PROVE  LET ids == placement.visible[Least(HostRanks(h))] IN
           /\ \A r \in HostRanks(h) : placement.visible[r] = ids
           /\ \A k \in 1 .. Len(GpusOf(h)) : /\ k \in DOMAIN ids
                                             /\ GpusOf(h)[k] = NodeOf(placement.lstopo[h], ids[k])
                                             /\ GpusOf(h)[k] >= 0
           /\ ids \in Seq(PciIds)
<1> DEFINE ids == placement.visible[Least(HostRanks(h))]
           seeing == {r \in HostRanks(h) : gpus[r] # << >>}
<1>1. /\ HostRanks(h) # {} /\ HostRanks(h) \in SUBSET Nat /\ HostRanks(h) \in SUBSET Procs
      /\ seeing \in SUBSET Nat
    BY HostFacts
<1>2. Least(HostRanks(h)) \in HostRanks(h)
    BY <1>1, LeastIsIn
<1>3. \A r \in HostRanks(h) : placement.visible[r] = ids
    BY <1>2 DEF Locatable, Alike
<1>4. ids \in Seq(PciIds) /\ placement.lstopo[h] \in Seq(Lines)
  <2>1. placement.host[Least(HostRanks(h))] = h /\ Least(HostRanks(h)) \in Procs
      BY <1>2 DEF HostRanks
  <2>2. QED
      BY <2>1, PlacementAssumption
<1>5. ASSUME NEW k \in 1 .. Len(GpusOf(h))
      PROVE  /\ k \in DOMAIN ids /\ GpusOf(h)[k] = NodeOf(placement.lstopo[h], ids[k])
             /\ GpusOf(h)[k] >= 0
  <2>1. CASE seeing = {}
    <3>1. Len(GpusOf(h)) = 0
        BY <2>1 DEF GpusOf
    <3>2. QED
        BY <3>1
  <2>2. CASE seeing # {}
    <3> DEFINE r == Least(seeing)
    <3>1. r \in seeing
        BY <1>1, <2>2, LeastIsIn
    <3>2. r \in Procs /\ placement.host[r] = h /\ placement.visible[r] = ids
        BY <3>1, <1>3 DEF HostRanks
    <3>3. GpusOf(h) = gpus[r]
        BY <2>2 DEF GpusOf
    <3>4. DeviceCount(r) = Len(ids)
        BY <3>2 DEF DeviceCount, Locatable
    <3> HIDE DEF r, seeing, ids
    <3>5. gpus[r] = [j \in 1 .. Len(ids) |-> NodeAbove(placement.lstopo[h], ids[j])]
        BY <3>2, <3>4 DEF Found, Locatable
    <3>6. Len(ids) \in Nat /\ DOMAIN ids = 1 .. Len(ids)
        BY <1>4
    <3>7. Len(gpus[r]) = Len(ids)
        BY <3>5, <3>6
    <3>8. k \in 1 .. Len(ids) /\ GpusOf(h)[k] = NodeAbove(placement.lstopo[h], ids[k])
        BY <3>3, <3>5, <3>7
    <3>9. NodeOf(placement.lstopo[h], ids[k]) >= 0
        BY <3>6, <3>8 DEF Locatable, RanksAtGpus, ids
    <3>10. NodeAbove(placement.lstopo[h], ids[k]) = NodeOf(placement.lstopo[h], ids[k])
        BY <3>9, <1>4, NodesAgree DEF Locatable
    <3>11. QED
        BY <3>6, <3>8, <3>9, <3>10
  <2>3. QED
      BY <2>1, <2>2
<1>6. QED
    BY <1>3, <1>4, <1>5

-----------------------------------------------------------------------------
(***************************************************************************)
(* The assignment of controllers                                           *)
(***************************************************************************)
\* The GPUs of host h that have been looked at.
Taken(h) == {AllGpus[k].index : k \in {l \in 1 .. gpu - 1 : AllGpus[l].host = h}}

Lesser(a, b) == IF a < b THEN a ELSE b

\* While GPUs are assigned, the controllers of a host have different GPUs of it, as
\* many of them as there are ranks for, and from their own node where that can be.
AffineInv ==
    /\ device \in [Procs -> Int]
    /\ gpu \in 1 .. Len(AllGpus) + 1
    /\ \A r \in Controllers : device[r] \in Taken(placement.host[r])
    /\ \A h \in Hosts : \A r \in Serving(h), q \in Serving(h) : r # q => device[r] # device[q]
    /\ \A h \in Hosts :
          Cardinality(Serving(h)) = Lesser(Cardinality(Taken(h)), Cardinality(HostRanks(h)))
    /\ \A h \in Hosts : ServedLocally(h)

LEMMA TakenFacts ==
    ASSUME placement \in Placements, Found, gpu \in 1 .. Len(AllGpus) + 1
    PROVE  \A h \in Hosts :
              /\ Len(GpusOf(h)) \in Nat
              /\ Taken(h) \subseteq 0 .. Len(GpusOf(h)) - 1
              /\ IsFiniteSet(Taken(h)) /\ Cardinality(Taken(h)) \in Nat
              /\ gpu > Len(AllGpus) => Cardinality(Taken(h)) = Len(GpusOf(h))
<1> SUFFICES ASSUME NEW h \in Hosts
             PROVE  /\ Len(GpusOf(h)) \in Nat
                    /\ Taken(h) \subseteq 0 .. Len(GpusOf(h)) - 1
                    /\ IsFiniteSet(Taken(h)) /\ Cardinality(Taken(h)) \in Nat
                    /\ gpu > Len(AllGpus) => Cardinality(Taken(h)) = Len(GpusOf(h))
    OBVIOUS
<1> DEFINE n == Len(GpusOf(h))
<1>1. n \in Nat /\ Len(AllGpus) \in Nat
    BY AllGpusFacts
<1>2. \A k \in 1 .. gpu - 1 : k \in 1 .. Len(AllGpus)
    BY <1>1
<1>3. Taken(h) \subseteq 0 .. n - 1
  <2>1. ASSUME NEW k \in 1 .. gpu - 1, AllGpus[k].host = h PROVE AllGpus[k].index \in 0 .. n - 1
      BY <1>2, <2>1, AllGpusFacts
  <2>2. QED
      BY <2>1 DEF Taken
<1>4. IsFiniteSet(0 .. n - 1) /\ Cardinality(0 .. n - 1) = n
  <2>1. PICK b \in Int : b = n - 1
      BY <1>1
  <2>2. IsFiniteSet(0 .. b) /\ Cardinality(0 .. b) = IF 0 > b THEN 0 ELSE b - 0 + 1
      BY FS_Interval
  <2> HIDE DEF n
  <2>3. QED
      BY <1>1, <2>1, <2>2
<1>5. IsFiniteSet(Taken(h)) /\ Cardinality(Taken(h)) \in Nat
    BY <1>3, <1>4, FS_Subset, FS_CardinalityType
<1>6. ASSUME gpu > Len(AllGpus) PROVE Taken(h) = 0 .. n - 1
  <2>1. ASSUME NEW x \in 0 .. n - 1 PROVE x \in Taken(h)
    <3>1. PICK k \in 1 .. Len(AllGpus) : AllGpus[k].host = h /\ AllGpus[k].index = x
        BY AllGpusFacts
    <3>2. k \in 1 .. gpu - 1
        BY <1>1, <1>6
    <3>3. QED
        BY <3>1, <3>2 DEF Taken
  <2>2. QED
      BY <1>3, <2>1
<1>7. QED
    BY <1>1, <1>3, <1>4, <1>5, <1>6

\* Nobody has the next GPU yet.
LEMMA NextIsNew ==
    ASSUME placement \in Placements, Found, gpu \in 1 .. Len(AllGpus)
    PROVE  /\ AllGpus[gpu].host \in Hosts
           /\ AllGpus[gpu].index \in 0 .. Len(GpusOf(AllGpus[gpu].host)) - 1
           /\ AllGpus[gpu].numa = GpusOf(AllGpus[gpu].host)[AllGpus[gpu].index + 1]
           /\ AllGpus[gpu].index \notin Taken(AllGpus[gpu].host)
<1>1. Len(AllGpus) \in Nat
    BY AllGpusFacts
<1>2. ASSUME NEW k \in 1 .. gpu - 1, AllGpus[k].host = AllGpus[gpu].host
      PROVE  AllGpus[k].index # AllGpus[gpu].index
  <2>1. k \in 1 .. Len(AllGpus) /\ k # gpu
      BY <1>1
  <2>2. QED
      BY <1>2, <2>1, AllGpusFacts
<1>3. AllGpus[gpu].index \notin Taken(AllGpus[gpu].host)
    BY <1>2 DEF Taken
<1>4. QED
    BY <1>3, AllGpusFacts

\* Where there are ranks for all GPUs of a node, one of them is free for the next.
LEMMA LocalIsFree ==
    ASSUME placement \in Placements, Found, AffineInv, gpu <= Len(AllGpus),
           Locatable(AllGpus[gpu].host)
    PROVE  LET g == AllGpus[gpu] IN
           /\ g.numa >= 0
           /\ g.numa = NodeOf(placement.lstopo[g.host],
                              placement.visible[Least(HostRanks(g.host))][g.index + 1])
           /\ \E r \in HostRanks(g.host) \ Controllers : placement.numa[r] = g.numa
<1> DEFINE g   == AllGpus[gpu]
           h   == g.host
           x   == g.index
           n   == g.numa
           ids == placement.visible[Least(HostRanks(h))]
           On  == {k \in DOMAIN ids : NodeOf(placement.lstopo[h], ids[k]) = n}
           R   == {r \in HostRanks(h) : placement.numa[r] = n}
<1>1. gpu \in 1 .. Len(AllGpus)
    BY AllGpusFacts DEF AffineInv
<1>2. /\ h \in Hosts /\ x \in 0 .. Len(GpusOf(h)) - 1 /\ n = GpusOf(h)[x + 1] /\ x \notin Taken(h)
      /\ Taken(h) \subseteq 0 .. Len(GpusOf(h)) - 1 /\ Len(GpusOf(h)) \in Nat
    BY <1>1, NextIsNew, TakenFacts DEF AffineInv
<1>3. \A y \in 0 .. Len(GpusOf(h)) - 1 : y \in Nat /\ y + 1 \in 1 .. Len(GpusOf(h))
    BY <1>2
<1>4. /\ \A r \in HostRanks(h) : placement.visible[r] = ids
      /\ \A k \in 1 .. Len(GpusOf(h)) : k \in DOMAIN ids /\ GpusOf(h)[k] = NodeOf(placement.lstopo[h], ids[k])
                                        /\ GpusOf(h)[k] >= 0
      /\ ids \in Seq(PciIds)
    BY <1>2, LocatedGpus
<1>5. n >= 0 /\ n = NodeOf(placement.lstopo[h], ids[x + 1]) /\ x + 1 \in On
    BY <1>2, <1>3, <1>4
<1>6. Cardinality(On) <= Cardinality(R)
    BY <1>5 DEF Locatable, RanksAtGpus
<1>7. /\ IsFiniteSet(R) /\ Cardinality(R) \in Nat
      /\ IsFiniteSet(On) /\ Cardinality(On) \in Nat
  <2>1. R \in SUBSET Procs
      BY DEF HostRanks
  <2>2. DOMAIN ids = 1 .. Len(ids) /\ Len(ids) \in Nat
      BY <1>4
  <2>3. IsFiniteSet(1 .. Len(ids)) /\ On \subseteq 1 .. Len(ids)
      BY <2>2, FS_Interval
  <2>4. QED
      BY <2>1, <2>3, RanksAreFinite, FS_Subset, FS_CardinalityType
<1>8. ASSUME \A r \in HostRanks(h) \ Controllers : placement.numa[r] # n PROVE FALSE
  <2> DEFINE f == [r \in R |-> device[r] + 1]
             rest == On \ {x + 1}
  <2>1. ASSUME NEW r \in R
        PROVE  device[r] \in 0 .. Len(GpusOf(h)) - 1 /\ device[r] + 1 \in rest /\ r \in Serving(h)
    <3>1. r \in HostRanks(h) /\ r \in Controllers /\ placement.host[r] = h
        BY <1>8 DEF HostRanks
    <3>2. device[r] \in Taken(h) /\ device[r] # x
        BY <1>2, <3>1 DEF AffineInv
    <3>3. r \in Serving(h)
        BY <3>1 DEF Serving
    <3>4. placement.numa[r] = NodeOf(placement.lstopo[h], placement.visible[r][device[r] + 1])
        BY <1>2, <3>3 DEF AffineInv, ServedLocally, Locatable
    <3>5. NodeOf(placement.lstopo[h], ids[device[r] + 1]) = n
        BY <1>4, <3>1, <3>4
    <3>6. device[r] \in Nat /\ device[r] + 1 \in DOMAIN ids
        BY <1>2, <1>3, <1>4, <3>2
    <3>7. device[r] + 1 # x + 1
        BY <1>2, <3>2, <3>6
    <3> HIDE DEF h, ids, n, x
    <3>8. QED
        BY <1>2, <3>2, <3>3, <3>5, <3>6, <3>7
  <2>2. f \in [R -> rest]
      BY <2>1
  <2>3. ASSUME NEW r \in R, NEW q \in R, f[r] = f[q] PROVE r = q
    <3>1. device[r] = device[q]
      <4>1. device[r] \in Int /\ device[q] \in Int
          BY <2>1
      <4>2. QED
          BY <2>3, <4>1
    <3>2. QED
        BY <1>2, <2>1, <3>1 DEF AffineInv
  <2>4. IsFiniteSet(rest) /\ Cardinality(rest) = Cardinality(On) - 1
      BY <1>5, <1>7, FS_RemoveElement
  <2>5. f \in Injection(R, rest)
      BY <2>2, <2>3 DEF Injection, IsInjective
  <2>6. Cardinality(R) <= Cardinality(rest)
      BY <2>4, <2>5, FS_Injection
  <2> HIDE DEF R, On, rest
  <2>7. QED
      BY <1>6, <1>7, <2>4, <2>6
<1>9. QED
    BY <1>5, <1>8

\* What the assignment does with the next GPU.
LEMMA AffineDoes ==
    ASSUME placement \in Placements, Found, AffineInv, AffineController
    PROVE  LET g    == AllGpus[gpu]
               free == HostRanks(g.host) \ Controllers
           IN  /\ gpu \in 1 .. Len(AllGpus) /\ gpu' = gpu + 1 /\ UNCHANGED given
               /\ \/ free = {} /\ device' = device
                  \/ \E c \in free : /\ device' = [device EXCEPT ![c] = g.index]
                                     /\ (\E r \in free : g.numa >= 0 /\ placement.numa[r] = g.numa)
                                        => placement.numa[c] = g.numa
<1> DEFINE g     == AllGpus[gpu]
           free  == HostRanks(g.host) \ Controllers
           local == {r \in free : g.numa >= 0 /\ placement.numa[r] = g.numa}
<1>1. gpu \in 1 .. Len(AllGpus) /\ gpu' = gpu + 1 /\ UNCHANGED given
  <2>1. gpu <= Len(AllGpus) /\ gpu' = gpu + 1 /\ UNCHANGED given
      BY DEF AffineController
  <2>2. gpu \in 1 .. Len(AllGpus) + 1 /\ Len(AllGpus) \in Nat
      BY AllGpusFacts DEF AffineInv
  <2>3. QED
      BY <2>1, <2>2
<1>2. device' = IF local # {} THEN [device EXCEPT ![Least(local)] = g.index]
                ELSE IF free # {} THEN [device EXCEPT ![Least(free)] = g.index]
                ELSE device
    BY DEF AffineController
<1>3. free \in SUBSET Nat /\ local \in SUBSET Nat /\ local \subseteq free
    BY HostFacts
<1>4. CASE local # {}
  <2>1. Least(local) \in local
      BY <1>3, <1>4, LeastIsIn
  <2>2. QED
      BY <1>1, <1>2, <1>4, <2>1
<1>5. CASE local = {} /\ free # {}
  <2>1. Least(free) \in free
      BY <1>3, <1>5, LeastIsIn
  <2>2. QED
      BY <1>1, <1>2, <1>5, <2>1
<1>6. CASE local = {} /\ free = {}
    BY <1>1, <1>2, <1>6
<1>7. QED
    BY <1>4, <1>5, <1>6

\* What depends on the placement and the discovered GPUs only.
LEMMA GivenStays ==
    ASSUME UNCHANGED given
    PROVE  /\ AllGpus' = AllGpus /\ Hosts' = Hosts /\ (Found' <=> Found)
           /\ \A h : /\ HostRanks(h)' = HostRanks(h) /\ GpusOf(h)' = GpusOf(h)
                     /\ (Locatable(h)' <=> Locatable(h))
<1>1. UNCHANGED << placement, strategy, gpus >>
    BY DEF given
<1>2. Hosts' = Hosts /\ \A h : HostRanks(h)' = HostRanks(h)
    BY <1>1 DEF Hosts, HostRanks
<1>3. \A h : GpusOf(h)' = GpusOf(h)
    BY <1>1, <1>2 DEF GpusOf
<1>4. AllGpus' = AllGpus
    BY <1>2, <1>3 DEF AllGpus
<1>5. Found' <=> Found
    BY <1>1 DEF Found, DeviceCount
<1>6. ASSUME NEW h PROVE Locatable(h)' <=> Locatable(h)
  <2>1. Alike(h)' <=> Alike(h)
      BY <1>1, <1>2 DEF Alike
  <2>2. RanksAtGpus(h)' <=> RanksAtGpus(h)
      BY <1>1, <1>2 DEF RanksAtGpus
  <2>3. QED
      BY <1>1, <2>1, <2>2 DEF Locatable
<1>7. QED
    BY <1>2, <1>3, <1>4, <1>5, <1>6

\* The assignment of one GPU keeps the invariant.
LEMMA AffineKept ==
    ASSUME placement \in Placements, Found, AffineInv, AffineController
    PROVE  AffineInv'
<1>0. PICK g, h, x : g = AllGpus[gpu] /\ h = g.host /\ x = g.index
    OBVIOUS
<1> DEFINE free == HostRanks(h) \ Controllers
<1>1. /\ gpu \in 1 .. Len(AllGpus) /\ gpu' = gpu + 1 /\ UNCHANGED given
      /\ \/ free = {} /\ device' = device
         \/ \E c \in free : /\ device' = [device EXCEPT ![c] = x]
                            /\ (\E r \in free : g.numa >= 0 /\ placement.numa[r] = g.numa)
                               => placement.numa[c] = g.numa
    BY <1>0, AffineDoes
<1>2. /\ AllGpus' = AllGpus /\ Hosts' = Hosts
      /\ \A j : /\ HostRanks(j)' = HostRanks(j) /\ GpusOf(j)' = GpusOf(j)
                /\ (Locatable(j)' <=> Locatable(j))
    BY <1>1, GivenStays
<1>3. /\ h \in Hosts /\ x \in Nat /\ x \notin Taken(h) /\ Len(AllGpus) \in Nat
    BY <1>0, <1>1, NextIsNew, AllGpusFacts
<1>4. /\ device \in [Procs -> Int]
      /\ \A r \in Controllers : device[r] \in Taken(placement.host[r])
      /\ \A j \in Hosts : \A r \in Serving(j), q \in Serving(j) : r # q => device[r] # device[q]
      /\ \A j \in Hosts :
            Cardinality(Serving(j)) = Lesser(Cardinality(Taken(j)), Cardinality(HostRanks(j)))
      /\ \A j \in Hosts : ServedLocally(j)
    BY DEF AffineInv
<1>5. \A j : Taken(j)' = IF j = h THEN Taken(j) \cup {x} ELSE Taken(j)
  <2>1. \A k : k \in 1 .. gpu' - 1 <=> k \in 1 .. gpu - 1 \/ k = gpu
      BY <1>1, <1>3
  <2>2. \A j : Taken(j)' = {AllGpus[k].index : k \in {l \in 1 .. gpu' - 1 : AllGpus[l].host = j}}
      BY <1>2 DEF Taken
  <2>3. ASSUME NEW j PROVE Taken(j)' = IF j = h THEN Taken(j) \cup {x} ELSE Taken(j)
    <3> DEFINE S == {l \in 1 .. gpu - 1 : AllGpus[l].host = j}
               T == {l \in 1 .. gpu' - 1 : AllGpus[l].host = j}
    <3>1. T = IF j = h THEN S \cup {gpu} ELSE S
        BY <1>0, <2>1
    <3>2. Taken(j)' = {AllGpus[k].index : k \in T} /\ Taken(j) = {AllGpus[k].index : k \in S}
        BY <2>2 DEF Taken
    <3> HIDE DEF S, T
    <3>3. QED
        BY <1>0, <3>1, <3>2
  <2>4. QED
      BY <2>3
<1>6. \A j \in Hosts : /\ IsFiniteSet(Taken(j)) /\ Cardinality(Taken(j)) \in Nat
                       /\ IsFiniteSet(HostRanks(j)) /\ Cardinality(HostRanks(j)) \in Nat
                       /\ Serving(j) \subseteq HostRanks(j) /\ IsFiniteSet(Serving(j))
  <2>1. gpu \in 1 .. Len(AllGpus) + 1
      BY DEF AffineInv
  <2>2. QED
      BY <2>1, TakenFacts, HostFacts, FS_Subset DEF Serving
<1>7. Cardinality(Taken(h)') = Cardinality(Taken(h)) + 1
  <2>1. Taken(h)' = Taken(h) \cup {x} /\ IsFiniteSet(Taken(h))
      BY <1>3, <1>5, <1>6
  <2>2. Cardinality(Taken(h) \cup {x}) = Cardinality(Taken(h)) + 1
      BY <1>3, <2>1, FS_AddElement
  <2>3. QED
      BY <2>1, <2>2
<1>8. gpu' \in 1 .. Len(AllGpus') + 1
    BY <1>1, <1>2, <1>3
<1>9. CASE free = {} /\ device' = device
  <2>1. Controllers' = Controllers /\ \A j : Serving(j)' = Serving(j)
      BY <1>2, <1>9 DEF Controllers, Serving
  <2>2. Serving(h) = HostRanks(h) /\ h \in Hosts
      BY <1>6, <1>3, <1>9 DEF Serving
  <2>3. \A j \in Hosts :
           Cardinality(Serving(j)') = Lesser(Cardinality(Taken(j)'), Cardinality(HostRanks(j)'))
    <3>1. TAKE j \in Hosts
    <3>2. CASE j = h
      <4> DEFINE t == Cardinality(Taken(h))
                 n == Cardinality(HostRanks(h))
      <4>1. t \in Nat /\ n \in Nat /\ n = Lesser(t, n)
          BY <1>4, <1>6, <2>2
      <4> HIDE DEF t, n
      <4>2. n = Lesser(t + 1, n)
          BY <4>1 DEF Lesser
      <4>3. QED
          BY <1>2, <1>7, <2>1, <2>2, <3>2, <4>2 DEF t, n
    <3>3. CASE j # h
        BY <1>2, <1>4, <1>5, <2>1, <3>3
    <3>4. QED
        BY <3>2, <3>3
  <2>4. \A j \in Hosts : ServedLocally(j)'
    <3>1. TAKE j \in Hosts
    <3>2. placement' = placement /\ ServedLocally(j) /\ (Locatable(j)' <=> Locatable(j))
        BY <1>1, <1>2, <1>4 DEF given
    <3>3. QED
        BY <1>9, <2>1, <3>2 DEF ServedLocally, Locatable
  <2>5. placement' = placement
      BY <1>1 DEF given
  <2>6. \A r \in Controllers : device'[r] \in Taken(placement.host[r])'
      BY <1>4, <1>5, <1>9, <2>5
  <2>7. QED
      BY <1>2, <1>4, <1>8, <1>9, <2>1, <2>3, <2>4, <2>5, <2>6 DEF AffineInv
<1>10. ASSUME NEW c \in free, device' = [device EXCEPT ![c] = x],
              (\E r \in free : g.numa >= 0 /\ placement.numa[r] = g.numa)
                 => placement.numa[c] = g.numa
       PROVE  AffineInv'
  <2>1. /\ c \in Procs /\ placement.host[c] = h /\ c \in HostRanks(h) /\ c \notin Controllers
      BY DEF HostRanks
  <2>2. /\ device' \in [Procs -> Int] /\ device'[c] = x
        /\ \A r \in Procs : r # c => device'[r] = device[r]
      BY <1>3, <1>4, <1>10, <2>1
  <2>3. Controllers' = Controllers \cup {c} /\ Controllers \subseteq Procs
      BY <1>3, <2>1, <2>2 DEF Controllers
  <2>4. \A j : Serving(j)' = IF j = h THEN Serving(j) \cup {c} ELSE Serving(j)
      BY <1>2, <2>1, <2>3 DEF Serving, HostRanks
  <2>5. c \notin Serving(h) /\ \A j : Serving(j) \subseteq Procs
      BY <2>1, <2>3 DEF Serving
  <2>6. placement' = placement /\ strategy' = strategy
      BY <1>1 DEF given
  <2>7. ASSUME NEW r \in Controllers' PROVE device'[r] \in Taken(placement.host[r])'
    <3>1. CASE r = c
        BY <1>5, <2>1, <2>2, <2>6, <3>1
    <3>2. CASE r # c
      <4>1. r \in Controllers /\ r \in Procs /\ device'[r] = device[r]
          BY <2>2, <2>3, <3>2
      <4>2. device[r] \in Taken(placement.host[r])
          BY <1>4, <4>1
      <4>3. QED
          BY <1>5, <2>6, <4>1, <4>2
    <3>3. QED
        BY <3>1, <3>2
  <2>8. \A j \in Hosts : \A r \in Serving(j)', q \in Serving(j)' : r # q => device'[r] # device'[q]
    <3>1. TAKE j \in Hosts
    <3>2. \A r \in Serving(j) : device'[r] = device[r]
        BY <2>1, <2>2, <2>5 DEF Serving
    <3>3. CASE j # h
        BY <1>4, <2>4, <3>2, <3>3
    <3>4. CASE j = h
      <4>1. \A r \in Serving(h) : device'[r] # x
          BY <1>3, <1>4, <3>2, <3>4 DEF Serving, HostRanks
      <4>2. QED
          BY <1>4, <2>2, <2>4, <3>2, <3>4, <4>1
    <3>5. QED
        BY <3>3, <3>4
  <2>9. \A j \in Hosts :
           Cardinality(Serving(j)') = Lesser(Cardinality(Taken(j)'), Cardinality(HostRanks(j)'))
    <3>1. TAKE j \in Hosts
    <3>2. CASE j = h
      <4>1. Cardinality(Serving(h) \cup {c}) = Cardinality(Serving(h)) + 1
          BY <1>3, <1>6, <2>5, FS_AddElement
      <4>2. Cardinality(Serving(h)) # Cardinality(HostRanks(h))
          BY <1>3, <1>6, <2>1, <2>5, FS_Subset
      <4> DEFINE v == Cardinality(Serving(h))
                 t == Cardinality(Taken(h))
                 n == Cardinality(HostRanks(h))
      <4>3. t \in Nat /\ n \in Nat /\ v = Lesser(t, n) /\ v # n
          BY <1>3, <1>4, <1>6, <4>2
      <4> HIDE DEF v, t, n
      <4>4. v + 1 = Lesser(t + 1, n)
          BY <4>3 DEF Lesser
      <4>5. QED
          BY <1>2, <1>7, <2>4, <3>2, <4>1, <4>4 DEF v, t, n
    <3>3. CASE j # h
        BY <1>2, <1>4, <1>5, <2>4, <3>3
    <3>4. QED
        BY <3>2, <3>3
  <2>10. \A j \in Hosts : ServedLocally(j)'
    <3>1. SUFFICES ASSUME NEW j \in Hosts, Locatable(j), NEW r \in Serving(j)'
                   PROVE  placement.numa[r] = NodeOf(placement.lstopo[j], placement.visible[r][device'[r] + 1])
        BY <1>2, <2>6 DEF ServedLocally, Locatable
    <3>2. CASE r \in Serving(j)
      <4>1. r # c /\ r \in Procs
          BY <2>1, <2>5, <3>2 DEF Serving
      <4>2. QED
          BY <1>4, <2>2, <3>1, <3>2, <4>1 DEF ServedLocally, Locatable
    <3>3. CASE r \notin Serving(j)
      <4>1. j = h /\ r = c
          BY <2>4, <3>1, <3>3
      <4>2. gpu <= Len(AllGpus)
          BY <1>1, <1>3
      <4>3. /\ g.numa >= 0
            /\ g.numa = NodeOf(placement.lstopo[h], placement.visible[Least(HostRanks(h))][x + 1])
            /\ \E q \in free : placement.numa[q] = g.numa
          BY <3>1, <4>1, <4>2, <1>0, LocalIsFree
      <4>4. placement.numa[c] = g.numa
          BY <1>10, <4>3
      <4>5. placement.visible[c] = placement.visible[Least(HostRanks(h))]
          BY <1>3, <2>1, <3>1, <4>1, LocatedGpus
      <4>6. QED
          BY <2>2, <4>1, <4>3, <4>4, <4>5
    <3>4. QED
        BY <3>2, <3>3
  <2>11. \A r \in Controllers' : device'[r] \in Taken(placement.host[r])'
      BY <2>7
  <2>12. QED
      BY <1>2, <1>8, <2>2, <2>8, <2>9, <2>10, <2>11 DEF AffineInv
<1>11. QED
    BY <1>1, <1>9, <1>10

\* The first ranks of a host, one for each device.
LEMMA NodeControllersServe ==
    ASSUME placement \in Placements, NodeControllers, NEW h \in Hosts
    PROVE  EachGpuOnce(h)' /\ ServedLocally(h)'
<1> DEFINE ranks    == HostRanks(h)
           known(r) == DeviceCount(r)
<1>1. /\ strategy' = "round robin" /\ UNCHANGED << placement, strategy >>
      /\ device' = [r \in Procs |->
            IF Cardinality({q \in HostRanks(placement.host[r]) : q < r}) < DeviceCount(r)
            THEN Cardinality({q \in HostRanks(placement.host[r]) : q < r}) ELSE -1]
    BY DEF NodeControllers, given
<1>2. /\ ranks \in SUBSET Nat /\ ranks \in SUBSET Procs /\ ranks # {}
      /\ IsFiniteSet(ranks) /\ Cardinality(ranks) \in Nat
      /\ \A r \in Procs : DeviceCount(r) \in Nat
    BY HostFacts
<1>3. HostRanks(h)' = ranks /\ \A r : DeviceCount(r)' = DeviceCount(r)
    BY <1>1 DEF HostRanks, DeviceCount
<1>4. ASSUME NEW r \in ranks
      PROVE  /\ device'[r] = IF Position(ranks, r) < DeviceCount(r) THEN Position(ranks, r) ELSE -1
             /\ Position(ranks, r) \in Nat
  <2>1. placement.host[r] = h /\ r \in Procs
      BY DEF HostRanks
  <2>2. device'[r] = IF Position(ranks, r) < DeviceCount(r) THEN Position(ranks, r) ELSE -1
      BY <1>1, <2>1 DEF Position
  <2>3. QED
      BY <1>2, <2>2, PositionFacts
<1>5. Serving(h)' = {r \in ranks : Position(ranks, r) < DeviceCount(r)}
  <2>1. Serving(h)' = {r \in ranks : device'[r] >= 0}
      BY <1>2, <1>3 DEF Serving, Controllers
  <2> HIDE DEF ranks
  <2>2. \A r \in ranks : device'[r] >= 0 <=> Position(ranks, r) < DeviceCount(r)
      BY <1>4
  <2>3. QED
      BY <2>1, <2>2
<1> HIDE DEF ranks
<1>6. ASSUME NEW r \in Serving(h)', NEW q \in Serving(h)', r # q PROVE device'[r] # device'[q]
  <2>1. /\ r \in ranks /\ q \in ranks /\ r \in Nat /\ q \in Nat
        /\ device'[r] = Position(ranks, r) /\ device'[q] = Position(ranks, q)
        /\ Position(ranks, r) \in Nat /\ Position(ranks, q) \in Nat
      BY <1>2, <1>4, <1>5
  <2>2. r < q => Position(ranks, r) < Position(ranks, q)
      BY <1>2, <2>1, PositionFacts
  <2>3. q < r => Position(ranks, q) < Position(ranks, r)
      BY <1>2, <2>1, PositionFacts
  <2>4. r < q \/ q < r
      BY <1>6, <2>1
  <2>5. QED
      BY <2>1, <2>2, <2>3, <2>4
<1>7. ASSUME Alike(h)'
      PROVE  Cardinality(Serving(h)') =
                IF DeviceCount(Least(ranks)) < Cardinality(ranks)
                THEN DeviceCount(Least(ranks)) ELSE Cardinality(ranks)
  <2> DEFINE d == DeviceCount(Least(ranks))
  <2>1. Least(ranks) \in ranks
      BY <1>2, LeastIsIn
  <2>2. d \in Nat
      BY <1>2, <2>1
  <2>3. \A r \in ranks : DeviceCount(r) = d
      BY <1>1, <1>3, <1>7, <2>1 DEF Alike, DeviceCount
  <2> HIDE DEF d
  <2>4. Serving(h)' = First(ranks, d)
      BY <1>5, <2>3 DEF First
  <2>5. /\ Cardinality(First(ranks, d)) \in Nat /\ Cardinality(First(ranks, d)) <= d
        /\ First(ranks, d) # ranks => Cardinality(First(ranks, d)) = d
      BY <1>2, <2>2, LowPositions
  <2>6. Cardinality(First(ranks, d)) <= Cardinality(ranks)
    <3>1. First(ranks, d) \in SUBSET ranks
        BY DEF First
    <3>2. QED
        BY <1>2, <3>1, FS_Subset
  <2>7. Cardinality(First(ranks, d)) = IF d < Cardinality(ranks) THEN d ELSE Cardinality(ranks)
      BY <1>2, <2>2, <2>5, <2>6
  <2>8. QED
      BY <2>4, <2>7 DEF d
<1>8. Alike(h)' => Cardinality(Serving(h)') =
         IF DeviceCount(Least(HostRanks(h)))' < Cardinality(HostRanks(h)')
         THEN DeviceCount(Least(HostRanks(h)))' ELSE Cardinality(HostRanks(h)')
  <2>1. DeviceCount(Least(HostRanks(h)))' = DeviceCount(Least(ranks))
      BY <1>1, <1>3 DEF DeviceCount
  <2>2. QED
      BY <1>3, <1>7, <2>1
<1>9. EachGpuOnce(h)'
    BY <1>1, <1>6, <1>8 DEF EachGpuOnce
<1>10. ServedLocally(h)'
    BY <1>1 DEF ServedLocally
<1>11. QED
    BY <1>9, <1>10

\* In the end every GPU has been looked at.
LEMMA AffineServes ==
    ASSUME placement \in Placements, Found, AffineInv, AffineDone
    PROVE  \A h \in Hosts : EachGpuOnce(h) /\ ServedLocally(h)
<1> SUFFICES ASSUME NEW h \in Hosts PROVE EachGpuOnce(h) /\ ServedLocally(h)
    OBVIOUS
<1>1. strategy # "round robin" /\ gpu > Len(AllGpus) /\ gpu \in 1 .. Len(AllGpus) + 1
    BY DEF AffineDone, AffineInv
<1>2. Cardinality(Taken(h)) = Len(GpusOf(h))
    BY <1>1, TakenFacts
<1>3. Cardinality(Serving(h)) = IF Len(GpusOf(h)) < Cardinality(HostRanks(h))
                                THEN Len(GpusOf(h)) ELSE Cardinality(HostRanks(h))
    BY <1>2 DEF AffineInv, Lesser
<1>4. EachGpuOnce(h)
    BY <1>1, <1>3 DEF EachGpuOnce, AffineInv
<1>5. QED
    BY <1>4 DEF AffineInv

\* Before the first GPU is assigned nobody has one.
Starting ==
    placement \in Placements /\ Found /\ gpu = 1 /\ device = [r \in Procs |-> -1]

LEMMA AffineStarts == Starting => AffineInv
<1> SUFFICES ASSUME placement \in Placements, Found, gpu = 1, device = [r \in Procs |-> -1]
             PROVE  AffineInv
    BY DEF Starting
<1>1. Len(AllGpus) \in Nat /\ gpu \in 1 .. Len(AllGpus) + 1
    BY AllGpusFacts
<1>2. Controllers = {} /\ \A h : Serving(h) = {}
    BY DEF Controllers, Serving
<1>3. \A h : Taken(h) = {}
    BY DEF Taken
<1>4. \A h \in Hosts : Cardinality(Serving(h)) = Lesser(Cardinality(Taken(h)), Cardinality(HostRanks(h)))
  <2>1. TAKE h \in Hosts
  <2>2. Cardinality(Serving(h)) = 0 /\ Cardinality(Taken(h)) = 0
      BY <1>2, <1>3, FS_EmptySet
  <2>3. Cardinality(HostRanks(h)) \in Nat
      BY HostFacts
  <2>4. QED
      BY <2>2, <2>3 DEF Lesser
<1>5. device \in [Procs -> Int]
    OBVIOUS
<1>6. QED
    BY <1>1, <1>2, <1>4, <1>5 DEF AffineInv, ServedLocally

\* How far the controllers are known in each stage of createWorkgroups.
GpusInv ==
    /\ stage = "discover" => gpu = 1 /\ device = [r \in Procs |-> -1]
    /\ stage \in {"controllers", "color", "home", "best", "done"} => Found
    /\ stage = "controllers" /\ strategy # "round robin" => AffineInv
    /\ stage \in {"color", "home", "best", "done"} =>
          \A h \in Hosts : EachGpuOnce(h) /\ ServedLocally(h)

\* Once they are known nothing changes them.
LEMMA ServingStays ==
    ASSUME UNCHANGED << given, device >>, NEW h
    PROVE  (EachGpuOnce(h)' <=> EachGpuOnce(h)) /\ (ServedLocally(h)' <=> ServedLocally(h))
<1>1. /\ UNCHANGED << placement, strategy, gpus, device >>
      /\ HostRanks(h)' = HostRanks(h) /\ GpusOf(h)' = GpusOf(h)
      /\ (Locatable(h)' <=> Locatable(h))
    BY GivenStays DEF given
<1>2. Serving(h)' = Serving(h)
    BY <1>1 DEF Serving, Controllers
<1>3. DeviceCount(Least(HostRanks(h)))' = DeviceCount(Least(HostRanks(h)))
    BY <1>1 DEF DeviceCount
<1>4. Alike(h)' <=> Alike(h)
    BY <1>1 DEF Alike
<1>5. EachGpuOnce(h)' <=> EachGpuOnce(h)
    BY <1>1, <1>2, <1>3, <1>4 DEF EachGpuOnce
<1>6. ServedLocally(h)' <=> ServedLocally(h)
    BY <1>1, <1>2 DEF ServedLocally, Locatable
<1>7. QED
    BY <1>5, <1>6

\* The distribution keeps it.
LEMMA GpusKept ==
    ASSUME GroupsInv, GroupsInv', GpusInv, CreateWorkgroups
    PROVE  GpusInv'
<1>1. CASE DiscoverGPUs
  <2>1. /\ stage = "discover" /\ stage' = "controllers"
        /\ UNCHANGED << placement, strategy, device, gpu >>
      BY <1>1 DEF DiscoverGPUs
  <2>2. placement' \in Placements
      BY <2>1 DEF GroupsInv, Making
  <2>3. Found'
      BY <1>1 DEF DiscoverGPUs, Found, DeviceCount
  <2>4. gpu' = 1 /\ device' = [r \in Procs |-> -1]
      BY <2>1 DEF GpusInv
  <2>5. AffineInv'
    <3>1. Starting'
        BY <2>2, <2>3, <2>4 DEF Starting
    <3>2. QED
        BY <3>1, AffineStarts, PTL
  <2>6. QED
      BY <2>1, <2>3, <2>5 DEF GpusInv
<1>2. CASE NodeControllers
  <2>1. stage = "controllers" /\ stage' = "color" /\ UNCHANGED given /\ placement \in Placements
      BY <1>2 DEF NodeControllers, GroupsInv, Making
  <2>2. Found' /\ Hosts' = Hosts
      BY <2>1, GivenStays DEF GpusInv
  <2>3. \A h \in Hosts : EachGpuOnce(h)' /\ ServedLocally(h)'
      BY <1>2, <2>1, NodeControllersServe
  <2>4. QED
      BY <2>1, <2>2, <2>3 DEF GpusInv
<1>3. CASE AffineController
  <2>1. /\ stage = "controllers" /\ stage' = "controllers" /\ strategy # "round robin"
        /\ UNCHANGED given /\ placement \in Placements
      BY <1>3 DEF AffineController, GroupsInv, Making
  <2>2. Found /\ AffineInv
      BY <2>1 DEF GpusInv
  <2>3. Found' /\ AffineInv'
      BY <1>3, <2>1, <2>2, GivenStays, AffineKept
  <2>4. QED
      BY <2>1, <2>3 DEF GpusInv
<1>4. CASE AffineDone
  <2>1. /\ stage = "controllers" /\ stage' = "color" /\ strategy # "round robin"
        /\ UNCHANGED << given, device >> /\ placement \in Placements
      BY <1>4 DEF AffineDone, GroupsInv, Making
  <2>2. Found /\ AffineInv
      BY <2>1 DEF GpusInv
  <2>3. Found' /\ Hosts' = Hosts
      BY <2>1, <2>2, GivenStays
  <2>4. \A h \in Hosts : EachGpuOnce(h)' /\ ServedLocally(h)'
      BY <1>4, <2>1, <2>2, AffineServes, ServingStays
  <2>5. QED
      BY <2>1, <2>3, <2>4 DEF GpusInv
<1>5. CASE NoDevices \/ RoundRobinColor \/ OwnGroups \/ HomeDomain \/ BestGroup \/ NextDomain
  <2>1. /\ stage \in {"color", "home", "best"} /\ stage' \in {"home", "best", "done"}
        /\ UNCHANGED << given, device >>
      BY <1>5 DEF NoDevices, RoundRobinColor, OwnGroups, HomeDomain, BestGroup, NextDomain
  <2>2. Found' /\ Hosts' = Hosts
      BY <2>1, GivenStays DEF GpusInv
  <2>3. \A h \in Hosts : EachGpuOnce(h)' /\ ServedLocally(h)'
      BY <2>1, ServingStays DEF GpusInv
  <2>4. QED
      BY <2>1, <2>2, <2>3 DEF GpusInv
<1>6. QED
    BY <1>1, <1>2, <1>3, <1>4, <1>5 DEF CreateWorkgroups

\* On every host, for every placement and every strategy: no GPU has two controllers,
\* none is idle that a rank could control, and where the GPUs are listed unambiguously
\* and their nodes have ranks for them, each is controlled from its own node.
THEOREM GpusAreServed == Spec => []GpusServed
<1>1. Init => GpusInv
    BY DEF Init, GroupInit, GpusInv
<1>2. SetupInv /\ SetupInv' /\ GpusInv /\ [Next]_vars => GpusInv'
  <2>1. SUFFICES ASSUME SetupInv, SetupInv', GpusInv, [Next]_vars PROVE GpusInv'
      OBVIOUS
  <2>2. CASE Distribute
      BY <2>1, <2>2, GpusKept DEF SetupInv, Distribute
  <2>3. CASE UNCHANGED vars
    <3>1. UNCHANGED << stage, given, device, gpu >>
        BY <2>3 DEF vars, groupVars
    <3>2. /\ Hosts' = Hosts /\ (Found' <=> Found) /\ strategy' = strategy
          /\ \A h : (EachGpuOnce(h)' <=> EachGpuOnce(h)) /\ (ServedLocally(h)' <=> ServedLocally(h))
        BY <3>1, GivenStays, ServingStays DEF given
    <3>3. AffineInv' <=> AffineInv
      <4>1. /\ AllGpus' = AllGpus /\ UNCHANGED << placement, device, gpu >>
            /\ \A h : HostRanks(h)' = HostRanks(h)
          BY <3>1, GivenStays DEF given
      <4>2. Controllers' = Controllers /\ \A h : Serving(h)' = Serving(h) /\ Taken(h)' = Taken(h)
          BY <4>1 DEF Controllers, Serving, Taken
      <4>3. QED
          BY <3>2, <4>1, <4>2 DEF AffineInv
    <3>4. QED
        BY <2>1, <3>1, <3>2, <3>3 DEF GpusInv
  <2>4. CASE Enter \/ ControllerStep \/ WorkerStep
    <3>1. stage' \in {"enter", "split", "ready", "died"}
      <4>1. CASE Enter
          BY <4>1 DEF Enter, EnterGroup, Forget, ChooseBatches, InitInferenceStrategy
      <4>2. CASE ControllerStep \/ WorkerStep
          BY <4>2 DEF ControllerStep, WorkerStep, groupVars
      <4>3. QED
          BY <2>4, <4>1, <4>2
    <3>2. QED
        BY <3>1 DEF GpusInv
  <2>5. QED
      BY <2>1, <2>2, <2>3, <2>4 DEF Next
<1>3. GpusInv => GpusServed
    BY DEF GpusInv, GpusServed
<1>4. QED
    BY <1>1, <1>2, <1>3, Invariance, PTL DEF Spec
=============================================================================
