---------------------- MODULE CollectiveExchangeProofs ----------------------
(***************************************************************************)
(* The collective exchange, for every group, every number of samples per   *)
(* rank, every split of them between hosts and device, with and without    *)
(* diagnostic barriers, whether or not a collective holds a rank without   *)
(* elements: all samples are inferred in their places, and the exchange    *)
(* implements the contract of module Exchange.                             *)
(***************************************************************************)
EXTENDS CollectiveExchange, FiniteNaturals

\* The calls whose device part rank r has handed over; the controller's own
\* number is that of the gathers that are complete.
Contributed(r) == IF pc[r] \in ToGather THEN called[r] - 1 ELSE called[r]

\* Where a rank may be, whether it is the controller, and what it has called.
RankPhase(r) ==
    /\ pc[r] = "host" => ~IsController(r)
    /\ pc[r] = "device" => IsController(r)
    /\ pc[r] # "app" => called[r] >= 1
    /\ ~Devices => host[r] = Batch[r]
    /\ IsController(r) => host[r] = 0

\* No partner is overtaken by the controller: it gathers what was contributed, and
\* a worker returns from what was scattered.
RankOrder(r) == r \in Partners => Contributed(0) <= Contributed(r) /\ Returned(r) <= Returned(0)

\* What is under way belongs to the last call its sender counted.
RankParts(r) ==
    /\ gathered[r] = IF r \in Partners /\ Contributed(0) < Contributed(r)
                     THEN << Part(r, Contributed(r)) >> ELSE << >>
    /\ scattered[r] = IF r \in Partners /\ Returned(r) < Returned(0)
                      THEN << Part(r, Returned(0)) >> ELSE << >>

\* Every segment of buffer holds the device part of its rank in call c.
Holds(buffer, c) ==
    \A r \in Ranks : \A s \in 1 .. DeviceBatch(r) : buffer[DeviceDispl(r) + s] = Part(r, c)[s]

\* What the buffers hold, in the places where they are about to be used.
Buffers ==
    /\ pc[0] = "device" => Holds(inputs, called[0])
    /\ Devices /\ pc[0] \in ToScatter => Holds(outputs, called[0])

\* The samples that a rank has behind it.
RankOut(r) ==
    /\ pc[r] = "app" => \A s \in 1 .. Batch[r] : out[r][s] = Sample(r, s, called[r])
    /\ pc[r] \in ToScatter => \A s \in 1 .. host[r] : out[r][s] = Sample(r, s, called[r])

\* Types of what the proof needs them of; the types of messages follow.
BaseTypes ==
    /\ config \in Configs
    /\ pc \in [Ranks -> Places]
    /\ called \in [Ranks -> 0 .. MaxCalls]
    /\ host \in [Ranks -> Nat] /\ DOMAIN out = Ranks
    /\ inputs \in [1 .. DeviceTotal -> Samples]
    /\ outputs \in [1 .. DeviceTotal -> Samples]
    /\ DOMAIN gathered = Ranks /\ DOMAIN scattered = Ranks
    /\ \A r \in Ranks : host[r] \in 0 .. Batch[r] /\ out[r] \in [1 .. Batch[r] -> Samples]

\* The inductive invariant.
IInv ==
    /\ BaseTypes
    /\ \A r \in Ranks : RankPhase(r) /\ RankOrder(r) /\ RankParts(r) /\ RankOut(r)
    /\ Buffers

-----------------------------------------------------------------------------
(***************************************************************************)
(* The segments of the controller buffers                                  *)
(***************************************************************************)
LEMMA SetupTypes ==
    ASSUME BaseTypes
    PROVE  /\ N \in Nat \ {0} /\ MaxCalls \in Nat /\ 0 \in Ranks
           /\ Devices \in BOOLEAN /\ Hybrid \in BOOLEAN /\ Barriers \in BOOLEAN
           /\ Waits \in BOOLEAN
           /\ \A r \in Ranks : /\ r \in Nat /\ Batch[r] \in Nat /\ host[r] \in Nat
                               /\ DeviceBatch(r) \in Nat /\ host[r] + DeviceBatch(r) = Batch[r]
<1>1. /\ config.batch \in [Ranks -> Nat] /\ config.devices \in BOOLEAN
      /\ config.hybrid \in BOOLEAN /\ config.barriers \in BOOLEAN /\ config.waits \in BOOLEAN
    BY CollectiveAssumption DEF BaseTypes
<1>2. N \in Nat \ {0} /\ MaxCalls \in Nat /\ 0 \in Ranks
    BY CollectiveAssumption DEF Ranks
<1>3. ASSUME NEW r \in Ranks
      PROVE  /\ r \in Nat /\ Batch[r] \in Nat /\ host[r] \in Nat
             /\ DeviceBatch(r) \in Nat /\ host[r] + DeviceBatch(r) = Batch[r]
  <2>1. r \in Nat /\ Batch[r] \in Nat /\ host[r] \in 0 .. Batch[r]
      BY <1>1, <1>2 DEF BaseTypes, Ranks, Batch
  <2>2. QED
      BY <2>1 DEF DeviceBatch
<1>4. QED
    BY <1>1, <1>2, <1>3 DEF Devices, Hybrid, Barriers, Waits

\* A partner is a worker beside a device; a worker that is no partner beside a
\* device infers all of its samples on its host.
LEMMA PartnerFacts ==
    ASSUME BaseTypes, NEW r \in Ranks
    PROVE  /\ r \in Partners => Devices /\ r # 0 /\ ~IsController(r) /\ r \in Workers
           /\ Devices /\ r \notin Partners /\ ~IsController(r) => host[r] = Batch[r] /\ DeviceBatch(r) = 0
<1>1. N \in Nat \ {0} /\ r \in Nat /\ r < N
    BY SetupTypes DEF Ranks
<1>2. r \in Partners => Devices /\ r # 0 /\ r \in Workers
    BY <1>1 DEF Partners, Workers
<1>3. ASSUME Devices, r \notin Partners, ~IsController(r) PROVE host[r] = Batch[r] /\ DeviceBatch(r) = 0
  <2>1. r \in Workers
      BY <1>1, <1>3 DEF Workers, IsController
  <2>2. ~(DeviceBatch(r) > 0)
      BY <1>3, <2>1 DEF Partners
  <2>3. QED
      BY <2>2, SetupTypes
<1>4. QED
    BY <1>2, <1>3 DEF IsController

\* The segments follow one another in the order of the ranks.
LEMMA SegmentEnds ==
    ASSUME BaseTypes
    PROVE  /\ \A r \in 0 .. N : DeviceDispl(r) \in Nat
           /\ DeviceDispl(0) = 0 /\ DeviceTotal = DeviceDispl(N)
           /\ \A r \in Ranks : DeviceDispl(r + 1) = DeviceDispl(r) + DeviceBatch(r)
<1> DEFINE f == [q \in Ranks |-> DeviceBatch(q)]
<1>1. N \in Nat \ {0} /\ \A q \in Ranks : f[q] \in Nat /\ f[q] = DeviceBatch(q)
    BY SetupTypes
<1> HIDE DEF f
<1>2. \A r : DeviceDispl(r) = SumOver(f, 0 .. r - 1)
    BY DEF DeviceDispl, f
<1>3. ASSUME NEW r \in 0 .. N PROVE IsFiniteSet(0 .. r - 1) /\ \A q \in 0 .. r - 1 : q \in Ranks
  <2>1. r \in Int /\ r - 1 \in Int /\ 0 \in Int
      BY <1>1
  <2>2. IsFiniteSet(0 .. r - 1)
      BY <2>1, FS_Interval
  <2>3. QED
      BY <1>1, <2>2 DEF Ranks
<1>4. ASSUME NEW r \in 0 .. N PROVE SumOver(f, 0 .. r - 1) \in Nat /\ (r = 0 => SumOver(f, 0 .. r - 1) = 0)
  <2>1. IsFiniteSet(0 .. r - 1) /\ \A q \in 0 .. r - 1 : f[q] \in Nat
      BY <1>1, <1>3
  <2>2. r = 0 => 0 .. r - 1 = {}
      OBVIOUS
  <2>3. QED
      BY <2>1, <2>2, SumFacts
<1>5. ASSUME NEW r \in Ranks PROVE SumOver(f, 0 .. r) = SumOver(f, 0 .. r - 1) + f[r]
  <2>1. r \in Nat /\ r \in 0 .. N /\ r + 1 \in 0 .. N /\ (r + 1) - 1 = r
      BY <1>1 DEF Ranks
  <2>2. IsFiniteSet(0 .. r) /\ \A q \in 0 .. r : f[q] \in Nat
      BY <1>1, <1>3, <2>1
  <2>3. r \in 0 .. r /\ (0 .. r) \ {r} = 0 .. r - 1
      BY <2>1
  <2>4. SumOver(f, 0 .. r) = f[r] + SumOver(f, 0 .. r - 1)
      BY <2>2, <2>3, SumFacts
  <2>5. SumOver(f, 0 .. r - 1) \in Nat /\ f[r] \in Nat
      BY <1>1, <1>4, <2>1
  <2>6. QED
      BY <2>4, <2>5
<1>6. ASSUME NEW r \in Ranks PROVE DeviceDispl(r + 1) = DeviceDispl(r) + DeviceBatch(r)
  <2>1. (r + 1) - 1 = r
      BY <1>1 DEF Ranks
  <2>2. DeviceDispl(r + 1) = SumOver(f, 0 .. r)
      BY <1>2, <2>1
  <2>3. QED
      BY <1>1, <1>2, <1>5, <2>2
<1>7. 0 \in 0 .. N
    BY <1>1
<1>8. QED
    BY <1>2, <1>4, <1>6, <1>7 DEF DeviceTotal

LEMMA SegmentOrder ==
    ASSUME BaseTypes, NEW q \in 0 .. N, NEW r \in 0 .. N, q <= r
    PROVE  DeviceDispl(q) <= DeviceDispl(r)
<1> DEFINE Bad == {n \in Nat : n <= N /\ q <= n /\ ~(DeviceDispl(q) <= DeviceDispl(n))}
<1>1. N \in Nat \ {0} /\ \A n \in 0 .. N : DeviceDispl(n) \in Nat
    BY SetupTypes, SegmentEnds
<1>2. SUFFICES ASSUME Bad # {} PROVE FALSE
    BY <1>1
<1>3. PICK n \in Bad : \A m \in Bad : n <= m
    BY <1>2, LeastElement
<1>4. n # q
    BY <1>1
<1>5. n - 1 \in Ranks /\ n - 1 \in 0 .. N /\ n \in 0 .. N /\ q <= n - 1 /\ (n - 1) + 1 = n
    BY <1>1, <1>4 DEF Ranks
<1>6. DeviceDispl(q) <= DeviceDispl(n - 1)
  <2>1. n - 1 \notin Bad
      BY <1>3
  <2>2. QED
      BY <1>1, <1>5, <2>1
<1>7. DeviceDispl(n) = DeviceDispl(n - 1) + DeviceBatch(n - 1) /\ DeviceBatch(n - 1) \in Nat
    BY <1>5, SetupTypes, SegmentEnds
<1>8. QED
    BY <1>1, <1>5, <1>6, <1>7

\* A place in the segment of rank r is in no other segment.
LEMMA PlaceFacts ==
    ASSUME BaseTypes, NEW r \in Ranks, NEW s \in 1 .. DeviceBatch(r)
    PROVE  DeviceDispl(r) + s \in 1 .. DeviceTotal /\ RankAt(DeviceDispl(r) + s) = r
<1>1. /\ N \in Nat \ {0} /\ r \in 0 .. N /\ r + 1 \in 0 .. N /\ DeviceBatch(r) \in Nat
      /\ \A q \in Ranks : q \in 0 .. N /\ q + 1 \in 0 .. N
    BY SetupTypes DEF Ranks
<1>2. /\ \A q \in 0 .. N : DeviceDispl(q) \in Nat
      /\ DeviceTotal = DeviceDispl(N) /\ DeviceDispl(r + 1) = DeviceDispl(r) + DeviceBatch(r)
    BY SegmentEnds
<1>3. DeviceDispl(r + 1) <= DeviceDispl(N)
    BY <1>1, SegmentOrder
<1>4. DeviceDispl(r) + s \in 1 .. DeviceTotal
    BY <1>1, <1>2, <1>3
<1>5. ASSUME NEW q \in Ranks, DeviceDispl(q) < DeviceDispl(r) + s, DeviceDispl(r) + s <= DeviceDispl(q + 1)
      PROVE  q = r
  <2>1. CASE q < r
    <3>1. DeviceDispl(q + 1) <= DeviceDispl(r)
        BY <1>1, <2>1, SegmentOrder
    <3>2. QED
        BY <1>1, <1>2, <1>5, <3>1
  <2>2. CASE r < q
    <3>1. DeviceDispl(r + 1) <= DeviceDispl(q)
        BY <1>1, <2>2, SegmentOrder
    <3>2. QED
        BY <1>1, <1>2, <1>5, <3>1
  <2>3. QED
      BY <1>1, <2>1, <2>2
<1>6. DeviceDispl(r) < DeviceDispl(r) + s /\ DeviceDispl(r) + s <= DeviceDispl(r + 1)
    BY <1>1, <1>2
<1>7. QED
    BY <1>4, <1>5, <1>6 DEF RankAt

\* Every place is in a segment.
LEMMA PlaceHasRank ==
    ASSUME BaseTypes, NEW s \in 1 .. DeviceTotal
    PROVE  RankAt(s) \in Ranks /\ s - DeviceDispl(RankAt(s)) \in 1 .. DeviceBatch(RankAt(s))
<1>1. N \in Nat \ {0} /\ \A q \in 0 .. N : DeviceDispl(q) \in Nat
    BY SetupTypes, SegmentEnds
<1>2. s \in Nat /\ DeviceDispl(0) < s /\ s <= DeviceDispl(N)
    BY <1>1, SegmentEnds
<1> DEFINE Below == {q \in 0 .. N : DeviceDispl(q) < s}
<1>3. IsFiniteSet(0 .. N)
    BY <1>1, FS_Interval
<1>4. Below \in SUBSET Nat /\ IsFiniteSet(Below) /\ Below # {}
    BY <1>1, <1>2, <1>3, FS_Subset
<1>5. PICK q \in Below : \A n \in Below : n <= q
    BY <1>4, GreatestElement
<1>6. q \in Ranks /\ q + 1 \in 0 .. N
    BY <1>1, <1>2 DEF Ranks
<1>7. q + 1 \notin Below
    BY <1>5, <1>6
<1>8. DeviceDispl(q) < s /\ s <= DeviceDispl(q + 1)
    BY <1>1, <1>2, <1>6, <1>7
<1>9. /\ RankAt(s) \in Ranks
      /\ DeviceDispl(RankAt(s)) < s /\ s <= DeviceDispl(RankAt(s) + 1)
    BY <1>6, <1>8 DEF RankAt
<1>10. DeviceDispl(RankAt(s) + 1) = DeviceDispl(RankAt(s)) + DeviceBatch(RankAt(s))
    BY <1>9, SegmentEnds
<1>11. DeviceDispl(RankAt(s)) \in Nat /\ DeviceBatch(RankAt(s)) \in Nat
  <2>1. RankAt(s) \in 0 .. N
      BY <1>1, <1>9 DEF Ranks
  <2>2. QED
      BY <1>1, <1>9, <2>1, SetupTypes
<1>12. QED
    BY <1>2, <1>9, <1>10, <1>11

-----------------------------------------------------------------------------
(***************************************************************************)
(* The invariant holds initially and is kept by every action               *)
(***************************************************************************)
\* What the constructor has decided stays.
LEMMA SetupStays ==
    ASSUME UNCHANGED setup
    PROVE  /\ config' = config /\ host' = host /\ Batch' = Batch /\ Barriers' = Barriers
           /\ Devices' = Devices /\ DeviceTotal' = DeviceTotal
           /\ \A r : /\ DeviceBatch(r)' = DeviceBatch(r) /\ DeviceDispl(r)' = DeviceDispl(r)
                     /\ IsController(r)' = IsController(r)
           /\ \A r, c : Part(r, c)' = Part(r, c)
           /\ Partners' = Partners /\ Members' = Members
<1>1. config' = config /\ host' = host /\ Batch' = Batch /\ Barriers' = Barriers /\ Devices' = Devices
    BY DEF setup, Batch, Barriers, Devices
<1>2. \A r : DeviceBatch(r)' = DeviceBatch(r) /\ IsController(r)' = IsController(r)
    BY <1>1 DEF DeviceBatch, IsController
<1>3. \A r : DeviceDispl(r)' = DeviceDispl(r)
    BY <1>1 DEF DeviceDispl, DeviceBatch
<1>4. DeviceTotal' = DeviceTotal
    BY <1>3 DEF DeviceTotal
<1>5. \A r, c : Part(r, c)' = Part(r, c)
    BY <1>1, <1>2 DEF Part, DeviceOffset
<1>6. Partners' = Partners
    BY <1>1, <1>2 DEF Partners, Waits
<1>7. Members' = Members
    BY <1>1, <1>2, <1>6 DEF Members
<1>8. QED
    BY <1>1, <1>2, <1>3, <1>4, <1>5, <1>6, <1>7

\* The counts of a rank, with or without a device.
LEMMA CountTypes ==
    ASSUME IInv, NEW r \in Ranks
    PROVE  /\ 0 \in Ranks /\ called[r] \in Nat /\ called[r] \in 0 .. MaxCalls /\ MaxCalls \in Nat
           /\ Returned(r) \in 0 .. MaxCalls /\ Contributed(r) \in 0 .. MaxCalls
           /\ Returned(r) <= Contributed(r) /\ Contributed(r) <= Returned(r) + 1
           /\ Contributed(r) <= called[r]
<1>1. /\ called[r] \in 0 .. MaxCalls /\ MaxCalls \in Nat /\ 0 \in Ranks
      /\ pc[r] # "app" => called[r] >= 1
    BY SetupTypes DEF IInv, BaseTypes, RankPhase
<1>2. "app" \notin ToGather
    BY DEF ToGather
<1>3. QED
    BY <1>1, <1>2 DEF Returned, Contributed

\* No partner is more than a call away from what the controller has gathered and
\* scattered.
LEMMA InTurn ==
    ASSUME IInv, NEW r \in Ranks, r = 0 \/ r \in Partners
    PROVE  /\ Contributed(0) <= Contributed(r) /\ Contributed(r) <= Contributed(0) + 1
           /\ Returned(r) <= Returned(0) /\ Returned(0) <= Returned(r) + 1
           /\ Contributed(r) \in Nat /\ Contributed(0) \in Nat
           /\ Returned(r) \in Nat /\ Returned(0) \in Nat
<1>1. RankOrder(r)
    BY DEF IInv
<1>2. /\ 0 \in Ranks /\ MaxCalls \in Nat
      /\ Returned(r) \in 0 .. MaxCalls /\ Contributed(r) \in 0 .. MaxCalls
      /\ Returned(r) <= Contributed(r) /\ Contributed(r) <= Returned(r) + 1
    BY CountTypes
<1>3. /\ Returned(0) \in 0 .. MaxCalls /\ Contributed(0) \in 0 .. MaxCalls
      /\ Returned(0) <= Contributed(0) /\ Contributed(0) <= Returned(0) + 1
    BY <1>2, CountTypes
<1>4. QED
    BY <1>1, <1>2, <1>3 DEF RankOrder

LEMMA SampleTypes ==
    ASSUME BaseTypes, NEW r \in Ranks, NEW c \in 0 .. MaxCalls
    PROVE  /\ \A s \in Nat : Sample(r, s, c) \in Samples
           /\ Part(r, c) \in [1 .. DeviceBatch(r) -> Samples]
           /\ \A s \in 1 .. DeviceBatch(r) : Part(r, c)[s] = Sample(r, host[r] + s, c)
<1>1. \A s \in Nat : Sample(r, s, c) \in Samples
    BY DEF Sample, Samples
<1>2. host[r] \in Nat /\ DeviceBatch(r) \in Nat
    BY SetupTypes
<1>3. \A s \in 1 .. DeviceBatch(r) : host[r] + s \in Nat
    BY <1>2
<1>4. Part(r, c) = [s \in 1 .. DeviceBatch(r) |-> Sample(r, host[r] + s, c)]
    BY DEF Part, DeviceOffset
<1>5. QED
    BY <1>1, <1>3, <1>4

LEMMA IInvInit == Init => IInv
<1> SUFFICES ASSUME Init PROVE IInv
    OBVIOUS
<1>1. /\ config \in Configs /\ config.batch \in [Ranks -> Nat] /\ config.devices \in BOOLEAN
      /\ N \in Nat \ {0} /\ MaxCalls \in Nat /\ 0 \in Ranks /\ 0 \in 0 .. MaxCalls
    BY CollectiveAssumption DEF Init, Ranks
<1>2. /\ ~Devices => host = Batch
      /\ Devices => host[0] = 0
      /\ host \in [Ranks -> Nat] /\ \A r \in Ranks : host[r] \in 0 .. Batch[r]
  <2>1. CASE ~Devices
      BY <1>1, <2>1 DEF Init, Batch
  <2>2. CASE Devices /\ ~Hybrid
      BY <1>1, <2>2 DEF Init, Batch
  <2>3. CASE Devices /\ Hybrid
    <3>1. PICK wanted : /\ host \in [Ranks -> 0 .. SumOver(Batch, Ranks)]
                        /\ host[0] = 0
                        /\ IsSplit(host, Batch, Workers, wanted)
        BY <2>3 DEF Init
    <3>2. \A r \in Workers : host[r] \in 0 .. Batch[r]
        BY <3>1 DEF IsSplit
    <3>3. ASSUME NEW r \in Ranks PROVE host[r] \in 0 .. Batch[r] /\ host[r] \in Nat
      <4>1. r = 0 \/ r \in Workers
          BY <1>1 DEF Ranks, Workers
      <4>2. Batch[r] \in Nat
          BY <1>1 DEF Batch
      <4>3. QED
          BY <3>1, <3>2, <4>1, <4>2
    <3>4. QED
        BY <2>3, <3>1, <3>3
  <2>4. QED
      BY <2>1, <2>2, <2>3
<1>3. BaseTypes
  <2>1. pc = [r \in Ranks |-> "app"] /\ "app" \in Places /\ called = [r \in Ranks |-> 0]
      BY DEF Init, Places
  <2>2. out = [r \in Ranks |-> [s \in 1 .. Batch[r] |-> Sample(r, s, 0)]]
      BY DEF Init
  <2>3. \A r \in Ranks, s \in Nat : Sample(r, s, 0) \in Samples
      BY <1>1 DEF Sample, Samples
  <2>4. \A r \in Ranks : out[r] \in [1 .. Batch[r] -> Samples]
    <3>1. \A r \in Ranks : \A s \in 1 .. Batch[r] : s \in Nat
        BY <1>1 DEF Batch
    <3>2. QED
        BY <2>2, <2>3, <3>1
  <2>5. inputs = Fresh /\ outputs = Fresh /\ Fresh \in [1 .. DeviceTotal -> Samples]
      BY <1>1, <2>3 DEF Init, Fresh
  <2>6. DOMAIN out = Ranks /\ DOMAIN gathered = Ranks /\ DOMAIN scattered = Ranks
      BY DEF Init
  <2>7. QED
      BY <1>1, <1>2, <2>1, <2>4, <2>5, <2>6 DEF BaseTypes
<1>4. ASSUME NEW r \in Ranks PROVE RankPhase(r) /\ RankOrder(r) /\ RankParts(r) /\ RankOut(r)
  <2>1. /\ pc[r] = "app" /\ called[r] = 0 /\ pc[0] = "app" /\ called[0] = 0
        /\ gathered[r] = << >> /\ scattered[r] = << >>
        /\ \A s \in 1 .. Batch[r] : out[r][s] = Sample(r, s, 0)
      BY <1>1 DEF Init
  <2>2. "app" \notin ToGather /\ "app" \notin ToScatter
      BY DEF ToGather, ToScatter
  <2>3. Contributed(r) = 0 /\ Contributed(0) = 0 /\ Returned(r) = 0 /\ Returned(0) = 0
      BY <2>1, <2>2 DEF Contributed, Returned
  <2>4. RankPhase(r)
      BY <1>2, <2>1 DEF RankPhase, IsController
  <2>5. QED
      BY <2>1, <2>2, <2>3, <2>4 DEF RankOrder, RankParts, RankOut
<1>5. Buffers
    BY <1>1 DEF Init, Buffers, ToScatter
<1>6. QED
    BY <1>3, <1>4, <1>5 DEF IInv

\* The application calls.
LEMMA EnterInv == ASSUME IInv, NEW r \in Ranks, Enter(r) PROVE IInv'
<1>1. /\ BaseTypes /\ pc[r] = "app" /\ called[r] \in Nat /\ called[r] < MaxCalls /\ MaxCalls \in Nat
      /\ 0 \in Ranks
    BY CountTypes DEF IInv, Enter
<1>2. PICK new \in ToGather : pc' = [pc EXCEPT ![r] = new]
    BY DEF Enter, Goto, Before, Arriving, ToGather
<1>3. /\ called' = [called EXCEPT ![r] = called[r] + 1]
      /\ UNCHANGED setup /\ out' = out /\ inputs' = inputs /\ outputs' = outputs
      /\ gathered' = gathered /\ scattered' = scattered
    BY DEF Enter
<1>4. new \in Places /\ new \notin {"app", "host", "device"} /\ new \notin ToScatter
    BY <1>2 DEF Places, ToGather, ToScatter
<1>5. BaseTypes'
  <2>1. pc' \in [Ranks -> Places] /\ called' \in [Ranks -> 0 .. MaxCalls]
      BY <1>1, <1>2, <1>3, <1>4 DEF BaseTypes
  <2>2. QED
      BY <1>1, <1>3, <2>1, SetupStays DEF BaseTypes
<1>6. /\ \A q \in Ranks : pc'[q] = IF q = r THEN new ELSE pc[q]
      /\ \A q \in Ranks : called'[q] = IF q = r THEN called[q] + 1 ELSE called[q]
    BY <1>1, <1>2, <1>3 DEF BaseTypes
<1>7. ASSUME NEW q \in Ranks
      PROVE  Contributed(q)' = Contributed(q) /\ Returned(q)' = Returned(q)
  <2>1. CASE q = r
    <3>1. pc'[q] = new /\ called'[q] = called[q] + 1 /\ pc[q] = "app" /\ called[q] \in Nat
        BY <1>1, <1>6, <2>1
    <3>2. new \in ToGather /\ new # "app" /\ "app" \notin ToGather
        BY <1>2 DEF ToGather
    <3>3. QED
        BY <3>1, <3>2 DEF Contributed, Returned
  <2>2. CASE q # r
    <3>1. pc'[q] = pc[q] /\ called'[q] = called[q]
        BY <1>6, <2>2
    <3>2. QED
        BY <3>1 DEF Contributed, Returned
  <2>3. QED
      BY <2>1, <2>2
<1>8. ASSUME NEW q \in Ranks PROVE (RankPhase(q) /\ RankOrder(q) /\ RankParts(q) /\ RankOut(q))'
  <2>1. RankPhase(q) /\ RankOrder(q) /\ RankParts(q) /\ RankOut(q)
      BY DEF IInv
  <2>2. RankPhase(q)'
      BY <1>1, <1>3, <1>4, <1>6, <2>1, SetupStays DEF RankPhase
  <2>3. RankOrder(q)'
      BY <1>1, <1>3, <1>7, <2>1, SetupStays DEF RankOrder
  <2>4. Part(q, Contributed(q))' = Part(q, Contributed(q)) /\ Part(q, Returned(0))' = Part(q, Returned(0))
      BY <1>1, <1>3, <1>7, SetupStays DEF Part, DeviceOffset
  <2>5. RankParts(q)'
      BY <1>1, <1>3, <1>7, <2>1, <2>4, SetupStays DEF RankParts
  <2>6. RankOut(q)'
      BY <1>1, <1>3, <1>4, <1>6, <2>1, SetupStays DEF RankOut
  <2>7. QED
      BY <2>2, <2>3, <2>5, <2>6
<1>9. Buffers'
  <2>1. CASE r = 0
      BY <1>1, <1>4, <1>6, <2>1 DEF Buffers
  <2>2. CASE r # 0
    <3>1. pc'[0] = pc[0] /\ called'[0] = called[0]
        BY <1>1, <1>6, <2>2
    <3>2. \A q : Part(q, called[0])' = Part(q, called[0])
        BY <1>3, <3>1, SetupStays DEF Part, DeviceOffset
    <3>3. QED
        BY <1>3, <3>1, <3>2, SetupStays DEF IInv, Buffers, Holds
  <2>3. QED
      BY <2>1, <2>2
<1>10. QED
    BY <1>5, <1>8, <1>9 DEF IInv

\* On the way to a collective, and past one without a device, nothing but the
\* place changes.
LEMMA MoveInv ==
    ASSUME IInv, NEW r \in Ranks, NEW new \in Places,
           pc' = [pc EXCEPT ![r] = new], UNCHANGED << called, setup >>,
           UNCHANGED << out, inputs, outputs, gathered, scattered >>,
           \/ pc[r] \in ToGather /\ new \in ToGather
           \/ pc[r] \in ToScatter /\ new \in ToScatter
           \/ pc[r] \in ToGather /\ new = "host" /\ ~IsController(r) /\ r \notin Partners
    PROVE  IInv'
<1>1. BaseTypes /\ 0 \in Ranks
    BY CountTypes DEF IInv
<1>2. /\ \A q \in Ranks : pc'[q] = IF q = r THEN new ELSE pc[q]
      /\ called' = called /\ UNCHANGED setup /\ out' = out /\ inputs' = inputs /\ outputs' = outputs
      /\ gathered' = gathered /\ scattered' = scattered
    BY <1>1 DEF BaseTypes
<1>3. /\ pc[r] \notin {"app", "device"} /\ new \notin {"app", "device"}
      /\ new = "host" => ~IsController(r)
      /\ new \in ToScatter => pc[r] \in ToScatter
      /\ IsController(r) \/ r \in Partners => (new \in ToGather <=> pc[r] \in ToGather)
    BY DEF ToGather, ToScatter
<1>4. BaseTypes'
  <2>1. pc' \in [Ranks -> Places]
      BY <1>1 DEF BaseTypes
  <2>2. QED
      BY <1>1, <1>2, <2>1, SetupStays DEF BaseTypes
<1>5. ASSUME NEW q \in Ranks
      PROVE  /\ Returned(q)' = Returned(q)
             /\ IsController(q) \/ q \in Partners => Contributed(q)' = Contributed(q)
  <2>1. called'[q] = called[q] /\ pc'[q] = IF q = r THEN new ELSE pc[q]
      BY <1>2
  <2>2. QED
      BY <1>3, <2>1 DEF Contributed, Returned
<1>6. ASSUME NEW q \in Ranks PROVE (RankPhase(q) /\ RankOrder(q) /\ RankParts(q) /\ RankOut(q))'
  <2>1. RankPhase(q) /\ RankOrder(q) /\ RankParts(q) /\ RankOut(q)
      BY DEF IInv
  <2>2. called'[q] = called[q] /\ pc'[q] = IF q = r THEN new ELSE pc[q]
      BY <1>2
  <2>3. RankPhase(q)'
      BY <1>2, <1>3, <2>1, <2>2, SetupStays DEF RankPhase, IsController
  <2>4. /\ q \in Partners => Contributed(q)' = Contributed(q) /\ Contributed(0)' = Contributed(0)
        /\ Returned(q)' = Returned(q) /\ Returned(0)' = Returned(0)
      BY <1>1, <1>5, PartnerFacts DEF IsController
  <2>5. /\ q \in Partners => Part(q, Contributed(q))' = Part(q, Contributed(q))
        /\ Part(q, Returned(0))' = Part(q, Returned(0))
      BY <1>1, <1>2, <2>4, SetupStays DEF Part, DeviceOffset
  <2>6. RankOrder(q)' /\ RankParts(q)'
      BY <1>1, <1>2, <2>1, <2>4, <2>5, SetupStays DEF RankOrder, RankParts
  <2>7. RankOut(q)'
      BY <1>2, <1>3, <2>1, <2>2, SetupStays DEF RankOut
  <2>8. QED
      BY <2>3, <2>6, <2>7
<1>7. Buffers'
  <2>1. called'[0] = called[0] /\ pc'[0] = IF 0 = r THEN new ELSE pc[0]
      BY <1>1, <1>2
  <2>2. \A q : Part(q, called[0])' = Part(q, called[0])
      BY <1>2, <2>1, SetupStays DEF Part, DeviceOffset
  <2>3. /\ pc'[0] = "device" => pc[0] = "device"
        /\ pc'[0] \in ToScatter => pc[0] \in ToScatter
      BY <1>3, <2>1
  <2>4. Buffers
      BY DEF IInv
  <2>5. QED
      BY <1>2, <2>1, <2>2, <2>3, <2>4, SetupStays DEF Buffers, Holds
<1>8. QED
    BY <1>4, <1>6, <1>7 DEF IInv

LEMMA WalkInv ==
    ASSUME IInv, NEW r \in Ranks,
           \/ \E collective \in {"gather", "scatter"} : Arrive(r, collective) \/ Pass(r, collective)
           \/ SkipGather(r)
    PROVE  IInv'
<1>1. \A c \in {"gather", "scatter"} :
          \/ {c, Arriving[c], Waiting[c]} \subseteq ToGather
          \/ {c, Arriving[c], Waiting[c]} \subseteq ToScatter
  <2>1. /\ Arriving["gather"] = "arrive gather" /\ Arriving["scatter"] = "arrive scatter"
        /\ Waiting["gather"] = "wait gather" /\ Waiting["scatter"] = "wait scatter"
      BY DEF Arriving, Waiting
  <2>2. QED
      BY <2>1 DEF ToGather, ToScatter
<1>2. ToGather \subseteq Places /\ ToScatter \subseteq Places /\ "host" \in Places /\ "gather" \in ToGather
    BY DEF Places, ToGather
<1>3. ASSUME NEW c \in {"gather", "scatter"}, Arrive(r, c) \/ Pass(r, c) PROVE IInv'
  <2>1. PICK new \in {c, Waiting[c]} :
           /\ pc[r] \in {Arriving[c], Waiting[c]} /\ pc' = [pc EXCEPT ![r] = new]
           /\ UNCHANGED << called, setup >> /\ UNCHANGED << out, inputs, outputs, gathered, scattered >>
      BY <1>3 DEF Arrive, Pass, Goto
  <2>2. \/ pc[r] \in ToGather /\ new \in ToGather
        \/ pc[r] \in ToScatter /\ new \in ToScatter
      BY <1>1, <2>1
  <2>3. QED
      BY <1>2, <2>1, <2>2, MoveInv
<1>4. CASE SkipGather(r)
  <2>1. /\ pc[r] = "gather" /\ ~IsController(r) /\ r \notin Partners /\ pc' = [pc EXCEPT ![r] = "host"]
        /\ UNCHANGED << called, setup >> /\ UNCHANGED << out, inputs, outputs, gathered, scattered >>
      BY <1>4 DEF SkipGather, Goto
  <2>2. QED
      BY <1>2, <2>1, MoveInv
<1>5. QED
    BY <1>3, <1>4

\* A worker's device part is under way.
LEMMA GatherSendInv == ASSUME IInv, NEW r \in Ranks, GatherSend(r) PROVE IInv'
<1>1. /\ BaseTypes /\ 0 \in Ranks /\ r \in Partners /\ r # 0 /\ ~IsController(r) /\ pc[r] = "gather"
      /\ called[r] \in Nat
    BY CountTypes, PartnerFacts DEF IInv, GatherSend
<1>2. /\ pc' = [pc EXCEPT ![r] = "host"] /\ called' = called /\ UNCHANGED setup /\ out' = out
      /\ inputs' = inputs /\ outputs' = outputs /\ scattered' = scattered
      /\ gathered' = [gathered EXCEPT ![r] = Append(gathered[r], Part(r, called[r]))]
    BY DEF GatherSend, Goto
<1>3. "gather" \in ToGather /\ "host" \notin ToGather /\ "host" \notin ToScatter /\ "host" \in Places
    BY DEF ToGather, ToScatter, Places
<1>4. BaseTypes'
  <2>1. pc' \in [Ranks -> Places] /\ DOMAIN gathered' = Ranks
      BY <1>1, <1>2, <1>3 DEF BaseTypes
  <2>2. QED
      BY <1>1, <1>2, <2>1, SetupStays DEF BaseTypes
<1>5. /\ \A q \in Ranks : pc'[q] = IF q = r THEN "host" ELSE pc[q]
      /\ \A q \in Ranks \ {r} : gathered'[q] = gathered[q]
      /\ gathered'[r] = Append(gathered[r], Part(r, called[r]))
    BY <1>1, <1>2 DEF BaseTypes
<1>6. /\ \A q \in Ranks \ {r} : Contributed(q)' = Contributed(q)
      /\ \A q \in Ranks : Returned(q)' = Returned(q)
      /\ Contributed(r) = called[r] - 1 /\ Contributed(r)' = called[r]
    BY <1>1, <1>2, <1>3, <1>5 DEF Contributed, Returned
<1>7. /\ Contributed(0) = Contributed(r) /\ gathered[r] = << >>
  <2>1. Contributed(0) <= Contributed(r) /\ Contributed(0) \in Nat /\ Contributed(r) \in Nat
      BY <1>1, InTurn
  <2>2. Returned(0) <= Contributed(0) /\ Returned(r) <= Returned(0) /\ Returned(0) \in Nat /\ Returned(r) \in Nat
      BY <1>1, CountTypes, InTurn
  <2>3. Returned(r) = called[r] - 1
      BY <1>1 DEF Returned
  <2>4. Contributed(0) = Contributed(r)
      BY <1>6, <2>1, <2>2, <2>3
  <2>5. ~(Contributed(0) < Contributed(r)) /\ RankParts(r)
      BY <2>1, <2>4 DEF IInv
  <2>6. QED
      BY <2>4, <2>5 DEF RankParts
<1>8. gathered'[r] = << Part(r, called[r]) >>
    BY <1>5, <1>7
<1>9. ASSUME NEW q \in Ranks PROVE (RankPhase(q) /\ RankOrder(q) /\ RankParts(q) /\ RankOut(q))'
  <2>1. RankPhase(q) /\ RankOrder(q) /\ RankParts(q) /\ RankOut(q) /\ RankPhase(r)
      BY DEF IInv
  <2>2. RankPhase(q)'
      BY <1>1, <1>2, <1>3, <1>5, <2>1, SetupStays DEF RankPhase
  <2>3. Contributed(0)' = Contributed(0) /\ Returned(0)' = Returned(0)
      BY <1>1, <1>6
  <2>4. RankOrder(q)'
    <3>1. Contributed(r) \in Nat
        BY <1>1, InTurn
    <3>2. q \in Partners => Contributed(q) <= Contributed(q)'
        BY <1>1, <1>6, <3>1, InTurn
    <3>3. QED
        BY <1>1, <1>2, <1>6, <1>7, <2>1, <2>3, <3>1, SetupStays DEF RankOrder
  <2>5. RankParts(q)'
    <3>1. Part(q, Returned(0))' = Part(q, Returned(0))
        BY <1>2, <2>3, SetupStays DEF Part, DeviceOffset
    <3>2. scattered'[q] = IF q \in Partners' /\ Returned(q)' < Returned(0)'
                          THEN << Part(q, Returned(0))' >> ELSE << >>
        BY <1>2, <1>6, <2>1, <2>3, <3>1, SetupStays DEF RankParts
    <3>3. CASE q = r
      <4>1. Contributed(0)' < Contributed(q)'
          BY <1>1, <1>6, <1>7, <2>3, <3>3
      <4>2. Part(q, Contributed(q))' = Part(r, called[r])
          BY <1>2, <1>6, <3>3, SetupStays DEF Part, DeviceOffset
      <4>3. QED
          BY <1>1, <1>2, <1>8, <3>2, <3>3, <4>1, <4>2, SetupStays DEF RankParts
    <3>4. CASE q # r
      <4>1. Part(q, Contributed(q))' = Part(q, Contributed(q))
          BY <1>2, <1>6, <3>4, SetupStays DEF Part, DeviceOffset
      <4>2. QED
          BY <1>2, <1>5, <1>6, <2>1, <2>3, <3>2, <3>4, <4>1, SetupStays DEF RankParts
    <3>5. QED
        BY <3>3, <3>4
  <2>6. RankOut(q)'
      BY <1>2, <1>3, <1>5, <2>1, SetupStays DEF RankOut
  <2>7. QED
      BY <2>2, <2>4, <2>5, <2>6
<1>10. Buffers'
  <2>1. pc'[0] = pc[0] /\ called'[0] = called[0]
      BY <1>1, <1>2, <1>5
  <2>2. \A q : Part(q, called[0])' = Part(q, called[0])
      BY <1>2, <2>1, SetupStays DEF Part, DeviceOffset
  <2>3. QED
      BY <1>2, <2>1, <2>2, SetupStays DEF IInv, Buffers, Holds
<1>11. QED
    BY <1>4, <1>9, <1>10 DEF IInv

LEMMA OneElement == \A x : Head(<< x >>) = x /\ Tail(<< x >>) = << >> /\ << x >> # << >>
OBVIOUS

\* The controller has every partner's part of the call it is in itself.
LEMMA GatherTakes ==
    ASSUME IInv, pc[0] = "gather", \A r \in Partners : gathered[r] # << >>, NEW r \in Ranks
    PROVE  /\ Contributed(0) = called[0] - 1 /\ called[0] \in Nat
           /\ r \in Partners => Contributed(r) = called[0] /\ gathered[r] = << Part(r, called[0]) >>
<1>1. called[0] \in Nat /\ Contributed(0) = called[0] - 1
    BY CountTypes DEF Contributed, ToGather
<1>2. ASSUME r \in Partners
      PROVE  Contributed(r) = called[0] /\ gathered[r] = << Part(r, called[0]) >>
  <2>1. gathered[r] # << >> /\ RankParts(r)
      BY <1>2 DEF IInv
  <2>2. Contributed(0) < Contributed(r) /\ gathered[r] = << Part(r, Contributed(r)) >>
      BY <2>1 DEF RankParts
  <2>3. Contributed(r) \in Nat /\ Contributed(r) <= Contributed(0) + 1
      BY <1>2, InTurn
  <2>4. Contributed(r) = called[0]
      BY <1>1, <2>2, <2>3
  <2>5. QED
      BY <2>2, <2>4
<1>3. QED
    BY <1>1, <1>2

LEMMA GatherAllInv == ASSUME IInv, GatherAll PROVE IInv'
<1>1. /\ BaseTypes /\ 0 \in Ranks /\ Devices /\ IsController(0) /\ pc[0] = "gather"
      /\ \A r \in Partners : gathered[r] # << >>
    BY SetupTypes DEF IInv, GatherAll, IsController
<1>2. /\ pc' = [pc EXCEPT ![0] = "device"] /\ called' = called /\ UNCHANGED setup /\ out' = out
      /\ outputs' = outputs /\ scattered' = scattered
      /\ gathered' = [r \in Ranks |-> IF r \in Partners THEN Tail(gathered[r]) ELSE << >>]
    BY DEF GatherAll, Goto
<1>3. ASSUME NEW r \in Ranks
      PROVE  /\ Contributed(0) = called[0] - 1 /\ called[0] \in Nat
             /\ r \in Partners => Contributed(r) = called[0] /\ gathered[r] = << Part(r, called[0]) >>
    BY <1>1, GatherTakes
<1>4. ASSUME NEW s \in 1 .. DeviceTotal
      PROVE  inputs'[s] = Part(RankAt(s), called[0])[s - DeviceDispl(RankAt(s))]
  <2>1. RankAt(s) \in Ranks
      BY <1>1, PlaceHasRank
  <2>2. RankAt(s) # 0 => Head(gathered[RankAt(s)]) = Part(RankAt(s), called[0])
    <3>1. DeviceBatch(RankAt(s)) \in Nat /\ DeviceBatch(RankAt(s)) # 0
        BY <1>1, <2>1, PlaceHasRank, SetupTypes
    <3>2. RankAt(s) # 0 => RankAt(s) \in Partners
        BY <1>1, <2>1, <3>1, PartnerFacts DEF IsController
    <3>3. QED
        BY <1>3, <2>1, <3>2, OneElement
  <2>3. inputs'[s] = (IF RankAt(s) = 0 THEN Part(0, called[0]) ELSE Head(gathered[RankAt(s)]))
                        [s - DeviceDispl(RankAt(s))]
      BY DEF GatherAll
  <2>4. QED
      BY <2>2, <2>3
<1>5. called[0] \in 0 .. MaxCalls
    BY <1>1, CountTypes
<1>6. BaseTypes'
  <2>1. pc' \in [Ranks -> Places] /\ DOMAIN gathered' = Ranks
      BY <1>1, <1>2 DEF BaseTypes, Places
  <2>2. inputs' \in [1 .. DeviceTotal -> Samples]
    <3>1. ASSUME NEW s \in 1 .. DeviceTotal PROVE inputs'[s] \in Samples
      <4>1. /\ RankAt(s) \in Ranks
            /\ s - DeviceDispl(RankAt(s)) \in 1 .. DeviceBatch(RankAt(s))
          BY <1>1, PlaceHasRank
      <4>2. Part(RankAt(s), called[0]) \in [1 .. DeviceBatch(RankAt(s)) -> Samples]
          BY <1>1, <1>5, <4>1, SampleTypes
      <4>3. QED
          BY <1>4, <4>1, <4>2
    <3>2. inputs' = [s \in 1 .. DeviceTotal |-> inputs'[s]]
        BY DEF GatherAll
    <3>3. QED
        BY <3>1, <3>2
  <2>3. QED
      BY <1>1, <1>2, <2>1, <2>2, SetupStays DEF BaseTypes
<1>7. \A r \in Ranks : pc'[r] = IF r = 0 THEN "device" ELSE pc[r]
    BY <1>1, <1>2 DEF BaseTypes
<1>8. /\ \A r \in Ranks \ {0} : Contributed(r)' = Contributed(r)
      /\ Contributed(0)' = called[0]
      /\ \A r \in Ranks : Returned(r)' = Returned(r)
  <2>1. "device" \notin ToGather
      BY DEF ToGather
  <2>2. pc'[0] = "device" /\ pc[0] = "gather"
      BY <1>1, <1>7
  <2>3. \A r \in Ranks \ {0} : pc'[r] = pc[r]
      BY <1>7
  <2>4. Contributed(0)' = called[0] /\ Returned(0)' = Returned(0)
      BY <1>2, <2>1, <2>2 DEF Contributed, Returned
  <2>5. \A r \in Ranks \ {0} : Contributed(r)' = Contributed(r) /\ Returned(r)' = Returned(r)
      BY <1>2, <2>3 DEF Contributed, Returned
  <2>6. QED
      BY <2>4, <2>5
<1>9. ASSUME NEW r \in Ranks PROVE (RankPhase(r) /\ RankOrder(r) /\ RankParts(r) /\ RankOut(r))'
  <2>1. RankPhase(r) /\ RankOrder(r) /\ RankParts(r) /\ RankOut(r)
      BY DEF IInv
  <2>2. RankPhase(r)'
      BY <1>1, <1>2, <1>7, <2>1, SetupStays DEF RankPhase, IsController
  <2>3. r \in Partners => Contributed(r)' = called[0]
      BY <1>3, <1>8
  <2>4. RankOrder(r)'
      BY <1>1, <1>2, <1>3, <1>8, <2>1, <2>3, SetupStays DEF RankOrder
  <2>5. RankParts(r)'
    <3>1. gathered'[r] = << >>
        BY <1>2, <1>3, OneElement
    <3>2. r \in Partners => ~(Contributed(0)' < Contributed(r)')
        BY <1>3, <1>8, <2>3
    <3>3. Part(r, Returned(0))' = Part(r, Returned(0))
        BY <1>1, <1>2, <1>8, SetupStays DEF Part, DeviceOffset
    <3>4. /\ Partners' = Partners /\ scattered'[r] = scattered[r]
          /\ Returned(r)' = Returned(r) /\ Returned(0)' = Returned(0)
        BY <1>1, <1>2, <1>8, SetupStays
    <3>5. QED
        BY <2>1, <3>1, <3>2, <3>3, <3>4 DEF RankParts
  <2>6. RankOut(r)'
    <3>1. "device" \notin ToScatter /\ "device" # "app"
        BY DEF ToScatter
    <3>2. /\ out'[r] = out[r] /\ called'[r] = called[r]
          /\ Batch'[r] = Batch[r] /\ host'[r] = host[r]
        BY <1>2, SetupStays
    <3>3. pc'[r] = pc[r] \/ pc'[r] = "device"
        BY <1>7
    <3>4. QED
        BY <2>1, <3>1, <3>2, <3>3 DEF RankOut
  <2>7. QED
      BY <2>2, <2>4, <2>5, <2>6
<1>10. Buffers'
  <2>1. pc'[0] = "device" /\ "device" \notin ToScatter
      BY <1>1, <1>7 DEF ToScatter
  <2>2. ASSUME NEW r \in Ranks, NEW s \in 1 .. DeviceBatch(r)
        PROVE  inputs'[DeviceDispl(r) + s] = Part(r, called[0])[s]
    <3>1. DeviceDispl(r) + s \in 1 .. DeviceTotal /\ RankAt(DeviceDispl(r) + s) = r
        BY <1>1, PlaceFacts
    <3>2. DeviceDispl(r) \in Nat /\ (DeviceDispl(r) + s) - DeviceDispl(r) = s
      <4>1. r \in 0 .. N /\ s \in Int
          BY <1>1, SetupTypes DEF Ranks
      <4>2. DeviceDispl(r) \in Nat
          BY <1>1, <4>1, SegmentEnds
      <4>3. QED
          BY <4>1, <4>2
    <3>3. QED
        BY <1>4, <3>1, <3>2
  <2>3. \A r : Part(r, called[0])' = Part(r, called[0])
      BY <1>2, SetupStays DEF Part, DeviceOffset
  <2>4. QED
      BY <1>2, <2>1, <2>2, <2>3, SetupStays DEF Buffers, Holds
<1>11. QED
    BY <1>6, <1>9, <1>10 DEF IInv

\* The controller infers what it has gathered.
LEMMA DeviceInferenceInv == ASSUME IInv, DeviceInference PROVE IInv'
<1>1. /\ BaseTypes /\ 0 \in Ranks /\ pc[0] = "device" /\ IsController(0) /\ Devices
    BY SetupTypes DEF IInv, DeviceInference, RankPhase, IsController
<1>2. PICK new \in ToScatter : pc' = [pc EXCEPT ![0] = new]
    BY DEF DeviceInference, Goto, Before, Arriving, ToScatter
<1>3. /\ called' = called /\ UNCHANGED setup /\ out' = out /\ inputs' = inputs
      /\ gathered' = gathered /\ scattered' = scattered
      /\ outputs' = IF DeviceBatch(0) > 0 \/ DeviceTotal > 0 THEN inputs ELSE outputs
    BY DEF DeviceInference
<1>4. new \in Places /\ new \notin {"app", "host", "device"} /\ new \notin ToGather
    BY <1>2 DEF ToGather, ToScatter, Places
<1>5. BaseTypes'
  <2>1. pc' \in [Ranks -> Places] /\ outputs' \in [1 .. DeviceTotal -> Samples]
      BY <1>1, <1>2, <1>3, <1>4 DEF BaseTypes
  <2>2. QED
      BY <1>1, <1>3, <2>1, SetupStays DEF BaseTypes
<1>6. \A r \in Ranks : pc'[r] = IF r = 0 THEN new ELSE pc[r]
    BY <1>1, <1>2 DEF BaseTypes
<1>7. ASSUME NEW r \in Ranks
      PROVE  Contributed(r)' = Contributed(r) /\ Returned(r)' = Returned(r)
    BY <1>1, <1>3, <1>4, <1>6 DEF Contributed, Returned, ToGather
<1>8. ASSUME NEW r \in Ranks PROVE (RankPhase(r) /\ RankOrder(r) /\ RankParts(r) /\ RankOut(r))'
  <2>1. RankPhase(r) /\ RankOrder(r) /\ RankParts(r) /\ RankOut(r)
      BY DEF IInv
  <2>2. RankPhase(r)'
      BY <1>1, <1>3, <1>4, <1>6, <2>1, SetupStays DEF RankPhase
  <2>3. RankOrder(r)'
      BY <1>1, <1>3, <1>7, <2>1, SetupStays DEF RankOrder
  <2>4. /\ Part(r, Contributed(r))' = Part(r, Contributed(r))
        /\ Part(r, Returned(0))' = Part(r, Returned(0))
      BY <1>1, <1>3, <1>7, SetupStays DEF Part, DeviceOffset
  <2>5. RankParts(r)'
      BY <1>1, <1>3, <1>7, <2>1, <2>4, SetupStays DEF RankParts
  <2>6. RankOut(r)'
    <3>1. r = 0 => host[r] = 0
        BY <1>1, <2>1 DEF RankPhase
    <3>2. QED
        BY <1>3, <1>4, <1>6, <2>1, <3>1, SetupStays DEF RankOut
  <2>7. QED
      BY <2>2, <2>3, <2>5, <2>6
<1>9. Buffers'
  <2>1. Holds(inputs, called[0])
      BY <1>1 DEF IInv, Buffers
  <2>2. ASSUME NEW r \in Ranks, NEW s \in 1 .. DeviceBatch(r)
        PROVE  outputs'[DeviceDispl(r) + s] = Part(r, called[0])[s]
    <3>1. DeviceDispl(r) + s \in 1 .. DeviceTotal
        BY <1>1, PlaceFacts
    <3>2. DeviceTotal \in Nat
      <4>1. N \in 0 .. N
          BY <1>1, SetupTypes
      <4>2. QED
          BY <1>1, <4>1, SegmentEnds
    <3>3. outputs' = inputs
        BY <1>3, <3>1, <3>2
    <3>4. QED
        BY <2>1, <3>3 DEF Holds
  <2>3. \A r : Part(r, called[0])' = Part(r, called[0])
      BY <1>3, SetupStays DEF Part, DeviceOffset
  <2>4. QED
      BY <1>1, <1>3, <1>4, <1>6, <2>2, <2>3, SetupStays DEF Buffers, Holds
<1>10. QED
    BY <1>5, <1>8, <1>9 DEF IInv

\* A rank without device infers its host samples.
LEMMA HostInferenceInv == ASSUME IInv, NEW r \in Ranks, HostInference(r) PROVE IInv'
<1>1. /\ BaseTypes /\ 0 \in Ranks /\ pc[r] = "host" /\ ~IsController(r) /\ RankPhase(r)
      /\ called[r] \in 0 .. MaxCalls
    BY CountTypes DEF IInv, HostInference, RankPhase
<1>2. PICK new \in ToScatter : pc' = [pc EXCEPT ![r] = new]
    BY DEF HostInference, Goto, Before, Arriving, ToScatter
<1> DEFINE filled == [s \in 1 .. Batch[r] |->
                        IF s <= host[r] THEN Sample(r, s, called[r]) ELSE out[r][s]]
<1>3. /\ called' = called /\ UNCHANGED setup /\ inputs' = inputs /\ outputs' = outputs
      /\ gathered' = gathered /\ scattered' = scattered
      /\ out' = [out EXCEPT ![r] = filled]
    BY DEF HostInference
<1>4. new \in Places /\ new \notin {"app", "host", "device"} /\ new \notin ToGather
    BY <1>2 DEF ToGather, ToScatter, Places
<1>5. filled \in [1 .. Batch[r] -> Samples]
  <2>1. \A s \in 1 .. Batch[r] : s \in Nat /\ Sample(r, s, called[r]) \in Samples
      BY <1>1, SetupTypes, SampleTypes
  <2>2. out[r] \in [1 .. Batch[r] -> Samples]
      BY <1>1 DEF BaseTypes
  <2>3. QED
      BY <2>1, <2>2
<1>6. \A s \in 1 .. host[r] : filled[s] = Sample(r, s, called[r])
    BY <1>1, SetupTypes DEF BaseTypes
<1> HIDE DEF filled
<1>7. BaseTypes'
  <2>1. pc' \in [Ranks -> Places] /\ DOMAIN out' = Ranks
      BY <1>1, <1>2, <1>3, <1>4 DEF BaseTypes
  <2>2. \A q \in Ranks : out'[q] \in [1 .. Batch[q] -> Samples]
      BY <1>1, <1>3, <1>5 DEF BaseTypes
  <2>3. QED
      BY <1>1, <1>3, <2>1, <2>2, SetupStays DEF BaseTypes
<1>8. /\ \A q \in Ranks : pc'[q] = IF q = r THEN new ELSE pc[q]
      /\ \A q \in Ranks : out'[q] = IF q = r THEN filled ELSE out[q]
    BY <1>1, <1>2, <1>3 DEF BaseTypes
<1>9. ASSUME NEW q \in Ranks
      PROVE  Contributed(q)' = Contributed(q) /\ Returned(q)' = Returned(q)
    BY <1>1, <1>3, <1>4, <1>8 DEF Contributed, Returned, ToGather
<1>10. ASSUME NEW q \in Ranks PROVE (RankPhase(q) /\ RankOrder(q) /\ RankParts(q) /\ RankOut(q))'
  <2>1. RankPhase(q) /\ RankOrder(q) /\ RankParts(q) /\ RankOut(q)
      BY DEF IInv
  <2>2. RankPhase(q)'
      BY <1>1, <1>3, <1>4, <1>8, <2>1, SetupStays DEF RankPhase
  <2>3. RankOrder(q)'
      BY <1>1, <1>3, <1>9, <2>1, SetupStays DEF RankOrder
  <2>4. /\ Part(q, Contributed(q))' = Part(q, Contributed(q))
        /\ Part(q, Returned(0))' = Part(q, Returned(0))
      BY <1>1, <1>3, <1>9, SetupStays DEF Part, DeviceOffset
  <2>5. RankParts(q)'
      BY <1>1, <1>3, <1>9, <2>1, <2>4, SetupStays DEF RankParts
  <2>6. RankOut(q)'
      BY <1>3, <1>4, <1>6, <1>8, <2>1, SetupStays DEF RankOut
  <2>7. QED
      BY <2>2, <2>3, <2>5, <2>6
<1>11. Buffers'
  <2>1. Buffers /\ (r = 0 => ~Devices)
      BY <1>1 DEF IInv, IsController
  <2>2. /\ pc'[0] = IF 0 = r THEN new ELSE pc[0]
        /\ called'[0] = called[0]
      BY <1>1, <1>3, <1>8
  <2>3. \A q : Part(q, called[0])' = Part(q, called[0])
      BY <1>3, SetupStays DEF Part, DeviceOffset
  <2>4. QED
      BY <1>3, <1>4, <2>1, <2>2, <2>3, SetupStays DEF Buffers, Holds
<1>12. QED
    BY <1>7, <1>10, <1>11 DEF IInv

\* Without a device, or without a device part, a rank returns by itself.
LEMMA SkipScatterInv == ASSUME IInv, NEW r \in Ranks, SkipScatter(r) PROVE IInv'
<1>1. /\ BaseTypes /\ 0 \in Ranks /\ pc[r] = "scatter" /\ ~IsController(r) /\ r \notin Partners
      /\ RankPhase(r) /\ RankOut(r) /\ host[r] = Batch[r]
    BY CountTypes, PartnerFacts DEF IInv, SkipScatter, RankPhase
<1>2. /\ pc' = [pc EXCEPT ![r] = "app"] /\ called' = called /\ UNCHANGED setup /\ out' = out
      /\ inputs' = inputs /\ outputs' = outputs /\ gathered' = gathered /\ scattered' = scattered
    BY DEF SkipScatter, Goto
<1>3. BaseTypes'
  <2>1. pc' \in [Ranks -> Places]
      BY <1>1, <1>2 DEF BaseTypes, Places
  <2>2. QED
      BY <1>1, <1>2, <2>1, SetupStays DEF BaseTypes
<1>4. \A q \in Ranks : pc'[q] = IF q = r THEN "app" ELSE pc[q]
    BY <1>1, <1>2 DEF BaseTypes
<1>5. \A s \in 1 .. Batch[r] : out[r][s] = Sample(r, s, called[r])
    BY <1>1 DEF RankOut, ToScatter
<1>6. ASSUME NEW q \in Ranks PROVE (RankPhase(q) /\ RankOrder(q) /\ RankParts(q) /\ RankOut(q))'
  <2>1. RankPhase(q) /\ RankOrder(q) /\ RankParts(q) /\ RankOut(q) /\ "app" \notin ToScatter
      BY DEF IInv, ToScatter
  <2>2. RankPhase(q)'
      BY <1>2, <1>4, <2>1, SetupStays DEF RankPhase
  <2>3. RankOrder(q)' /\ RankParts(q)'
    <3>1. q \in Partners => /\ pc'[q] = pc[q] /\ pc'[0] = pc[0]
                            /\ called'[q] = called[q] /\ called'[0] = called[0]
        BY <1>1, <1>2, <1>4, PartnerFacts DEF IsController
    <3>2. q \in Partners => /\ Contributed(q)' = Contributed(q) /\ Contributed(0)' = Contributed(0)
                            /\ Returned(q)' = Returned(q) /\ Returned(0)' = Returned(0)
        BY <3>1 DEF Contributed, Returned
    <3>3. q \in Partners => /\ Part(q, Contributed(q))' = Part(q, Contributed(q))
                            /\ Part(q, Returned(0))' = Part(q, Returned(0))
        BY <1>2, <3>2, SetupStays DEF Part, DeviceOffset
    <3>4. QED
        BY <1>2, <2>1, <3>2, <3>3, SetupStays DEF RankOrder, RankParts
  <2>4. RankOut(q)'
      BY <1>2, <1>4, <1>5, <2>1, SetupStays DEF RankOut
  <2>5. QED
      BY <2>2, <2>3, <2>4
<1>7. Buffers'
  <2>1. Buffers /\ called'[0] = called[0] /\ \A q : Part(q, called[0])' = Part(q, called[0])
      BY <1>2, SetupStays DEF IInv, Part, DeviceOffset
  <2>2. CASE Devices
    <3>1. pc'[0] = pc[0]
        BY <1>1, <1>4, <2>2 DEF IsController
    <3>2. QED
        BY <1>2, <2>1, <3>1, SetupStays DEF Buffers, Holds
  <2>3. CASE ~Devices
    <3>1. pc'[0] # "device"
        BY <1>1, <1>4, <2>3 DEF IInv, RankPhase, IsController
    <3>2. QED
        BY <1>2, <2>3, <3>1, SetupStays DEF Buffers
  <2>4. QED
      BY <2>2, <2>3
<1>8. QED
    BY <1>3, <1>6, <1>7 DEF IInv

\* With its device part behind its host samples a rank has all of them.
LEMMA DevicePartFills ==
    ASSUME BaseTypes, NEW r \in Ranks, NEW c \in 0 .. MaxCalls,
           \A s \in 1 .. host[r] : out[r][s] = Sample(r, s, c)
    PROVE  /\ WithDevicePart(r, Part(r, c)) \in [1 .. Batch[r] -> Samples]
           /\ \A s \in 1 .. Batch[r] : WithDevicePart(r, Part(r, c))[s] = Sample(r, s, c)
<1>1. host[r] \in Nat /\ DeviceBatch(r) \in Nat /\ host[r] + DeviceBatch(r) = Batch[r]
    BY SetupTypes
<1>2. DOMAIN Part(r, c) = 1 .. DeviceBatch(r) /\ \A s \in Nat : Sample(r, s, c) \in Samples
    BY SampleTypes
<1>3. ASSUME NEW s \in 1 .. Batch[r]
      PROVE  WithDevicePart(r, Part(r, c))[s] = Sample(r, s, c) /\ s \in Nat
  <2>1. s \in Nat
      BY <1>1
  <2>2. CASE s <= host[r]
    <3>1. s - host[r] \notin 1 .. DeviceBatch(r) /\ s \in 1 .. host[r]
        BY <1>1, <2>1, <2>2
    <3>2. QED
        BY <1>2, <2>1, <3>1 DEF WithDevicePart, DeviceOffset
  <2>3. CASE ~(s <= host[r])
    <3>1. s - host[r] \in 1 .. DeviceBatch(r) /\ host[r] + (s - host[r]) = s
        BY <1>1, <2>1, <2>3
    <3>2. Part(r, c)[s - host[r]] = Sample(r, s, c)
        BY <3>1, SampleTypes
    <3>3. QED
        BY <1>2, <2>1, <3>1, <3>2 DEF WithDevicePart, DeviceOffset
  <2>4. QED
      BY <2>1, <2>2, <2>3
<1>4. WithDevicePart(r, Part(r, c)) = [s \in 1 .. Batch[r] |-> WithDevicePart(r, Part(r, c))[s]]
    BY DEF WithDevicePart
<1>5. QED
    BY <1>2, <1>3, <1>4

LEMMA OnlyElement == \A x : Append(<< >>, x) = << x >>
OBVIOUS

\* When the controller scatters, every partner has taken what was scattered before.
LEMMA ScatterFinds ==
    ASSUME IInv, Devices, pc[0] = "scatter", NEW r \in Ranks
    PROVE  /\ called[0] \in 1 .. MaxCalls /\ MaxCalls \in Nat /\ Contributed(0) = called[0]
           /\ r = 0 \/ r \in Partners => Returned(r) = called[0] - 1
           /\ scattered[r] = << >> /\ Segment(r) = Part(r, called[0])
<1>1. RankPhase(0) /\ RankParts(r) /\ Buffers /\ BaseTypes /\ 0 \in Ranks
    BY SetupTypes DEF IInv
<1>2. called[0] \in 1 .. MaxCalls /\ MaxCalls \in Nat
    BY <1>1, CountTypes DEF RankPhase
<1>3. Contributed(0) = called[0] /\ Returned(0) = called[0] - 1
    BY DEF Contributed, Returned, ToGather
<1>4. r = 0 \/ r \in Partners =>
          /\ Returned(r) \in Nat /\ Contributed(r) \in Nat
          /\ Contributed(0) <= Contributed(r) /\ Returned(r) <= Returned(0)
    BY InTurn
<1>5. Contributed(r) <= Returned(r) + 1
    BY CountTypes
<1>6. r = 0 \/ r \in Partners => Returned(r) = called[0] - 1
    BY <1>2, <1>3, <1>4, <1>5
<1>7. scattered[r] = << >>
  <2>1. r \in Partners => ~(Returned(r) < Returned(0))
      BY <1>2, <1>3, <1>6
  <2>2. QED
      BY <1>1, <2>1 DEF RankParts
<1>8. Segment(r) = Part(r, called[0])
  <2>1. Holds(outputs, called[0])
      BY <1>1 DEF Buffers, ToScatter
  <2>2. \A s \in 1 .. DeviceBatch(r) : outputs[DeviceDispl(r) + s] = Part(r, called[0])[s]
      BY <2>1 DEF Holds
  <2>3. Part(r, called[0]) = [s \in 1 .. DeviceBatch(r) |-> Part(r, called[0])[s]]
      BY DEF Part
  <2>4. QED
      BY <2>2, <2>3 DEF Segment
<1>9. QED
    BY <1>2, <1>3, <1>6, <1>7, <1>8

\* The controller returns with its own samples and hands the others theirs.
LEMMA ScatterAllInv == ASSUME IInv, ScatterAll PROVE IInv'
<1>1. /\ BaseTypes /\ 0 \in Ranks /\ Devices /\ pc[0] = "scatter" /\ host[0] = 0
    BY SetupTypes DEF IInv, ScatterAll, RankPhase, IsController
<1>2. /\ pc' = [pc EXCEPT ![0] = "app"] /\ called' = called /\ UNCHANGED setup
      /\ inputs' = inputs /\ outputs' = outputs /\ gathered' = gathered
      /\ out' = [out EXCEPT ![0] = WithDevicePart(0, Segment(0))]
      /\ scattered' = [r \in Ranks |-> IF r \in Partners THEN Append(scattered[r], Segment(r)) ELSE << >>]
    BY DEF ScatterAll, Goto
<1>3. ASSUME NEW r \in Ranks
      PROVE  /\ called[0] \in 1 .. MaxCalls /\ MaxCalls \in Nat /\ Contributed(0) = called[0]
             /\ r = 0 \/ r \in Partners => Returned(r) = called[0] - 1
             /\ scattered[r] = << >> /\ Segment(r) = Part(r, called[0])
    BY <1>1, ScatterFinds
<1> DEFINE filled == WithDevicePart(0, Segment(0))
<1>4. /\ filled \in [1 .. Batch[0] -> Samples]
      /\ \A s \in 1 .. Batch[0] : filled[s] = Sample(0, s, called[0])
  <2>1. called[0] \in 0 .. MaxCalls /\ \A s \in 1 .. host[0] : out[0][s] = Sample(0, s, called[0])
      BY <1>1, <1>3
  <2>2. Segment(0) = Part(0, called[0])
      BY <1>1, <1>3
  <2>3. QED
      BY <1>1, <2>1, <2>2, DevicePartFills
<1>5. out' = [out EXCEPT ![0] = filled]
    BY <1>2
<1> HIDE DEF filled
<1>6. BaseTypes'
  <2>1. pc' \in [Ranks -> Places] /\ DOMAIN out' = Ranks /\ DOMAIN scattered' = Ranks
      BY <1>1, <1>2, <1>5 DEF BaseTypes, Places
  <2>2. \A r \in Ranks : out'[r] \in [1 .. Batch[r] -> Samples]
      BY <1>1, <1>4, <1>5 DEF BaseTypes
  <2>3. QED
      BY <1>1, <1>2, <2>1, <2>2, SetupStays DEF BaseTypes
<1>7. /\ \A r \in Ranks : pc'[r] = IF r = 0 THEN "app" ELSE pc[r]
      /\ \A r \in Ranks : out'[r] = IF r = 0 THEN filled ELSE out[r]
    BY <1>1, <1>2, <1>5 DEF BaseTypes
<1>8. /\ Returned(0)' = called[0]
      /\ \A r \in Ranks \ {0} : Returned(r)' = Returned(r)
      /\ \A r \in Ranks : Contributed(r)' = Contributed(r)
  <2>1. "app" \notin ToGather /\ pc'[0] = "app"
      BY <1>1, <1>7 DEF ToGather
  <2>2. Returned(0)' = called[0] /\ Contributed(0)' = Contributed(0)
      BY <1>1, <1>2, <1>3, <2>1 DEF Returned, Contributed
  <2>3. \A r \in Ranks \ {0} : Returned(r)' = Returned(r) /\ Contributed(r)' = Contributed(r)
      BY <1>2, <1>7 DEF Returned, Contributed
  <2>4. QED
      BY <2>2, <2>3
<1>9. ASSUME NEW r \in Ranks PROVE (RankPhase(r) /\ RankOrder(r) /\ RankParts(r) /\ RankOut(r))'
  <2>1. RankPhase(r) /\ RankOrder(r) /\ RankParts(r) /\ RankOut(r)
      BY DEF IInv
  <2>2. RankPhase(r)'
      BY <1>2, <1>7, <2>1, SetupStays DEF RankPhase
  <2>3. RankOrder(r)'
    <3>1. r \in Partners => Returned(r)' <= Returned(0)'
        BY <1>1, <1>3, <1>8
    <3>2. QED
        BY <1>1, <1>2, <1>8, <2>1, <3>1, SetupStays DEF RankOrder
  <2>4. RankParts(r)'
    <3>1. /\ Part(r, Contributed(r))' = Part(r, Contributed(r))
          /\ Part(r, Returned(0))' = Part(r, called[0])
        BY <1>1, <1>2, <1>8, SetupStays DEF Part, DeviceOffset
    <3>2. gathered'[r] = IF r \in Partners' /\ Contributed(0)' < Contributed(r)'
                         THEN << Part(r, Contributed(r))' >> ELSE << >>
        BY <1>1, <1>2, <1>8, <2>1, <3>1, SetupStays DEF RankParts
    <3>3. r \notin Partners => scattered'[r] = << >>
        BY <1>2
    <3>4. ASSUME r \in Partners
          PROVE  scattered'[r] = << Part(r, called[0]) >> /\ Returned(r)' < Returned(0)'
      <4>1. scattered'[r] = Append(scattered[r], Segment(r))
          BY <1>2, <3>4
      <4>2. scattered'[r] = << Part(r, called[0]) >>
          BY <1>3, <4>1, OnlyElement
      <4>3. Returned(r)' = called[0] - 1 /\ Returned(0)' = called[0]
          BY <1>1, <1>3, <1>8, <3>4, PartnerFacts
      <4>4. QED
          BY <1>3, <4>2, <4>3
    <3>5. Partners' = Partners
        BY <1>2, SetupStays
    <3>6. QED
        BY <3>1, <3>2, <3>3, <3>4, <3>5 DEF RankParts
  <2>5. RankOut(r)'
    <3>1. "app" \notin ToScatter
        BY DEF ToScatter
    <3>2. called'[r] = called[r] /\ Batch'[r] = Batch[r] /\ host'[r] = host[r]
        BY <1>2, SetupStays
    <3>3. CASE r = 0
        BY <1>4, <1>7, <3>1, <3>2, <3>3 DEF RankOut
    <3>4. CASE r # 0
        BY <1>7, <2>1, <3>2, <3>4 DEF RankOut
    <3>5. QED
        BY <3>3, <3>4
  <2>6. QED
      BY <2>2, <2>3, <2>4, <2>5
<1>10. Buffers'
  <2>1. pc'[0] = "app" /\ "app" \notin ToScatter
      BY <1>1, <1>7 DEF ToScatter
  <2>2. QED
      BY <2>1 DEF Buffers
<1>11. QED
    BY <1>6, <1>9, <1>10 DEF IInv

\* A worker returns with what the controller has scattered last.
LEMMA ScatterReceiveInv == ASSUME IInv, NEW r \in Ranks, ScatterReceive(r) PROVE IInv'
<1>1. /\ BaseTypes /\ 0 \in Ranks /\ r \in Partners /\ r # 0 /\ pc[r] = "scatter"
      /\ scattered[r] # << >> /\ RankPhase(r) /\ RankOut(r) /\ RankParts(r)
    BY SetupTypes, PartnerFacts DEF IInv, ScatterReceive
<1>2. /\ pc' = [pc EXCEPT ![r] = "app"] /\ called' = called /\ UNCHANGED setup
      /\ inputs' = inputs /\ outputs' = outputs /\ gathered' = gathered
      /\ out' = [out EXCEPT ![r] = WithDevicePart(r, Head(scattered[r]))]
      /\ scattered' = [scattered EXCEPT ![r] = Tail(@)]
    BY DEF ScatterReceive, Goto
<1>3. called[r] \in 1 .. MaxCalls /\ MaxCalls \in Nat /\ Returned(r) = called[r] - 1
    BY <1>1, CountTypes DEF RankPhase, Returned
<1>4. Returned(r) < Returned(0) /\ scattered[r] = << Part(r, Returned(0)) >>
    BY <1>1 DEF RankParts
<1>5. Returned(0) = called[r]
    BY <1>1, <1>3, <1>4, InTurn
<1>6. Head(scattered[r]) = Part(r, called[r]) /\ Tail(scattered[r]) = << >>
    BY <1>4, <1>5, OneElement
<1> DEFINE filled == WithDevicePart(r, Head(scattered[r]))
<1>7. /\ filled \in [1 .. Batch[r] -> Samples]
      /\ \A s \in 1 .. Batch[r] : filled[s] = Sample(r, s, called[r])
  <2>1. called[r] \in 0 .. MaxCalls /\ \A s \in 1 .. host[r] : out[r][s] = Sample(r, s, called[r])
      BY <1>1, <1>3 DEF RankOut, ToScatter
  <2>2. QED
      BY <1>1, <1>6, <2>1, DevicePartFills
<1>8. out' = [out EXCEPT ![r] = filled]
    BY <1>2
<1> HIDE DEF filled
<1>9. BaseTypes'
  <2>1. pc' \in [Ranks -> Places] /\ DOMAIN out' = Ranks /\ DOMAIN scattered' = Ranks
      BY <1>1, <1>2, <1>8 DEF BaseTypes, Places
  <2>2. \A q \in Ranks : out'[q] \in [1 .. Batch[q] -> Samples]
      BY <1>1, <1>7, <1>8 DEF BaseTypes
  <2>3. QED
      BY <1>1, <1>2, <2>1, <2>2, SetupStays DEF BaseTypes
<1>10. /\ \A q \in Ranks : pc'[q] = IF q = r THEN "app" ELSE pc[q]
       /\ \A q \in Ranks : out'[q] = IF q = r THEN filled ELSE out[q]
       /\ \A q \in Ranks : scattered'[q] = IF q = r THEN << >> ELSE scattered[q]
    BY <1>1, <1>2, <1>6, <1>8 DEF BaseTypes
<1>11. /\ Returned(r)' = called[r]
       /\ \A q \in Ranks \ {r} : Returned(q)' = Returned(q)
       /\ \A q \in Ranks : Contributed(q)' = Contributed(q)
  <2>1. "app" \notin ToGather /\ pc'[r] = "app"
      BY <1>1, <1>10 DEF ToGather
  <2>2. Returned(r)' = called[r] /\ Contributed(r)' = Contributed(r)
      BY <1>1, <1>2, <2>1 DEF Returned, Contributed, ToGather
  <2>3. \A q \in Ranks \ {r} : Returned(q)' = Returned(q) /\ Contributed(q)' = Contributed(q)
      BY <1>2, <1>10 DEF Returned, Contributed
  <2>4. QED
      BY <2>2, <2>3
<1>12. Returned(0)' = Returned(0) /\ called[r] \in Nat
    BY <1>1, <1>3, <1>11
<1>13. ASSUME NEW q \in Ranks PROVE (RankPhase(q) /\ RankOrder(q) /\ RankParts(q) /\ RankOut(q))'
  <2>1. RankPhase(q) /\ RankOrder(q) /\ RankParts(q) /\ RankOut(q)
      BY DEF IInv
  <2>2. RankPhase(q)'
      BY <1>2, <1>10, <2>1, SetupStays DEF RankPhase
  <2>3. q \in Partners => Returned(q)' <= Returned(0)'
    <3>1. CASE q = r
        BY <1>5, <1>11, <1>12, <3>1
    <3>2. CASE q # r
        BY <1>1, <1>11, <1>12, <2>1, <3>2 DEF RankOrder
    <3>3. QED
        BY <3>1, <3>2
  <2>4. RankOrder(q)'
      BY <1>1, <1>2, <1>11, <2>1, <2>3, SetupStays DEF RankOrder
  <2>5. RankParts(q)'
    <3>1. /\ Part(q, Contributed(q))' = Part(q, Contributed(q))
          /\ Part(q, Returned(0))' = Part(q, Returned(0))
        BY <1>2, <1>11, <1>12, SetupStays DEF Part, DeviceOffset
    <3>2. gathered'[q] = IF q \in Partners' /\ Contributed(0)' < Contributed(q)'
                         THEN << Part(q, Contributed(q))' >> ELSE << >>
        BY <1>1, <1>2, <1>11, <2>1, <3>1, SetupStays DEF RankParts
    <3>3. q = r => scattered'[q] = << >> /\ ~(Returned(q)' < Returned(0)')
        BY <1>5, <1>10, <1>11, <1>12
    <3>4. q # r => scattered'[q] = scattered[q] /\ Returned(q)' = Returned(q)
        BY <1>10, <1>11
    <3>5. Partners' = Partners
        BY <1>2, SetupStays
    <3>6. QED
        BY <1>12, <2>1, <3>1, <3>2, <3>3, <3>4, <3>5 DEF RankParts
  <2>6. RankOut(q)'
    <3>1. "app" \notin ToScatter
        BY DEF ToScatter
    <3>2. called'[q] = called[q] /\ Batch'[q] = Batch[q] /\ host'[q] = host[q]
        BY <1>2, SetupStays
    <3>3. CASE q = r
        BY <1>7, <1>10, <3>1, <3>2, <3>3 DEF RankOut
    <3>4. CASE q # r
        BY <1>10, <2>1, <3>2, <3>4 DEF RankOut
    <3>5. QED
        BY <3>3, <3>4
  <2>7. QED
      BY <2>2, <2>4, <2>5, <2>6
<1>14. Buffers'
  <2>1. pc'[0] = pc[0] /\ called'[0] = called[0]
      BY <1>1, <1>2, <1>10
  <2>2. \A q : Part(q, called[0])' = Part(q, called[0])
      BY <1>2, SetupStays DEF Part, DeviceOffset
  <2>3. QED
      BY <1>2, <2>1, <2>2, SetupStays DEF IInv, Buffers, Holds
<1>15. QED
    BY <1>9, <1>13, <1>14 DEF IInv

\* Every action keeps the invariant.
LEMMA IInvStep == IInv /\ [Next]_vars => IInv'
<1> SUFFICES ASSUME IInv, [Next]_vars PROVE IInv'
    OBVIOUS
<1>1. ASSUME NEW r \in Ranks, Enter(r) \/ Step(r) PROVE IInv'
    BY <1>1, EnterInv, WalkInv, GatherSendInv, HostInferenceInv, SkipScatterInv, ScatterReceiveInv
    DEF Step
<1>2. CASE Controller
    BY <1>2, GatherAllInv, DeviceInferenceInv, ScatterAllInv DEF Controller
<1>3. CASE UNCHANGED vars
  <2>1. UNCHANGED << pc, called, setup, out, inputs, outputs, gathered, scattered >>
      BY <1>3 DEF vars
  <2>2. BaseTypes'
      BY <2>1, SetupStays DEF IInv, BaseTypes
  <2>3. /\ \A r : Contributed(r)' = Contributed(r) /\ Returned(r)' = Returned(r)
        /\ \A r, c : Part(r, c)' = Part(r, c)
      BY <2>1, SetupStays DEF Contributed, Returned
  <2>4. ASSUME NEW r \in Ranks PROVE (RankPhase(r) /\ RankOrder(r) /\ RankParts(r) /\ RankOut(r))'
    <3>1. RankPhase(r)' /\ RankOrder(r)' /\ RankOut(r)'
        BY <2>1, <2>3, SetupStays DEF IInv, RankPhase, RankOrder, RankOut
    <3>2. /\ Part(r, Contributed(r))' = Part(r, Contributed(r))
          /\ Part(r, Returned(0))' = Part(r, Returned(0))
        BY <2>1, <2>3, SetupStays DEF Part, DeviceOffset
    <3>3. RankParts(r)'
        BY <2>1, <2>3, <3>2, SetupStays DEF IInv, RankParts
    <3>4. QED
        BY <3>1, <3>3
  <2>5. Buffers'
    <3>1. \A q : Part(q, called[0])' = Part(q, called[0])
        BY <2>1, SetupStays DEF Part, DeviceOffset
    <3>2. QED
        BY <2>1, <3>1, SetupStays DEF IInv, Buffers, Holds
  <2>6. QED
      BY <2>2, <2>4, <2>5 DEF IInv
<1>4. QED
    BY <1>1, <1>2, <1>3 DEF Next

\* The inductive invariant holds in every reachable state.
THEOREM Invariance == Spec => []IInv
BY IInvInit, IInvStep, PTL DEF Spec

-----------------------------------------------------------------------------
(***************************************************************************)
(* What follows of it                                                      *)
(***************************************************************************)
\* The state has its types; in particular no collective ever has more than one
\* contribution of a rank under way, and it has the length of that rank's part.
THEOREM TypeCorrect == Spec => []TypeOK
<1>1. ASSUME IInv PROVE TypeOK
  <2>1. BaseTypes
      BY <1>1 DEF IInv
  <2>2. ASSUME NEW r \in Ranks, NEW c \in 0 .. MaxCalls
        PROVE  OnePart(<< >>, r) /\ OnePart(<< Part(r, c) >>, r)
    <3>1. Part(r, c) \in [1 .. DeviceBatch(r) -> Samples]
        BY <2>1, SampleTypes
    <3>2. OnePart(<< >>, r)
        BY DEF OnePart
    <3>3. OnePart(<< Part(r, c) >>, r)
        BY <3>1 DEF OnePart
    <3>4. QED
        BY <3>2, <3>3
  <2>3. ASSUME NEW r \in Ranks PROVE OnePart(gathered[r], r) /\ OnePart(scattered[r], r)
    <3>1. RankParts(r)
        BY <1>1 DEF IInv
    <3>2. Contributed(r) \in 0 .. MaxCalls /\ Returned(0) \in 0 .. MaxCalls
        BY <1>1, <2>1, SetupTypes, CountTypes
    <3>3. QED
        BY <2>2, <3>1, <3>2 DEF RankParts
  <2>4. QED
      BY <2>1, <2>3 DEF BaseTypes, TypeOK
<1>2. QED
    BY <1>1, Invariance, PTL

\* A rank that returns has all of its samples, of host and device, from that call
\* and in their places, however the samples of the group are spread.
THEOREM OutputsStayInPlace == Spec => []OutputsInPlace
<1>1. IInv => OutputsInPlace
    BY DEF IInv, RankOut, OutputsInPlace
<1>2. QED
    BY <1>1, Invariance, PTL

-----------------------------------------------------------------------------
(***************************************************************************)
(* Diagnostic barriers                                                     *)
(***************************************************************************)
\* The barriers of its call that a rank has entered where it is.
Entered(place) ==
    IF place \in {"app", "arrive gather"} THEN 0
    ELSE IF place \in {"wait scatter", "scatter"} THEN 2 ELSE 1

\* Where a rank is that has left the barrier in front of the gather.
PastGather == {"gather", "host", "device"} \cup ToScatter

\* With barriers a rank has entered two in every call, and no rank is past the first
\* one of a call that another has not entered.
RankBarriers(r) ==
    /\ barriers[r] = 2 * Returned(r) + Entered(pc[r])
    /\ pc[r] \in PastGather => \A q \in Ranks : barriers[q] >= 2 * Returned(r) + 1

BarrierInv ==
    /\ barriers \in [Ranks -> Nat]
    /\ Barriers => \A r \in Ranks : RankBarriers(r)

\* One rank goes to another place, entering a barrier or none.
LEMMA BarrierMove ==
    ASSUME IInv, BarrierInv, Barriers, NEW r \in Ranks, NEW n \in {0, 1}, NEW new,
           pc' = [pc EXCEPT ![r] = new], barriers' = [barriers EXCEPT ![r] = barriers[r] + n],
           UNCHANGED setup, \A q \in Ranks \ {r} : called'[q] = called[q],
           Returned(r)' \in Nat, barriers[r] + n = 2 * Returned(r)' + Entered(new),
           new \in PastGather => \A q \in Ranks : barriers[q] >= 2 * Returned(r)' + 1
    PROVE  BarrierInv'
<1>1. pc \in [Ranks -> Places] /\ barriers \in [Ranks -> Nat] /\ \A q \in Ranks : RankBarriers(q)
    BY DEF IInv, BaseTypes, BarrierInv
<1>2. /\ \A q \in Ranks : pc'[q] = IF q = r THEN new ELSE pc[q]
      /\ \A q \in Ranks : barriers'[q] = IF q = r THEN barriers[q] + n ELSE barriers[q]
      /\ \A q \in Ranks : barriers'[q] \in Nat /\ barriers'[q] >= barriers[q]
      /\ barriers' \in [Ranks -> Nat]
    BY <1>1
<1>3. ASSUME NEW q \in Ranks PROVE RankBarriers(q)'
  <2>1. CASE q = r
    <3>1. barriers'[q] = 2 * Returned(q)' + Entered(pc[q])'
        BY <1>2, <2>1 DEF Entered
    <3>2. ASSUME pc'[q] \in PastGather, NEW x \in Ranks PROVE barriers'[x] >= 2 * Returned(q)' + 1
      <4>1. barriers[x] >= 2 * Returned(q)' + 1
          BY <1>2, <2>1, <3>2
      <4>2. barriers[x] \in Nat /\ barriers'[x] \in Nat /\ barriers'[x] >= barriers[x]
          BY <1>1, <1>2
      <4>3. QED
          BY <2>1, <4>1, <4>2
    <3>3. QED
        BY <3>1, <3>2 DEF RankBarriers, PastGather, ToScatter
  <2>2. CASE q # r
    <3>1. Returned(q)' = Returned(q) /\ Returned(q) \in Nat
      <4>1. Returned(q) \in 0 .. MaxCalls /\ MaxCalls \in Nat
          BY CountTypes, SetupTypes DEF IInv
      <4>2. QED
          BY <1>2, <2>2, <4>1 DEF Returned
    <3>2. barriers'[q] = 2 * Returned(q)' + Entered(pc[q])'
        BY <1>1, <1>2, <2>2, <3>1 DEF RankBarriers, Entered
    <3>3. ASSUME pc'[q] \in PastGather, NEW x \in Ranks PROVE barriers'[x] >= 2 * Returned(q)' + 1
      <4>1. barriers[x] >= 2 * Returned(q)' + 1
          BY <1>1, <1>2, <2>2, <3>1, <3>3 DEF RankBarriers
      <4>2. barriers[x] \in Nat /\ barriers'[x] \in Nat /\ barriers'[x] >= barriers[x]
          BY <1>1, <1>2
      <4>3. QED
          BY <3>1, <4>1, <4>2
    <3>4. QED
        BY <3>2, <3>3 DEF RankBarriers, PastGather, ToScatter
  <2>3. QED
      BY <2>1, <2>2
<1>4. QED
    BY <1>2, <1>3 DEF BarrierInv

LEMMA BarrierStep ==
    ASSUME IInv, BarrierInv, Next
    PROVE  BarrierInv'
<1>1. /\ pc \in [Ranks -> Places] /\ 0 \in Ranks /\ barriers \in [Ranks -> Nat]
      /\ \A r \in Ranks : /\ called[r] \in Nat /\ Returned(r) \in Nat
                          /\ pc[r] # "app" => called[r] >= 1 /\ Returned(r) = called[r] - 1
  <2>1. \A r \in Ranks : Returned(r) \in 0 .. MaxCalls /\ called[r] \in Nat /\ MaxCalls \in Nat
      BY CountTypes
  <2>2. QED
      BY <2>1, SetupTypes DEF IInv, BaseTypes, BarrierInv, RankPhase, Returned
<1>2. UNCHANGED setup
    BY DEF Next, Enter, Step, Controller, Arrive, Pass, SkipGather, GatherSend, HostInference,
           SkipScatter, ScatterReceive, GatherAll, DeviceInference, ScatterAll
<1>3. barriers' \in [Ranks -> Nat]
    BY <1>1 DEF Next, Enter, Step, Controller, Arrive, Pass, SkipGather, GatherSend, HostInference,
           SkipScatter, ScatterReceive, GatherAll, DeviceInference, ScatterAll
<1>4. CASE ~Barriers
    BY <1>2, <1>3, <1>4, SetupStays DEF BarrierInv
<1>5. CASE Barriers
  <2>1. \A r \in Ranks : /\ barriers[r] = 2 * Returned(r) + Entered(pc[r])
                         /\ pc[r] \in PastGather => \A q \in Ranks : barriers[q] >= 2 * Returned(r) + 1
      BY <1>5 DEF BarrierInv, RankBarriers
  <2>2. ASSUME NEW r \in Ranks, NEW new \in Places \ {"app"}, pc[r] # "app", called' = called,
               pc' = [pc EXCEPT ![r] = new], barriers' = barriers, Entered(new) = Entered(pc[r]),
               new \in PastGather => \A q \in Ranks : barriers[q] >= 2 * Returned(r) + 1
        PROVE  BarrierInv'
    <3>1. Returned(r)' = Returned(r) /\ Returned(r) \in Nat /\ barriers[r] \in Nat
        BY <1>1, <2>2 DEF Returned
    <3>2. barriers' = [barriers EXCEPT ![r] = barriers[r] + 0] /\ barriers[r] + 0 = barriers[r]
        BY <1>1, <2>2, <3>1
    <3>3. barriers[r] + 0 = 2 * Returned(r)' + Entered(new)
        BY <2>1, <2>2, <3>1, <3>2
    <3>4. QED
        BY <1>2, <1>5, <2>2, <3>1, <3>2, <3>3, BarrierMove
  <2>3. ASSUME NEW r \in Ranks, pc[r] = "scatter", called' = called,
               pc' = [pc EXCEPT ![r] = "app"], barriers' = barriers
        PROVE  BarrierInv'
    <3>1. /\ Returned(r)' = Returned(r) + 1 /\ Returned(r) \in Nat /\ barriers[r] \in Nat
          /\ Returned(r)' \in Nat
        BY <1>1, <2>3 DEF Returned
    <3>2. barriers' = [barriers EXCEPT ![r] = barriers[r] + 0] /\ barriers[r] + 0 = barriers[r]
        BY <1>1, <2>3, <3>1
    <3>3. Entered(pc[r]) = 2 /\ Entered("app") = 0 /\ "app" \notin PastGather
        BY <2>3 DEF Entered, PastGather, ToScatter
    <3>4. barriers[r] + 0 = 2 * Returned(r)' + Entered("app")
        BY <2>1, <3>1, <3>2, <3>3
    <3>5. QED
        BY <1>2, <1>5, <2>3, <3>1, <3>2, <3>3, <3>4, BarrierMove
  <2>4. ASSUME NEW r \in Ranks, Enter(r) PROVE BarrierInv'
    <3>1. /\ pc[r] = "app" /\ called' = [called EXCEPT ![r] = @ + 1] /\ barriers' = barriers
          /\ pc' = [pc EXCEPT ![r] = "arrive gather"]
        BY <1>5, <2>4 DEF Enter, Goto, Before, Arriving
    <3>2. \A q \in Ranks \ {r} : called'[q] = called[q]
        BY <1>1, <3>1 DEF IInv, BaseTypes
    <3>3. Returned(r)' = Returned(r) /\ Returned(r) \in Nat /\ barriers[r] \in Nat
      <4>1. called'[r] = called[r] + 1 /\ pc'[r] = "arrive gather"
          BY <1>1, <3>1 DEF IInv, BaseTypes
      <4>2. Returned(r) = called[r] /\ Returned(r)' = called'[r] - 1
          BY <3>1, <4>1 DEF Returned
      <4>3. called'[r] = called[r] + 1 /\ called[r] \in Nat /\ barriers[r] \in Nat
          BY <1>1, <4>1
      <4>4. QED
          BY <4>2, <4>3
    <3>4. barriers' = [barriers EXCEPT ![r] = barriers[r] + 0] /\ barriers[r] + 0 = barriers[r]
      <4>1. barriers' = barriers /\ barriers \in [Ranks -> Nat]
          BY <1>1, <3>1
      <4>2. QED
          BY <3>3, <4>1
    <3>5. Entered(pc[r]) = 0 /\ Entered("arrive gather") = 0 /\ "arrive gather" \notin PastGather
        BY <3>1 DEF Entered, PastGather, ToScatter
    <3>6. barriers[r] + 0 = 2 * Returned(r)' + Entered("arrive gather")
        BY <2>1, <3>3, <3>4, <3>5
    <3>7. Returned(r)' \in Nat
        BY <3>3
    <3>8. QED
        BY <1>2, <1>5, <3>1, <3>2, <3>4, <3>5, <3>6, <3>7, BarrierMove
  <2>5. ASSUME NEW r \in Ranks, NEW c, c \in {"gather", "scatter"}, Arrive(r, c) PROVE BarrierInv'
    <3>1. PICK new :
             /\ new \in {"wait gather", "wait scatter"}
             /\ pc[r] \in {"arrive gather", "arrive scatter"}
             /\ pc[r] = "arrive gather" <=> new = "wait gather"
             /\ pc' = [pc EXCEPT ![r] = new] /\ called' = called
             /\ barriers' = [barriers EXCEPT ![r] = barriers[r] + 1]
      <4>1. /\ Arriving["gather"] = "arrive gather" /\ Arriving["scatter"] = "arrive scatter"
            /\ Waiting["gather"] = "wait gather" /\ Waiting["scatter"] = "wait scatter"
          BY DEF Arriving, Waiting
      <4>2. QED
          BY <2>5, <4>1 DEF Arrive, Goto
    <3>2. Returned(r)' = Returned(r) /\ Returned(r) \in Nat /\ barriers[r] \in Nat
        BY <1>1, <3>1 DEF Returned
    <3>3. barriers[r] + 1 = 2 * Returned(r)' + Entered(new)
      <4>1. \/ Entered(new) = 1 /\ Entered(pc[r]) = 0
            \/ Entered(new) = 2 /\ Entered(pc[r]) = 1
          BY <3>1 DEF Entered
      <4>2. barriers[r] = 2 * Returned(r) + Entered(pc[r])
          BY <2>1
      <4>3. QED
          BY <3>2, <4>1, <4>2
    <3>4. new \in PastGather => \A q \in Ranks : barriers[q] >= 2 * Returned(r)' + 1
        BY <2>1, <3>1, <3>2 DEF PastGather, ToScatter
    <3>5. QED
        BY <1>2, <1>5, <3>1, <3>2, <3>3, <3>4, BarrierMove
  <2>6. ASSUME NEW r \in Ranks, NEW c, c \in {"gather", "scatter"}, Pass(r, c) PROVE BarrierInv'
    <3>1. /\ pc[r] = IF c = "gather" THEN "wait gather" ELSE "wait scatter"
          /\ pc' = [pc EXCEPT ![r] = c] /\ called' = called /\ barriers' = barriers
          /\ \A q \in Ranks : barriers[q] >= barriers[r]
      <4>1. Waiting["gather"] = "wait gather" /\ Waiting["scatter"] = "wait scatter"
          BY DEF Waiting
      <4>2. QED
          BY <2>6, <4>1 DEF Pass, Goto
    <3>2. c \in Places \ {"app"} /\ Entered(c) = Entered(pc[r])
        BY <2>6, <3>1 DEF Entered, Places, ToGather, ToScatter
    <3>3. \A q \in Ranks : barriers[q] >= 2 * Returned(r) + 1
      <4>1. c = "gather" => barriers[r] = 2 * Returned(r) + 1
          BY <2>1, <3>1 DEF Entered
      <4>2. c = "scatter" => \A q \in Ranks : barriers[q] >= 2 * Returned(r) + 1
          BY <2>1, <3>1 DEF PastGather, ToScatter
      <4>3. \A q \in Ranks : barriers[q] >= barriers[r]
          BY <3>1
      <4>4. QED
          BY <2>6, <4>1, <4>2, <4>3
    <3>4. QED
        BY <2>2, <3>1, <3>2, <3>3
  <2>7. ASSUME NEW r \in Ranks, SkipGather(r) \/ GatherSend(r) \/ HostInference(r) PROVE BarrierInv'
    <3>1. PICK new \in {"host", "arrive scatter"} :
             /\ pc[r] \in {"gather", "host"} /\ pc' = [pc EXCEPT ![r] = new]
             /\ called' = called /\ barriers' = barriers
        BY <1>5, <2>7 DEF SkipGather, GatherSend, HostInference, Goto, Before, Arriving
    <3>2. new \in Places \ {"app"} /\ Entered(new) = Entered(pc[r]) /\ pc[r] \in PastGather
        BY <3>1 DEF Entered, Places, ToScatter, PastGather
    <3>3. QED
        BY <2>1, <2>2, <3>1, <3>2
  <2>8. ASSUME GatherAll \/ DeviceInference PROVE BarrierInv'
    <3>1. PICK new \in {"device", "arrive scatter"} :
             /\ pc[0] \in {"gather", "device"} /\ pc' = [pc EXCEPT ![0] = new]
             /\ called' = called /\ barriers' = barriers
        BY <1>5, <2>8 DEF GatherAll, DeviceInference, Goto, Before, Arriving
    <3>2. new \in Places \ {"app"} /\ Entered(new) = Entered(pc[0]) /\ pc[0] \in PastGather
        BY <3>1 DEF Entered, Places, ToScatter, PastGather
    <3>3. QED
        BY <1>1, <2>1, <2>2, <3>1, <3>2
  <2>9. ASSUME NEW r \in Ranks, SkipScatter(r) \/ ScatterReceive(r) PROVE BarrierInv'
      BY <2>3, <2>9 DEF SkipScatter, ScatterReceive, Goto
  <2>10. CASE ScatterAll
      BY <1>1, <2>3, <2>10 DEF ScatterAll, Goto
  <2>11. QED
      BY <2>4, <2>5, <2>6, <2>7, <2>8, <2>9, <2>10 DEF Next, Step, Controller
<1>6. QED
    BY <1>4, <1>5

LEMMA BarriersCounted == Spec => []BarrierInv
<1>1. Init => BarrierInv
  <2>1. SUFFICES ASSUME Init PROVE BarrierInv
      OBVIOUS
  <2>2. \A r \in Ranks : pc[r] = "app" /\ called[r] = 0 /\ barriers[r] = 0
      BY <2>1 DEF Init
  <2>3. barriers \in [Ranks -> Nat]
      BY <2>1 DEF Init
  <2>4. ASSUME NEW r \in Ranks PROVE RankBarriers(r)
    <3>1. Returned(r) = 0 /\ Entered(pc[r]) = 0 /\ barriers[r] = 0
        BY <2>2 DEF Returned, Entered
    <3>2. pc[r] \notin PastGather
        BY <2>2 DEF PastGather, ToScatter
    <3>3. barriers[r] = 2 * Returned(r) + Entered(pc[r])
        BY <3>1
    <3>4. QED
        BY <3>2, <3>3 DEF RankBarriers
  <2>5. QED
      BY <2>3, <2>4 DEF BarrierInv
<1>2. ASSUME IInv, BarrierInv, [Next]_vars PROVE BarrierInv'
  <2>1. CASE UNCHANGED vars
    <3>1. /\ \A r : Returned(r)' = Returned(r)
          /\ pc' = pc /\ barriers' = barriers /\ UNCHANGED setup
        BY <2>1 DEF vars, Returned
    <3>2. QED
        BY <1>2, <3>1, SetupStays DEF BarrierInv, RankBarriers
  <2>2. QED
      BY <1>2, <2>1, BarrierStep
<1>3. QED
    BY <1>1, <1>2, Invariance, PTL DEF Spec

-----------------------------------------------------------------------------
(***************************************************************************)
(* The exchange implements the contract of its callers                     *)
(***************************************************************************)
\* What the callers see of rank r.
Whole(r) == \A s \in 1 .. Batch[r] : out[r][s] = Sample(r, s, called[r])
ReturnedMap == [r \in Ranks |-> Returned(r)]
OutMap == [r \in Ranks |-> IF pc[r] # "app" THEN 0 ELSE IF Whole(r) THEN called[r] ELSE 0]

\* Inside a call and outside one the callers see nothing change.
LEMMA Invisible ==
    ASSUME called' = called, UNCHANGED setup, \A q \in Ranks : pc'[q] = "app" <=> pc[q] = "app",
           \A q \in Ranks : pc[q] = "app" => out'[q] = out[q]
    PROVE  UNCHANGED Group!vars
<1>1. ReturnedMap' = ReturnedMap
    BY DEF ReturnedMap, Returned
<1>2. OutMap' = OutMap
    BY SetupStays DEF OutMap, Whole
<1>3. Members' = Members
    BY SetupStays
<1>4. QED
    BY <1>1, <1>2, <1>3 DEF Group!vars, ReturnedMap, OutMap, Whole

\* With a device a member that returns finds that all members have called: the
\* barrier or the controller has held it until then.
LEMMA EverybodyCalled ==
    ASSUME IInv, BarrierInv, Devices, NEW r \in Ranks, pc[r] = "scatter",
           r = 0 \/ Barriers \/ (r \in Partners /\ Returned(r) < Returned(0))
    PROVE  \A q \in Members : called[r] <= called[q]
<1>1. called[r] \in Nat /\ Returned(r) = called[r] - 1 /\ Contributed(r) = called[r]
    BY CountTypes DEF Returned, Contributed, ToGather
<1>2. Members \subseteq Ranks
    BY DEF Members
<1>3. CASE Barriers
  <2>1. ASSUME NEW q \in Ranks PROVE called[r] <= called[q]
    <3>1. barriers[q] >= 2 * Returned(r) + 1 /\ barriers[q] = 2 * Returned(q) + Entered(pc[q])
        BY <1>3 DEF BarrierInv, RankBarriers, PastGather, ToScatter
    <3>2. called[q] \in Nat /\ (pc[q] # "app" => Returned(q) = called[q] - 1)
        BY CountTypes DEF Returned
    <3>3. pc[q] = "app" => Returned(q) = called[q] /\ Entered(pc[q]) = 0
        BY DEF Returned, Entered
    <3>4. Entered(pc[q]) \in 0 .. 2
        BY DEF Entered
    <3>5. QED
        BY <1>1, <3>1, <3>2, <3>3, <3>4
  <2>2. QED
      BY <1>2, <2>1
<1>4. CASE ~Barriers
  <2>1. 0 \in Ranks /\ Returned(0) \in Nat /\ Contributed(0) \in Nat /\ Returned(0) <= Contributed(0)
      BY SetupTypes, CountTypes, InTurn DEF IInv
  <2>2. called[r] <= Contributed(0)
      BY <1>1, <1>4, <2>1
  <2>3. ASSUME NEW q \in Members PROVE called[r] <= called[q]
    <3>1. q \in Ranks /\ (q = 0 \/ q \in Partners)
        BY <1>4, <2>3 DEF Members, IsController
    <3>2. Contributed(0) <= Contributed(q) /\ Contributed(q) \in Nat
        BY <3>1, InTurn
    <3>3. Contributed(q) <= called[q] /\ called[q] \in Nat
        BY <3>1, CountTypes
    <3>4. QED
        BY <1>1, <2>1, <2>2, <3>2, <3>3
  <2>4. QED
      BY <2>3
<1>5. QED
    BY <1>3, <1>4

LEMMA CallStep == ASSUME IInv, NEW r \in Ranks, Enter(r) PROVE Group!Call(r)
<1>1. /\ pc \in [Ranks -> Places] /\ called \in [Ranks -> 0 .. MaxCalls] /\ called[r] \in Nat
      /\ pc[r] = "app" /\ called[r] < MaxCalls
    BY CountTypes DEF IInv, BaseTypes, Enter
<1>2. PICK new \in ToGather : pc' = [pc EXCEPT ![r] = new]
    BY DEF Enter, Goto, Before, Arriving, ToGather
<1>3. called' = [called EXCEPT ![r] = @ + 1] /\ UNCHANGED setup /\ out' = out /\ new # "app"
    BY <1>2 DEF Enter, ToGather
<1>4. /\ \A q \in Ranks : pc'[q] = IF q = r THEN new ELSE pc[q]
      /\ \A q \in Ranks : called'[q] = IF q = r THEN called[r] + 1 ELSE called[q]
    BY <1>1, <1>2, <1>3
<1>5. ReturnedMap' = ReturnedMap
  <2>1. ASSUME NEW q \in Ranks PROVE Returned(q)' = Returned(q)
      BY <1>1, <1>3, <1>4 DEF Returned
  <2>2. QED
      BY <2>1 DEF ReturnedMap
<1>6. OutMap' = [OutMap EXCEPT ![r] = 0]
  <2>1. \A q \in Ranks \ {r} : Whole(q)' = Whole(q)
      BY <1>3, <1>4, SetupStays DEF Whole
  <2>2. QED
      BY <1>3, <1>4, <2>1 DEF OutMap
<1>7. ReturnedMap[r] = called[r]
    BY <1>1 DEF ReturnedMap, Returned
<1>8. Members' = Members
    BY <1>3, SetupStays
<1>9. QED
    BY <1>1, <1>3, <1>5, <1>6, <1>7, <1>8 DEF Group!Call, ReturnedMap, OutMap, Whole

\* A rank returns after everybody called, with the outputs of its own call.
LEMMA ReturnStep ==
    ASSUME IInv, IInv', BarrierInv, Devices, NEW r \in Ranks, pc[r] = "scatter",
           pc' = [pc EXCEPT ![r] = "app"], called' = called, UNCHANGED setup,
           \A q \in Ranks \ {r} : out'[q] = out[q],
           r \in Members => r = 0 \/ Barriers \/ (r \in Partners /\ Returned(r) < Returned(0))
    PROVE  Group!Return(r)
<1>1. pc \in [Ranks -> Places] /\ called[r] \in Nat /\ called[r] >= 1
    BY CountTypes DEF IInv, BaseTypes, RankPhase
<1>2. \A q \in Ranks : pc'[q] = IF q = r THEN "app" ELSE pc[q]
    BY <1>1
<1>3. Whole(r)'
    BY <1>2 DEF IInv, RankOut, Whole
<1>4. \A q \in Ranks \ {r} : Whole(q)' = Whole(q)
    BY SetupStays DEF Whole
<1>5. ReturnedMap' = [ReturnedMap EXCEPT ![r] = called[r]]
  <2>1. Returned(r)' = called[r] /\ \A q \in Ranks \ {r} : Returned(q)' = Returned(q)
      BY <1>2 DEF Returned
  <2>2. QED
      BY <2>1 DEF ReturnedMap
<1>6. OutMap' = [OutMap EXCEPT ![r] = called[r]]
    BY <1>2, <1>3, <1>4 DEF OutMap
<1>7. ReturnedMap[r] < called[r]
    BY <1>1 DEF ReturnedMap, Returned
<1>8. r \in Members => \A q \in Members : called[r] <= called[q]
    BY EverybodyCalled
<1>9. Members' = Members
    BY SetupStays
<1>10. QED
    BY <1>5, <1>6, <1>7, <1>8, <1>9 DEF Group!Return, ReturnedMap, OutMap, Whole

\* The steps of a rank between its call and its return.
LEMMA StepInvisible ==
    ASSUME IInv, NEW r \in Ranks, Step(r), ~ScatterReceive(r), ~SkipScatter(r)
    PROVE  UNCHANGED Group!vars
<1>1. pc \in [Ranks -> Places] /\ DOMAIN out = Ranks
    BY DEF IInv, BaseTypes
<1>2. /\ pc[r] # "app" /\ called' = called /\ UNCHANGED setup
      /\ \E label : label # "app" /\ pc' = [pc EXCEPT ![r] = label]
  <2>1. CASE \E collective \in {"gather", "scatter"} : Arrive(r, collective) \/ Pass(r, collective)
    <3>1. PICK collective \in {"gather", "scatter"} : Arrive(r, collective) \/ Pass(r, collective)
        BY <2>1
    <3>2. /\ Arriving[collective] # "app" /\ Waiting[collective] # "app" /\ collective # "app"
      <4>1. /\ Arriving["gather"] = "arrive gather" /\ Arriving["scatter"] = "arrive scatter"
            /\ Waiting["gather"] = "wait gather" /\ Waiting["scatter"] = "wait scatter"
          BY DEF Arriving, Waiting
      <4>2. QED
          BY <3>1, <4>1
    <3>3. CASE Arrive(r, collective)
        BY <3>2, <3>3 DEF Arrive, Goto
    <3>4. CASE Pass(r, collective)
        BY <3>2, <3>4 DEF Pass, Goto
    <3>5. QED
        BY <3>1, <3>3, <3>4
  <2>2. CASE SkipGather(r) \/ GatherSend(r)
      BY <2>2 DEF SkipGather, GatherSend, Goto
  <2>3. CASE HostInference(r)
      BY <2>3 DEF HostInference, Goto, Before, Arriving
  <2>4. QED
      BY <2>1, <2>2, <2>3 DEF Step
<1>3. \A q \in Ranks \ {r} : out'[q] = out[q]
    BY <1>1 DEF Step, Arrive, Pass, SkipGather, GatherSend, HostInference
<1>4. QED
    BY <1>1, <1>2, <1>3, Invisible

\* With a device every step is a call, a return or invisible to the callers.
LEMMA StepImplements ==
    ASSUME IInv, IInv', BarrierInv, Next, Devices
    PROVE  [Group!Next]_(Group!vars)
<1>1. 0 \in Ranks /\ pc \in [Ranks -> Places] /\ DOMAIN out = Ranks
    BY SetupTypes DEF IInv, BaseTypes
<1>2. ASSUME NEW r \in Ranks, ScatterReceive(r) \/ SkipScatter(r) PROVE Group!Return(r)
  <2>1. /\ pc[r] = "scatter" /\ pc' = [pc EXCEPT ![r] = "app"] /\ called' = called
        /\ UNCHANGED setup /\ \A q \in Ranks \ {r} : out'[q] = out[q]
        /\ scattered[r] # << >> \/ (r \notin Partners /\ ~IsController(r))
      BY <1>1, <1>2 DEF ScatterReceive, SkipScatter, Goto
  <2>2. r \in Members => Barriers \/ (r \in Partners /\ Returned(r) < Returned(0))
      BY <2>1 DEF IInv, RankParts, Members
  <2>3. QED
      BY <2>1, <2>2, ReturnStep
<1>3. ASSUME ScatterAll PROVE Group!Return(0)
  <2>1. /\ pc[0] = "scatter" /\ pc' = [pc EXCEPT ![0] = "app"] /\ called' = called
        /\ UNCHANGED setup /\ \A q \in Ranks \ {0} : out'[q] = out[q]
      BY <1>1, <1>3 DEF ScatterAll, Goto
  <2>2. QED
      BY <1>1, <2>1, ReturnStep
<1>4. ASSUME GatherAll \/ DeviceInference PROVE UNCHANGED Group!vars
  <2>1. /\ pc[0] # "app" /\ called' = called /\ UNCHANGED setup /\ out' = out
        /\ \E label : label # "app" /\ pc' = [pc EXCEPT ![0] = label]
      BY <1>4 DEF GatherAll, DeviceInference, Goto, Before, Arriving
  <2>2. QED
      BY <1>1, <2>1, Invisible
<1>5. ASSUME NEW r \in Ranks, Enter(r) \/ Step(r)
      PROVE  Group!Call(r) \/ Group!Return(r) \/ UNCHANGED Group!vars
    BY <1>2, <1>5, CallStep, StepInvisible
<1>6. QED
    BY <1>1, <1>3, <1>4, <1>5 DEF Next, Controller, Group!Next

\* For every group with a device the collective exchange implements the contract of
\* Exchange.
THEOREM Implementation == Spec => ImplementsExchange
<1>1. Init => Group!Init
  <2>1. SUFFICES ASSUME Init PROVE Group!Init
      OBVIOUS
  <2>2. ReturnedMap = [r \in Ranks |-> 0] /\ OutMap = [r \in Ranks |-> 0]
      BY <2>1 DEF Init, ReturnedMap, OutMap, Returned
  <2>3. QED
      BY <2>1, <2>2 DEF Group!Init, Init, Members, ReturnedMap, OutMap, Whole
<1>2. IInv /\ IInv' /\ BarrierInv /\ [Next]_vars => [Devices => Group!Next]_(Group!vars)
  <2>1. SUFFICES ASSUME IInv, IInv', BarrierInv, [Next]_vars PROVE [Devices => Group!Next]_(Group!vars)
      OBVIOUS
  <2>2. CASE UNCHANGED vars
    <3>1. UNCHANGED Group!vars
        BY <2>2, Invisible DEF vars
    <3>2. QED
        BY <3>1
  <2>3. CASE Next
      BY <2>1, <2>3, StepImplements
  <2>4. QED
      BY <2>1, <2>2, <2>3
<1>3. QED
    BY <1>1, <1>2, Invariance, BarriersCounted, PTL DEF Spec, ImplementsExchange
=============================================================================
