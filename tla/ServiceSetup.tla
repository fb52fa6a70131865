---------------------------- MODULE ServiceSetup ---------------------------
(***************************************************************************)
(* The constructor of AIxeleratorService<T> on all ranks: the distribution *)
(* makes the workgroups; every group with a device builds a communicator,  *)
(* splits the hybrid work and builds the communicator for the device part; *)
(* then the strategies that have work are initialised.  Groups do not      *)
(* interact; the rest of the constructor is followed in any one of them.   *)
(***************************************************************************)
EXTENDS Workgroups, FiniteSetsExt

CONSTANTS MaxBatch,   \* bound: samples per rank
          Elements,   \* elements of a sample
          Endings,    \* of the model file
          Backends,   \* the backends the library is built with
          IntBound    \* an int is a number in -IntBound .. IntBound - 1

ASSUME SetupAssumption == MaxBatch \in Nat /\ Elements \in Nat \ {0} /\ IntBound \in Nat \ {0}

VARIABLES size,       \* workgroup_size_ of the group that is followed, or 0
          onDevice,   \* the group has a controller, which is its rank 0
          batch, rounded, pc, hostWork, cpuwork, remaining, i, anyGiven, share, sent,
          layout,     \* what the constructor of the communicator computes
          hostReady,  \* ranks whose inferencing_host_ is initialised
          deviceReady \* the controller's inferencing_device_ is initialised

splitVars == << batch, rounded, pc, hostWork, cpuwork, remaining, i, anyGiven, share, sent >>
initVars  == << layout, hostReady, deviceReady >>
vars == << groupVars, size, onDevice, splitVars, initVars >>

\* The split in a group of n ranks.
Split(n) == INSTANCE HybridSplit WITH N <- n

Members0 == 0 .. size - 1

Init ==
    /\ GroupInit
    /\ size = 0 /\ onDevice = FALSE
    /\ batch = << >> /\ rounded = 0 /\ pc = << >> /\ hostWork = 0 /\ cpuwork = << >>
    /\ remaining = 0 /\ i = 1 /\ anyGiven = FALSE /\ share = << >> /\ sent = << >>
    /\ layout = << >> /\ hostReady = {} /\ deviceReady = FALSE

\* The distribution plays no further part, and what it was is forgotten.
Forget ==
    /\ stage' = "enter"
    /\ placement' = << >>
    /\ strategy' = "round robin"
    /\ gpus' = << >>
    /\ device' = [r \in Procs |-> -1]
    /\ group' = [r \in Procs |-> -1]
    /\ gpu' = 1 /\ domains' = {}

\* The ranks of group g go on with the constructor; without devices the group is
\* the application.
EnterGroup(g) ==
    /\ stage = "done"
    /\ IF Devices = 0 THEN g = 0 ELSE g < Devices
    /\ Forget
    /\ size' = IF Devices = 0 THEN P ELSE Cardinality(Members(g))
    /\ onDevice' = (Devices > 0)
    /\ UNCHANGED << splitVars, initVars >>

-----------------------------------------------------------------------------
(***************************************************************************)
(* The constructor of CollectiveCommunication                              *)
(***************************************************************************)
\* What is left of x in an int.
Int32(x) == ((x + IntBound) % (2 * IntBound)) - IntBound

SamplesOf(part) == MapThenSumSet(LAMBDA r : part[r], Members0)

\* Mutated form of Displs: a rank's own count is added instead of its predecessor's.
Displs_Own(counts) ==
    LET displs[r \in Members0] == IF r = 0 THEN 0 ELSE Int32(displs[r - 1] + counts[r])
    IN  displs

\* The displacements are the prefix sums of the counts.
Displs(counts) ==
    LET displs[r \in Members0] == IF r = 0 THEN 0 ELSE Int32(displs[r - 1] + counts[r - 1])
    IN  displs

\* The ranks contribute part[r] samples each to the buffers of the controller.
Layout(part) ==
    LET counts == [r \in Members0 |-> Int32(part[r] * Elements)]
    IN  [counts |-> counts, displs |-> Displs(counts), samples |-> Int32(SamplesOf(part))]

-----------------------------------------------------------------------------
\* Every rank has any number of samples, and the host fraction is any number; in
\* hybrid mode the samples of a group fit an int (see HybridSplit!Countable).
\* With hybrid inference the split follows, without it all samples of a rank go
\* to the device if there is one and stay on the host otherwise.
ChooseBatches(hybrid) ==
    /\ stage = "enter"
    /\ hybrid => onDevice
    /\ stage' = "split"
    /\ batch' \in [Members0 -> 0 .. MaxBatch]
    /\ hybrid => SamplesOf(batch') < IntBound
    /\ layout' = IF onDevice THEN Layout(batch') ELSE << >>
    /\ hostWork' = 0
    /\ cpuwork' = [r \in 1 .. size - 1 |-> 0]
    /\ sent' = [r \in Members0 |-> << -1, -1 >>]
    /\ IF hybrid
       THEN /\ rounded' \in -1 .. SamplesOf(batch') + 1
            /\ pc' = [r \in Members0 |-> "gather"]
            /\ share' = [r \in Members0 |-> << -1, -1 >>]
       ELSE /\ rounded' = 0
            /\ pc' = [r \in Members0 |-> "done"]
            /\ share' = [r \in Members0 |->
                           IF onDevice THEN << 0, batch'[r] >> ELSE << batch'[r], 0 >>]
    /\ UNCHANGED << given, device, gpu, group, domains >>
    /\ UNCHANGED << size, onDevice, remaining, i, anyGiven, hostReady, deviceReady >>

IsController(r) == onDevice /\ r = 0

\* batch_host, after the workaround that keeps the controller's samples together.
HostPart(r) == IF IsController(r) THEN 0 ELSE share[r][1]

DevicePart == [r \in Members0 |-> batch[r] - HostPart(r)]

\* Mutated form of DeviceHasWork: only the controller's own samples count.
DeviceHasWork_Own(total) == share[0][2] > 0

\* batch_device > 0 || getTotalInputSamples() > 0
DeviceHasWork(total) == share[0][2] > 0 \/ total > 0

\* getAIFrameworkFromModel
Framework(suffix) ==
    CASE suffix = ".pt"               -> "torch"
      [] suffix \in {".pb", ".tf"}    -> "tensorflow"
      [] suffix = ".vso"              -> "sol"
      [] suffix \in {".ort", ".onnx"} -> "onnx"
      [] OTHER                        -> "unknown"

\* createInferenceStrategy makes a null pointer otherwise, which init() dies of.
HasStrategy(suffix) == Framework(suffix) \in Backends

\* The communicator is built anew for the device part, and strategies with work
\* are initialised.
InitInferenceStrategy(suffix) ==
    /\ stage = "split"
    /\ \A r \in Members0 : pc[r] = "done"
    /\ layout' = IF onDevice THEN Layout(DevicePart) ELSE << >>
    /\ LET hosts   == {r \in Members0 : HostPart(r) > 0}
           device0 == onDevice /\ DeviceHasWork(layout'.samples)
       IN  IF HasStrategy(suffix)
           THEN stage' = "ready" /\ hostReady' = hosts /\ deviceReady' = device0
           ELSE /\ stage' = IF hosts = {} /\ ~device0 THEN "ready" ELSE "died"
                /\ UNCHANGED << hostReady, deviceReady >>
    /\ UNCHANGED << given, device, gpu, group, domains >>
    /\ UNCHANGED << size, onDevice, splitVars >>

Enter == \/ \E g \in Procs : EnterGroup(g)
         \/ \E hybrid \in BOOLEAN : ChooseBatches(hybrid)
         \/ \E suffix \in Endings : InitInferenceStrategy(suffix)

Distribute == CreateWorkgroups /\ UNCHANGED << size, onDevice, splitVars, initVars >>

ControllerStep == \E n \in 1 .. P : /\ size = n /\ stage = "split"
                                    /\ Split(n)!Controller
                                    /\ UNCHANGED << groupVars, size, onDevice, initVars >>

WorkerStep == \E n \in 1 .. P : /\ size = n /\ stage = "split"
                                /\ \E r \in 1 .. n - 1 : Split(n)!Worker(r)
                                /\ UNCHANGED << groupVars, size, onDevice, initVars >>

Next == Distribute \/ Enter \/ ControllerStep \/ WorkerStep

\* Every process runs until it is done.
Spec == /\ Init /\ [][Next]_vars
        /\ WF_vars(Distribute) /\ WF_vars(Enter)
        /\ WF_vars(ControllerStep) /\ WF_vars(WorkerStep)

-----------------------------------------------------------------------------
Splitting == stage \in {"split", "ready", "died"}

\* In every group the workers get the even split of the host work.
SplitIsEven == \A n \in 1 .. P : size = n /\ Splitting => Split(n)!SplitIsEven

\* A controller alone in its group gets its share, too.
ControllerGetsPair == \A n \in 1 .. P : size = n /\ Splitting => Split(n)!ControllerGetsPair

\* As long as the group has fewer elements than an int can count, the segments of
\* the ranks, in rank order, are a partition of the controller buffer and each as
\* long as what the rank sends; the exchanges and the strategies rely on it.
SegmentsTile ==
    stage = "ready" /\ onDevice =>
        LET total      == Elements * SamplesOf(DevicePart)
            Segment(r) == layout.displs[r] .. layout.displs[r] + layout.counts[r] - 1
        IN  total < IntBound =>
                /\ layout.samples * Elements = total
                /\ UNION {Segment(r) : r \in Members0} = 0 .. total - 1
                /\ \A r \in Members0 :
                      /\ Cardinality(Segment(r)) = Elements * DevicePart[r]
                      /\ \A q \in 0 .. r - 1 : layout.displs[q] + layout.counts[q] <= layout.displs[r]

\* inference() runs a strategy only if the constructor has initialised it: the
\* conditions of the two, in different functions, agree for every split, also
\* where a constructor returns although the model file has an unknown format.
UsedIsReady ==
    stage = "ready" =>
        /\ \A r \in Members0 : HostPart(r) > 0 /\ ~IsController(r) => r \in hostReady
        /\ onDevice /\ (DevicePart[0] > 0 \/ layout.samples > 0) => deviceReady

\* The setup ends: the distribution loops do, every rank learns its share and the
\* strategies are set up or die, but for a hybrid controller alone in its group
\* (see the run split_alone).
SetupEnds == <>(stage \in {"ready", "died"} \/ (size = 1 /\ stage = "split" /\ pc[0] = "fault"))
=============================================================================
