------------------------ MODULE CollectiveExchange ------------------------
(***************************************************************************)
(* AIxeleratorService<T>::inference() with CommunicationMode::Collective:  *)
(* the ranks of a workgroup gather the device part of their input at the   *)
(* controller, the controller infers it on the device while the workers    *)
(* infer their host part, and the results are scattered.  Without a device *)
(* every rank infers all of its samples on its host.                       *)
(*                                                                         *)
(* A buffer is a function of its samples.  What a sample holds says whose  *)
(* it is, the how manieth of that rank's, and of which call; call 0 is     *)
(* what was there before the first one.                                    *)
(***************************************************************************)
EXTENDS WorkSplit, Integers, Sequences

CONSTANTS N,         \* size of the workgroup
          Configs,   \* the ways the service may be set up
          MaxCalls   \* bound: calls of inference() per rank

Ranks   == 0 .. N - 1
Workers == 1 .. N - 1

ASSUME CollectiveAssumption ==
    /\ N \in Nat \ {0}
    /\ Configs \subseteq [batch    : [Ranks -> Nat],
                         devices  : BOOLEAN,
                         hybrid   : BOOLEAN,
                         waits    : BOOLEAN,
                         barriers : BOOLEAN]
    /\ MaxCalls \in Nat

VARIABLES config,    \* how the service is set up
          pc,        \* where each rank is in inference()
          called,    \* calls each rank has entered
          host,      \* input_shape_host_[0] of each rank
          out,       \* output_data_ of each rank
          inputs,    \* input_data_controller_
          outputs,   \* output_data_controller_
          gathered,  \* contributions to MPI_Gatherv, per rank, in order
          scattered, \* parts of MPI_Scatterv, per rank, in order
          barriers   \* barriers each rank has entered

\* What the constructor decides once.
setup == << config, host >>
vars  == << setup, pc, called, out, inputs, outputs, gathered, scattered, barriers >>

Batch    == config.batch      \* input_shape[0] of each rank
Devices  == config.devices    \* num_devices_total > 0: rank 0 is the controller
Hybrid   == config.hybrid     \* enable_hybrid with a host_fraction
Waits    == config.waits      \* MPI_Gatherv and MPI_Scatterv synchronise the
                              \* controller with ranks that count no element, too
Barriers == config.barriers   \* diagnostic_barriers, the same on every rank

\* input_shape_device_[0]: the samples of rank r behind its host samples.
DeviceBatch(r) == Batch[r] - host[r]

\* input_displs_ and output_displs_, in samples.
DeviceDispl(r) == SumOver([q \in Ranks |-> DeviceBatch(q)], 0 .. r - 1)
DeviceTotal    == DeviceDispl(N)

\* Mutated form of DeviceOffset: the device part starts with the first sample.
DeviceOffset_Zero(r) == 0

\* Where the device part of rank r's buffers starts: input_data_device_ is
\* input_data_ and as many samples as the host infers.
DeviceOffset(r) == host[r]

IsController(r) == Devices /\ r = 0

\* The workers with which a collective synchronises the controller.  MPI requires
\* nothing of a rank whose recvcount or sendcount is zero.
Partners == {r \in Workers : Devices /\ (Waits \/ DeviceBatch(r) > 0)}

\* Sample s of rank r in its call c: the input, and the output inferred from it.
Sample(r, s, c) == << r, s, c >>

\* The device part of rank r in its call c.
Part(r, c) == [s \in 1 .. DeviceBatch(r) |-> Sample(r, DeviceOffset(r) + s, c)]

\* The controller buffers are allocated for the samples of the group.
Fresh == [s \in 1 .. DeviceTotal |-> Sample(0, 0, 0)]

Init ==
    /\ config \in Configs
    /\ pc = [r \in Ranks |-> "app"]
    /\ called = [r \in Ranks |-> 0]
    /\ IF ~Devices THEN host = Batch
       ELSE IF ~Hybrid THEN host = [r \in Ranks |-> 0]
       ELSE \E wanted \in 0 .. SumOver(Batch, Ranks) :
              /\ host \in [Ranks -> 0 .. SumOver(Batch, Ranks)]
              /\ host[0] = 0
              /\ IsSplit(host, Batch, Workers, wanted)
    /\ out = [r \in Ranks |-> [s \in 1 .. Batch[r] |-> Sample(r, s, 0)]]
    /\ inputs = Fresh
    /\ outputs = Fresh
    /\ gathered = [r \in Ranks |-> << >>]
    /\ scattered = [r \in Ranks |-> << >>]
    /\ barriers = [r \in Ranks |-> 0]

Goto(r, label) == pc' = [pc EXCEPT ![r] = label]

\* With diagnostic barriers a rank enters and leaves one in front of a collective.
Arriving == [gather |-> "arrive gather", scatter |-> "arrive scatter"]
Waiting  == [gather |-> "wait gather", scatter |-> "wait scatter"]

\* The next stop of a rank on its way to a collective.
Before(collective) == IF Barriers THEN Arriving[collective] ELSE collective

-----------------------------------------------------------------------------
(***************************************************************************)
(* Entry and diagnostic barriers                                           *)
(***************************************************************************)
\* The application has filled input_data_ and calls inference().
Enter(r) ==
    /\ pc[r] = "app"
    /\ called[r] < MaxCalls
    /\ called' = [called EXCEPT ![r] = @ + 1]
    /\ Goto(r, Before("gather"))
    /\ UNCHANGED << setup, out, inputs, outputs, gathered, scattered, barriers >>

\* MPI_Barrier is entered in front of a collective.
Arrive(r, collective) ==
    /\ pc[r] = Arriving[collective]
    /\ barriers' = [barriers EXCEPT ![r] = @ + 1]
    /\ Goto(r, Waiting[collective])
    /\ UNCHANGED << called, setup, out, inputs, outputs, gathered, scattered >>

\* MPI_Barrier is left when every rank has entered it.
Pass(r, collective) ==
    /\ pc[r] = Waiting[collective]
    /\ \A q \in Ranks : barriers[q] >= barriers[r]
    /\ Goto(r, collective)
    /\ UNCHANGED << called, setup, out, inputs, outputs, gathered, scattered, barriers >>

(***************************************************************************)
(* Gather                                                                  *)
(***************************************************************************)
\* Without devices there is no communicator; a worker without a device part may
\* leave MPI_Gatherv at once.
SkipGather(r) ==
    /\ pc[r] = "gather"
    /\ ~IsController(r) /\ r \notin Partners
    /\ Goto(r, "host")
    /\ UNCHANGED << called, setup, out, inputs, outputs, gathered, scattered, barriers >>

\* A worker hands its device part to MPI_Gatherv, which may let it go on before
\* the controller takes the data.
GatherSend(r) ==
    /\ pc[r] = "gather"
    /\ r \in Partners
    /\ gathered' = [gathered EXCEPT ![r] = Append(@, Part(r, called[r]))]
    /\ Goto(r, "host")
    /\ UNCHANGED << called, setup, out, inputs, outputs, scattered, barriers >>

\* The rank in whose segment of the controller buffers place s is.
RankAt(s) == CHOOSE r \in Ranks : DeviceDispl(r) < s /\ s <= DeviceDispl(r + 1)

\* The controller has the contributions of the workers, each in its segment of
\* input_data_controller_.
GatherAll ==
    /\ pc[0] = "gather"
    /\ Devices
    /\ \A r \in Partners : gathered[r] # << >>
    /\ inputs' = [s \in 1 .. DeviceTotal |->
          LET r    == RankAt(s)
              part == IF r = 0 THEN Part(0, called[0]) ELSE Head(gathered[r])
          IN  part[s - DeviceDispl(r)]]
    /\ gathered' = [r \in Ranks |-> IF r \in Partners THEN Tail(gathered[r]) ELSE << >>]
    /\ Goto(0, "device")
    /\ UNCHANGED << called, setup, out, outputs, scattered, barriers >>

(***************************************************************************)
(* Inference                                                               *)
(***************************************************************************)
\* Mutated form of DeviceInference: nothing is inferred when the controller has
\* no samples of its own.
DeviceInference_OwnOnly ==
    /\ pc[0] = "device"
    /\ outputs' = IF DeviceBatch(0) > 0 THEN inputs ELSE outputs
    /\ Goto(0, Before("scatter"))
    /\ UNCHANGED << called, setup, out, inputs, gathered, scattered, barriers >>

\* The controller infers every gathered sample, its own or the workers'; it
\* takes no part in host inference.
DeviceInference ==
    /\ pc[0] = "device"
    /\ outputs' = IF DeviceBatch(0) > 0 \/ DeviceTotal > 0 THEN inputs ELSE outputs
    /\ Goto(0, Before("scatter"))
    /\ UNCHANGED << called, setup, out, inputs, gathered, scattered, barriers >>

\* A rank without device infers its host samples, the first ones of its buffers.
HostInference(r) ==
    /\ pc[r] = "host"
    /\ out' = [out EXCEPT ![r] =
                  [s \in 1 .. Batch[r] |->
                      IF s <= host[r] THEN Sample(r, s, called[r]) ELSE @[s]]]
    /\ Goto(r, Before("scatter"))
    /\ UNCHANGED << called, setup, inputs, outputs, gathered, scattered, barriers >>

(***************************************************************************)
(* Scatter                                                                 *)
(***************************************************************************)
\* Without devices, or without a device part, there is nothing to wait for: the
\* call returns.
SkipScatter(r) ==
    /\ pc[r] = "scatter"
    /\ ~IsController(r) /\ r \notin Partners
    /\ Goto(r, "app")
    /\ UNCHANGED << called, setup, out, inputs, outputs, gathered, scattered, barriers >>

\* Rank r's segment of output_data_controller_.
Segment(r) == [s \in 1 .. DeviceBatch(r) |-> outputs[DeviceDispl(r) + s]]

\* output_data_ of rank r with its device part replaced.
WithDevicePart(r, part) ==
    [s \in 1 .. Batch[r] |->
        IF s - DeviceOffset(r) \in DOMAIN part THEN part[s - DeviceOffset(r)] ELSE out[r][s]]

\* Mutated form of ScatterAll: the last worker is forgotten.
ScatterAll_OneShort ==
    /\ pc[0] = "scatter"
    /\ Devices
    /\ scattered' = [r \in Ranks |->
                        IF r \in Partners \ {N - 1} THEN Append(scattered[r], Segment(r)) ELSE << >>]
    /\ out' = [out EXCEPT ![0] = WithDevicePart(0, Segment(0))]
    /\ Goto(0, "app")
    /\ UNCHANGED << called, setup, inputs, outputs, gathered, barriers >>

\* The controller hands the workers their segments and keeps its own.
ScatterAll ==
    /\ pc[0] = "scatter"
    /\ Devices
    /\ scattered' = [r \in Ranks |->
                        IF r \in Partners THEN Append(scattered[r], Segment(r)) ELSE << >>]
    /\ out' = [out EXCEPT ![0] = WithDevicePart(0, Segment(0))]
    /\ Goto(0, "app")
    /\ UNCHANGED << called, setup, inputs, outputs, gathered, barriers >>

\* A worker waits for its segment, which ends up behind its host samples.
ScatterReceive(r) ==
    /\ pc[r] = "scatter"
    /\ r \in Partners
    /\ scattered[r] # << >>
    /\ out' = [out EXCEPT ![r] = WithDevicePart(r, Head(scattered[r]))]
    /\ scattered' = [scattered EXCEPT ![r] = Tail(@)]
    /\ Goto(r, "app")
    /\ UNCHANGED << called, setup, inputs, outputs, gathered, barriers >>

-----------------------------------------------------------------------------
\* A rank on its way through inference().
Step(r) ==
    \/ \E collective \in {"gather", "scatter"} : Arrive(r, collective) \/ Pass(r, collective)
    \/ SkipGather(r) \/ GatherSend(r) \/ HostInference(r)
    \/ SkipScatter(r) \/ ScatterReceive(r)

Controller == GatherAll \/ DeviceInference \/ ScatterAll

Next == (\E r \in Ranks : Enter(r) \/ Step(r)) \/ Controller

\* A process that can go on goes on; the application need not call again.
Spec == Init /\ [][Next]_vars /\ WF_vars(Controller) /\ \A r \in Ranks : WF_vars(Step(r))

-----------------------------------------------------------------------------
\* Where a rank is that has not yet handed its device part over, or not yet
\* received the outputs of it.
ToGather  == {"arrive gather", "wait gather", "gather"}
ToScatter == {"arrive scatter", "wait scatter", "scatter"}

Places == {"app", "host", "device"} \cup ToGather \cup ToScatter

Samples == Ranks \X Nat \X (0 .. MaxCalls)

\* A collective has at most one contribution of a rank under way.
OnePart(parts, r) ==
    /\ Len(parts) \in 0 .. 1
    /\ \A i \in DOMAIN parts : parts[i] \in [1 .. DeviceBatch(r) -> Samples]

\* Types of the state.
TypeOK ==
    /\ config \in Configs
    /\ pc \in [Ranks -> Places]
    /\ called \in [Ranks -> 0 .. MaxCalls]
    /\ host \in [Ranks -> Nat] /\ DOMAIN out = Ranks
    /\ inputs \in [1 .. DeviceTotal -> Samples]
    /\ outputs \in [1 .. DeviceTotal -> Samples]
    /\ DOMAIN gathered = Ranks /\ DOMAIN scattered = Ranks
    /\ \A r \in Ranks : /\ host[r] \in 0 .. Batch[r]
                         /\ out[r] \in [1 .. Batch[r] -> Samples]
                         /\ OnePart(gathered[r], r) /\ OnePart(scattered[r], r)

\* Whatever part of them the host infers, a rank returns with all of its samples
\* inferred from the input of that call, each in its place.
OutputsInPlace ==
    \A r \in Ranks : pc[r] = "app" =>
        \A s \in 1 .. Batch[r] : out[r][s] = Sample(r, s, called[r])

Returned(r) == IF pc[r] = "app" THEN called[r] ELSE called[r] - 1

\* The ranks that wait for one another: a worker that infers all of its samples on
\* its host, or has none, may run ahead of the others unless a barrier holds it.
Members == {r \in Ranks : Barriers \/ IsController(r) \/ r \in Partners}

\* With a device the collective exchange is the operation its callers expect: see
\* module Exchange.
Group == INSTANCE Exchange WITH
            members  <- Members,
            returned <- [r \in Ranks |-> Returned(r)],
            out      <- [r \in Ranks |->
                           IF pc[r] # "app" THEN 0
                           ELSE IF \A s \in 1 .. Batch[r] : out[r][s] = Sample(r, s, called[r])
                           THEN called[r] ELSE 0]

\* Every step is a call, a return or invisible to the callers; no member returns
\* before the others have called, and none from a call with another call's output.
ImplementsExchange ==
    /\ Devices => Group!Init
    /\ [][Devices => Group!Next]_(Group!vars)

\* If every rank makes a call, every rank returns from it.
CallsComplete ==
    \A c \in 1 .. MaxCalls :
        (\A r \in Ranks : called[r] >= c) ~> (\A r \in Ranks : Returned(r) >= c)
=============================================================================
