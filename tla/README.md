# A TLA+ model of AIxeleratorService

AIxeleratorService lets the ranks of an MPI application infer a neural network
on the few GPUs of a cluster. Ranks are grouped into workgroups, each with one
rank that drives a GPU (the *device controller*, rank 0 of the group); a call of
`inference()` brings the inputs of all ranks of a group to the controller, has
them inferred and brings the outputs back.

This directory models that coordination, model-checks it with TLC and proves most
of its safety with TLAPS. Paths below are relative to the repository's
`src/`, except where they name its README or tests.

## 1. The parts of the system

| Part | Code | State | Operations | What makes it correct |
|---|---|---|---|---|
| Service | `aixeleratorService/aixeleratorService.cpp` | shapes, host/device split, strategies, communicator | constructor, `inference()` | every sample is inferred once, in the right place; `inference()` returns with the outputs of this call |
| Distributions | `distributionStrategy/*.cpp` | GPUs found, controller flag, device, workgroup | `discoverGPUs()`, `createWorkgroups()` | each group has one controller, as rank 0; groups are of equal size up to one; no GPU is shared or idle, and GPUs are driven from their own NUMA node |
| Collective exchange | `CollectiveCommunication::gatherInputData`, `scatterOutputData` | controller buffers, counts, displacements | gather, scatter | as the service |
| Pipelined exchange | `CollectiveCommunication::pipelinedExchange` | requests, flags and counters per rank, a progress thread, the ranges in flight | one call per rank, on controller and workers | a worker gets the output of its own last input; a device range is touched by nobody else; nothing is left behind; everybody returns |
| Point-to-point exchange | `nonBlockingPtoPCommunication.cpp` | send and receive requests | gather, scatter | as the collective one, although the sends are never waited for |
| Range executor | `TorchInference::RangePipeline` | a deque of requests, three CUDA streams | submit, poll, release | a completed range holds the output of its input; memory outlives the streams' use of it |
| Batched inference | `inferenceStrategy/*/` | batch offsets, two async slots | `inference()` | every output element is in its place |
| Timeline | `utils/p2pTimeline.h` | events in memory, a file per rank that outlives the run | write, flush | a file never mixes two runs |
| Metrics | Score-P regions, `nvml.hpp` | - | - | observation only |
| Interfaces | `*_interfaceC.cpp`, `*_interfaceF.f90` | none | forwarding | - |

The parts meet as follows. The service's constructor creates a distribution,
which makes the workgroups by collective calls; in every group it builds a
communicator for the whole input, splits hybrid work if asked to, and replaces
the communicator by one for the device part. `inference()` calls either gather,
infer and scatter, or `pipelinedExchange`, which calls the inference strategy
back through a `PipelinedInferenceExecutor`. Inside a group the controller's
buffers are shared between MPI, the controller's main thread, its progress
thread and the streams of the device.

The hard behaviours are the overlap of consecutive calls (no barrier, constant
tags), the flow control by credits, the progress thread, ranges that share one
buffer with receives and sends in progress, device streams that run behind the
host, and the arithmetic of splits, offsets and group capacities. `PROJECT.json`
lists each of them at its line, with the properties that watch over it.

## 2. Modules

| Module | Models |
|---|---|
| `Exchange` | abstract: what `inference()` promises the ranks of a workgroup |
| `PipelinedExchange` | `pipelinedExchange`, on the controller (main loop, progress thread) and the workers |
| `PipelinedModes` | the same with and without progress thread and range executor, with the fairness each mode has |
| `CollectiveExchange` | `inference()` in collective mode, with hosts only, device, and hybrid |
| `PtoPExchange` | `NonBlockingPtoPCommunication` |
| `RangeExecutor` | abstract: what the exchange expects of an executor of ranges |
| `RangePipeline` | `TorchInference::RangePipeline`, with the exchange's main loop as its client |
| `BatchedInference` | the batch loops of Torch (synchronous and asynchronous), TensorFlow, SOL, ONNX |
| `WorkSplit` | abstract: what an even split of the host work is |
| `HybridSplit` | the split of the hybrid work in the constructor of the service |
| `Workgroups` | `deviceCount`, `discoverGPUs`, and `createWorkgroups`: round robin, GPU affine, NUMA local |
| `ServiceSetup` | the constructor: `Workgroups`; then, in any one of the groups made, the communicator, `HybridSplit`, the communicator of the device part and the strategies |
| `P2PTimeline` | the timeline of a process and the file it shares with earlier and later runs |
| `PipelinedExchangeProofs`, `CollectiveExchangeProofs`, `PtoPExchangeProofs`, `RangePipelineProofs`, `ServiceSetupProofs`, `P2PTimelineProofs` | the theorems about each module, with the inductive invariants they rest on |
| `InferenceProofs` | the theorems about both promises of `inference()`: that of a strategy (`BatchedInference`) and that of the service (`Exchange`) |
| `FiniteNaturals` | lemmas about finite sets of numbers, the positions in them and sums over them, for the proofs |
| `MC*` | instances for TLC |

Three modules implement `Exchange` (`PipelinedExchange`, `CollectiveExchange`,
`PtoPExchange`) and `RangePipeline` implements `RangeExecutor`, each by an
`INSTANCE ... WITH` and the abstract specification as a property.
`RangeExecutor` is also what `PipelinedExchange` takes its executor to be: its
`ActiveRangeIsExclusive` and `ExecutorLimits` are the obligations of the caller,
`ImplementsExecutor` is the promise of the callee.

### How the state corresponds to the code

*Content.* A buffer segment holds the number of the call whose data it has; 0 is
content that nobody supplied. Where places matter it says more: in
`CollectiveExchange` each sample names its rank, its place there and the call, in
`BatchedInference` each element names its place and the call. Inference maps an
input to the output of the same name. Mixed up calls, ranks' data in the wrong
place and early or late reads are all visible in this abstraction; numerical
values are not.

*`PipelinedExchange`.* `pc[0]` is the place of the controller's main thread in
the loop, `pc[r]` that of a worker; `poller` is the progress thread, or, without
`MPI_THREAD_MULTIPLE`, the inlined polling of the main loop. `credit`, `input`,
`ack`, `output` are the messages of the four constant tags. `inputRequest` is
the array handed to `MPI_Testsome`; an entry that has been filled is reported in
any later test, in any combination with others. `received`, `scheduled`,
`inferred` are the Boolean vectors as sets, `receivedCount` and `inferredCount`
the counters beside them; `requests` the ranges with the executor, `pending` and
`outputRequest` the ranks whose result waits or is being sent. A step between
two acquisitions of `state_mutex` is one action; where the code reads
`received_count_atomic` outside of the lock, so does the model. Without an
executor for ranges one range is inferred at a time, by a `std::async` task if
there is a progress thread and by the main thread itself if not; in that case it
is selected, inferred and finished in one step (`SelectAndInfer`), since no other
thread of the controller exists to see the steps apart.

`can_submit` refuses when the executor is full, and may refuse while the last
range is being copied to the device (`CopyPending`).

*`Exchange`.* Some ranks of a group, its `members`, wait for one another: none
of them returns from a call before all of them have called. Every rank, member or
not, returns with the output of its own last input. In the pipelined and the
point-to-point exchange all ranks are members.

*`CollectiveExchange`.* `MPI_Gatherv` and `MPI_Scatterv` are a contribution of
each partner and a collection by the root; only the root waits in a gather, only
the others in a scatter, which is all the MPI standard guarantees. Contributions
queue per rank, so a fast worker may be a call ahead. Of a worker whose device part
is empty, and whose count in the collectives is zero, MPI requires nothing: whether
it is held all the same depends on the MPI library and is chosen at the start
(`Waits`). If it is not, it is no partner (`Partners`), leaves both collectives at
once and may be any number of calls ahead; that includes every order of steps of a
library that holds some of these workers or in some calls only. The members of the
group (`Members`) are the controller and its partners, or all ranks with diagnostic
barriers.

*`PtoPExchange`.* A send reads its buffer at any time between its posting and
its receipt; requests that the code overwrites are forgotten by the program, not
by MPI.

*`RangePipeline`.* A stream works on its requests in the order of submission. An
event recorded in one stream and awaited in another orders them; `mode` is which
buffers are pinned and whether timing is on. The event `h2d_end`, which
`canSubmitRangePipeline` queries, is recorded with timing only: an event that
was never recorded counts as complete, so that the gate is open without timing.

*`Workgroups`.* All ranks compute the same from gathered data, so one
computation stands for them all. A placement gives each rank its host, its NUMA
node (-1: unknown) and the PCI ids of the devices it sees, and each host what
`lstopo` prints of it: nodes, with their logical and their OS number, and devices,
in order. What `discoverGPUs` makes of the text, in `gpus`, is what it makes of
these lines: the first one with the id, up to the domain, and the nearest node
above it. `stage` follows the parts of `createWorkgroups`, and the loop over the
NUMA domains takes one action for the home group and one for each share given to a
best group.

*`ServiceSetup`.* Groups do not interact once they are made, so a behaviour
follows any one of them; the placement plays no further part and is forgotten
(`Forget`) before batch sizes are chosen. `layout` is what the constructor of
`CollectiveCommunication` computes, first for the whole input and then for the
device part, with `int` as a number that wraps at `IntBound`. `hostReady` and
`deviceReady` are the strategies whose `init()` has been called. The names of
model files are their endings; a null strategy is `~HasStrategy`.

*`P2PTimeline`.* A call of `pipelinedExchange` leaves one event, which stands for
all of its events: they carry the same step, and only the step decides what a
flush does. `Rerun` is the end of the process at any moment, in the middle of a
flush too, and the start of the next one in the same directory. `writing` is what
the open stream has still to receive. A buffered stream writes its rows in blocks
rather than one by one, and a file cut off inside of a row ends in a number that
is not larger than the step it was cut from.

Operators named `X_Y` ("Mutated form of `X`") are not part of the model. Each is
`X` with a mistake somebody could make in the code it stands for; replacing `X`
by it makes TLC find one of the properties violated. They show that the
properties can fail.

## 3. What the runs show

| Run | Question | Bounds |
|---|---|---|
| `pipelined_safety` | messages, flow control, buffers and counters of the pipelined exchange, with progress thread and range executor; it implements `Exchange` | 5 ranks, one of them remote, 2 overlapping calls, 1 initial credit, depth 2, ranges of up to 3 samples |
| `pipelined_modes` | in all four modes, the workers see the contract of `Exchange` and every call that all ranks make returns | 4 ranks, 2 calls |
| `collective_exchange` | hybrid, device and host inference implement `Exchange`; no barrier is needed between calls, also where ranks without a device part run ahead | 3 ranks, 3 calls, 10 setups, collectives that hold ranks without a device part and that do not, every hybrid split |
| `ptop_exchange` | the sends nobody waits for are harmless, and of the controller's inputs and outputs to itself, which have the same tag, only one kind is open at a time | 4 ranks, 3 calls |
| `range_pipeline` | the CUDA range pipeline implements `RangeExecutor`, every call ends | 4 segments, depth 2, 2 calls, pinned or not, timing or not |
| `batched_inference` | every output element in its place, slots not reused early | up to 5 samples, batch sizes to 6, 2 calls |
| `service_setup` | groups have one controller, first, and equal sizes; GPUs are served once and locally; hybrid splits are even; the segments tile the controller buffer; strategies that are used are initialised; the constructor ends | 5 ranks, 4131 placements on one or two hosts, three distributions, up to 2 samples of 2 elements per rank, an `int` of 20 values, hybrid groups of fewer than 10 samples, every host fraction, five endings of model files |
| `timeline` | a file holds rows of one run only; when its services are gone these are the last events of the run without a gap, and all of them unless a call took up a step that rows already written had reached | 3 runs, 2 services with up to 2 calls each, death at any moment |
| `idle_controller` | *violated*: a controller without samples never leaves the main loop | 3 ranks, 1 call |
| `plain_controller` | *violated*: without a range executor the controller's own samples are not inferred | 3 ranks, 1 call |
| `split_alone` | *violated*: a controller alone in its group divides by zero | 2 ranks |
| `onnx_offset` | *violated*: the third batch of ONNX overwrites the second | up to 5 samples |

Why these bounds are enough to be interesting. Two overlapping calls are where
constant tags could be confused, and a rank cannot be two calls ahead
(`SkewBound`, proved for all). Five ranks are the fewest with a tier that has
ranks to grant after its first acknowledged input while another tier has one
rank; with two samples at a time, `MaxSamples = 3` cuts a run in the middle, and
depth 2 fills the executor. Three contributions per rank would show a gather that
mixes calls. Four segments and depth 2 in `range_pipeline` leave ranges waiting
for a slot. Five ranks and up to four GPUs make groups of one to five ranks,
uneven capacities, domains that must be cut and GPUs without a rank on their
node; among the placements are ranks that see fewer GPUs than their neighbours or
none, devices that `lstopo` does not list, ids that differ in the domain only,
nodes numbered in two ways, VEDA, and no device library. Two samples per rank and
five ranks let the rest of a split go round more than once and let workers be full;
twenty elements do not fit into the `int`, ten do. Three runs in a directory show a run that finds what a dead one left of what
the one before it had written.

### Findings

Four runs show the code doing otherwise than its own texts say (details in
`PROJECT.json`).

- `aixeleratorService.cpp:173`: an integer division by the number of workers,
  zero when a controller is alone in its group and hybrid inference is on.
- `collectiveCommunication.cpp:567`: a range without samples is never
  submitted, so the ranks in it never count as inferred; a controller without
  samples, for which the service prepares the device all the same, loops for
  ever.
- `collectiveCommunication.cpp:347`: the controller's own segment is not copied
  into the controller buffer; only the range pipeline reads it from where it is.
- `onnxInference.cpp:149`: the output offset is set to the size of the last
  batch instead of being increased by it.

Observations without a run:

- The repository's `README.md:27` speaks of initial grants *per worker*, while
  lines 322 to 340 of `collectiveCommunication.cpp` issue
  `AIX_P2P_INITIAL_CREDITS` grants *per node tier*, one per worker at most. The
  model follows the code; no property rests on either reading. What matters to the
  exchange, that no tier runs dry, is `TierNeverDry`.
- `p2pTimeline.h:166`: the steps of every communicator start from zero, so the
  flush of a second service of the same process takes the rows of the first for
  those of an earlier run and removes them. So `RunIsWritten` does not promise
  that a run is written completely. It says what is lost at most: rows at the
  beginning, and none if no call took up a step that rows already written had reached
  (`late`).
- `gpuAffineRRDistribution.cpp:521` looks for a device by its PCI id without the
  domain, and line 537 reads the logical number of a NUMA node, which is compared
  with the number of the operating system. `ServedLocally` is stated for hosts where
  ids are unique without the domain and the numberings agree; on the others groups
  are well formed, but a GPU may be driven from another node.
- `gpuAffineRRDistribution.cpp:142`: the GPUs of a host are those that its first rank
  with any sees; nothing asks whether the rank that is made a controller sees its
  device. `GpusServed` counts and places controllers and does not ask it either.
- `collectiveCommunication.cpp:582` leaves the step of an exchange in the environment,
  where later events of the Torch strategy find it.

### Fairness

Every process and thread that can take a step eventually takes one (weak
fairness): the application calls, or has stopped calling; MPI delivers what was
sent and eventually reports what has arrived; the device finishes what was
queued. The progress thread and the main loop poll without sleeping, and
`state_mutex` is held for a bounded number of steps. Taking the lock in
`PipelinedExchange` is a step of its own on the thread's side, and weak fairness
of it stands for the operating system not starving a thread for ever. In
`PipelinedModes` two conditions are enough, and less than the above: the main loop
runs on, and of all that happens beside it (workers, messages, polling, device)
something that can go on does. Nothing is
assumed about the application calling again: `CallsComplete` says that if *all*
ranks of a group call, all return. No strong fairness is used.

Deadlock is checked in the runs of `PipelinedExchange`, which have an
explicit stuttering step for a finished group. It is off where all ranks have
made their last call, the constructor has ended or died, or the last run has
ended, and the model stops.

## 4. What is proved

Each theorem holds for every value of the constants that the assumptions below
allow: every group size, placement, number of samples per rank, limit, and any
number of calls. Where a run checks the property on a small instance, the theorem
states the same definition.

| Module | Theorems |
|---|---|
| `PipelinedExchangeProofs` | `TypeCorrect`, `WorkersCorrect`, `CreditsProtectReceives`, `MessagesStayApart`, `ResultsWaitForInputs`, `SkewBounded`, `CountersExact`, `ReturnIsClean`, `RangesExclusive`, `ExecutorNeverOverrun`, `TiersNeverDry`; with the range pipeline `ControllerCorrect`, and `Implementation`: the exchange implements `Exchange`; `ModesImplementation`: so it does, for the workers, in every mode of `PipelinedModes` |
| `CollectiveExchangeProofs` | `TypeCorrect`, `OutputsStayInPlace`, `Implementation` of `Exchange` for the ranks that wait for one another, with and without diagnostic barriers |
| `PtoPExchangeProofs` | `TypeCorrect`, `InputSendsAreDone`, `OutputSendsAreDone`, `SelfMessagesTakeTurns`, `Implementation` of `Exchange` |
| `RangePipelineProofs` | `TypeCorrect`, `InferredStaysCurrent`, `QueuesBounded`, `TensorsOutliveStreams`, `CallsEndEmpty`, `Implementation` of `RangeExecutor` |
| `ServiceSetupProofs` | `OneController`, `Balanced`, `GpusAreServed`, `EvenSplit`, `UsedAreReady`, `SegmentsAreTiles` |
| `P2PTimelineProofs` | `TypeCorrect`, `RunsStayApart`, `RunsAreWritten` |
| `InferenceProofs` | of `BatchedInference` `TypeCorrect`, `OutputsArrive`, `SlotsAreHeld`; of `Exchange` `GroupStaysInStep`: every implementation of it keeps its members in step |

So all three exchanges are proved to implement one contract, and the range pipeline
to be the executor that the pipelined exchange takes it for.

### Assumptions

All are named and evaluated by TLC in the runs. `ConfigAssumption`: displacements are
prefix sums, as the constructor computes them (`SegmentsAreTiles` is the proof that
it does), the controller is not remote from itself, and the limits are positive, as
the code forces them to be. `PtoPAssumption`, `PipelineAssumption` and
`TimelineAssumption` say no more than that sizes and bounds are numbers and groups
not empty; `CollectiveAssumption` and `SetupAssumption` the same of batches,
elements and the width of an `int`, and `BatchAssumption` that batches are not empty and
shapes not negative. `PlacementAssumption` describes what a cluster
reports: hosts are numbered by their first rank, devices and lines of `lstopo` are
sequences, and the distance of two NUMA nodes is a number that is not negative, as
`numa_distance` returns it. It does not say that hosts are alike, that nodes are
known or that there is a device. `MaxCalls`, `MaxRuns` and `MaxBatch` are bounds that
may be any number.

### The arguments

*`PipelinedExchange`.* None of its properties is inductive: that a message is the only one of its
kind depends on where every other message of its worker is. For each worker the invariant counts how often
each of the four messages has been sent since the start, on the controller's
side (`Credited`, `Delivered`, `Acked`, `ResultOut`, from the flags and the
calls the controller has returned from) and on the worker's
(`SentInput`, `GotAck`, returned calls). `ChannelInv` says that what is
under way is the difference of the two, and that it belongs to the last call its
sender counted. The flags order the controller's counts, the worker's place
orders its own, and so the six counts form a chain in which neighbours differ by
at most one: no kind of message is ever under way twice. `PollerInv` ties the
requests to the thread that tests them, `RangeInv` the ranges in flight to the
flags (disjoint, received, not yet inferred), and the content of each buffer
follows from where its worker is in the chain. Each action is shown to preserve
each part in a lemma of its own. `TierNeverDry` follows from a count: the granted
ranks are the first of their tier, one more for every acknowledgement (`GrantLaw`, by
positions in a set of ranks, `FiniteNaturals`: `LowPositions`, `NextPositions`), so that
a tier that still has a rank without credit has more credits out than acknowledged.

*`PipelinedModes`.* Its exchange in the mode a process has chosen is a step of
`PipelinedExchange` with the same two constants (`ModeIsExchange`, action by action),
and that exchange implements `Exchange` in every mode if the controller's own result
is left out where nothing copies its samples. The theorem is stated with the mode
as a value (`ThisMode`), which covers every behaviour, because the mode never changes.

*`PtoPExchange`.* Nothing in the code waits for a send, so nothing in it says when
a buffer may be written again. The invariant counts: what has been posted is what
has been received, plus what MPI has not begun, plus what is under way. A rank
leaves a call only with an output, the controller has an output only with all
inputs, and that closes the circle: nothing of an earlier call can be left when a
buffer is written.

*`CollectiveExchange`.* `Contributed` and `Returned` count the gathers and scatters
each rank has behind it; a contribution is under way exactly if the sender's count
is ahead of the controller's. Displacements are sums over the ranks below, so that
segments are disjoint and follow one another (`SumFacts`), and `Buffers` says sample
by sample what they hold when the device and the scatter read them. A rank that is no
partner has an empty device part (`PartnerFacts`): nothing of it is in a segment, and its
host infers all of its samples. That it may run ahead is why the counts are compared
for partners only (`RankOrder`). With barriers all ranks are members, and the numbers of
barriers they have entered keep them in step (`RankBarriers`).

*`RangePipeline`.* Requests are ordered by id and work on disjoint ranges
(`RequestsApart`), the streams follow one another through the ids
(`StreamsOrdered`), and so what a request holds at each stage is that of its own
input (`SegmentData`); only requests behind the last stream leave the deque.

*`ServiceSetup`.* Controllers are numbered by their position among the
controllers, hence one per group. Dealt out in turn, two groups of workers are
compared by an injection from one residue class into the other (`DealtInTurn`); dealt
out by domains no group exceeds its capacity, capacities add up to the number of
ranks, every rank has a group, and so all groups are full (`SumsMeet`). That the best
group exists is a lexicographic minimum (`BestExists`). While GPUs are assigned
(`AffineInv`), a host has as many controllers as it has GPUs looked at, or ranks if
these are fewer, each with another GPU; the list of all GPUs has every one of them once
(`FlattenFacts`). That a GPU finds a free rank of its node is a count: if all ranks of
the node were taken, their devices would be as many GPUs of the node, none of them the
next one, and the node would have more GPUs than ranks (`LocalIsFree`). The split is an invariant of
its rounds (`Dealt`): in round `k` whoever is not full has `k` samples, and the ranks
that have had their turn one more. The displacements, defined by recursion in the
code, are the only solution of their equation (`DisplsAreBelow`), which `int`
arithmetic does not disturb below its limit. The proof of `Split(n)` is in the same
module, since the constructor runs it in a group of any size.

*`BatchedInference`.* The batches follow one another in the output and the last one
ends with it, whatever the batch size (`BatchFacts`), so what is written is a prefix
that grows by a batch at a time: to `next` in the synchronous loops, to
`published` in the pipeline, or to `d2h` if the stream writes into the buffer itself
(`PlaceInv`). At most two batches are queued and not published, they have the two
slots, and each slot holds what the streams have made of its batch so far
(`SlotsInv`). `OutputsArrive` is about `InStride`: of SOL models with outputs of another
width than the inputs, and of ONNX Runtime with more than two batches, it would be
false (`onnx_offset`).

*`P2PTimeline`.* The test for a stale file compares step numbers only. It is enough
because the first events that a run writes are all of its events so far, and the
first of them has step zero (`FirstIsZero`, `OldRowsFirst`). A flush either follows the
rows of the run or replaces them, so that file, open stream and memory together are
always the end of what the run has made (`EventsAreKept`). It replaces rows of its own
run only if a step in memory is not above the last one in the file, and such a step was
taken when the row was there already (`StepsFollow`).

The library's induction theorems cannot be used with the installed provers.
Statements about all numbers, and about sums, were proved from the least
counterexample instead (`LeastElement`), the sums from a definition by recursion over
subsets (`SumUnfolds`).

### Only model-checked

- All liveness, which like `ENABLED` is beyond the prover: `CallsComplete`,
  `SetupEnds`, `CallsEnd` and `InferenceReturns`.

## 5. What is not modelled

- Failures: exceptions of the inference runtime or of CUDA, failing ranks. MPI's
  default error handler ends the job, and the code has no recovery to specify.
- Batch sizes below one, and groups beyond 2^31 elements, of which
  `SegmentsTile` says nothing.
- Ranks with different environments (diagnostic barriers, communication mode): the
  code does not compare them, and ranks that disagree wait for each other.
- The NUMA node of a rank (`sched_getcpu`, `numa_node_of_cpu`), which is an input of
  `Workgroups`; the loading of models; sessions, tensor names and devices of the
  frameworks, which are calls of their libraries.
- What events of the timeline say besides their step; the diagnostics of the service
  (one row per call, appended to a file nobody reads); Score-P and GPU metrics.
- The C and Fortran wrappers: each converts its arguments and forwards one call, and
  they keep no state.
- Buffering limits of MPI: credits and acknowledgements, one integer each, are
  assumed to be sent eagerly, and a contribution to a gather likewise.
- `SOLInference` with outputs wider than inputs, which a comment in the code
  rules out, and the C++ API version of the TensorFlow strategy, which the build
  leaves out.

## 6. Plan

The order was, and is, by importance: the pipelined exchange and its proof, the
other exchanges against the same contract, the executor, the batch loops, the
setup of the service.

1. Extend. Done: the timeline, the discovery of GPUs, the rest of the constructor,
   all four modes of the pipelined exchange. What could follow: the executor of
   `PipelinedExchange` replaced by `RangePipeline`, whose composition
   `RangeExecutor` stands for, and `CollectiveExchange` started from the splits of
   `HybridSplit` instead of all splits that `WorkSplit` calls even, a larger set.
2. Prove. Done: the three exchanges implement `Exchange`, the range pipeline
   implements `RangeExecutor`, the batch loops, the timeline, and of the setup the
   groups, the GPUs, the split, the segments and the strategies; and the four modes
   implement `Exchange`. What could follow: that the split of `HybridSplit` is one of
   those that `CollectiveExchange` starts from.
