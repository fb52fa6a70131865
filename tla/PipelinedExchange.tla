------------------------- MODULE PipelinedExchange -------------------------
(***************************************************************************)
(* CollectiveCommunication<T>::pipelinedExchange, the overlapped exchange  *)
(* of CommunicationMode::Pipelined, as run by every rank of one workgroup. *)
(*                                                                         *)
(* Rank 0 is the device controller.  It runs the main loop (pc[0]) and,    *)
(* when MPI offers MPI_THREAD_MULTIPLE, a progress thread (poller) that    *)
(* tests the input receives; otherwise the main loop polls them itself.    *)
(* Every other rank is a worker: it waits for a credit, sends its input,   *)
(* waits for the acknowledgement and then for its result.                  *)
(*                                                                         *)
(* The content of a buffer is abstracted to the number of the call whose   *)
(* data it holds: 0 is content that no rank supplied, and inference maps   *)
(* the input of call s to the output of call s, sample by sample.          *)
(***************************************************************************)
EXTENDS Naturals, Sequences, FiniteSets

CONSTANTS
    N,               \* workgroup_size_
    Remote,          \* ranks whose node leader is not the controller's
    Samples,         \* input_recvcounts_[r] / input_elements_per_sample
    Displ,           \* input_displs_[r] / input_elements_per_sample
    InitialCredits,  \* AIX_P2P_INITIAL_CREDITS, at least 1
    Async,           \* async_controller: a progress thread exists
    RangePipeline,   \* executor.supportsRangePipeline()
    MaxSamples,      \* executor.max_samples(), at least 1
    Depth,           \* AIX_P2P_RANGE_PIPELINE_DEPTH
    MaxCalls         \* bound: calls of inference() per rank

Ranks   == 0 .. N - 1
Workers == 1 .. N - 1

\* One past the last sample of rank r's segment of the controller buffers.
SampleEnd(r) == Displ[r] + Samples[r]

\* The constructor gathers one receive count per rank and makes the displacements
\* their prefix sums, so that segments follow each other in rank order.
ASSUME ConfigAssumption ==
    /\ N \in Nat \ {0}
    /\ Remote \subseteq Workers
    /\ Samples \in [Ranks -> Nat]
    /\ Displ \in [Ranks -> Nat]
    /\ Displ[0] = 0
    /\ \A r \in Ranks, q \in Ranks : r < q => SampleEnd(r) <= Displ[q]
    /\ InitialCredits \in Nat \ {0}
    /\ Async \in BOOLEAN
    /\ RangePipeline \in BOOLEAN
    /\ MaxSamples \in Nat \ {0}
    /\ Depth \in Nat \ {0}
    /\ MaxCalls \in Nat

VARIABLES
    pc,             \* where each rank is; pc[0] is the controller's main thread
    called,         \* calls of inference() each rank has entered
    result,         \* what output_data_worker_ of each rank holds
    credit,         \* credit messages under way to each rank
    input,          \* input messages under way from each rank, in order
    ack,            \* input acknowledgements under way to each rank
    output,         \* results under way to each rank, in order
    inputRequest,   \* input_requests: "null", "posted", or "filled" when the
                    \* data has arrived and MPI_Testsome has not reported it
    outputRequest,  \* ranks with an active entry in output_requests
    inputBuffer,    \* each rank's segment of input_data_controller_
    outputBuffer,   \* each rank's segment of output_data_controller_
    poller,         \* the code that tests the receives: progress_thread, or
                    \* poll_progress_sync on the main thread
    completed,      \* completed_indices not yet recorded
    granted,        \* ranks before next_rank in their tier
    received, receivedCount, inferred, inferredCount, scheduled,
    pending,        \* ranks covered by pending_output_ranges
    requests        \* range_pipeline_requests, or the range in flight

appVars    == << called, result >>
netVars    == << credit, input, ack, output >>
mpiVars    == << inputRequest, outputRequest >>
bufVars    == << inputBuffer, outputBuffer >>
pollVars   == << poller, completed, granted, received, receivedCount >>
inferVars  == << inferred, inferredCount, scheduled, pending, requests >>
vars == << pc, appVars, netVars, mpiVars, bufVars, pollVars, inferVars >>

\* Calls of inference() that rank r has returned from.
Returned(r) == IF pc[r] = "app" THEN called[r] ELSE called[r] - 1

ControllerPC == {"app", "top", "poll", "flush", "collect", "select", "join", "wait"}
WorkerPC     == {"app", "credit", "ack", "result"}
PollerPC     == {"off", "test", "lock", "record", "grant"}

-----------------------------------------------------------------------------
(***************************************************************************)
(* Credits                                                                 *)
(***************************************************************************)
TierOf(r) == IF r \in Remote THEN 1 ELSE 0
Tier(t)   == {r \in Workers : TierOf(r) = t}

\* Mutated form of Grants: a rank that has a credit and not used it gets another.
Grants_Again(t, count) ==
    LET rest == Tier(t) \ received
    IN  {r \in rest : Cardinality({q \in rest : q < r}) < count}

\* The next ranks of tier t that issue_grants(t, count) sends a credit to.
Grants(t, count) ==
    LET rest == Tier(t) \ granted
    IN  {r \in rest : Cardinality({q \in rest : q < r}) < count}

\* Mutated form of InitialGrants: initial_credits for the group, not for a tier.
InitialGrants_PerGroup == {r \in Workers : Cardinality({q \in Workers : q < r}) < InitialCredits}

\* The credits issued before the loop starts: initial_credits for each tier.
InitialGrants ==
    {r \in Workers : Cardinality({q \in Tier(TierOf(r)) : q < r}) < InitialCredits}

SendCredits(ranks) ==
    credit' = [r \in Ranks |-> IF r \in ranks THEN credit[r] + 1 ELSE credit[r]]

(***************************************************************************)
(* Selection of the next range: select_largest_ready_range                 *)
(***************************************************************************)
\* Mutated form of Ready: a range in flight may be selected again.
Ready_Scheduled == received \ inferred

\* Mutated form of Ready: ranks whose input has not arrived are selected, too.
Ready_Early == Ranks \ (inferred \cup scheduled)

Ready == received \ (inferred \cup scheduled)

\* Nonempty runs of consecutive ready ranks first .. end-1.
ReadyRuns == {run \in Ranks \X (1 .. N) :
                /\ run[1] < run[2]
                /\ run[1] .. (run[2] - 1) \subseteq Ready}

\* The longest run; of two equally long ones the first.
LargestRuns == {run \in ReadyRuns : \A other \in ReadyRuns :
                   \/ other[2] - other[1] < run[2] - run[1]
                   \/ /\ other[2] - other[1] = run[2] - run[1]
                      /\ run[1] <= other[1]}

\* Mutated form of CutEnd: rank 0 is selected together with its neighbours.
CutEnd_None(run) == run[2]

\* The controller's own segment is always inferred on its own.
CutEnd(run) == IF run[1] = 0 THEN 1 ELSE run[2]

\* Mutated form of FittingEnds: max_samples is compared before the rank is added.
FittingEnds_Late(run) ==
    {e \in (run[1] + 1) .. CutEnd(run) :
        RangePipeline =>
            \A r \in (run[1] + 1) .. (e - 2) : SampleEnd(r) - Displ[run[1]] <= MaxSamples}

\* The ends e to which run may extend: the executor's max_samples limits every
\* range but a single rank's.
FittingEnds(run) ==
    {e \in (run[1] + 1) .. CutEnd(run) :
        RangePipeline =>
            \A r \in (run[1] + 1) .. (e - 1) : SampleEnd(r) - Displ[run[1]] <= MaxSamples}

Request(first, end) ==
    [first |-> first, end |-> end, start |-> Displ[first],
     count |-> SampleEnd(end - 1) - Displ[first], done |-> FALSE]

RanksOf(req) == req.first .. (req.end - 1)

\* The range the code selects, as a set of at most one request: a range without
\* samples is not submitted.
SelectedRanges ==
    {req \in {Request(run[1], e) : run \in LargestRuns, e \in 1 .. N} :
        /\ req.count > 0
        /\ \E run \in LargestRuns :
              /\ req.first = run[1]
              /\ req.end \in FittingEnds(run)
              /\ \A e \in FittingEnds(run) : e <= req.end}

CanSubmit == IF RangePipeline THEN Cardinality(requests) < Depth ELSE requests = {}

\* canSubmitRangePipeline may also refuse because the last request is still being
\* copied to the device.
CopyPending == RangePipeline /\ \E req \in requests : ~req.done

(***************************************************************************)
(* Inference on samples start .. start+count-1: submitRangePipeline or     *)
(* inferenceRange                                                          *)
(***************************************************************************)
Covers(req, r)  == req.start <= Displ[r] /\ SampleEnd(r) <= req.start + req.count
Touches(req, r) == req.start < SampleEnd(r) /\ Displ[r] < req.start + req.count

\* Mutated form of Direct: the controller's segment is read from its buffer.
Direct_Never(req) == FALSE

\* A range that starts at rank 0 bypasses the controller buffers: it reads the
\* controller's own input and writes its own output (direct buffers).
Direct(req) == RangePipeline /\ req.first = 0

Infer(req) ==
    IF Direct(req)
    THEN /\ result' = [result EXCEPT ![0] = IF req.count = Samples[0] THEN called[0] ELSE 0]
         /\ UNCHANGED bufVars
    ELSE /\ outputBuffer' = [r \in Ranks |->
               IF Covers(req, r) THEN inputBuffer[r]
               ELSE IF Touches(req, r) THEN 0 ELSE outputBuffer[r]]
         /\ UNCHANGED << inputBuffer, result >>

-----------------------------------------------------------------------------
Init ==
    /\ pc = [r \in Ranks |-> "app"]
    /\ called = [r \in Ranks |-> 0]
    /\ result = [r \in Ranks |-> 0]
    /\ credit = [r \in Ranks |-> 0]
    /\ input = [r \in Ranks |-> << >>]
    /\ ack = [r \in Ranks |-> 0]
    /\ output = [r \in Ranks |-> << >>]
    /\ inputRequest = [r \in Ranks |-> "null"]
    /\ outputRequest = {}
    /\ inputBuffer = [r \in Ranks |-> 0]
    /\ outputBuffer = [r \in Ranks |-> 0]
    /\ poller = "off"
    /\ completed = {}
    /\ granted = {}
    /\ received = {} /\ receivedCount = 0
    /\ inferred = {} /\ inferredCount = 0
    /\ scheduled = {}
    /\ pending = {}
    /\ requests = {}

-----------------------------------------------------------------------------
(***************************************************************************)
(* Workers                                                                 *)
(***************************************************************************)
\* The application fills its input buffer and calls inference().
WorkerCall(r) ==
    /\ pc[r] = "app"
    /\ called[r] < MaxCalls
    /\ called' = [called EXCEPT ![r] = @ + 1]
    /\ pc' = [pc EXCEPT ![r] = "credit"]
    /\ UNCHANGED << result, netVars, mpiVars, bufVars, pollVars, inferVars >>

\* MPI_Recv of the credit, then MPI_Send of the input.
WorkerSendInput(r) ==
    /\ pc[r] = "credit"
    /\ credit[r] > 0
    /\ credit' = [credit EXCEPT ![r] = @ - 1]
    /\ input' = [input EXCEPT ![r] = Append(@, called[r])]
    /\ pc' = [pc EXCEPT ![r] = "ack"]
    /\ UNCHANGED << appVars, ack, output, mpiVars, bufVars, pollVars, inferVars >>

\* MPI_Recv of the acknowledgement.
WorkerRecvAck(r) ==
    /\ pc[r] = "ack"
    /\ ack[r] > 0
    /\ ack' = [ack EXCEPT ![r] = @ - 1]
    /\ pc' = [pc EXCEPT ![r] = "result"]
    /\ UNCHANGED << appVars, credit, input, output, mpiVars, bufVars, pollVars, inferVars >>

\* MPI_Recv of the result into output_data_worker_; inference() returns.
WorkerRecvResult(r) ==
    /\ pc[r] = "result"
    /\ output[r] # << >>
    /\ result' = [result EXCEPT ![r] = Head(output[r])]
    /\ output' = [output EXCEPT ![r] = Tail(@)]
    /\ pc' = [pc EXCEPT ![r] = "app"]
    /\ UNCHANGED << called, credit, input, ack, mpiVars, bufVars, pollVars, inferVars >>

(***************************************************************************)
(* MPI                                                                     *)
(***************************************************************************)
\* An input message matches its posted receive and fills the segment.
Deliver(r) ==
    /\ input[r] # << >>
    /\ inputRequest[r] = "posted"
    /\ inputBuffer' = [inputBuffer EXCEPT ![r] = Head(input[r])]
    /\ input' = [input EXCEPT ![r] = Tail(@)]
    /\ inputRequest' = [inputRequest EXCEPT ![r] = "filled"]
    /\ UNCHANGED << pc, appVars, credit, ack, output, outputRequest, outputBuffer,
                    pollVars, inferVars >>

\* The data of a posted result send leaves the controller buffer: the send
\* completes, as an eager send before the worker's receive is posted.
Inject(r) ==
    /\ r \in outputRequest
    /\ output' = [output EXCEPT ![r] = Append(@, outputBuffer[r])]
    /\ outputRequest' = outputRequest \ {r}
    /\ UNCHANGED << pc, appVars, credit, input, ack, inputRequest, bufVars,
                    pollVars, inferVars >>

(***************************************************************************)
(* The controller's receives: MPI_Testsome, then record_received for every *)
(* completed index under state_mutex                                       *)
(***************************************************************************)
Filled == {r \in Ranks : inputRequest[r] = "filled"}

PollerHoldsLock == poller \in {"record", "grant"}

\* MPI_Testsome reports and frees every receive whose data has arrived.
TestSome ==
    /\ poller = "test"
    /\ IF Async THEN pc[0] # "join" /\ receivedCount < N ELSE pc[0] = "poll"
    /\ Filled # {}
    /\ completed' = Filled
    /\ inputRequest' = [r \in Ranks |-> IF r \in Filled THEN "null" ELSE inputRequest[r]]
    /\ poller' = "lock"
    /\ UNCHANGED << pc, appVars, netVars, outputRequest, bufVars, granted, received,
                    receivedCount, inferVars >>

\* record_received, first half: the rank counts as received.  The first index
\* takes the lock.  No completed index was received before, so the early
\* return of record_received is never taken (CompletedIsNew).
Record(r) ==
    /\ poller \in {"lock", "record"}
    /\ r \in completed
    /\ received' = received \cup {r}
    /\ receivedCount' = receivedCount + 1
    /\ poller' = "grant"
    /\ UNCHANGED << pc, appVars, netVars, mpiVars, bufVars, completed, granted, inferVars >>

\* record_received, second half: acknowledge the input and grant two more
\* credits to the rank's tier.  The last index releases the lock.
AckAndGrant(r) ==
    /\ poller = "grant"
    /\ r \in completed \cap received
    /\ ack' = [ack EXCEPT ![r] = @ + 1]
    /\ granted' = granted \cup Grants(TierOf(r), 2)
    /\ SendCredits(Grants(TierOf(r), 2))
    /\ completed' = completed \ {r}
    /\ IF completed' = {}
       THEN /\ poller' = "test"
            /\ pc' = IF Async THEN pc ELSE [pc EXCEPT ![0] = "flush"]
       ELSE poller' = "record" /\ UNCHANGED pc
    /\ UNCHANGED << appVars, input, output, mpiVars, bufVars, received,
                    receivedCount, inferVars >>

\* The progress thread ends once every input is received.
ProgressThreadEnd ==
    /\ Async
    /\ poller = "test"
    /\ pc[0] = "join" \/ receivedCount >= N
    /\ poller' = "off"
    /\ UNCHANGED << pc, appVars, netVars, mpiVars, bufVars, completed, granted,
                    received, receivedCount, inferVars >>

-----------------------------------------------------------------------------
(***************************************************************************)
(* The controller's main thread                                            *)
(***************************************************************************)
Goto(label) == pc' = [pc EXCEPT ![0] = label]

\* The controller calls inference(): it posts the receives, then issues the
\* initial credits of each tier, then starts the loop and the progress thread.
ControllerCall ==
    /\ pc[0] = "app"
    /\ called[0] < MaxCalls
    /\ called' = [called EXCEPT ![0] = @ + 1]
    /\ inputRequest' = [r \in Ranks |-> IF r = 0 THEN "null" ELSE "posted"]
    /\ granted' = InitialGrants
    /\ SendCredits(InitialGrants)
    /\ received' = {0} /\ receivedCount' = 1
    /\ inferred' = {} /\ inferredCount' = 0
    /\ scheduled' = {}
    /\ pending' = {}
    /\ requests' = {}
    /\ completed' = {}
    /\ poller' = "test"
    /\ Goto("top")
    /\ UNCHANGED << result, input, ack, output, outputRequest, bufVars >>

\* The loop condition; without a progress thread the main thread polls first, and
\* a poll that finds nothing changes nothing.
LoopTop ==
    /\ pc[0] = "top"
    /\ Goto(IF inferredCount >= N THEN "join"
            ELSE IF ~Async /\ receivedCount < N /\ Filled # {} THEN "poll" ELSE "flush")
    /\ UNCHANGED << appVars, netVars, mpiVars, bufVars, pollVars, inferVars >>

\* Mutated form of FlushPending: the controller sends its own result, too.
FlushPending_All ==
    /\ outputRequest' = outputRequest \cup pending
    /\ pending' = {}

\* flush_pending_outputs posts the sends of every held-back result; rank 0 has
\* none to send.
FlushPending ==
    /\ outputRequest' = outputRequest \cup (pending \ {0})
    /\ pending' = {}

LoopFlush ==
    /\ pc[0] = "flush"
    /\ IF receivedCount >= N THEN FlushPending ELSE UNCHANGED << outputRequest, pending >>
    /\ Goto("collect")
    /\ UNCHANGED << appVars, netVars, inputRequest, bufVars, pollVars,
                    inferred, inferredCount, scheduled, requests >>

\* Mutated form of MarkInferred: results are sent as soon as they are there.
MarkInferred_SendAtOnce(ranks) ==
    /\ inferred' = inferred \cup ranks
    /\ inferredCount' = inferredCount + Cardinality(ranks)
    /\ outputRequest' = outputRequest \cup (ranks \ {0})
    /\ UNCHANGED pending

\* finish_inference and finish_range_pipeline_request: results are sent only
\* when every input of the call has been received, and held back before.
MarkInferred(ranks) ==
    /\ inferred' = inferred \cup ranks
    /\ inferredCount' = inferredCount + Cardinality(ranks)
    /\ IF receivedCount < N
       THEN pending' = pending \cup ranks /\ UNCHANGED outputRequest
       ELSE /\ outputRequest' = outputRequest \cup ((pending \cup ranks) \ {0})
            /\ pending' = {}

\* A finished range: the pipelined loop looks for more of them, the plain one
\* starts over.
LoopCollect(req) ==
    /\ pc[0] = "collect"
    /\ req.done
    /\ scheduled' = scheduled \ RanksOf(req)
    /\ requests' = requests \ {req}
    /\ MarkInferred(RanksOf(req))
    /\ IF RangePipeline THEN UNCHANGED pc ELSE Goto("top")
    /\ UNCHANGED << appVars, netVars, inputRequest, bufVars, pollVars >>

NothingFinished ==
    /\ pc[0] = "collect"
    /\ \A req \in requests : ~req.done
    /\ Goto("select")
    /\ UNCHANGED << appVars, netVars, mpiVars, bufVars, pollVars, inferVars >>

\* Under state_mutex: nothing can be submitted.
SelectNothing ==
    /\ pc[0] = "select"
    /\ ~PollerHoldsLock
    /\ CopyPending \/ (CanSubmit => SelectedRanges = {})
    /\ Goto("top")
    /\ UNCHANGED << appVars, netVars, mpiVars, bufVars, pollVars, inferVars >>

\* Under state_mutex: the largest ready range is scheduled; it is then handed
\* to the executor or to a std::async task.
SelectAndSubmit(req) ==
    /\ pc[0] = "select"
    /\ ~PollerHoldsLock
    /\ CanSubmit
    /\ Async \/ RangePipeline
    /\ scheduled' = scheduled \cup RanksOf(req)
    /\ requests' = requests \cup {req}
    /\ Goto("top")
    /\ UNCHANGED << appVars, netVars, mpiVars, bufVars, pollVars,
                    inferred, inferredCount, pending >>

\* Neither progress thread nor range pipeline: the main thread infers the range
\* and finishes it before it goes on.
SelectAndInfer(req) ==
    /\ pc[0] = "select"
    /\ ~PollerHoldsLock
    /\ ~Async /\ ~RangePipeline
    /\ Infer(req)
    /\ MarkInferred(RanksOf(req))
    /\ Goto("top")
    /\ UNCHANGED << called, netVars, inputRequest, pollVars, scheduled, requests >>

\* After the loop: join the progress thread and flush.
Join ==
    /\ pc[0] = "join"
    /\ Async => poller = "off"
    /\ FlushPending
    /\ Goto("wait")
    /\ UNCHANGED << appVars, netVars, inputRequest, bufVars, pollVars,
                    inferred, inferredCount, scheduled, requests >>

\* MPI_Waitall on the sends; credits and acknowledgements are single integers
\* that MPI may complete at once.
WaitAll ==
    /\ pc[0] = "wait"
    /\ outputRequest = {}
    /\ Goto("app")
    /\ UNCHANGED << appVars, netVars, mpiVars, bufVars, pollVars, inferVars >>

(***************************************************************************)
(* The executor: the GPU, or the std::async task, finishes a range         *)
(***************************************************************************)
InferenceDone(req) ==
    /\ ~req.done
    /\ Infer(req)
    /\ requests' = (requests \ {req}) \cup {[req EXCEPT !.done = TRUE]}
    /\ UNCHANGED << pc, called, netVars, mpiVars, pollVars, inferred, inferredCount,
                    scheduled, pending >>

-----------------------------------------------------------------------------
Worker(r) == WorkerSendInput(r) \/ WorkerRecvAck(r) \/ WorkerRecvResult(r)

Poller == TestSome \/ (\E r \in completed : Record(r) \/ AckAndGrant(r)) \/ ProgressThreadEnd

Controller ==
    \/ LoopTop \/ LoopFlush \/ NothingFinished \/ SelectNothing
    \/ \E req \in requests : LoopCollect(req)
    \/ pc[0] = "select" /\ \E req \in SelectedRanges : SelectAndSubmit(req) \/ SelectAndInfer(req)
    \/ Join \/ WaitAll

Executor == \E req \in requests : InferenceDone(req)

\* Every rank has made its last call and returned from it.
Finished ==
    /\ \A r \in Ranks : pc[r] = "app" /\ called[r] = MaxCalls
    /\ UNCHANGED vars

Next ==
    \/ \E r \in Workers : WorkerCall(r) \/ Worker(r) \/ Deliver(r) \/ Inject(r)
    \/ Poller \/ ControllerCall \/ Controller \/ Executor
    \/ Finished

Spec == Init /\ [][Next]_vars

\* Threads run, MPI delivers and completes, the device finishes what it was
\* given.  No application is obliged to call again.
Fairness ==
    /\ \A r \in Workers : WF_vars(Worker(r)) /\ WF_vars(Deliver(r)) /\ WF_vars(Inject(r))
    /\ WF_vars(Poller)
    /\ WF_vars(Controller)
    /\ WF_vars(Executor)

FairSpec == Spec /\ Fairness
-----------------------------------------------------------------------------
(***************************************************************************)
(* Properties                                                              *)
(***************************************************************************)
\* Types of the state.
TypeOK ==
    /\ pc \in [Ranks -> ControllerPC \cup WorkerPC]
    /\ pc[0] \in ControllerPC
    /\ \A r \in Workers : pc[r] \in WorkerPC
    /\ called \in [Ranks -> 0 .. MaxCalls]
    /\ result \in [Ranks -> 0 .. MaxCalls]
    /\ credit \in [Ranks -> Nat]
    /\ input \in [Ranks -> Seq(1 .. MaxCalls)]
    /\ ack \in [Ranks -> Nat]
    /\ output \in [Ranks -> Seq(0 .. MaxCalls)]
    /\ inputRequest \in [Ranks -> {"null", "posted", "filled"}]
    /\ outputRequest \subseteq Workers
    /\ inputBuffer \in [Ranks -> 0 .. MaxCalls]
    /\ outputBuffer \in [Ranks -> 0 .. MaxCalls]
    /\ poller \in PollerPC
    /\ completed \subseteq Workers
    /\ granted \subseteq Workers
    /\ received \subseteq Ranks /\ receivedCount \in 0 .. N
    /\ inferred \subseteq Ranks /\ inferredCount \in 0 .. N
    /\ scheduled \subseteq Ranks
    /\ pending \subseteq Ranks
    /\ requests \subseteq [first : Ranks, end : 1 .. N, start : Nat, count : Nat, done : BOOLEAN]

\* A worker returns from a call with the output of the input it passed to that
\* very call, however the calls of the ranks and the messages overlap.
WorkerResultCorrect == \A r \in Workers : pc[r] = "app" => result[r] = called[r]

\* With the range pipeline the controller, too, returns with its own result,
\* which only a range of exactly its own samples puts there.
ControllerResultCorrect == RangePipeline /\ pc[0] = "app" => result[0] = called[0]

\* Credits exist so that a worker sends only into a posted receive: no input
\* ever has to wait as an unexpected message.
InputHasReceive == \A r \in Workers : input[r] # << >> => inputRequest[r] = "posted"

\* Tags carry no call number; a message of one call is taken for no other
\* because at most one of a kind is under way between the controller and a worker.
OneMessageOfAKind ==
    \A r \in Workers :
        credit[r] <= 1 /\ ack[r] <= 1 /\ Len(input[r]) <= 1 /\ Len(output[r]) <= 1

\* What record_received relies on when MPI_Testsome reports an index.
CompletedIsNew == poller # "grant" => completed \cap received = {}

\* Flow control never runs dry: credits are issued for acknowledged inputs of the
\* same node tier only, so as long as a worker of a tier has none, another one of
\* that tier has a credit whose input has not been acknowledged yet.
TierNeverDry ==
    pc[0] # "app" =>
        \A t \in {0, 1} :
            ~(Tier(t) \subseteq granted) => ~(Tier(t) \cap granted \subseteq received \ completed)

\* Results leave the controller only when it has every input of the call.
ResultsAfterAllInputs ==
    /\ outputRequest # {} => received = Ranks
    /\ \A r \in Workers : output[r] # << >> => \A q \in Ranks : called[q] >= called[r]

\* The device works on a range only while nobody else touches its samples: its
\* ranks' inputs have arrived, none of their results is being sent, no other
\* range shares a sample with it.
ActiveRangeIsExclusive ==
    \A req \in requests :
        /\ RanksOf(req) \subseteq (received \cap scheduled) \ (inferred \cup outputRequest \cup pending)
        /\ \A r \in Ranks : Touches(req, r) => r \in RanksOf(req)
        /\ \A other \in requests \ {req} : RanksOf(req) \cap RanksOf(other) = {}

\* The executor is never given more than it accepts.
ExecutorLimits ==
    /\ Cardinality(requests) <= (IF RangePipeline THEN Depth ELSE 1)
    /\ \A req \in requests :
          /\ req.count > 0
          /\ RangePipeline /\ req.end > req.first + 1 => req.count <= MaxSamples

\* The group stays in step without a barrier: no rank is ever two calls ahead.
SkewBound == \A r \in Ranks, q \in Ranks : called[r] <= called[q] + 1

\* The counters the loops run on agree with the flags they count.
CountersAgree ==
    /\ receivedCount = Cardinality(received)
    /\ inferredCount = Cardinality(inferred)

\* When the controller returns nothing of the call is left behind: no posted
\* receive, no unsent result, no request in the executor, no thread.
CleanReturn ==
    pc[0] = "app" =>
        /\ \A r \in Ranks : inputRequest[r] = "null"
        /\ outputRequest = {} /\ pending = {} /\ requests = {} /\ scheduled = {}
        /\ completed = {} /\ (Async => poller = "off")

\* What the range-pipelined exchange promises its callers: see module Exchange.
Group == INSTANCE Exchange WITH
            members  <- Ranks,
            returned <- [r \in Ranks |-> Returned(r)],
            out      <- [r \in Ranks |-> IF pc[r] = "app" THEN result[r] ELSE 0]

\* Every step of the exchange is a call, a return or invisible to the callers.
ImplementsExchange == Group!Spec

\* If every rank makes a call, every rank returns from it.
CallsComplete ==
    \A c \in 1 .. MaxCalls :
        (\A r \in Ranks : called[r] >= c) ~> (\A r \in Ranks : Returned(r) >= c)

\* "Rank zero owns the controller-local segment": whatever executor infers that
\* segment, the controller returns with its own result.
ControllerOwnsSegment == pc[0] = "app" => result[0] = called[0]
=============================================================================
