--------------------------- MODULE RangePipeline ---------------------------
(***************************************************************************)
(* TorchInference<T>::RangePipeline: the executor of the pipelined         *)
(* exchange on a CUDA device.  A request passes three streams, a copy to   *)
(* the device, the forward pass and a copy back.  A stream works on its    *)
(* requests in the order of submission; CUDA events order the streams.     *)
(* The client is the main loop of pipelinedExchange.                       *)
(*                                                                         *)
(* The content of a segment is the number of the call it belongs to, and   *)
(* inference maps the input of a call to its output.                       *)
(***************************************************************************)
EXTENDS Integers, Sequences, SequencesExt, FiniteSets

CONSTANTS N,         \* segments of the controller buffers: workgroup_size_
          Depth,     \* max_active_requests
          MaxCalls   \* bound: calls of pipelinedExchange

Ranks == 0 .. N - 1

ASSUME PipelineAssumption ==
    N \in Nat \ {0} /\ Depth \in Nat \ {0} /\ MaxCalls \in Nat \ {0}

VARIABLES
    mode,          \* input_is_pinned_, output_is_pinned_, timing_enabled
    call,          \* the current call of pipelinedExchange
    received,      \* segments whose input has arrived
    inferred,      \* segments whose output is complete
    inputBuffer,   \* input_data_controller_; of rank 0 controller_input_worker_
    outputBuffer,  \* output_data_controller_; of rank 0 controller_output_worker_
    requests,      \* the deque of requests
    nextId,        \* next_request_id
    finishing,     \* the request reported complete and not yet released, or 0
    h2d, compute, d2h   \* the last request each stream has finished

clientVars == << call, received, inferred, inputBuffer >>
streamVars == << h2d, compute, d2h >>
vars == << mode, clientVars, outputBuffer, requests, nextId, finishing, streamVars >>

RanksOf(q) == q.first .. (q.end - 1)
Scheduled  == UNION {RanksOf(requests[i]) : i \in 1 .. Len(requests)}

\* The range at the front of the controller buffers uses the worker's own buffers.
Direct(q) == q.first = 0

ReadsBuffer(q)  == Direct(q) \/ mode.pinnedInput
WritesBuffer(q) == Direct(q) \/ mode.pinnedOutput

\* No content: a tensor that nothing has been copied to.
Empty == [r \in Ranks |-> 0]

\* buffer with the segments of q taken from content.
With(buffer, q, content) ==
    [r \in Ranks |-> IF r \in RanksOf(q) THEN content[r] ELSE buffer[r]]

Init ==
    /\ mode \in [pinnedInput : BOOLEAN, pinnedOutput : BOOLEAN, timing : BOOLEAN]
    /\ call = 1
    /\ received = {0}
    /\ inferred = {}
    /\ inputBuffer = [r \in Ranks |-> IF r = 0 THEN 1 ELSE 0]
    /\ outputBuffer = Empty
    /\ requests = << >>
    /\ nextId = 1
    /\ finishing = 0
    /\ h2d = 0 /\ compute = 0 /\ d2h = 0

-----------------------------------------------------------------------------
(***************************************************************************)
(* Submission                                                              *)
(***************************************************************************)
\* Mutated form of CanSubmit: the depth is not looked at.
CanSubmit_NoDepth ==
    requests # << >> /\ mode.timing => h2d >= Last(requests).id

\* canSubmitRangePipeline.  h2d_end is recorded with timing only; an event that
\* was never recorded counts as finished.
CanSubmit ==
    /\ Len(requests) < Depth
    /\ requests # << >> /\ mode.timing => h2d >= Last(requests).id

\* submitRangePipeline: pageable input is staged at once, everything else is
\* queued on the streams.
Submit(first, end) ==
    /\ finishing = 0
    /\ CanSubmit
    /\ first .. (end - 1) \subseteq received \ (inferred \cup Scheduled)
    /\ first = 0 => end = 1
    /\ LET q == [id |-> nextId, first |-> first, end |-> end, completed |-> FALSE,
                 inputCpu |-> IF first = 0 \/ mode.pinnedInput THEN Empty ELSE inputBuffer,
                 inputGpu |-> Empty, outputGpu |-> Empty, outputCpu |-> Empty]
       IN  requests' = Append(requests, q)
    /\ nextId' = nextId + 1
    /\ UNCHANGED << mode, clientVars, outputBuffer, finishing, streamVars >>

-----------------------------------------------------------------------------
(***************************************************************************)
(* The streams                                                             *)
(***************************************************************************)
\* requests[i] is the next request of a stream that has finished done requests.
NextOf(i, done) == requests[i].id = done + 1

\* The input is copied to the device, out of the buffer or its staged copy.
CopyToDevice(i) ==
    LET q == requests[i] IN
    /\ NextOf(i, h2d)
    /\ h2d' = q.id
    /\ requests' = [requests EXCEPT
                      ![i].inputGpu = IF ReadsBuffer(q) THEN inputBuffer ELSE q.inputCpu]
    /\ UNCHANGED << mode, clientVars, outputBuffer, nextId, finishing, compute, d2h >>

\* Mutated form of Forward: the stream does not wait for input_ready.
Forward_Early(i) ==
    /\ NextOf(i, compute)
    /\ compute' = requests[i].id
    /\ requests' = [requests EXCEPT ![i].outputGpu = requests[i].inputGpu]
    /\ UNCHANGED << mode, clientVars, outputBuffer, nextId, finishing, h2d, d2h >>

\* The forward pass, behind input_ready.
Forward(i) ==
    /\ NextOf(i, compute)
    /\ h2d >= requests[i].id
    /\ compute' = requests[i].id
    /\ requests' = [requests EXCEPT ![i].outputGpu = requests[i].inputGpu]
    /\ UNCHANGED << mode, clientVars, outputBuffer, nextId, finishing, h2d, d2h >>

\* The output is copied back behind compute_done, into the controller's buffer
\* or a pinned tensor.
CopyBack(i) ==
    LET q == requests[i] IN
    /\ NextOf(i, d2h)
    /\ compute >= q.id
    /\ d2h' = q.id
    /\ IF WritesBuffer(q)
       THEN /\ outputBuffer' = With(outputBuffer, q, q.outputGpu)
            /\ UNCHANGED requests
       ELSE /\ requests' = [requests EXCEPT ![i].outputCpu = q.outputGpu]
            /\ UNCHANGED outputBuffer
    /\ UNCHANGED << mode, clientVars, nextId, finishing, h2d, compute >>

-----------------------------------------------------------------------------
(***************************************************************************)
(* Completion                                                              *)
(***************************************************************************)
\* Mutated form of OutputReady: the request counts as complete behind the forward pass.
OutputReady_Compute(q) == compute >= q.id

\* output_ready.query()
OutputReady(q) == d2h >= q.id

\* rangePipelineComplete returns true: a staged output is copied to its place.
Complete(i) ==
    LET q == requests[i] IN
    /\ finishing = 0
    /\ ~q.completed
    /\ OutputReady(q)
    /\ outputBuffer' = IF WritesBuffer(q) THEN outputBuffer ELSE With(outputBuffer, q, q.outputCpu)
    /\ requests' = [requests EXCEPT ![i].completed = TRUE]
    /\ finishing' = q.id
    /\ UNCHANGED << mode, clientVars, nextId, streamVars >>

\* Mutated form of Release: the request stays in the deque.
Release_Keeps(i) ==
    /\ requests[i].id = finishing
    /\ inferred' = inferred \cup RanksOf(requests[i])
    /\ finishing' = 0
    /\ UNCHANGED << mode, call, received, inputBuffer, outputBuffer, requests, nextId, streamVars >>

\* finish_range_pipeline_request: the results are dispatched and
\* releaseRangePipeline erases the completed request.
Release(i) ==
    /\ requests[i].id = finishing
    /\ requests[i].completed
    /\ inferred' = inferred \cup RanksOf(requests[i])
    /\ requests' = RemoveAt(requests, i)
    /\ finishing' = 0
    /\ UNCHANGED << mode, call, received, inputBuffer, outputBuffer, nextId, streamVars >>

-----------------------------------------------------------------------------
(***************************************************************************)
(* The rest of pipelinedExchange                                           *)
(***************************************************************************)
\* The input of a worker arrives.
Receive(r) ==
    /\ r \notin received
    /\ received' = received \cup {r}
    /\ inputBuffer' = [inputBuffer EXCEPT ![r] = call]
    /\ UNCHANGED << mode, call, inferred, outputBuffer, requests, nextId, finishing, streamVars >>

\* The exchange ends when every segment is inferred; the application rewrites
\* the controller's own input and calls again.
NextCall ==
    /\ finishing = 0
    /\ inferred = Ranks
    /\ call < MaxCalls
    /\ call' = call + 1
    /\ received' = {0}
    /\ inferred' = {}
    /\ inputBuffer' = [inputBuffer EXCEPT ![0] = call + 1]
    /\ UNCHANGED << mode, outputBuffer, requests, nextId, finishing, streamVars >>

Submission == \E first \in Ranks, end \in 1 .. N : first < end /\ Submit(first, end)
Collection == \E i \in 1 .. Len(requests) : Complete(i) \/ Release(i)
H2DStream     == \E i \in 1 .. Len(requests) : CopyToDevice(i)
ComputeStream == \E i \in 1 .. Len(requests) : Forward(i)
D2HStream     == \E i \in 1 .. Len(requests) : CopyBack(i)

Next ==
    \/ Submission \/ Collection
    \/ H2DStream \/ ComputeStream \/ D2HStream
    \/ NextCall \/ \E r \in Ranks : Receive(r)

\* The device works on what is queued, inputs arrive, and the loop polls.
Fairness ==
    /\ WF_vars(H2DStream) /\ WF_vars(ComputeStream) /\ WF_vars(D2HStream)
    /\ WF_vars(Submission) /\ WF_vars(Collection)
    /\ \A r \in Ranks : WF_vars(Receive(r))

Spec == Init /\ [][Next]_vars /\ Fairness

-----------------------------------------------------------------------------
Contents == [Ranks -> 0 .. MaxCalls]

Request == [id : Nat \ {0}, first : Ranks, end : 1 .. N, completed : BOOLEAN,
            inputCpu : Contents, inputGpu : Contents,
            outputGpu : Contents, outputCpu : Contents]

\* Types of the state.
TypeOK ==
    /\ mode \in [pinnedInput : BOOLEAN, pinnedOutput : BOOLEAN, timing : BOOLEAN]
    /\ call \in 1 .. MaxCalls
    /\ received \subseteq Ranks /\ inferred \subseteq Ranks
    /\ inputBuffer \in Contents /\ outputBuffer \in Contents
    /\ requests \in Seq(Request)
    /\ nextId \in Nat \ {0} /\ finishing \in Nat
    /\ h2d \in Nat /\ compute \in Nat /\ d2h \in Nat

\* Results may be sent from the moment a segment counts as inferred to the end of
\* the call: all that time its output is that of the current input.
InferredIsCurrent == \A r \in inferred : outputBuffer[r] = call

\* At most Depth requests hold memory, and with timing the next copy to the
\* device is queued only behind a finished one.
QueueLimits ==
    /\ Len(requests) <= Depth
    /\ mode.timing => nextId - 1 - h2d <= 1

\* The tensors of a request live until the last stream is through with it.
StreamsHoldRequests ==
    \A id \in (d2h + 1) .. (nextId - 1) :
        \E i \in 1 .. Len(requests) : requests[i].id = id /\ ~requests[i].completed

\* Nothing of a call is left on the device when the call ends.
NoneLeftBehind == inferred = Ranks => requests = << >> /\ d2h = nextId - 1

\* The pipeline is the executor that the exchange expects.
Busy(r) == \E i \in 1 .. Len(requests) : ~requests[i].completed /\ r \in RanksOf(requests[i])

Executor == INSTANCE RangeExecutor WITH
    input  <- inputBuffer,
    output <- [r \in Ranks |-> IF Busy(r) THEN 0 ELSE outputBuffer[r]],
    active <- {RanksOf(requests[i]) : i \in {k \in 1 .. Len(requests) : ~requests[k].completed}}

\* Nobody writes the input of a range in progress, and a range that is reported
\* complete has the output of its input, however the streams overlap.
ImplementsExecutor == Executor!Spec

\* Every call gets all of its segments inferred.
CallsEnd == \A c \in 1 .. MaxCalls : call = c ~> (call = c /\ inferred = Ranks)
=============================================================================
