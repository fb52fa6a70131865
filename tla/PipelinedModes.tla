--------------------------- MODULE PipelinedModes --------------------------
(***************************************************************************)
(* pipelinedExchange chooses its mode when it is called: a progress thread *)
(* exists if MPI offers MPI_THREAD_MULTIPLE and AIX_P2P_ASYNC_CONTROLLER   *)
(* is not "0", and ranges go to the range pipeline if the executor of the  *)
(* service has one.  Each of the four combinations is an instance of       *)
(* PipelinedExchange; the mode of a process does not change while it runs. *)
(***************************************************************************)
EXTENDS Naturals

CONSTANTS N, Remote, Samples, Displ, InitialCredits, MaxSamples, Depth, MaxCalls

VARIABLES mode,     \* async_controller and range_pipeline
          pc, called, result, credit, input, ack, output, inputRequest, outputRequest,
          inputBuffer, outputBuffer, poller, completed, granted, received, receivedCount,
          inferred, inferredCount, scheduled, pending, requests

Modes == [async : BOOLEAN, pipeline : BOOLEAN]

\* The exchange in mode m.
Exchanging(m) == INSTANCE PipelinedExchange WITH Async <- m.async, RangePipeline <- m.pipeline

Ranks   == 0 .. N - 1
Workers == 1 .. N - 1

vars == << mode, pc, called, result, credit, input, ack, output, inputRequest, outputRequest,
           inputBuffer, outputBuffer, poller, completed, granted, received, receivedCount,
           inferred, inferredCount, scheduled, pending, requests >>

Init == mode \in Modes /\ \E m \in Modes : mode = m /\ Exchanging(m)!Init

Chosen(m) == mode = m /\ UNCHANGED mode

Next == \E m \in Modes : Chosen(m) /\ Exchanging(m)!Next

\* The main loop of the controller.
MainLoop == \E m \in Modes : Chosen(m) /\ Exchanging(m)!Controller

\* Whatever goes on beside it: workers, messages, the polling of the receives and
\* the device.
Others == \E m \in Modes :
    /\ Chosen(m)
    /\ \/ \E r \in Workers : \/ Exchanging(m)!Worker(r)
                             \/ Exchanging(m)!Deliver(r) \/ Exchanging(m)!Inject(r)
       \/ Exchanging(m)!Poller
       \/ Exchanging(m)!Executor

\* Less than the fairness of PipelinedExchange, and enough: the main loop runs,
\* and beside it something that can go on does.  No application is obliged to call.
FairSpec == Init /\ [][Next]_vars /\ WF_vars(MainLoop) /\ WF_vars(Others)

-----------------------------------------------------------------------------
Returned(r) == IF pc[r] = "app" THEN called[r] ELSE called[r] - 1

\* The controller without range pipeline is the one rank whose result is not
\* promised: nothing copies its own samples (see the run plain_controller).
ResultOf(r) == IF r = 0 /\ ~mode.pipeline THEN called[r] ELSE result[r]

Group == INSTANCE Exchange WITH
            members  <- Ranks,
            returned <- [r \in Ranks |-> Returned(r)],
            out      <- [r \in Ranks |-> IF pc[r] = "app" THEN ResultOf(r) ELSE 0]

\* In every mode the workers see the collective operation of module Exchange.
ModesImplementExchange == Group!Spec

\* In every mode, if every rank makes a call, every rank returns from it.
CallsComplete ==
    \A c \in 1 .. MaxCalls :
        (\A r \in Ranks : called[r] >= c) ~> (\A r \in Ranks : Returned(r) >= c)
=============================================================================
