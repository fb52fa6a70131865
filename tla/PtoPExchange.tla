---------------------------- MODULE PtoPExchange ----------------------------
(***************************************************************************)
(* NonBlockingPtoPCommunication<T>: gather and scatter with nonblocking    *)
(* point-to-point messages.  The controller, rank 0 of the workgroup,      *)
(* receives an input from every rank, itself included, infers, and sends   *)
(* every rank its output.  Only receives are ever waited for; the requests *)
(* of the sends are overwritten by those of the next call.                 *)
(*                                                                         *)
(* The content of a buffer is the number of the call whose data it holds.  *)
(* A send reads its buffer when MPI gets to it, not when it is posted.     *)
(***************************************************************************)
EXTENDS Naturals, Sequences

CONSTANTS N,        \* workgroup_size_
          MaxCalls  \* bound: calls per rank

ASSUME PtoPAssumption == N \in Nat \ {0} /\ MaxCalls \in Nat

Ranks == 0 .. N - 1

VARIABLES pc, called,
          inputWorker,  \* input_data_worker_ of each rank
          outputWorker, \* output_data_worker_ of each rank
          inputs,       \* each rank's segment of input_data_controller_
          outputs,      \* each rank's segment of output_data_controller_
          inputSends,   \* input sends of each rank that MPI has not begun
          outputSends,  \* output sends to each rank that MPI has not begun
          inputMail,    \* input messages under way from each rank
          outputMail,   \* output messages under way to each rank
          inputRecv,    \* input_requests_: "null", "posted", "done"
          outputRecv    \* recv_req_ of each rank

buffers  == << inputWorker, outputWorker, inputs, outputs >>
messages == << inputSends, outputSends, inputMail, outputMail >>
receives == << inputRecv, outputRecv >>
vars == << pc, called, buffers, messages, receives >>

Init ==
    /\ pc = [r \in Ranks |-> "app"]
    /\ called = [r \in Ranks |-> 0]
    /\ inputWorker = [r \in Ranks |-> 0]
    /\ outputWorker = [r \in Ranks |-> 0]
    /\ inputs = [r \in Ranks |-> 0]
    /\ outputs = [r \in Ranks |-> 0]
    /\ inputSends = [r \in Ranks |-> 0]
    /\ outputSends = [r \in Ranks |-> 0]
    /\ inputMail = [r \in Ranks |-> << >>]
    /\ outputMail = [r \in Ranks |-> << >>]
    /\ inputRecv = [r \in Ranks |-> "null"]
    /\ outputRecv = [r \in Ranks |-> "null"]

Goto(r, label) == pc' = [pc EXCEPT ![r] = label]

-----------------------------------------------------------------------------
\* The application writes new input into its buffer and starts an exchange.
Call(r) ==
    /\ pc[r] = "app"
    /\ called[r] < MaxCalls
    /\ called' = [called EXCEPT ![r] = @ + 1]
    /\ inputWorker' = [inputWorker EXCEPT ![r] = called[r] + 1]
    /\ Goto(r, "gather")
    /\ UNCHANGED << outputWorker, inputs, outputs, messages, receives >>

\* gatherInputData: the controller posts a receive for every rank; every rank
\* posts the send of its input, which nobody waits for.
GatherInputData(r) ==
    /\ pc[r] = "gather"
    /\ inputRecv' = IF r = 0 THEN [q \in Ranks |-> "posted"] ELSE inputRecv
    /\ inputSends' = [inputSends EXCEPT ![r] = @ + 1]
    /\ Goto(r, IF r = 0 THEN "waitall" ELSE "scatter")
    /\ UNCHANGED << called, buffers, outputSends, inputMail, outputMail, outputRecv >>

\* Mutated form of WaitAllInputs: the controller waits for the other ranks only.
WaitAllInputs_Others ==
    /\ pc[0] = "waitall"
    /\ \A r \in Ranks \ {0} : inputRecv[r] = "done"
    /\ Goto(0, "infer")
    /\ UNCHANGED << called, buffers, messages, receives >>

\* Mutated form of WaitAllInputs: the controller waits for nobody.
WaitAllInputs_Never ==
    /\ pc[0] = "waitall"
    /\ Goto(0, "infer")
    /\ UNCHANGED << called, buffers, messages, receives >>

\* MPI_Waitall on the input receives.
WaitAllInputs ==
    /\ pc[0] = "waitall"
    /\ \A r \in Ranks : inputRecv[r] = "done"
    /\ inputRecv' = [r \in Ranks |-> "null"]
    /\ Goto(0, "infer")
    /\ UNCHANGED << called, buffers, messages, outputRecv >>

\* The caller infers between gather and scatter.
InferAll ==
    /\ pc[0] = "infer"
    /\ outputs' = inputs
    /\ Goto(0, "scatter")
    /\ UNCHANGED << called, inputWorker, outputWorker, inputs, messages, receives >>

\* Mutated form of ScatterOutputData: the controller sends to the others only.
ScatterOutputData_Others(r) ==
    /\ pc[r] = "scatter"
    /\ outputRecv' = [outputRecv EXCEPT ![r] = "posted"]
    /\ outputSends' = IF r = 0 THEN [q \in Ranks |-> IF q = 0 THEN 0 ELSE outputSends[q] + 1]
                      ELSE outputSends
    /\ Goto(r, "wait")
    /\ UNCHANGED << called, buffers, inputSends, inputMail, outputMail, inputRecv >>

\* scatterOutputData: every rank posts the receive of its output; the controller
\* posts a send to every rank.
ScatterOutputData(r) ==
    /\ pc[r] = "scatter"
    /\ outputRecv' = [outputRecv EXCEPT ![r] = "posted"]
    /\ outputSends' = IF r = 0 THEN [q \in Ranks |-> outputSends[q] + 1] ELSE outputSends
    /\ Goto(r, "wait")
    /\ UNCHANGED << called, buffers, inputSends, inputMail, outputMail, inputRecv >>

\* MPI_Wait on the output receive.
WaitOutput(r) ==
    /\ pc[r] = "wait"
    /\ outputRecv[r] = "done"
    /\ outputRecv' = [outputRecv EXCEPT ![r] = "null"]
    /\ Goto(r, "app")
    /\ UNCHANGED << called, buffers, messages, inputRecv >>

-----------------------------------------------------------------------------
(***************************************************************************)
(* MPI: a send reads its buffer; a message meets the posted receive        *)
(***************************************************************************)
BeginInputSend(r) ==
    /\ inputSends[r] > 0
    /\ inputSends' = [inputSends EXCEPT ![r] = @ - 1]
    /\ inputMail' = [inputMail EXCEPT ![r] = Append(@, inputWorker[r])]
    /\ UNCHANGED << pc, called, buffers, outputSends, outputMail, receives >>

ReceiveInput(r) ==
    /\ inputRecv[r] = "posted"
    /\ inputMail[r] # << >>
    /\ inputs' = [inputs EXCEPT ![r] = Head(inputMail[r])]
    /\ inputMail' = [inputMail EXCEPT ![r] = Tail(@)]
    /\ inputRecv' = [inputRecv EXCEPT ![r] = "done"]
    /\ UNCHANGED << pc, called, inputWorker, outputWorker, outputs, inputSends,
                    outputSends, outputMail, outputRecv >>

BeginOutputSend(r) ==
    /\ outputSends[r] > 0
    /\ outputSends' = [outputSends EXCEPT ![r] = @ - 1]
    /\ outputMail' = [outputMail EXCEPT ![r] = Append(@, outputs[r])]
    /\ UNCHANGED << pc, called, buffers, inputSends, inputMail, receives >>

ReceiveOutput(r) ==
    /\ outputRecv[r] = "posted"
    /\ outputMail[r] # << >>
    /\ outputWorker' = [outputWorker EXCEPT ![r] = Head(outputMail[r])]
    /\ outputMail' = [outputMail EXCEPT ![r] = Tail(@)]
    /\ outputRecv' = [outputRecv EXCEPT ![r] = "done"]
    /\ UNCHANGED << pc, called, inputWorker, inputs, outputs, inputSends,
                    outputSends, inputMail, inputRecv >>

-----------------------------------------------------------------------------
Rank(r) == GatherInputData(r) \/ ScatterOutputData(r) \/ WaitOutput(r)
Mpi(r)  == BeginInputSend(r) \/ ReceiveInput(r) \/ BeginOutputSend(r) \/ ReceiveOutput(r)

Next ==
    \/ \E r \in Ranks : Call(r) \/ Rank(r) \/ Mpi(r)
    \/ WaitAllInputs \/ InferAll

\* Ranks run and MPI makes progress on what is posted.
Spec ==
    /\ Init /\ [][Next]_vars
    /\ \A r \in Ranks :
          /\ WF_vars(Rank(r))
          /\ WF_vars(BeginInputSend(r)) /\ WF_vars(ReceiveInput(r))
          /\ WF_vars(BeginOutputSend(r)) /\ WF_vars(ReceiveOutput(r))
    /\ WF_vars(WaitAllInputs) /\ WF_vars(InferAll)

-----------------------------------------------------------------------------
\* Types of the state.
TypeOK ==
    /\ pc \in [Ranks -> {"app", "gather", "waitall", "infer", "scatter", "wait"}]
    /\ called \in [Ranks -> 0 .. MaxCalls]
    /\ inputWorker \in [Ranks -> 0 .. MaxCalls]
    /\ outputWorker \in [Ranks -> 0 .. MaxCalls]
    /\ inputs \in [Ranks -> 0 .. MaxCalls]
    /\ outputs \in [Ranks -> 0 .. MaxCalls]
    /\ inputSends \in [Ranks -> 0 .. 1]
    /\ outputSends \in [Ranks -> 0 .. 1]
    /\ inputMail \in [Ranks -> Seq(0 .. MaxCalls)]
    /\ outputMail \in [Ranks -> Seq(0 .. MaxCalls)]
    /\ inputRecv \in [Ranks -> {"null", "posted", "done"}]
    /\ outputRecv \in [Ranks -> {"null", "posted", "done"}]

\* Although its send is never waited for, a rank that returns may write new
\* input: MPI has read the old one.
InputSendIsDone == \A r \in Ranks : pc[r] = "app" => inputSends[r] = 0

\* Although the output sends are never waited for, the controller never infers
\* into a buffer that MPI still has to read.
OutputSendIsDone == [][outputs' # outputs => \A r \in Ranks : outputSends[r] = 0]_vars

\* The controller's input and output to itself have the same source, destination
\* and tag, so that a message of either kind would match a receive of the other.
\* None does: as long as a receive, a send or a message of the one kind is open,
\* there is neither of the other.
SelfMessagesApart ==
    LET inputOpen  == inputRecv[0] = "posted" \/ inputSends[0] > 0 \/ inputMail[0] # << >>
        outputOpen == outputRecv[0] = "posted" \/ outputSends[0] > 0 \/ outputMail[0] # << >>
    IN  ~(inputOpen /\ outputOpen)

Returned(r) == IF pc[r] = "app" THEN called[r] ELSE called[r] - 1

\* Gather, inference and scatter are the operation the callers expect: see
\* module Exchange.
Group == INSTANCE Exchange WITH
            members  <- Ranks,
            returned <- [r \in Ranks |-> Returned(r)],
            out      <- [r \in Ranks |-> IF pc[r] = "app" THEN outputWorker[r] ELSE 0]

\* Every step is a call, a return or invisible to the callers.
ImplementsExchange == Group!Spec

\* If every rank starts an exchange, every rank returns from it.
CallsComplete ==
    \A c \in 1 .. MaxCalls :
        (\A r \in Ranks : called[r] >= c) ~> (\A r \in Ranks : Returned(r) >= c)
=============================================================================
