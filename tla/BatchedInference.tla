------------------------- MODULE BatchedInference --------------------------
(***************************************************************************)
(* InferenceStrategy<T>::inference(): the samples of a buffer are inferred *)
(* in batches of batchsize_, the last one possibly shorter.  Modelled are  *)
(* the loops of TorchInference (synchronous slices on GPU or CPU, and the  *)
(* two-slot asynchronous CUDA pipeline), TensorflowInference, SOLInference *)
(* and ONNXInference.                                                      *)
(*                                                                         *)
(* An output element holds << call, element >>: the call whose input it    *)
(* was computed from and the place where it belongs.                       *)
(***************************************************************************)
EXTENDS Integers

CONSTANTS Configs,    \* the strategies, shapes and batch sizes considered
          MaxCalls    \* bound: calls of inference()

ASSUME BatchAssumption ==
    /\ MaxCalls \in Nat
    /\ \A c \in Configs : /\ c.backend \in {"torch", "torch async", "tensorflow", "sol", "onnx"}
                          /\ {c.samples, c.inWidth, c.outWidth} \subseteq Nat
                          /\ c.batchsize \in Nat \ {0}
                          /\ {c.pinnedInput, c.pinnedOutput} \subseteq BOOLEAN

VARIABLES
    config,     \* a member of Configs
    pc,         \* "app", or "run" during inference()
    call,       \* the number of the call, and the content of the input
    next,       \* the loop variable i
    elements,   \* ele_count of ONNXInference
    output,     \* the output buffer
    overrun,    \* an element outside of the output buffer was written
    slots,      \* async_pipeline_->batches
    h2d, compute, d2h,  \* batches of this call each stream is through with
    published   \* batches of this call that are published

asyncVars == << slots, h2d, compute, d2h, published >>
vars == << config, pc, call, next, elements, output, overrun, asyncVars >>

Min2(a, b) == IF a < b THEN a ELSE b

FullBatches == config.samples \div config.batchsize
Remaining   == config.samples % config.batchsize
NumBatches  == IF Remaining > 0 THEN FullBatches + 1 ELSE FullBatches

\* Output elements of batch b, and where they start.
BatchSize(b)  == Min2(config.batchsize, config.samples - b * config.batchsize)
OutputLen(b)  == BatchSize(b) * config.outWidth
OutputFrom(b) == b * config.batchsize * config.outWidth

OutputRange == 1 .. config.samples * config.outWidth

\* Batch b of a call, as a tensor; inference maps input to output.
Tensor(b, c) == [batch |-> b, call |-> c]
NoTensor     == Tensor(-1, 0)

\* The len first elements of tensor are copied behind the first offset elements
\* of the output.
CopyOut(tensor, offset, len) ==
    /\ output' = [e \in OutputRange |->
                    IF e \in (offset + 1) .. (offset + len)
                    THEN << tensor.call, OutputFrom(tensor.batch) + e - offset >>
                    ELSE output[e]]
    /\ overrun' = (overrun \/ ~((offset + 1) .. (offset + len) \subseteq OutputRange))

EmptySlot == [batch |-> -1, inputCpu |-> NoTensor, inputGpu |-> NoTensor,
              outputGpu |-> NoTensor, outputCpu |-> NoTensor]

Init ==
    /\ config \in Configs
    /\ pc = "app"
    /\ call = 0
    /\ next = 0
    /\ elements = 0
    /\ output = [e \in OutputRange |-> << 0, e >>]
    /\ overrun = FALSE
    /\ slots = [k \in 0 .. 1 |-> EmptySlot]
    /\ h2d = 0 /\ compute = 0 /\ d2h = 0 /\ published = 0

\* The input holds new data and inference() is called.
Call ==
    /\ pc = "app"
    /\ call < MaxCalls
    /\ pc' = "run"
    /\ call' = call + 1
    /\ next' = 0
    /\ elements' = 0
    /\ h2d' = 0 /\ compute' = 0 /\ d2h' = 0 /\ published' = 0
    /\ UNCHANGED << config, output, overrun, slots >>

Running(backend) == pc = "run" /\ config.backend = backend

-----------------------------------------------------------------------------
(***************************************************************************)
(* Synchronous loops                                                       *)
(***************************************************************************)
\* TorchInference on GPU or CPU: slices of the tensors, the last one cut.
Slice ==
    /\ Running("torch")
    /\ next < NumBatches
    /\ CopyOut(Tensor(next, call), OutputFrom(next), OutputLen(next))
    /\ next' = next + 1
    /\ UNCHANGED << config, pc, call, elements, asyncVars >>

\* The offset of batch b in the output: TensorFlow has offsets of its own for the
\* output, SOL uses those of the input.
TensorOffset(b) ==
    IF config.backend = "sol" THEN b * config.batchsize * config.inWidth ELSE OutputFrom(b)

\* TensorflowInference and SOLInference: the whole batches.
WholeBatch ==
    /\ Running("tensorflow") \/ Running("sol")
    /\ next < FullBatches
    /\ CopyOut(Tensor(next, call), TensorOffset(next), config.batchsize * config.outWidth)
    /\ next' = next + 1
    /\ UNCHANGED << config, pc, call, elements, asyncVars >>

\* The remainder, with tensors of its own or the front of the batch tensors.
RemainderBatch ==
    /\ Running("tensorflow") \/ Running("sol")
    /\ next = FullBatches /\ Remaining > 0
    /\ CopyOut(Tensor(next, call), TensorOffset(next), Remaining * config.outWidth)
    /\ next' = next + 1
    /\ UNCHANGED << config, pc, call, elements, asyncVars >>

\* ONNXInference copies each output behind ele_count elements, which it sets to
\* the length of the output just copied.
Run ==
    /\ Running("onnx")
    /\ next < NumBatches
    /\ CopyOut(Tensor(next, call), elements, OutputLen(next))
    /\ elements' = OutputLen(next)
    /\ next' = next + 1
    /\ UNCHANGED << config, pc, call, asyncVars >>

-----------------------------------------------------------------------------
(***************************************************************************)
(* The asynchronous pipeline of TorchInference                             *)
(***************************************************************************)
SlotOf(b) == b % 2

\* Only this pipeline gives the streams work: batch b is queued on them.
Queued(b) == config.backend = "torch async" /\ b < next

\* Mutated form of Queue: the slot is not published before it is reused.
Queue_NoPublish ==
    /\ Running("torch async")
    /\ next < NumBatches
    /\ slots' = [slots EXCEPT ![SlotOf(next)] =
                   [EmptySlot EXCEPT !.batch = next,
                                     !.inputCpu = IF config.pinnedInput THEN NoTensor
                                                  ELSE Tensor(next, call)]]
    /\ next' = next + 1
    /\ UNCHANGED << config, pc, call, elements, output, overrun, h2d, compute, d2h, published >>

\* A batch is queued on the three streams when its slot is published; pageable
\* input is staged first.
Queue ==
    /\ Running("torch async")
    /\ next < NumBatches
    /\ next >= 2 => published > next - 2
    /\ slots' = [slots EXCEPT ![SlotOf(next)] =
                   [EmptySlot EXCEPT !.batch = next,
                                     !.inputCpu = IF config.pinnedInput THEN NoTensor
                                                  ELSE Tensor(next, call)]]
    /\ next' = next + 1
    /\ UNCHANGED << config, pc, call, elements, output, overrun, h2d, compute, d2h, published >>

\* The h2d stream copies its next batch; compute_done of the slot, left from its
\* last use, blocks it.
CopyToDevice ==
    LET k == SlotOf(h2d) IN
    /\ Queued(h2d)
    /\ h2d >= 2 => compute > h2d - 2
    /\ slots' = [slots EXCEPT ![k].inputGpu =
                   IF config.pinnedInput THEN Tensor(slots[k].batch, call) ELSE slots[k].inputCpu]
    /\ h2d' = h2d + 1
    /\ UNCHANGED << config, pc, call, next, elements, output, overrun, compute, d2h, published >>

\* The forward pass waits for input_ready.
Forward ==
    LET k == SlotOf(compute) IN
    /\ Queued(compute)
    /\ compute < h2d
    /\ slots' = [slots EXCEPT ![k].outputGpu = slots[k].inputGpu]
    /\ compute' = compute + 1
    /\ UNCHANGED << config, pc, call, next, elements, output, overrun, h2d, d2h, published >>

\* Mutated form of CopyBack: the stream does not wait for compute_done.
CopyBack_Early ==
    LET slot == slots[SlotOf(d2h)] IN
    /\ Queued(d2h)
    /\ d2h' = d2h + 1
    /\ IF config.pinnedOutput
       THEN CopyOut(slot.outputGpu, OutputFrom(slot.batch), OutputLen(slot.batch)) /\ UNCHANGED slots
       ELSE /\ slots' = [slots EXCEPT ![SlotOf(d2h)].outputCpu = slot.outputGpu]
            /\ UNCHANGED << output, overrun >>
    /\ UNCHANGED << config, pc, call, next, elements, h2d, compute, published >>

\* The copy back waits for compute_done; it goes to a pinned output buffer or to
\* a pinned tensor of the slot.
CopyBack ==
    LET slot == slots[SlotOf(d2h)] IN
    /\ Queued(d2h)
    /\ d2h < compute
    /\ d2h' = d2h + 1
    /\ IF config.pinnedOutput
       THEN CopyOut(slot.outputGpu, OutputFrom(slot.batch), OutputLen(slot.batch)) /\ UNCHANGED slots
       ELSE /\ slots' = [slots EXCEPT ![SlotOf(d2h)].outputCpu = slot.outputGpu]
            /\ UNCHANGED << output, overrun >>
    /\ UNCHANGED << config, pc, call, next, elements, h2d, compute, published >>

\* Mutated form of Publish: only a slot that is needed again is published.
Publish_Reused ==
    LET slot == slots[SlotOf(published)] IN
    /\ Running("torch async")
    /\ next < NumBatches /\ published = next - 2
    /\ d2h > published
    /\ IF config.pinnedOutput THEN UNCHANGED << output, overrun >>
       ELSE CopyOut(slot.outputCpu, OutputFrom(slot.batch), OutputLen(slot.batch))
    /\ published' = published + 1
    /\ UNCHANGED << config, pc, call, next, elements, slots, h2d, compute, d2h >>

\* publish: wait for output_ready, then copy a staged output to its place.  A slot
\* is published when it is needed again, the last two behind the loop.
Publish ==
    LET slot == slots[SlotOf(published)] IN
    /\ Running("torch async")
    /\ \/ next < NumBatches /\ published = next - 2
       \/ next = NumBatches /\ published < NumBatches
    /\ d2h > published
    /\ IF config.pinnedOutput THEN UNCHANGED << output, overrun >>
       ELSE CopyOut(slot.outputCpu, OutputFrom(slot.batch), OutputLen(slot.batch))
    /\ published' = published + 1
    /\ UNCHANGED << config, pc, call, next, elements, slots, h2d, compute, d2h >>

-----------------------------------------------------------------------------
Finished ==
    next = NumBatches /\ (config.backend = "torch async" => published = NumBatches)

Return ==
    /\ pc = "run"
    /\ Finished
    /\ pc' = "app"
    /\ UNCHANGED << config, call, next, elements, output, overrun, asyncVars >>

Host    == Slice \/ WholeBatch \/ RemainderBatch \/ Run \/ Queue \/ Publish \/ Return
Streams == CopyToDevice \/ Forward \/ CopyBack

Next == Call \/ Host \/ Streams

\* inference() runs to its end, and so does the work on the streams.
Spec == /\ Init /\ [][Next]_vars
        /\ WF_vars(Host) /\ WF_vars(CopyToDevice) /\ WF_vars(Forward) /\ WF_vars(CopyBack)

-----------------------------------------------------------------------------
Tensors == [batch : -1 .. config.samples, call : 0 .. MaxCalls]

\* Types of the state.
TypeOK ==
    /\ config \in Configs
    /\ pc \in {"app", "run"}
    /\ call \in 0 .. MaxCalls
    /\ next \in 0 .. NumBatches
    /\ elements \in Nat
    /\ \A e \in OutputRange : output[e] \in (0 .. MaxCalls) \X Int
    /\ overrun \in BOOLEAN
    /\ slots \in [0 .. 1 -> [batch : -1 .. config.samples, inputCpu : Tensors, inputGpu : Tensors,
                             outputGpu : Tensors, outputCpu : Tensors]]
    /\ h2d \in 0 .. next /\ compute \in 0 .. h2d /\ d2h \in 0 .. compute /\ published \in 0 .. d2h

\* Whatever the number of samples and the batch size, inference() returns with
\* every sample inferred from the input of this call and in its place, and writes
\* nothing outside of the output buffer.
OutputInPlace ==
    /\ pc = "app" => \A e \in OutputRange : output[e] = << call, e >>
    /\ ~overrun

\* "A slot is published before reuse": a batch that is queued and not published
\* keeps its slot.
BatchesHoldSlots ==
    config.backend = "torch async" => \A b \in published .. (next - 1) : slots[SlotOf(b)].batch = b

\* inference() returns.
InferenceReturns == pc = "run" ~> pc = "app"
=============================================================================
