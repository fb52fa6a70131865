-------------------------- MODULE InferenceProofs --------------------------
(***************************************************************************)
(* What inference() promises, on both sides: of the strategies, for every  *)
(* number of samples, every batch size and width and any number of calls,  *)
(* that the batch loops put every output in its place; of the service,     *)
(* what follows from the contract of Exchange for every workgroup.         *)
(***************************************************************************)
EXTENDS BatchedInference, TLAPS

-----------------------------------------------------------------------------
(***************************************************************************)
(* Batches                                                                 *)
(***************************************************************************)
Total == config.samples * config.outWidth

\* The elements of the output before batch b, all of them before one that does not
\* exist.
Done(b) == IF b < NumBatches THEN OutputFrom(b) ELSE Total

\* What the provers need of products.
LEMMA Products ==
    ASSUME NEW a \in Nat, NEW b \in Nat, NEW c \in Nat
    PROVE  /\ a * c \in Nat /\ a * b \in Nat
           /\ (a + b) * c = a * c + b * c
           /\ a <= b => a * c <= b * c
<1>1. a * c \in Nat /\ a * b \in Nat /\ (a + b) * c = a * c + b * c
    OBVIOUS
<1>2. ASSUME a <= b PROVE a * c <= b * c
  <2>1. b - a \in Nat /\ (b - a) * c \in Nat
      BY <1>2
  <2>2. b * c = a * c + (b - a) * c
      OBVIOUS
  <2>3. QED
      BY <2>1, <2>2
<1>3. QED
    BY <1>1, <1>2

\* What BatchAssumption says of the strategy at work.
LEMMA ConfigFacts ==
    ASSUME config \in Configs
    PROVE  /\ config.samples \in Nat /\ config.inWidth \in Nat /\ config.outWidth \in Nat
           /\ config.batchsize \in Nat /\ config.batchsize > 0
           /\ config.backend \in {"torch", "torch async", "tensorflow", "sol", "onnx"}
<1>1. /\ config.backend \in {"torch", "torch async", "tensorflow", "sol", "onnx"}
      /\ {config.samples, config.inWidth, config.outWidth} \subseteq Nat
      /\ config.batchsize \in Nat \ {0}
    BY BatchAssumption
<1>2. \A x \in {config.samples, config.inWidth, config.outWidth} : x \in Nat
    BY <1>1
<1>3. \A n \in Nat \ {0} : n \in Nat /\ n > 0
    OBVIOUS
<1>4. QED
    BY <1>1, <1>2, <1>3

\* Division into batches.
LEMMA BatchCount ==
    ASSUME config \in Configs
    PROVE  /\ FullBatches \in Nat /\ Remaining \in Nat /\ Remaining < config.batchsize
           /\ config.samples = FullBatches * config.batchsize + Remaining
           /\ NumBatches = IF Remaining > 0 THEN FullBatches + 1 ELSE FullBatches
           /\ NumBatches \in Nat /\ NumBatches <= config.samples
<1> DEFINE n == config.samples
           B == config.batchsize
           m == FullBatches
<1>1. n \in Nat /\ B \in Nat /\ B > 0
    BY ConfigFacts
<1>2. m \in Nat /\ Remaining \in Nat /\ Remaining < B /\ n = m * B + Remaining
    BY <1>1 DEF FullBatches, Remaining
<1>3. m <= m * B
  <2>1. 1 * m <= B * m
      BY <1>1, <1>2, Products
  <2>2. QED
      BY <2>1, <1>1, <1>2
<1>4. NumBatches \in Nat /\ NumBatches <= n
  <2> HIDE DEF m, n, B
  <2>1. NumBatches = IF Remaining > 0 THEN m + 1 ELSE m
      BY DEF NumBatches, m
  <2>2. m * B \in Nat
      BY <1>1, <1>2
  <2>3. QED
      BY <1>1, <1>2, <1>3, <2>1, <2>2
<1>5. QED
    BY <1>2, <1>4 DEF NumBatches

\* Batches follow one another in the output, and the last one ends with it.
LEMMA BatchFacts ==
    ASSUME config \in Configs, NEW b \in 0 .. NumBatches - 1
    PROVE  /\ OutputFrom(b) \in Nat /\ OutputLen(b) \in Nat
           /\ Done(b) = OutputFrom(b)
           /\ Done(b + 1) = OutputFrom(b) + OutputLen(b)
           /\ Done(b + 1) <= Total
           /\ b < FullBatches => OutputLen(b) = config.batchsize * config.outWidth
           /\ b = FullBatches => OutputLen(b) = Remaining * config.outWidth
<1> DEFINE n == config.samples
           B == config.batchsize
           W == config.outWidth
           m == FullBatches
           r == Remaining
<1>1. n \in Nat /\ B \in Nat /\ B > 0 /\ W \in Nat
    BY ConfigFacts
<1>2. m \in Nat /\ r \in Nat /\ r < B /\ n = m * B + r /\ NumBatches = IF r > 0 THEN m + 1 ELSE m
    BY BatchCount
<1>3. b \in Nat /\ b <= m /\ b < NumBatches /\ b + 1 \in Nat
    BY <1>2
<1>4. /\ OutputFrom(b) = b * B * W /\ OutputFrom(b + 1) = (b + 1) * B * W
      /\ OutputLen(b) = (IF B < n - b * B THEN B ELSE n - b * B) * W
      /\ Total = n * W
    BY DEF OutputFrom, OutputLen, BatchSize, Min2, Total
<1>5. Done(b) = OutputFrom(b)
    BY <1>3 DEF Done
<1>6. Done(b + 1) = IF b + 1 < NumBatches THEN OutputFrom(b + 1) ELSE Total
    BY DEF Done
<1> HIDE DEF n, B, W, m, r
<1>7. b * B \in Nat /\ b * B * W \in Nat /\ B * W \in Nat /\ m * B \in Nat /\ n * W \in Nat /\ r * W \in Nat
    BY <1>1, <1>2, <1>3, Products
<1>8. (b + 1) * B = b * B + B /\ (b + 1) * B * W = b * B * W + B * W
    BY <1>1, <1>3, <1>7, Products
<1>9. CASE b < m
  <2>1. (b + 1) * B <= m * B
      BY <1>9, <1>1, <1>2, <1>3, Products
  <2>2. OutputLen(b) = B * W
      BY <2>1, <1>1, <1>2, <1>4, <1>7, <1>8
  <2>3. (b + 1) * B \in Nat /\ (b + 1) * B <= n
      BY <2>1, <1>1, <1>2, <1>7, <1>8
  <2>4. (b + 1) * B * W <= n * W
      BY <2>3, <1>1, Products
  <2>5. CASE b + 1 < NumBatches
      BY <2>2, <2>4, <2>5, <1>4, <1>5, <1>6, <1>7, <1>8, <1>9 DEF B, W, m
  <2>6. CASE ~(b + 1 < NumBatches)
    <3>1. b + 1 = m /\ r = 0
        BY <2>6, <1>2, <1>9, <1>3
    <3>2. n = (b + 1) * B
        BY <3>1, <1>2, <1>7
    <3>3. Done(b + 1) = OutputFrom(b) + OutputLen(b) /\ Done(b + 1) = Total
        BY <3>2, <2>6, <2>2, <1>4, <1>6, <1>7, <1>8
    <3>4. QED
        BY <3>3, <2>2, <1>4, <1>5, <1>7, <1>9 DEF B, W, m
  <2>7. QED
      BY <2>5, <2>6
<1>10. CASE b = m
  <2>1. r > 0 /\ ~(b + 1 < NumBatches)
      BY <1>10, <1>2, <1>3
  <2>2. n - b * B = r
      BY <1>10, <1>2, <1>7
  <2>3. OutputLen(b) = r * W
      BY <2>2, <1>1, <1>2, <1>4
  <2>4. n * W = b * B * W + r * W
      BY <1>10, <1>1, <1>2, <1>7, Products
  <2>5. QED
      BY <2>1, <2>3, <2>4, <1>4, <1>5, <1>6, <1>7, <1>10 DEF W, m, r
<1>11. QED
    BY <1>9, <1>10, <1>2, <1>3

\* Nothing comes before the first batch, and everything before the end.
LEMMA DoneEnds ==
    ASSUME config \in Configs
    PROVE  Done(0) = 0 /\ Done(NumBatches) = Total /\ Total \in Nat
<1>1. config.samples \in Nat /\ config.outWidth \in Nat /\ config.batchsize \in Nat /\ NumBatches \in Nat
    BY ConfigFacts, BatchCount
<1>2. Total \in Nat
    BY <1>1 DEF Total
<1>3. Done(NumBatches) = Total
    BY <1>1 DEF Done
<1>4. Done(0) = 0
  <2>1. CASE 0 < NumBatches
    <3>1. OutputFrom(0) = 0
        BY <1>1 DEF OutputFrom
    <3>2. QED
        BY <2>1, <3>1 DEF Done
  <2>2. CASE NumBatches = 0
    <3>1. FullBatches = 0 /\ Remaining = 0
        BY <2>2, BatchCount
    <3>2. config.samples = 0
        BY <3>1, <1>1, BatchCount
    <3>3. QED
        BY <3>2, <2>2, <1>1 DEF Done, Total
  <2>3. QED
      BY <1>1, <2>1, <2>2
<1>5. QED
    BY <1>2, <1>3, <1>4

-----------------------------------------------------------------------------
(***************************************************************************)
(* The invariant                                                           *)
(***************************************************************************)
Async == config.backend = "torch async"

\* The limits of the two findings: SOL models have outputs as wide as their inputs,
\* ONNX Runtime has at most two batches to infer.
InStride ==
    /\ config.backend = "sol" => config.inWidth = config.outWidth
    /\ config.backend = "onnx" => config.samples <= 2 * config.batchsize

\* The batches before b are in the output, inferred from the input of this call.
Inferred(b) == \A e \in OutputRange : e <= Done(b) => output[e] = << call, e >>

\* Streams are at work in the asynchronous pipeline only, and there on the last two
\* batches, each of which has the slot of its parity.
SlotsInv ==
    /\ ~Async => h2d = 0 /\ published = 0
    /\ Async =>
          /\ next <= published + 2
          /\ pc = "app" => published = next
          /\ \A b \in published .. (next - 1) :
                LET slot == slots[SlotOf(b)] IN
                /\ slot.batch = b
                /\ ~config.pinnedInput => slot.inputCpu = Tensor(b, call)
                /\ b < h2d => slot.inputGpu = Tensor(b, call)
                /\ b < compute => slot.outputGpu = Tensor(b, call)
                /\ b < d2h /\ ~config.pinnedOutput => slot.outputCpu = Tensor(b, call)

\* The batches whose outputs are in the buffer: a pinned one is written by the
\* stream, another one when a slot is published.
Written == IF ~Async THEN next ELSE IF config.pinnedOutput THEN d2h ELSE published

PlaceInv ==
    /\ ~overrun
    /\ config.backend = "onnx" /\ pc = "run" /\ next < NumBatches => elements = OutputFrom(next)
    /\ pc = "run" => Inferred(Written)
    /\ pc = "app" => \A e \in OutputRange : output[e] = << call, e >>

IInv == TypeOK /\ SlotsInv /\ (InStride => PlaceInv)

\* Neighbouring batches have different slots.
LEMMA SlotParity == \A b \in Nat : SlotOf(b) \in 0 .. 1 /\ SlotOf(b + 1) # SlotOf(b)
BY DEF SlotOf

SlotTypes == [batch : -1 .. config.samples, inputCpu : Tensors, inputGpu : Tensors,
              outputGpu : Tensors, outputCpu : Tensors]

\* What the steps need of the types.
LEMMA TypeFacts ==
    ASSUME TypeOK
    PROVE  /\ config \in Configs /\ config.samples \in Nat /\ NumBatches \in Nat
           /\ NumBatches <= config.samples
           /\ call \in 0 .. MaxCalls /\ call \in Nat /\ MaxCalls \in Nat
           /\ next \in Nat /\ next <= NumBatches
           /\ h2d \in Nat /\ h2d <= next /\ compute \in Nat /\ compute <= h2d
           /\ d2h \in Nat /\ d2h <= compute /\ published \in Nat /\ published <= d2h
           /\ slots \in [0 .. 1 -> SlotTypes]
<1>1. config \in Configs /\ MaxCalls \in Nat
    BY BatchAssumption DEF TypeOK
<1>2. config.samples \in Nat /\ NumBatches \in Nat /\ NumBatches <= config.samples
    BY <1>1, ConfigFacts, BatchCount
<1>3. next \in Nat /\ next <= NumBatches /\ h2d \in Nat /\ h2d <= next
    BY <1>2 DEF TypeOK
<1>4. compute \in Nat /\ compute <= h2d /\ d2h \in Nat /\ d2h <= compute
    BY <1>3 DEF TypeOK
<1>5. published \in Nat /\ published <= d2h /\ call \in 0 .. MaxCalls /\ call \in Nat
    BY <1>1, <1>4 DEF TypeOK
<1>6. slots \in [0 .. 1 -> SlotTypes]
    BY DEF TypeOK, SlotTypes
<1>7. QED
    BY <1>1, <1>2, <1>3, <1>4, <1>5, <1>6

\* The place of any batch.
LEMMA OffsetTypes ==
    ASSUME TypeOK, NEW b \in Int
    PROVE  OutputFrom(b) \in Int /\ OutputLen(b) \in Int
<1>1. \A x \in Int, y \in Int : x * y \in Int
    OBVIOUS
<1>2. config.batchsize \in Int /\ config.outWidth \in Int /\ config.samples \in Int
  <2>1. config \in Configs
      BY TypeFacts
  <2>2. config.batchsize \in Nat /\ config.outWidth \in Nat /\ config.samples \in Nat
      BY <2>1, ConfigFacts
  <2>3. QED
      BY <2>2
<1>3. b * config.batchsize \in Int
    BY <1>1, <1>2
<1>4. BatchSize(b) \in Int
    BY <1>2, <1>3 DEF BatchSize, Min2
<1>5. QED
    BY <1>1, <1>2, <1>3, <1>4 DEF OutputFrom, OutputLen

\* A copy to the output keeps its types.
LEMMA CopyTypes ==
    ASSUME TypeOK, UNCHANGED << config, call >>, NEW tensor \in Tensors, NEW offset \in Int,
           NEW len \in Int, CopyOut(tensor, offset, len)
    PROVE  (\A e \in OutputRange : output[e] \in (0 .. MaxCalls) \X Int)' /\ overrun' \in BOOLEAN
<1>1. tensor.call \in 0 .. MaxCalls /\ tensor.batch \in Int
    BY DEF Tensors
<1>3. OutputFrom(tensor.batch) \in Int
    BY <1>1, OffsetTypes
<1>4. OutputRange' = OutputRange /\ OutputRange \subseteq Int
    BY DEF OutputRange
<1>5. \A e \in OutputRange : output'[e] = IF e \in (offset + 1) .. (offset + len)
                                          THEN << tensor.call, OutputFrom(tensor.batch) + e - offset >>
                                          ELSE output[e]
    BY DEF CopyOut
<1>6. overrun' \in BOOLEAN
    BY DEF CopyOut, TypeOK
<1>7. ASSUME NEW e \in OutputRange PROVE output'[e] \in (0 .. MaxCalls) \X Int
  <2>1. OutputFrom(tensor.batch) + e - offset \in Int /\ output[e] \in (0 .. MaxCalls) \X Int
      BY <1>3, <1>4 DEF TypeOK
  <2>2. << tensor.call, OutputFrom(tensor.batch) + e - offset >> \in (0 .. MaxCalls) \X Int
      BY <1>1, <2>1
  <2>3. QED
      BY <1>5, <2>1, <2>2
<1>8. QED
    BY <1>4, <1>6, <1>7

LEMMA TypeInit == Init => TypeOK
<1> SUFFICES ASSUME Init PROVE TypeOK
    OBVIOUS
<1>1. config \in Configs /\ MaxCalls \in Nat
    BY BatchAssumption DEF Init
<1>2. config.samples \in Nat /\ NumBatches \in Nat
    BY <1>1, ConfigFacts, BatchCount
<1>3. NoTensor \in Tensors
    BY <1>1, <1>2 DEF NoTensor, Tensor, Tensors
<1>4. EmptySlot \in SlotTypes
    BY <1>2, <1>3 DEF EmptySlot, SlotTypes
<1>5. slots \in [0 .. 1 -> SlotTypes]
    BY <1>4 DEF Init
<1>6. \A e \in OutputRange : output[e] \in (0 .. MaxCalls) \X Int
  <2>1. OutputRange \subseteq Int /\ 0 \in 0 .. MaxCalls
      BY <1>1 DEF OutputRange
  <2>2. QED
      BY <2>1 DEF Init
<1>7. /\ pc = "app" /\ call = 0 /\ next = 0 /\ elements = 0 /\ overrun = FALSE
      /\ h2d = 0 /\ compute = 0 /\ d2h = 0 /\ published = 0
    BY DEF Init
<1>8. 0 \in 0 .. NumBatches /\ 0 \in 0 .. 0 /\ 0 \in 0 .. MaxCalls /\ 0 \in Nat
    BY <1>1, <1>2
<1>9. slots \in [0 .. 1 -> [batch : -1 .. config.samples, inputCpu : Tensors,
                            inputGpu : Tensors, outputGpu : Tensors, outputCpu : Tensors]]
    BY <1>5 DEF SlotTypes
<1>10. QED
    BY <1>1, <1>6, <1>7, <1>8, <1>9 DEF TypeOK

\* The batch about to be inferred, and its sizes.
LEMMA TensorTypes ==
    ASSUME TypeOK, NEW b \in Nat, b < NumBatches
    PROVE  /\ Tensor(b, call) \in Tensors
           /\ OutputFrom(b) \in Nat /\ OutputLen(b) \in Nat /\ TensorOffset(b) \in Nat
           /\ config.batchsize * config.outWidth \in Nat /\ Remaining * config.outWidth \in Nat
<1>1. Tensor(b, call) \in Tensors
    BY TypeFacts DEF Tensor, Tensors
<1>2. b \in 0 .. NumBatches - 1
    BY TypeFacts
<1>3. OutputFrom(b) \in Nat /\ OutputLen(b) \in Nat
    BY <1>2, TypeFacts, BatchFacts
<1>4. /\ config.batchsize \in Nat /\ config.outWidth \in Nat /\ config.inWidth \in Nat
      /\ Remaining \in Nat
    BY TypeFacts, ConfigFacts, BatchCount
<1>5. b * config.batchsize \in Nat /\ b * config.batchsize * config.inWidth \in Nat
    BY <1>4, Products
<1>6. config.batchsize * config.outWidth \in Nat /\ Remaining * config.outWidth \in Nat
    BY <1>4, Products
<1>7. QED
    BY <1>1, <1>3, <1>5, <1>6 DEF TensorOffset

\* The types of what stays when a batch is copied out by the host.
LEMMA HostTypes ==
    ASSUME TypeOK, next < NumBatches, next' = next + 1, elements' \in Nat,
           NEW tensor \in Tensors, NEW offset \in Int, NEW len \in Int,
           CopyOut(tensor, offset, len), UNCHANGED << config, pc, call, asyncVars >>
    PROVE  TypeOK'
<1>1. (\A e \in OutputRange : output[e] \in (0 .. MaxCalls) \X Int)' /\ overrun' \in BOOLEAN
    BY CopyTypes
<1>2. next' \in 0 .. NumBatches /\ h2d \in 0 .. next'
    BY TypeFacts
<1>3. NumBatches' = NumBatches /\ Tensors' = Tensors
    BY DEF NumBatches, FullBatches, Remaining, Tensors
<1>4. QED
    BY <1>1, <1>2, <1>3 DEF TypeOK, asyncVars

\* What stays with the strategy.
LEMMA ConfigStays ==
    ASSUME config' = config
    PROVE  /\ NumBatches' = NumBatches /\ Tensors' = Tensors /\ OutputRange' = OutputRange
           /\ SlotTypes' = SlotTypes /\ (Async <=> Async') /\ (InStride <=> InStride')
           /\ \A b : Done(b)' = Done(b)
<1>1. NumBatches' = NumBatches /\ Tensors' = Tensors /\ OutputRange' = OutputRange
    BY DEF NumBatches, FullBatches, Remaining, Tensors, OutputRange
<1>2. SlotTypes' = SlotTypes /\ (Async <=> Async') /\ (InStride <=> InStride')
    BY <1>1 DEF SlotTypes, Async, InStride
<1>3. \A b : Done(b)' = Done(b)
    BY <1>1 DEF Done, OutputFrom, Total
<1>4. QED
    BY <1>1, <1>2, <1>3

\* The types of what stays when a stream, or the host for the streams, takes a step.
LEMMA StreamTypes ==
    ASSUME TypeOK, UNCHANGED << config, pc, call, elements >>, slots' \in [0 .. 1 -> SlotTypes],
           (\A e \in OutputRange : output[e] \in (0 .. MaxCalls) \X Int)', overrun' \in BOOLEAN,
           next' \in 0 .. NumBatches, h2d' \in 0 .. next', compute' \in 0 .. h2d',
           d2h' \in 0 .. compute', published' \in 0 .. d2h'
    PROVE  TypeOK'
<1>1. NumBatches' = NumBatches /\ Tensors' = Tensors
    BY ConfigStays
<1>2. QED
    BY <1>1 DEF TypeOK, SlotTypes

\* A step forward of one of the counters, within the next one.
LEMMA RangesKept ==
    ASSUME TypeOK,
           next' = next \/ (next' = next + 1 /\ next < NumBatches),
           h2d' = h2d \/ (h2d' = h2d + 1 /\ h2d < next /\ next' = next),
           compute' = compute \/ (compute' = compute + 1 /\ compute < h2d /\ h2d' = h2d),
           d2h' = d2h \/ (d2h' = d2h + 1 /\ d2h < compute /\ compute' = compute),
           \/ published' = published
           \/ published' = published + 1 /\ published < d2h /\ d2h' = d2h
    PROVE  /\ next' \in 0 .. NumBatches /\ h2d' \in 0 .. next' /\ compute' \in 0 .. h2d'
           /\ d2h' \in 0 .. compute' /\ published' \in 0 .. d2h'
<1>1. /\ NumBatches \in Nat /\ next \in Nat /\ next <= NumBatches /\ h2d \in Nat /\ h2d <= next
      /\ compute \in Nat /\ compute <= h2d /\ d2h \in Nat /\ d2h <= compute
      /\ published \in Nat /\ published <= d2h
    BY TypeFacts
<1>2. QED
    BY <1>1

LEMMA TypeStep == TypeOK /\ [Next]_vars => TypeOK'
<1> SUFFICES ASSUME TypeOK, [Next]_vars PROVE TypeOK'
    OBVIOUS
<1>1. CASE UNCHANGED vars
  <2>1. NumBatches' = NumBatches /\ Tensors' = Tensors /\ OutputRange' = OutputRange
      BY <1>1, ConfigStays DEF vars
  <2>2. QED
      BY <1>1, <2>1 DEF vars, asyncVars, TypeOK
<1>2. CASE Call
  <2>1. NumBatches' = NumBatches /\ Tensors' = Tensors /\ OutputRange' = OutputRange
      BY <1>2, ConfigStays DEF Call
  <2>2. call' \in 0 .. MaxCalls /\ 0 \in 0 .. NumBatches /\ 0 \in 0 .. 0
      BY <1>2, TypeFacts DEF Call
  <2>3. QED
      BY <1>2, <2>1, <2>2 DEF Call, TypeOK
<1>3. CASE Slice
  <2>1. next \in Nat /\ next < NumBatches
      BY <1>3, TypeFacts DEF Slice
  <2>2. Tensor(next, call) \in Tensors /\ OutputFrom(next) \in Int /\ OutputLen(next) \in Int
      BY <2>1, TensorTypes
  <2>3. elements' \in Nat
      BY <1>3 DEF Slice, TypeOK
  <2>4. QED
      BY <1>3, <2>1, <2>2, <2>3, HostTypes DEF Slice
<1>4. CASE WholeBatch
  <2>1. next \in Nat /\ next < NumBatches
      BY <1>4, TypeFacts, BatchCount DEF WholeBatch
  <2>2. /\ Tensor(next, call) \in Tensors /\ TensorOffset(next) \in Int
        /\ config.batchsize * config.outWidth \in Int
      BY <2>1, TensorTypes
  <2>3. elements' \in Nat
      BY <1>4 DEF WholeBatch, TypeOK
  <2>4. QED
      BY <1>4, <2>1, <2>2, <2>3, HostTypes DEF WholeBatch
<1>5. CASE RemainderBatch
  <2>1. next \in Nat /\ next < NumBatches
      BY <1>5, TypeFacts, BatchCount DEF RemainderBatch
  <2>2. /\ Tensor(next, call) \in Tensors /\ TensorOffset(next) \in Int
        /\ Remaining * config.outWidth \in Int
      BY <2>1, TensorTypes
  <2>3. elements' \in Nat
      BY <1>5 DEF RemainderBatch, TypeOK
  <2>4. QED
      BY <1>5, <2>1, <2>2, <2>3, HostTypes DEF RemainderBatch
<1>6. CASE Run
  <2>1. next \in Nat /\ next < NumBatches
      BY <1>6, TypeFacts DEF Run
  <2>2. Tensor(next, call) \in Tensors /\ OutputLen(next) \in Nat
      BY <2>1, TensorTypes
  <2>3. elements \in Int /\ elements' \in Nat
      BY <1>6, <2>2 DEF Run, TypeOK
  <2>4. QED
      BY <1>6, <2>1, <2>2, <2>3, HostTypes DEF Run
<1>7. CASE Queue
  <2>1. next \in Nat /\ next < NumBatches /\ next \in -1 .. config.samples
    <3>1. next < NumBatches
        BY <1>7 DEF Queue
    <3>2. QED
        BY <3>1, TypeFacts
  <2>2. Tensor(next, call) \in Tensors /\ NoTensor \in Tensors
    <3>1. Tensor(next, call) \in Tensors
        BY <2>1, TensorTypes
    <3>2. NoTensor \in Tensors
        BY TypeFacts DEF NoTensor, Tensor, Tensors
    <3>3. QED
        BY <3>1, <3>2
  <2>3. ASSUME NEW t \in Tensors PROVE [EmptySlot EXCEPT !.batch = next, !.inputCpu = t] \in SlotTypes
      BY <2>1, <2>2 DEF EmptySlot, SlotTypes
  <2>4. slots' \in [0 .. 1 -> SlotTypes]
      BY <1>7, <2>2, <2>3, TypeFacts DEF Queue
  <2>5. (\A e \in OutputRange : output[e] \in (0 .. MaxCalls) \X Int)' /\ overrun' \in BOOLEAN
      BY <1>7, ConfigStays DEF Queue, TypeOK
  <2>6. /\ next' \in 0 .. NumBatches /\ h2d' \in 0 .. next' /\ compute' \in 0 .. h2d'
        /\ d2h' \in 0 .. compute' /\ published' \in 0 .. d2h'
    <3>1. /\ next' = next + 1 /\ h2d' = h2d /\ compute' = compute
          /\ d2h' = d2h /\ published' = published /\ next < NumBatches
        BY <1>7 DEF Queue
    <3>2. QED
        BY <3>1, RangesKept
  <2>7. QED
      BY <1>7, <2>4, <2>5, <2>6, StreamTypes DEF Queue
<1>8. CASE Publish
  <2>1. /\ next' \in 0 .. NumBatches /\ h2d' \in 0 .. next' /\ compute' \in 0 .. h2d'
        /\ d2h' \in 0 .. compute' /\ published' \in 0 .. d2h'
    <3>1. /\ next' = next /\ h2d' = h2d /\ compute' = compute
          /\ d2h' = d2h /\ published' = published + 1 /\ d2h > published
        BY <1>8 DEF Publish
    <3>2. QED
        BY <3>1, RangesKept
  <2>2. slots' \in [0 .. 1 -> SlotTypes]
      BY <1>8, TypeFacts DEF Publish
  <2>3. (\A e \in OutputRange : output[e] \in (0 .. MaxCalls) \X Int)' /\ overrun' \in BOOLEAN
    <3>1. CASE config.pinnedOutput
        BY <1>8, <3>1, ConfigStays DEF Publish, TypeOK
    <3>2. CASE ~config.pinnedOutput
      <4> DEFINE slot == slots[SlotOf(published)]
      <4>1. slot \in SlotTypes
          BY TypeFacts, SlotParity
      <4>2. slot.outputCpu \in Tensors /\ slot.batch \in -1 .. config.samples
          BY <4>1 DEF SlotTypes
      <4>3. OutputFrom(slot.batch) \in Int /\ OutputLen(slot.batch) \in Int
          BY <4>2, OffsetTypes
      <4>4. CopyOut(slot.outputCpu, OutputFrom(slot.batch), OutputLen(slot.batch))
          BY <1>8, <3>2 DEF Publish
      <4>5. QED
          BY <1>8, <4>2, <4>3, <4>4, CopyTypes DEF Publish
    <3>3. QED
        BY <3>1, <3>2
  <2>4. QED
      BY <1>8, <2>1, <2>2, <2>3, StreamTypes DEF Publish
<1>9. CASE Return
  <2>1. NumBatches' = NumBatches /\ Tensors' = Tensors /\ OutputRange' = OutputRange
      BY <1>9, ConfigStays DEF Return
  <2>2. QED
      BY <1>9, <2>1 DEF Return, asyncVars, TypeOK
<1>10. CASE CopyToDevice
  <2>1. /\ next' \in 0 .. NumBatches /\ h2d' \in 0 .. next' /\ compute' \in 0 .. h2d'
        /\ d2h' \in 0 .. compute' /\ published' \in 0 .. d2h'
    <3>1. /\ next' = next /\ h2d' = h2d + 1 /\ compute' = compute
          /\ d2h' = d2h /\ published' = published /\ h2d < next
        BY <1>10 DEF CopyToDevice, Queued
    <3>2. QED
        BY <3>1, RangesKept
  <2>2. (\A e \in OutputRange : output[e] \in (0 .. MaxCalls) \X Int)' /\ overrun' \in BOOLEAN
      BY <1>10, ConfigStays DEF CopyToDevice, TypeOK
  <2>3. slots' \in [0 .. 1 -> SlotTypes]
    <3> DEFINE k == SlotOf(h2d)
               t == IF config.pinnedInput THEN Tensor(slots[k].batch, call) ELSE slots[k].inputCpu
    <3>1. k \in 0 .. 1 /\ slots[k] \in SlotTypes
        BY TypeFacts, SlotParity
    <3>2. t \in Tensors
        BY <3>1, TypeFacts DEF SlotTypes, Tensor, Tensors
    <3>3. [slots[k] EXCEPT !.inputGpu = t] \in SlotTypes
        BY <3>1, <3>2 DEF SlotTypes
    <3>4. slots' = [slots EXCEPT ![k] = [slots[k] EXCEPT !.inputGpu = t]]
        BY <1>10, <3>1, TypeFacts DEF CopyToDevice
    <3>5. QED
        BY <3>1, <3>3, <3>4, TypeFacts
  <2>4. QED
      BY <1>10, <2>1, <2>2, <2>3, StreamTypes DEF CopyToDevice
<1>11. CASE Forward
  <2>1. /\ next' \in 0 .. NumBatches /\ h2d' \in 0 .. next' /\ compute' \in 0 .. h2d'
        /\ d2h' \in 0 .. compute' /\ published' \in 0 .. d2h'
    <3>1. /\ next' = next /\ h2d' = h2d /\ compute' = compute + 1
          /\ d2h' = d2h /\ published' = published /\ compute < h2d
        BY <1>11 DEF Forward
    <3>2. QED
        BY <3>1, RangesKept
  <2>2. (\A e \in OutputRange : output[e] \in (0 .. MaxCalls) \X Int)' /\ overrun' \in BOOLEAN
      BY <1>11, ConfigStays DEF Forward, TypeOK
  <2>3. slots' \in [0 .. 1 -> SlotTypes]
    <3> DEFINE k == SlotOf(compute)
    <3>1. k \in 0 .. 1 /\ slots[k] \in SlotTypes
        BY TypeFacts, SlotParity
    <3>2. [slots[k] EXCEPT !.outputGpu = slots[k].inputGpu] \in SlotTypes
        BY <3>1 DEF SlotTypes
    <3>3. slots' = [slots EXCEPT ![k] = [slots[k] EXCEPT !.outputGpu = slots[k].inputGpu]]
        BY <1>11, <3>1, TypeFacts DEF Forward
    <3>4. QED
        BY <3>1, <3>2, <3>3, TypeFacts
  <2>4. QED
      BY <1>11, <2>1, <2>2, <2>3, StreamTypes DEF Forward
<1>12. CASE CopyBack
  <2> DEFINE k == SlotOf(d2h)
             slot == slots[k]
  <2>1. /\ next' \in 0 .. NumBatches /\ h2d' \in 0 .. next' /\ compute' \in 0 .. h2d'
        /\ d2h' \in 0 .. compute' /\ published' \in 0 .. d2h'
    <3>1. /\ next' = next /\ h2d' = h2d /\ compute' = compute
          /\ d2h' = d2h + 1 /\ published' = published /\ d2h < compute
        BY <1>12 DEF CopyBack
    <3>2. QED
        BY <3>1, RangesKept
  <2>2. k \in 0 .. 1 /\ slot \in SlotTypes
      BY TypeFacts, SlotParity
  <2>3. slot.outputGpu \in Tensors /\ slot.batch \in -1 .. config.samples
      BY <2>2 DEF SlotTypes
  <2>4. CASE config.pinnedOutput
    <3>1. OutputFrom(slot.batch) \in Int /\ OutputLen(slot.batch) \in Int
        BY <2>3, OffsetTypes
    <3>2. CopyOut(slot.outputGpu, OutputFrom(slot.batch), OutputLen(slot.batch)) /\ slots' = slots
        BY <1>12, <2>4 DEF CopyBack
    <3>3. (\A e \in OutputRange : output[e] \in (0 .. MaxCalls) \X Int)' /\ overrun' \in BOOLEAN
        BY <1>12, <2>3, <3>1, <3>2, CopyTypes DEF CopyBack
    <3>4. slots' \in [0 .. 1 -> SlotTypes]
        BY <3>2, TypeFacts
    <3>5. QED
        BY <1>12, <2>1, <3>3, <3>4, StreamTypes DEF CopyBack
  <2>5. CASE ~config.pinnedOutput
    <3>1. slots' = [slots EXCEPT ![k] = [slot EXCEPT !.outputCpu = slot.outputGpu]]
        BY <1>12, <2>2, <2>5, TypeFacts DEF CopyBack
    <3>2. [slot EXCEPT !.outputCpu = slot.outputGpu] \in SlotTypes
        BY <2>2 DEF SlotTypes
    <3>3. slots' \in [0 .. 1 -> SlotTypes]
        BY <2>2, <3>1, <3>2, TypeFacts
    <3>4. (\A e \in OutputRange : output[e] \in (0 .. MaxCalls) \X Int)' /\ overrun' \in BOOLEAN
        BY <1>12, <2>5, ConfigStays DEF CopyBack, TypeOK
    <3>5. QED
        BY <1>12, <2>1, <3>3, <3>4, StreamTypes DEF CopyBack
  <2>6. QED
      BY <2>4, <2>5
<1>13. QED
    BY <1>1, <1>2, <1>3, <1>4, <1>5, <1>6, <1>7, <1>8, <1>9, <1>10, <1>11, <1>12
       DEF Next, Host, Streams

-----------------------------------------------------------------------------
(***************************************************************************)
(* The two slots                                                           *)
(***************************************************************************)
\* What a slot holds of the batch it was queued for, when the streams are through
\* with the batches before a, c and d.
Holds(slot, b, a, c, d) ==
    /\ slot.batch = b
    /\ ~config.pinnedInput => slot.inputCpu = Tensor(b, call)
    /\ b < a => slot.inputGpu = Tensor(b, call)
    /\ b < c => slot.outputGpu = Tensor(b, call)
    /\ b < d /\ ~config.pinnedOutput => slot.outputCpu = Tensor(b, call)

LEMMA SlotsInvIs ==
    SlotsInv <=> /\ ~Async => h2d = 0 /\ published = 0
                 /\ Async => /\ next <= published + 2
                             /\ pc = "app" => published = next
                             /\ \A b \in published .. (next - 1) :
                                   Holds(slots[SlotOf(b)], b, h2d, compute, d2h)
BY DEF SlotsInv, Holds

\* Two batches that are queued and not published have different slots.
LEMMA SlotsApart ==
    ASSUME NEW n \in Nat, NEW p \in Nat, n <= p + 2,
           NEW b \in p .. (n - 1), NEW c \in p .. (n - 1), b # c
    PROVE  SlotOf(b) # SlotOf(c)
<1>1. b \in Nat /\ c \in Nat /\ (b = c + 1 \/ c = b + 1)
    OBVIOUS
<1>2. QED
    BY <1>1, SlotParity

\* A stream that fills the slot of its next batch, x, leaves those of the other
\* batches alone.
LEMMA SlotsFilled ==
    ASSUME TypeOK, SlotsInv, Async, UNCHANGED << config, pc, call, next, published >>,
           NEW x \in published .. (next - 1), NEW slot,
           slots' = [slots EXCEPT ![SlotOf(x)] = slot],
           Holds(slot, x, h2d', compute', d2h'),
           \A b \in (published .. (next - 1)) \ {x} : /\ b < h2d' <=> b < h2d
                                                      /\ b < compute' <=> b < compute
                                                      /\ b < d2h' <=> b < d2h
    PROVE  SlotsInv'
<1>1. /\ next \in Nat /\ published \in Nat /\ next <= published + 2 /\ x \in Nat
      /\ slots \in [0 .. 1 -> SlotTypes] /\ SlotOf(x) \in 0 .. 1
  <2>1. next \in Nat /\ published \in Nat /\ slots \in [0 .. 1 -> SlotTypes]
      BY TypeFacts
  <2>2. QED
      BY <2>1, SlotParity, SlotsInvIs
<1>2. Holds(slots'[SlotOf(x)], x, h2d', compute', d2h')
    BY <1>1
<1>3. ASSUME NEW b \in published .. (next - 1), b # x
      PROVE  Holds(slots'[SlotOf(b)], b, h2d', compute', d2h')
  <2>1. b \in Nat
      BY <1>1, <1>3
  <2>2. SlotOf(b) # SlotOf(x)
      BY <1>1, <1>3, SlotsApart
  <2>3. slots'[SlotOf(b)] = slots[SlotOf(b)]
      BY <1>1, <2>1, <2>2, SlotParity
  <2>4. Holds(slots[SlotOf(b)], b, h2d, compute, d2h)
      BY SlotsInvIs
  <2>5. QED
      BY <1>3, <2>3, <2>4 DEF Holds
<1>4. \A b \in published .. (next - 1) : Holds(slots'[SlotOf(b)], b, h2d', compute', d2h')
    BY <1>2, <1>3
<1>5. \A b : SlotOf(b)' = SlotOf(b)
    BY DEF SlotOf
<1>6. \A b \in published' .. (next' - 1) : Holds(slots[SlotOf(b)], b, h2d, compute, d2h)'
    BY <1>4, <1>5 DEF Holds, Tensor
<1>7. Async' /\ next' <= published' + 2 /\ (pc' = "app" => published' = next')
    BY SlotsInvIs, <1>1, ConfigStays
<1>8. QED
    BY <1>6, <1>7 DEF SlotsInv, Holds

LEMMA SlotsInit == Init => SlotsInv
BY DEF Init, SlotsInv

\* A step of the host that is none of the pipeline.
LEMMA SynchronousSlots ==
    ASSUME SlotsInv, ~Async, UNCHANGED << config, h2d, published >>
    PROVE  SlotsInv'
BY ConfigStays DEF SlotsInv

LEMMA SlotsStep == TypeOK /\ SlotsInv /\ [Next]_vars => SlotsInv'
<1> SUFFICES ASSUME TypeOK, SlotsInv, [Next]_vars PROVE SlotsInv'
    OBVIOUS
<1>1. CASE UNCHANGED vars
    BY <1>1, ConfigStays DEF vars, asyncVars, SlotsInv, SlotOf, Tensor
<1>2. CASE Call
  <2>1. published' = 0 /\ next' = 0 /\ h2d' = 0 /\ pc' = "run"
      BY <1>2 DEF Call
  <2>2. 0 .. (0 - 1) = {} /\ 0 <= 0 + 2
      OBVIOUS
  <2>3. QED
      BY <2>1, <2>2 DEF SlotsInv
<1>3. CASE Slice
    BY <1>3, SynchronousSlots DEF Slice, Running, Async, asyncVars
<1>4. CASE WholeBatch
    BY <1>4, SynchronousSlots DEF WholeBatch, Running, Async, asyncVars
<1>5. CASE RemainderBatch
    BY <1>5, SynchronousSlots DEF RemainderBatch, Running, Async, asyncVars
<1>6. CASE Run
    BY <1>6, SynchronousSlots DEF Run, Running, Async, asyncVars
<1>7. CASE Queue
  <2>1. /\ Async /\ pc = "run" /\ next < NumBatches /\ (next >= 2 => published > next - 2)
        /\ next' = next + 1 /\ UNCHANGED << config, pc, call, h2d, compute, d2h, published >>
      BY <1>7 DEF Queue, Running, Async
  <2>2. /\ next \in Nat /\ published \in Nat /\ published <= next /\ h2d \in Nat /\ h2d <= next
        /\ compute \in Nat /\ compute <= next /\ d2h \in Nat /\ d2h <= next
        /\ slots \in [0 .. 1 -> SlotTypes]
      BY TypeFacts
  <2>3. next - 1 <= published /\ next' <= published + 2
      BY <2>1, <2>2
  <2> DEFINE new == [EmptySlot EXCEPT !.batch = next,
                                      !.inputCpu = IF config.pinnedInput THEN NoTensor
                                                   ELSE Tensor(next, call)]
  <2>4. slots' = [slots EXCEPT ![SlotOf(next)] = new] /\ SlotOf(next) \in 0 .. 1
      BY <1>7, <2>2, SlotParity DEF Queue
  <2>5. Holds(new, next, h2d, compute, d2h)
      BY <2>2 DEF Holds, EmptySlot
  <2> HIDE DEF new
  <2>6. ASSUME NEW b \in published .. next
        PROVE  Holds(slots'[SlotOf(b)], b, h2d, compute, d2h)
    <3>1. CASE b = next
        BY <3>1, <2>2, <2>4, <2>5
    <3>2. CASE b # next
      <4>1. b \in Nat /\ next = b + 1 /\ b \in published .. (next - 1)
          BY <3>2, <2>2, <2>3
      <4>2. slots'[SlotOf(b)] = slots[SlotOf(b)]
          BY <4>1, <2>2, <2>4, SlotParity
      <4>3. QED
          BY <4>1, <4>2, <2>1, SlotsInvIs
    <3>3. QED
        BY <3>1, <3>2
  <2>7. \A b \in published' .. (next' - 1) : Holds(slots[SlotOf(b)], b, h2d, compute, d2h)'
      BY <2>1, <2>2, <2>6 DEF Holds, Tensor, SlotOf
  <2>8. Async' /\ pc' # "app" /\ next' <= published' + 2
      BY <2>1, <2>3, ConfigStays
  <2>9. QED
      BY <2>7, <2>8 DEF SlotsInv, Holds
<1>8. CASE Publish
  <2>1. /\ Async /\ pc = "run" /\ published' = published + 1
        /\ UNCHANGED << config, pc, call, next, slots, h2d, compute, d2h >>
      BY <1>8 DEF Publish, Running, Async
  <2>2. next \in Nat /\ published \in Nat /\ next <= published + 2
      BY <2>1, TypeFacts, SlotsInvIs
  <2>3. \A b \in published' .. (next' - 1) : Holds(slots[SlotOf(b)], b, h2d, compute, d2h)
      BY <2>1, <2>2, SlotsInvIs
  <2>4. \A b \in published' .. (next' - 1) : Holds(slots[SlotOf(b)], b, h2d, compute, d2h)'
      BY <2>1, <2>3 DEF Holds, Tensor, SlotOf
  <2>5. Async' /\ pc' # "app" /\ next' <= published' + 2
      BY <2>1, <2>2, ConfigStays
  <2>6. QED
      BY <2>4, <2>5 DEF SlotsInv, Holds
<1>9. CASE Return
  <2>1. /\ UNCHANGED << config, call, next, slots, h2d, compute, d2h, published >>
        /\ Async => published = next
      BY <1>9 DEF Return, Finished, Async, asyncVars
  <2>2. QED
      BY <2>1, ConfigStays DEF SlotsInv, Tensor, SlotOf
<1>10. CASE CopyToDevice
  <2>1. /\ Async /\ h2d < next /\ h2d' = h2d + 1
        /\ UNCHANGED << config, pc, call, next, published, compute, d2h >>
      BY <1>10 DEF CopyToDevice, Queued, Async
  <2>2. /\ next \in Nat /\ published \in Nat /\ h2d \in published .. (next - 1) /\ h2d \in Nat
        /\ compute <= h2d /\ compute \in Nat /\ d2h <= h2d /\ d2h \in Nat
      BY <2>1, TypeFacts
  <2> DEFINE slot == slots[SlotOf(h2d)]
             t    == IF config.pinnedInput THEN Tensor(slot.batch, call) ELSE slot.inputCpu
  <2>3. Holds(slot, h2d, h2d, compute, d2h) /\ slot \in SlotTypes
      BY <2>1, <2>2, SlotsInvIs, TypeFacts, SlotParity
  <2>4. slots' = [slots EXCEPT ![SlotOf(h2d)] = [slot EXCEPT !.inputGpu = t]]
      BY <1>10, <2>2, SlotParity, TypeFacts DEF CopyToDevice
  <2>5. t = Tensor(h2d, call)
      BY <2>3 DEF Holds
  <2>6. Holds([slot EXCEPT !.inputGpu = t], h2d, h2d', compute', d2h')
      BY <2>1, <2>2, <2>3, <2>5 DEF Holds, SlotTypes
  <2>7. \A b \in (published .. (next - 1)) \ {h2d} : b < h2d' <=> b < h2d
      BY <2>1, <2>2
  <2>8. QED
      BY <2>1, <2>2, <2>4, <2>6, <2>7, SlotsFilled
<1>11. CASE Forward
  <2>1. /\ Async /\ compute < h2d /\ compute < next /\ compute' = compute + 1
        /\ UNCHANGED << config, pc, call, next, published, h2d, d2h >>
      BY <1>11 DEF Forward, Queued, Async
  <2>2. /\ next \in Nat /\ published \in Nat /\ compute \in published .. (next - 1)
        /\ compute \in Nat /\ d2h <= compute /\ d2h \in Nat /\ h2d \in Nat
      BY <2>1, TypeFacts
  <2> DEFINE slot == slots[SlotOf(compute)]
  <2>3. Holds(slot, compute, h2d, compute, d2h) /\ slot \in SlotTypes
      BY <2>1, <2>2, SlotsInvIs, TypeFacts, SlotParity
  <2>4. slots' = [slots EXCEPT ![SlotOf(compute)] = [slot EXCEPT !.outputGpu = slot.inputGpu]]
      BY <1>11, <2>2, SlotParity, TypeFacts DEF Forward
  <2>5. slot.inputGpu = Tensor(compute, call)
      BY <2>1, <2>3 DEF Holds
  <2>6. Holds([slot EXCEPT !.outputGpu = slot.inputGpu], compute, h2d', compute', d2h')
      BY <2>1, <2>2, <2>3, <2>5 DEF Holds, SlotTypes
  <2>7. \A b \in (published .. (next - 1)) \ {compute} : b < compute' <=> b < compute
      BY <2>1, <2>2
  <2>8. QED
      BY <2>1, <2>2, <2>4, <2>6, <2>7, SlotsFilled
<1>12. CASE CopyBack
  <2>1. /\ Async /\ d2h < compute /\ d2h < next /\ d2h' = d2h + 1
        /\ UNCHANGED << config, pc, call, next, published, h2d, compute >>
      BY <1>12 DEF CopyBack, Queued, Async
  <2>2. /\ next \in Nat /\ published \in Nat /\ d2h \in published .. (next - 1)
        /\ d2h \in Nat /\ compute \in Nat /\ h2d \in Nat
      BY <2>1, TypeFacts
  <2> DEFINE slot == slots[SlotOf(d2h)]
  <2>3. Holds(slot, d2h, h2d, compute, d2h) /\ slot \in SlotTypes /\ SlotOf(d2h) \in 0 .. 1
      BY <2>1, <2>2, SlotsInvIs, TypeFacts, SlotParity
  <2>4. \A b \in (published .. (next - 1)) \ {d2h} : b < d2h' <=> b < d2h
      BY <2>1, <2>2
  <2>5. CASE config.pinnedOutput
    <3>1. slots' = slots
        BY <1>12, <2>5 DEF CopyBack
    <3>2. slots' = [slots EXCEPT ![SlotOf(d2h)] = slot]
        BY <3>1, <2>3, TypeFacts
    <3>3. Holds(slot, d2h, h2d', compute', d2h')
        BY <2>1, <2>3, <2>5 DEF Holds
    <3>4. QED
        BY <2>1, <2>2, <2>4, <3>2, <3>3, SlotsFilled
  <2>6. CASE ~config.pinnedOutput
    <3>1. slots' = [slots EXCEPT ![SlotOf(d2h)] = [slot EXCEPT !.outputCpu = slot.outputGpu]]
        BY <1>12, <2>3, <2>6, TypeFacts DEF CopyBack
    <3>2. slot.outputGpu = Tensor(d2h, call)
        BY <2>1, <2>3 DEF Holds
    <3>3. Holds([slot EXCEPT !.outputCpu = slot.outputGpu], d2h, h2d', compute', d2h')
        BY <2>1, <2>2, <2>3, <3>2 DEF Holds, SlotTypes
    <3>4. QED
        BY <2>1, <2>2, <2>4, <3>1, <3>3, SlotsFilled
  <2>7. QED
      BY <2>5, <2>6
<1>13. QED
    BY <1>1, <1>2, <1>3, <1>4, <1>5, <1>6, <1>7, <1>8, <1>9, <1>10, <1>11, <1>12
       DEF Next, Host, Streams

-----------------------------------------------------------------------------
(***************************************************************************)
(* The output                                                              *)
(***************************************************************************)
\* Copying batch b to its place extends the output by one batch.
LEMMA BatchInPlace ==
    ASSUME config \in Configs, NEW b \in 0 .. NumBatches - 1, Inferred(b),
           CopyOut(Tensor(b, call), OutputFrom(b), OutputLen(b))
    PROVE  /\ \A e \in OutputRange : e <= Done(b + 1) => output'[e] = << call, e >>
           /\ ~overrun => ~overrun'
<1> DEFINE from == OutputFrom(b)
           len  == OutputLen(b)
<1>1. /\ from \in Nat /\ len \in Nat /\ Done(b) = from /\ Done(b + 1) = from + len
      /\ Done(b + 1) <= Total /\ Total \in Nat
    BY BatchFacts, DoneEnds
<1>2. OutputRange = 1 .. Total
    BY DEF OutputRange, Total
<1>3. ~overrun => ~overrun'
  <2>1. (from + 1) .. (from + len) \subseteq OutputRange
      BY <1>1, <1>2
  <2>2. QED
      BY <2>1 DEF CopyOut
<1>4. ASSUME NEW e \in OutputRange, e <= Done(b + 1) PROVE output'[e] = << call, e >>
  <2>1. output'[e] = IF e \in (from + 1) .. (from + len) THEN << call, from + e - from >>
                     ELSE output[e]
      BY DEF CopyOut, Tensor
  <2>2. CASE e <= from
      BY <2>1, <2>2, <1>1, <1>2 DEF Inferred
  <2>3. CASE ~(e <= from)
    <3>1. e \in (from + 1) .. (from + len) /\ from + e - from = e
        BY <2>3, <1>1, <1>2, <1>4
    <3>2. QED
        BY <3>1, <2>1
  <2>4. QED
      BY <2>2, <2>3
<1>5. QED
    BY <1>3, <1>4

\* The same of the host's loops, which infer the batch they copy.
LEMMA HostInPlace ==
    ASSUME TypeOK, PlaceInv, pc = "run", ~Async, next < NumBatches, next' = next + 1,
           CopyOut(Tensor(next, call), OutputFrom(next), OutputLen(next)),
           UNCHANGED << config, pc, call >>,
           config.backend = "onnx" /\ next' < NumBatches => elements' = OutputFrom(next')
    PROVE  PlaceInv'
<1>1. config \in Configs /\ next \in 0 .. NumBatches - 1 /\ Inferred(next)
    BY TypeFacts DEF PlaceInv, Written
<1>2. /\ \A e \in OutputRange : e <= Done(next + 1) => output'[e] = << call, e >>
      /\ ~overrun'
    BY <1>1, BatchInPlace DEF PlaceInv
<1>3. NumBatches' = NumBatches /\ OutputRange' = OutputRange /\ ~Async'
    BY ConfigStays
<1>4. Done(next)' = Done(next + 1)
    BY <1>3 DEF Done, OutputFrom, Total
<1>5. Inferred(next)'
    BY <1>2, <1>3, <1>4 DEF Inferred
<1>6. Inferred(Written)' /\ OutputFrom(next)' = OutputFrom(next')
    BY <1>3, <1>5 DEF Written, Inferred, Done, OutputFrom
<1>7. QED
    BY <1>2, <1>3, <1>6 DEF PlaceInv

\* Up to twice the batch size there are two batches.
LEMMA TwoBatches ==
    ASSUME config \in Configs, config.samples <= 2 * config.batchsize
    PROVE  NumBatches <= 2
<1> DEFINE B == config.batchsize
           m == FullBatches
<1>1. /\ B \in Nat /\ B > 0 /\ m \in Nat /\ Remaining \in Nat
      /\ config.samples = m * B + Remaining
      /\ NumBatches = IF Remaining > 0 THEN m + 1 ELSE m
    BY ConfigFacts, BatchCount
<1> HIDE DEF B, m
<1>2. m * B + Remaining <= 2 * B
    BY <1>1 DEF B
<1>3. ASSUME m >= 3 PROVE FALSE
  <2>1. 3 * B <= m * B /\ m * B \in Nat
      BY <1>1, <1>3, Products
  <2>2. QED
      BY <2>1, <1>1, <1>2
<1>4. ASSUME m = 2 PROVE Remaining = 0
    BY <1>1, <1>2, <1>4
<1>5. QED
    BY <1>1, <1>3, <1>4

\* A step of the pipeline that leaves the output alone.
LEMMA SameOutput ==
    ASSUME PlaceInv, Async, UNCHANGED << config, pc, call, output, overrun >>,
           d2h' = d2h \/ ~config.pinnedOutput, published' = published \/ config.pinnedOutput
    PROVE  PlaceInv'
<1>1. Async' /\ OutputRange' = OutputRange /\ \A b : Done(b)' = Done(b)
    BY ConfigStays
<1>2. Written' = Written
    BY <1>1 DEF Written
<1>3. pc' = "run" => Inferred(Written)'
    BY <1>1, <1>2 DEF PlaceInv, Inferred, Done, OutputFrom, Total
<1>4. config'.backend # "onnx"
    BY DEF Async
<1>5. QED
    BY <1>1, <1>3, <1>4 DEF PlaceInv

\* A step of the pipeline that writes the next batch of the output.
LEMMA StreamInPlace ==
    ASSUME TypeOK, PlaceInv, Async, pc = "run", UNCHANGED << config, pc, call >>,
           NEW b \in 0 .. NumBatches - 1, Written = b, Written' = b + 1,
           CopyOut(Tensor(b, call), OutputFrom(b), OutputLen(b))
    PROVE  PlaceInv'
<1>1. config \in Configs /\ Inferred(b)
    BY TypeFacts DEF PlaceInv
<1>2. /\ \A e \in OutputRange : e <= Done(b + 1) => output'[e] = << call, e >>
      /\ ~overrun'
    BY <1>1, BatchInPlace DEF PlaceInv
<1>3. OutputRange' = OutputRange /\ Done(b + 1)' = Done(b + 1)
    BY ConfigStays
<1>4. Inferred(Written)'
    BY <1>2, <1>3 DEF Inferred, Done, OutputFrom, Total, NumBatches, FullBatches, Remaining
<1>5. config'.backend # "onnx"
    BY DEF Async
<1>6. QED
    BY <1>2, <1>4, <1>5 DEF PlaceInv

LEMMA PlaceInit == Init => PlaceInv
<1> SUFFICES ASSUME Init PROVE PlaceInv
    OBVIOUS
<1>1. \A e \in OutputRange : output[e] = << call, e >>
    BY DEF Init
<1>2. QED
    BY <1>1 DEF Init, PlaceInv

LEMMA PlaceStep == TypeOK /\ SlotsInv /\ InStride /\ PlaceInv /\ [Next]_vars => PlaceInv'
<1> SUFFICES ASSUME TypeOK, SlotsInv, InStride, PlaceInv, [Next]_vars PROVE PlaceInv'
    OBVIOUS
<1>0. config \in Configs /\ next \in Nat /\ NumBatches \in Nat /\ next <= NumBatches
    BY TypeFacts
<1>1. CASE UNCHANGED vars
  <2>1. NumBatches' = NumBatches /\ OutputRange' = OutputRange
      BY <1>1, ConfigStays DEF vars
  <2>2. QED
      BY <1>1, <2>1 DEF vars, asyncVars, PlaceInv, Written, Inferred, Done, OutputFrom, Total, Async
<1>2. CASE Call
  <2>1. /\ pc' = "run" /\ next' = 0 /\ elements' = 0 /\ d2h' = 0 /\ published' = 0
        /\ config' = config /\ overrun' = overrun
      BY <1>2 DEF Call
  <2>2. Written' = 0
      BY <2>1 DEF Written
  <2>3. Done(0)' = 0 /\ OutputRange' = OutputRange
      BY <1>0, <2>1, DoneEnds, ConfigStays
  <2>4. Inferred(Written)'
    <3>1. \A e \in OutputRange : ~(e <= 0)
        BY DEF OutputRange
    <3>2. QED
        BY <2>2, <2>3, <3>1 DEF Inferred
  <2>5. OutputFrom(next)' = 0
    <3>1. OutputFrom(next)' = 0 * config.batchsize * config.outWidth
        BY <2>1 DEF OutputFrom
    <3>2. config.batchsize \in Nat /\ config.outWidth \in Nat
        BY <1>0, ConfigFacts
    <3>3. QED
        BY <3>1, <3>2
  <2>6. QED
      BY <2>1, <2>4, <2>5 DEF PlaceInv
<1>3. CASE Slice
    BY <1>3, HostInPlace DEF Slice, Running, Async
<1>4. CASE WholeBatch
  <2>1. /\ pc = "run" /\ (config.backend = "tensorflow" \/ config.backend = "sol")
        /\ next < FullBatches /\ next' = next + 1 /\ UNCHANGED << config, pc, call >>
        /\ CopyOut(Tensor(next, call), TensorOffset(next), config.batchsize * config.outWidth)
      BY <1>4 DEF WholeBatch, Running
  <2>2. next < NumBatches
      BY <2>1, <1>0, BatchCount
  <2>3. OutputLen(next) = config.batchsize * config.outWidth
      BY <2>1, <2>2, <1>0, BatchFacts
  <2>4. TensorOffset(next) = OutputFrom(next)
      BY DEF TensorOffset, OutputFrom, InStride
  <2>5. QED
      BY <2>1, <2>2, <2>3, <2>4, HostInPlace DEF Async
<1>5. CASE RemainderBatch
  <2>1. /\ pc = "run" /\ (config.backend = "tensorflow" \/ config.backend = "sol")
        /\ next = FullBatches /\ Remaining > 0 /\ next' = next + 1
        /\ UNCHANGED << config, pc, call >>
        /\ CopyOut(Tensor(next, call), TensorOffset(next), Remaining * config.outWidth)
      BY <1>5 DEF RemainderBatch, Running
  <2>2. next < NumBatches
      BY <2>1, <1>0, BatchCount
  <2>3. OutputLen(next) = Remaining * config.outWidth
      BY <2>1, <2>2, <1>0, BatchFacts
  <2>4. TensorOffset(next) = OutputFrom(next)
      BY DEF TensorOffset, OutputFrom, InStride
  <2>5. QED
      BY <2>1, <2>2, <2>3, <2>4, HostInPlace DEF Async
<1>6. CASE Run
  <2>1. /\ pc = "run" /\ config.backend = "onnx" /\ next < NumBatches /\ next' = next + 1
        /\ CopyOut(Tensor(next, call), elements, OutputLen(next))
        /\ elements' = OutputLen(next) /\ UNCHANGED << config, pc, call >>
      BY <1>6 DEF Run, Running
  <2>2. elements = OutputFrom(next)
      BY <2>1 DEF PlaceInv
  <2>3. ASSUME next' < NumBatches PROVE elements' = OutputFrom(next')
    <3>1. NumBatches <= 2
        BY <2>1, <1>0, TwoBatches DEF InStride
    <3>2. next = 0 /\ next' = 1
        BY <3>1, <2>1, <2>3, <1>0
    <3>3. Done(0 + 1) = OutputFrom(0) + OutputLen(0) /\ Done(0) = OutputFrom(0) /\ OutputLen(0) \in Nat
        BY <3>2, <2>3, <1>0, BatchFacts
    <3>4. Done(1) = OutputFrom(1) /\ Done(0) = 0
        BY <3>2, <2>3, <1>0, DoneEnds DEF Done
    <3>5. QED
        BY <3>2, <3>3, <3>4, <2>1
  <2>4. QED
      BY <2>1, <2>2, <2>3, HostInPlace DEF Async
<1>7. CASE Queue
  <2>1. Async /\ UNCHANGED << config, pc, call, output, overrun, d2h, published >>
      BY <1>7 DEF Queue, Running, Async
  <2>2. QED
      BY <2>1, SameOutput
<1>8. CASE Publish
  <2>1. /\ Async /\ pc = "run" /\ d2h > published /\ published' = published + 1
        /\ UNCHANGED << config, pc, call, next, d2h >>
      BY <1>8 DEF Publish, Running, Async
  <2>2. CASE config.pinnedOutput
    <3>1. UNCHANGED << output, overrun >>
        BY <1>8, <2>2 DEF Publish
    <3>2. QED
        BY <2>1, <2>2, <3>1, SameOutput
  <2>3. CASE ~config.pinnedOutput
    <3> DEFINE slot == slots[SlotOf(published)]
    <3>1. /\ published \in published .. (next - 1) /\ published \in 0 .. NumBatches - 1
          /\ published \in Nat
        BY <2>1, TypeFacts
    <3>2. slot.batch = published /\ slot.outputCpu = Tensor(published, call)
        BY <2>1, <2>3, <3>1 DEF SlotsInv
    <3>3. CopyOut(Tensor(published, call), OutputFrom(published), OutputLen(published))
        BY <1>8, <2>3, <3>2 DEF Publish
    <3>4. Written = published /\ Written' = published + 1
        BY <2>1, <2>3, ConfigStays DEF Written
    <3>5. QED
        BY <2>1, <3>1, <3>3, <3>4, StreamInPlace
  <2>4. QED
      BY <2>2, <2>3
<1>9. CASE Return
  <2>1. /\ pc = "run" /\ next = NumBatches /\ (Async => published = NumBatches)
        /\ UNCHANGED << config, call, next, output, overrun, d2h, published >> /\ pc' = "app"
      BY <1>9 DEF Return, Finished, Async, asyncVars
  <2>2. Written = NumBatches
      BY <2>1, TypeFacts DEF Written
  <2>3. \A e \in OutputRange : output[e] = << call, e >>
    <3>1. \A e \in OutputRange : e <= Done(NumBatches)
        BY <1>0, DoneEnds DEF OutputRange, Total
    <3>2. QED
        BY <2>1, <2>2, <3>1 DEF PlaceInv, Inferred
  <2>4. QED
      BY <2>1, <2>3, ConfigStays DEF PlaceInv
<1>10. CASE CopyToDevice
  <2>1. Async /\ UNCHANGED << config, pc, call, output, overrun, d2h, published >>
      BY <1>10 DEF CopyToDevice, Queued, Async
  <2>2. QED
      BY <2>1, SameOutput
<1>11. CASE Forward
  <2>1. Async /\ UNCHANGED << config, pc, call, output, overrun, d2h, published >>
      BY <1>11 DEF Forward, Queued, Async
  <2>2. QED
      BY <2>1, SameOutput
<1>12. CASE CopyBack
  <2>1. /\ Async /\ d2h < compute /\ d2h < next /\ d2h' = d2h + 1
        /\ UNCHANGED << config, pc, call, next, published >>
      BY <1>12 DEF CopyBack, Queued, Async
  <2>2. CASE ~config.pinnedOutput
    <3>1. UNCHANGED << output, overrun >>
        BY <1>12, <2>2 DEF CopyBack
    <3>2. QED
        BY <2>1, <2>2, <3>1, SameOutput
  <2>3. CASE config.pinnedOutput
    <3> DEFINE slot == slots[SlotOf(d2h)]
    <3>1. d2h \in published .. (next - 1) /\ d2h \in 0 .. NumBatches - 1 /\ d2h \in Nat
        BY <2>1, TypeFacts
    <3>2. slot.batch = d2h /\ slot.outputGpu = Tensor(d2h, call)
        BY <2>1, <3>1 DEF SlotsInv
    <3>3. CopyOut(Tensor(d2h, call), OutputFrom(d2h), OutputLen(d2h))
        BY <1>12, <2>3, <3>2 DEF CopyBack
    <3>4. Written = d2h /\ Written' = d2h + 1
        BY <2>1, <2>3, ConfigStays DEF Written
    <3>5. pc = "run"
        BY <2>1, <3>1, TypeFacts, SlotsInvIs DEF TypeOK
    <3>6. QED
        BY <2>1, <3>1, <3>3, <3>4, <3>5, StreamInPlace
  <2>4. QED
      BY <2>2, <2>3
<1>13. QED
    BY <1>1, <1>2, <1>3, <1>4, <1>5, <1>6, <1>7, <1>8, <1>9, <1>10, <1>11, <1>12
       DEF Next, Host, Streams

-----------------------------------------------------------------------------
LEMMA InferenceInit == Init => IInv
BY TypeInit, SlotsInit, PlaceInit DEF IInv

LEMMA InferenceStep == IInv /\ [Next]_vars => IInv'
<1> SUFFICES ASSUME IInv, [Next]_vars PROVE IInv'
    OBVIOUS
<1>1. TypeOK' /\ SlotsInv'
    BY TypeStep, SlotsStep DEF IInv
<1>2. ASSUME InStride' PROVE PlaceInv'
  <2>1. config' = config
      BY DEF Next, Host, Streams, Call, Slice, WholeBatch, RemainderBatch, Run, Queue, Publish,
             Return, CopyToDevice, Forward, CopyBack, vars
  <2>2. InStride
      BY <1>2, <2>1, ConfigStays
  <2>3. QED
      BY <2>2, PlaceStep DEF IInv
<1>3. QED
    BY <1>1, <1>2 DEF IInv

\* The state of the batch loops keeps its types and the slots, and of a model and a
\* number of batches the code is made for the output is in its place so far.
THEOREM InferenceInvariance == Spec => []IInv
BY InferenceInit, InferenceStep, PTL DEF Spec

\* The batch loops keep their types.
THEOREM TypeCorrect == Spec => []TypeOK
<1>1. IInv => TypeOK
    BY DEF IInv
<1>2. QED
    BY <1>1, InferenceInvariance, PTL

\* No strategy returns with an output out of its place, or one of an earlier call,
\* or writes outside of its buffer, whatever the number of samples and the size of
\* the batches: TorchInference::inference with or without its streams and with or
\* without pinned buffers, TensorflowInference::inference, SOLInference::inference
\* when outputs are as wide as inputs, ONNXInference::inference for two batches.
THEOREM OutputsArrive == Spec => [](InStride => OutputInPlace)
<1>1. IInv => (InStride => OutputInPlace)
    BY DEF IInv, PlaceInv, OutputInPlace
<1>2. QED
    BY <1>1, InferenceInvariance, PTL

\* The asynchronous pipeline of TorchInference never gives away the slot of a batch
\* whose output has not been published.
THEOREM SlotsAreHeld == Spec => []BatchesHoldSlots
<1>1. IInv => BatchesHoldSlots
    BY DEF IInv, SlotsInv, BatchesHoldSlots, Async
<1>2. QED
    BY <1>1, InferenceInvariance, PTL

-----------------------------------------------------------------------------
(***************************************************************************)
(* The contract of the service, for any workgroup                          *)
(***************************************************************************)
CONSTANT Ranks
VARIABLES called, returned, out, members

Group == INSTANCE Exchange

\* A rank is in at most one call, and outside a call its output is its own.
CallInv ==
    /\ Group!TypeOK
    /\ \A r \in Ranks : returned[r] <= called[r] /\ called[r] <= returned[r] + 1
    /\ \A r \in members, q \in members : returned[r] <= called[q]
    /\ Group!OutputIsOwn

LEMMA CallInvInit == Group!Init => CallInv
BY DEF Group!Init, CallInv, Group!TypeOK, Group!OutputIsOwn

LEMMA CallInvStep == CallInv /\ [Group!Next]_(Group!vars) => CallInv'
<1> SUFFICES ASSUME CallInv, [Group!Next]_(Group!vars) PROVE CallInv'
    OBVIOUS
<1> USE DEF CallInv, Group!TypeOK, Group!OutputIsOwn
<1>1. CASE UNCHANGED Group!vars
    BY <1>1 DEF Group!vars
<1>2. ASSUME NEW r \in Ranks, Group!Call(r) PROVE CallInv'
    BY <1>2 DEF Group!Call
<1>3. ASSUME NEW r \in Ranks, Group!Return(r) PROVE CallInv'
    BY <1>3 DEF Group!Return
<1>4. QED
    BY <1>1, <1>2, <1>3 DEF Group!Next

\* Every behaviour of the contract keeps the call invariant.
THEOREM CallsAreMatched == Group!Spec => []CallInv
BY CallInvInit, CallInvStep, PTL DEF Group!Spec

\* The members of a group stay within one call of each other: a member calls again
\* only after a return, and its return needs every member's call.
THEOREM GroupStaysInStep == Group!Spec => []Group!InStep
<1>1. CallInv => Group!InStep
  <2> SUFFICES ASSUME CallInv, NEW r \in members, NEW q \in members
               PROVE  called[r] <= called[q] + 1
      BY DEF Group!InStep
  <2>1. r \in Ranks /\ q \in Ranks
      BY DEF CallInv, Group!TypeOK
  <2>2. called[r] <= returned[r] + 1 /\ returned[r] <= called[q]
      BY <2>1 DEF CallInv
  <2>3. QED
      BY <2>1, <2>2 DEF CallInv, Group!TypeOK
<1>2. QED
    BY <1>1, CallsAreMatched, PTL
=============================================================================
