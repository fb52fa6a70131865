\* The loops of the Torch, TensorFlow, SOL and (two batches) ONNX strategies, two calls.
SPECIFICATION Spec
CONSTANTS
    Configs <- Strategies
    MaxCalls = 2
INVARIANTS
    OutputInPlace
    BatchesHoldSlots
PROPERTIES
    InferenceReturns
\* The application stops calling.
CHECK_DEADLOCK FALSE
