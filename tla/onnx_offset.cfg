\* The loop of the ONNX strategy with three batches and more.
SPECIFICATION Spec
CONSTANTS
    Configs <- ONNX
    MaxCalls = 1
INVARIANTS
    OutputInPlace
CHECK_DEADLOCK FALSE
