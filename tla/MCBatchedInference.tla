------------------------ MODULE MCBatchedInference -------------------------
(***************************************************************************)
(* Strategies and shapes for TLC: up to five samples, every batch size up  *)
(* to one more than that, output as wide as the input or wider.            *)
(***************************************************************************)
EXTENDS BatchedInference

Config(backend, samples, batchsize, in, out, pinnedIn, pinnedOut) ==
    [backend |-> backend, samples |-> samples, batchsize |-> batchsize,
     inWidth |-> in, outWidth |-> out, pinnedInput |-> pinnedIn, pinnedOutput |-> pinnedOut]

\* The synchronous loops; a SOL model has outputs as wide as its inputs.
Synchronous == {Config(backend, n, b, 1, IF backend = "sol" THEN 1 ELSE 2, FALSE, FALSE) :
                  backend \in {"torch", "tensorflow", "sol"}, n \in 1 .. 5, b \in 1 .. 6}

Asynchronous == {Config("torch async", n, b, 1, 1, pinnedIn, pinnedOut) :
                  n \in 1 .. 5, b \in 1 .. 3, pinnedIn \in BOOLEAN, pinnedOut \in BOOLEAN}

\* ONNX Runtime with up to five samples.
ONNX == {Config("onnx", n, b, 1, 2, FALSE, FALSE) : n \in 1 .. 5, b \in 1 .. 3}

\* Of these, the ones with at most two batches.
ShortONNX == {c \in ONNX : c.samples <= 2 * c.batchsize}

Strategies == Synchronous \cup Asynchronous \cup ShortONNX
=============================================================================
