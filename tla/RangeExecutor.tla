--------------------------- MODULE RangeExecutor ---------------------------
(***************************************************************************)
(* What pipelinedExchange expects of a PipelinedInferenceExecutor: ranges  *)
(* of the controller buffers are handed to it, and when it reports one     *)
(* complete its output is that of the input it was handed over with.  The  *)
(* input of a range in progress is not written, its output not read.       *)
(***************************************************************************)
EXTENDS Naturals

CONSTANT Ranks       \* the segments of the controller buffers

VARIABLES input,     \* what each input segment holds
          output,    \* what each output segment holds; 0 while in progress
          active     \* the sets of segments in progress

vars == << input, output, active >>

Init ==
    /\ input \in [Ranks -> Nat]
    /\ output = [r \in Ranks |-> 0]
    /\ active = {}

\* A new input arrives in a segment that nobody is working on.
Write(r) ==
    /\ \A range \in active : r \notin range
    /\ input' = [input EXCEPT ![r] = input'[r]]
    /\ UNCHANGED << output, active >>

Submit(range) ==
    /\ range # {}
    /\ \A other \in active : other \cap range = {}
    /\ active' = active \cup {range}
    /\ output' = [r \in Ranks |-> IF r \in range THEN 0 ELSE output[r]]
    /\ UNCHANGED input

Complete(range) ==
    /\ range \in active
    /\ active' = active \ {range}
    /\ output' = [r \in Ranks |-> IF r \in range THEN input[r] ELSE output[r]]
    /\ UNCHANGED input

Next ==
    \/ \E r \in Ranks : Write(r)
    \/ \E range \in SUBSET Ranks : Submit(range)
    \/ \E range \in active : Complete(range)

Spec == Init /\ [][Next]_vars
=============================================================================
