------------------------ MODULE MCPipelinedExchange ------------------------
(***************************************************************************)
(* Instances of PipelinedExchange for TLC.  A workgroup is described by    *)
(* its sample counts; the displacements are their prefix sums.             *)
(***************************************************************************)
EXTENDS PipelinedExchange, TLC

\* Three ranks, a worker on the controller's node and one on another node.
Samples3 == 0 :> 2 @@ 1 :> 1 @@ 2 :> 2
Displ3   == 0 :> 0 @@ 1 :> 2 @@ 2 :> 3
Remote3  == {2}

\* Five ranks: three workers share the controller's node, so that their tier
\* still has ranks to grant after the first input, and one is remote.
Samples5 == 0 :> 2 @@ 1 :> 1 @@ 2 :> 2 @@ 3 :> 1 @@ 4 :> 2
Displ5   == 0 :> 0 @@ 1 :> 2 @@ 2 :> 3 @@ 3 :> 5 @@ 4 :> 6
Remote5  == {4}

\* A controller without samples of its own: aixeleratorService.cpp prepares the
\* device for it when its workers have samples.
SamplesIdleController == 0 :> 0 @@ 1 :> 1 @@ 2 :> 2
DisplIdleController   == 0 :> 0 @@ 1 :> 0 @@ 2 :> 1
=============================================================================
