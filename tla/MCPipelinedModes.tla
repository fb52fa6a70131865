-------------------------- MODULE MCPipelinedModes -------------------------
(***************************************************************************)
(* A workgroup of four ranks for PipelinedModes: two workers on the node   *)
(* of the controller and one on another.                                   *)
(***************************************************************************)
EXTENDS PipelinedModes, TLC

Samples4 == 0 :> 2 @@ 1 :> 1 @@ 2 :> 2 @@ 3 :> 1
Displ4   == 0 :> 0 @@ 1 :> 2 @@ 2 :> 3 @@ 3 :> 5
Remote4  == {3}
=============================================================================
