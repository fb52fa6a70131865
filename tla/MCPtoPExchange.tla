-------------------------- MODULE MCPtoPExchange ---------------------------
(***************************************************************************)
(* A workgroup of a controller and three workers for TLC.                  *)
(***************************************************************************)
EXTENDS PtoPExchange

=============================================================================
