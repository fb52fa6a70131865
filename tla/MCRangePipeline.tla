-------------------------- MODULE MCRangePipeline --------------------------
(***************************************************************************)
(* A workgroup of a controller and its workers on one device for TLC.      *)
(***************************************************************************)
EXTENDS RangePipeline

=============================================================================
