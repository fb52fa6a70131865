--------------------------- MODULE MCP2PTimeline ---------------------------
(***************************************************************************)
(* P2PTimeline for TLC: the services are interchangeable.                  *)
(***************************************************************************)
EXTENDS P2PTimeline, TLC

Symmetry == Permutations(Services)
=============================================================================
