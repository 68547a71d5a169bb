--------------------------- MODULE MCPortalRequests ---------------------------
(* PortalRequests for TLC. *)
EXTENDS PortalRequests, TLC

Symmetry == Permutations(Calls)
=============================================================================
