--------------------------- MODULE MCMediaRequests ---------------------------
(* Instances of MediaRequests for TLC. *)
EXTENDS MediaRequests, TLC

=============================================================================
