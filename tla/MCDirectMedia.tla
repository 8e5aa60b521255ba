---------------------------- MODULE MCDirectMedia ----------------------------
(* Instances of DirectMedia for TLC. *)
EXTENDS DirectMedia
=============================================================================
