------------------------------ MODULE MCResync ------------------------------
(* Instances of Resync for TLC. *)
EXTENDS Resync
=============================================================================
