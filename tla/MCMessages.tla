----------------------------- MODULE MCMessages -----------------------------
(* Instances of Messages for TLC. *)
EXTENDS References

\* Histories of which the events tell enough to file the message.
Filed == told

=============================================================================
