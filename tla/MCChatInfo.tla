----------------------------- MODULE MCChatInfo -----------------------------
(* Instances of ChatInfo for TLC. *)
EXTENDS ChatInfo
=============================================================================
