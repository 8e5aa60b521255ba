------------------------------ MODULE MCBackfill -----------------------------
(* Instances of Backfill for TLC. *)
EXTENDS Backfill, TLC

CONSTANTS m1, m2, m3, m4, m5

\* Five messages of three seconds: one, two and two.
MCMsg == {m1, m2, m3, m4, m5}
MCTs  == m1 :> 0 @@ m2 :> 1 @@ m3 :> 1 @@ m4 :> 2 @@ m5 :> 2
=============================================================================
