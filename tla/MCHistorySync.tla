---------------------------- MODULE MCHistorySync ----------------------------
(* Instances of HistorySync for TLC. *)
EXTENDS HistorySync, TLC

CONSTANTS c1, c2, p1, p3

MCChat == {c1, c2}

\* A RECENT payload and a plain one (INITIAL_BOOTSTRAP) that shares a
\* conversation with it.
MCTwoPayload   == {p1, p3}
MCTwoConvsOf   == p1 :> {c1, c2} @@ p3 :> {c1}
MCTwoResetting == {p1}

MCNoLimit == -1
=============================================================================
