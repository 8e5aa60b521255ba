---------------------------- MODULE HistoryImport ----------------------------
(***************************************************************************)
(* What the history sync tables promise when notifications are queued in   *)
(* the database (whatsapp_history_sync_notification): a payload is either  *)
(* waiting in the queue or imported as a whole, whatever fails or crashes  *)
(* in between.  HistorySync with ManualDownload implements this module.    *)
(***************************************************************************)
CONSTANTS Chat, Payload,
          Stored    \* Stored[p]: conversations payload p leaves in the tables

VARIABLES conv,     \* conversation rows: "none", "unsynced" or "synced"
          rows,     \* message rows: payload/conversation pairs
          notifs    \* queued payloads

vars == <<conv, rows, notifs>>

Init == conv = [c \in Chat |-> "none"] /\ rows = {} /\ notifs = {}

\* A payload enters the queue.
Enqueue(p) == notifs' = notifs \cup {p} /\ UNCHANGED <<conv, rows>>

\* A payload leaves the queue and all its data enters the tables at once.
\* A conversation that was synced before stays synced.
Import(p) ==
  /\ p \in notifs /\ notifs' = notifs \ {p}
  /\ rows' = rows \cup ({p} \X Stored[p])
  /\ conv' = [c \in Chat |-> IF c \in Stored[p] /\ conv[c] = "none"
                             THEN "unsynced" ELSE conv[c]]

\* A conversation is deleted with all its messages.
Forget(c) ==
  /\ conv' = [conv EXCEPT ![c] = "none"]
  /\ rows' = rows \ (Payload \X {c})
  /\ UNCHANGED notifs

\* A conversation got its portal.
Sync(c) ==
  /\ conv[c] # "none" /\ conv' = [conv EXCEPT ![c] = "synced"]
  /\ UNCHANGED <<rows, notifs>>

Next == \/ \E p \in Payload : Enqueue(p) \/ Import(p)
        \/ \E c \in Chat : Forget(c) \/ Sync(c)

Spec == Init /\ [][Next]_vars
=============================================================================
