------------------------------ MODULE Session ------------------------------
(***************************************************************************)
(* A login from the first QR code to the last disconnect: the attempt to   *)
(* log in (Login) and the connection of the login it registers             *)
(* (Connection).  They meet in Wait, which saves the login and connects    *)
(* its client at once.                                                     *)
(***************************************************************************)
EXTENDS Login, Connection

vars == <<loginVars, connVars>>

Init == LoginInit /\ ConnInit

\* Wait creates the login, with the device that was paired, and calls Connect:
\* the first bridge state is Connecting.
NewLogin ==
  /\ Register
  /\ IF step' = "done"
     THEN /\ client' = TRUE /\ device' = TRUE /\ SetState("connecting")
          /\ call' = "connect" /\ UNCHANGED late
     ELSE UNCHANGED <<client, device, showState, call>>
  /\ UNCHANGED <<waiter, loopState, link, events, seen, profile>>

Next ==
  \/ Attempt /\ UNCHANGED connVars
  \/ NewLogin
  \/ step = "done" /\ ConnNext /\ UNCHANGED loginVars

Spec == Init /\ [][Next]_vars

\* The fairness of Login, for the steps as they are taken here.
FairSpec ==
  /\ Spec
  /\ WF_vars(FirstQR /\ UNCHANGED connVars) /\ WF_vars(Wait /\ UNCHANGED connVars)
  /\ WF_vars(NextQR /\ UNCHANGED connVars) /\ WF_vars(Completed /\ UNCHANGED connVars)
  /\ WF_vars(Await515 /\ UNCHANGED connVars) /\ WF_vars(NewLogin)
  /\ WF_vars(Tick /\ UNCHANGED connVars)

\* The types of both parts.
SessionTypeOK == LoginTypeOK /\ ConnTypeOK
=============================================================================
