--------------------------- MODULE HandshakeAbstract ---------------------------
(***************************************************************************)
(* What the bootROM handshake of isp_tool.py promises (spec section 4.2):  *)
(* the client leaves the idle state exactly once, either declaring the    *)
(* link ready, which it may only do when the device really is in ISP mode, *)
(* or giving up.  The device enters ISP mode at most once and stays there. *)
(***************************************************************************)

VARIABLES hsState,   \* "idle", "ready" or "failed": the client's verdict
          devReady   \* the device is in ISP mode and accepts frames

vars == <<hsState, devReady>>

Init == /\ hsState = "idle"
        /\ devReady \in BOOLEAN

\* The client declares the link established.
Succeed == /\ hsState = "idle"
           /\ devReady
           /\ hsState' = "ready"
           /\ UNCHANGED devReady

\* The client gives up (the attempt budget is spent).
GiveUp == /\ hsState = "idle"
          /\ hsState' = "failed"
          /\ UNCHANGED devReady

\* The device enters ISP mode.
DeviceReady == /\ ~devReady
               /\ devReady' = TRUE
               /\ UNCHANGED hsState

Next == Succeed \/ GiveUp \/ DeviceReady

\* The client always comes to a verdict.
Spec == Init /\ [][Next]_vars /\ WF_vars(Succeed \/ GiveUp)

TypeOK == hsState \in {"idle", "ready", "failed"} /\ devReady \in BOOLEAN
=============================================================================
