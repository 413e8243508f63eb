------------------------- MODULE ReconnectingClient -------------------------
(***************************************************************************)
(* What the shared client promises to the local proxies: one connection at *)
(* a time, dialed again only when the last one is gone, never taken away   *)
(* while it works except by the shutdown, and none after the shutdown.     *)
(***************************************************************************)
VARIABLES conn, open

vars == <<conn, open>>

Init == conn = "none" /\ open = TRUE

Dial == open /\ conn \in {"none", "lost"} /\ conn' = "dialing" /\ UNCHANGED open
DialSucceeds == conn = "dialing" /\ conn' = "live" /\ UNCHANGED open
DialFails == conn = "dialing" /\ conn' = "none" /\ UNCHANGED open
Lose == conn = "live" /\ conn' = "lost" /\ UNCHANGED open
Discard == conn = "lost" /\ conn' = "none" /\ UNCHANGED open
Shutdown == conn # "dialing" /\ conn' = "none" /\ open' = FALSE

Next == Dial \/ DialSucceeds \/ DialFails \/ Lose \/ Discard \/ Shutdown

Spec == Init /\ [][Next]_vars
=============================================================================
