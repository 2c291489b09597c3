--------------------------- MODULE AttemptMonitor ---------------------------
(***************************************************************************)
(* WindowsBluetooth with an observer of how much traffic of each peer is   *)
(* let through: it counts the messages a peer begins in each window of     *)
(* Window ticks, whatever becomes of the peer's session meanwhile. The     *)
(* observer never constrains a step.                                       *)
(***************************************************************************)
EXTENDS WindowsBluetooth

VARIABLE recent    \* per peer: the end of its current window, and the count in it

\* A message begun shows in the attempts of the session, or in its window.
Begun(p) ==
    /\ Present(p)'
    /\ Present(p) => << sessions[p].attempts, sessions[p].windowEnd >>
                         # << sessions[p].attempts, sessions[p].windowEnd >>'

Counted(w) ==
    IF now < w.end THEN [w EXCEPT !.count = @ + 1]
                   ELSE [end |-> now + Window, count |-> 1]

MonitoredInit == Init /\ recent = [p \in Peers |-> [end |-> 0, count |-> 0]]

MonitoredNext ==
    /\ Next
    /\ recent' = [p \in Peers |-> IF Begun(p) THEN Counted(recent[p]) ELSE recent[p]]

MonitoredSpec == MonitoredInit /\ [][MonitoredNext]_<<vars, recent>>

-----------------------------------------------------------------------------
\* src/bluetooth-windows.js: "Fixed per-peer window bounds authenticated and
\* unauthenticated traffic."
AttemptsBoundedPerPeer == \A p \in Peers : recent[p].count <= MaxAttempts
=============================================================================
