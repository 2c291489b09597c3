--------------------------- MODULE MCAttemptMonitor ---------------------------
(* A small instance of AttemptMonitor for TLC: messages of two fragments.      *)
EXTENDS AttemptMonitor

MCMessages == {"pay", "noise"}
MCTotal == [m \in MCMessages |-> 2]
MCKind  == [m \in MCMessages |-> IF m = "pay" THEN "request" ELSE "junk"]
=============================================================================
