-------------------------- MODULE MCWindowsBluetooth --------------------------
(* Small instances of WindowsBluetooth for TLC: a request and junk of two     *)
(* fragments, an invalid message of one, and one that is too long.            *)
EXTENDS WindowsBluetooth, TLC

MCMessages == {"pay", "noise", "stale", "long"}
MCTotal == [m \in MCMessages |-> CASE m = "stale" -> 1 [] m = "long" -> 3 [] OTHER -> 2]
MCKind  == [m \in MCMessages |->
               CASE m = "stale" -> "invalid" [] m = "noise" -> "junk" [] OTHER -> "request"]

Symmetry == Permutations(Peers) \cup Permutations(Requests)
=============================================================================
