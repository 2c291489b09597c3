----------------------------- MODULE MCLightning -----------------------------
(* Small instances of Lightning for TLC: an ordinary invoice, one above the *)
(* limit and one without an amount.                                         *)
EXTENDS Lightning

MCInvoices == {"plain", "large", "open"}
MCAmountOf == [i \in MCInvoices |-> CASE i = "plain" -> 1 [] i = "large" -> 3 [] i = "open" -> 0]
=============================================================================
