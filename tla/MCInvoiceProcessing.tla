------------------------- MODULE MCInvoiceProcessing -------------------------
(* A small instance of InvoiceProcessing for TLC: an invoice and a node of    *)
(* the JSON version, and two invoices that LND may still make.                *)
EXTENDS InvoiceProcessing, TLC

CONSTANTS b0, b1, b2, o1, o2, n1, n2, r

MCBolts == {b0, b1, b2}
MCOps   == {o1, o2}
MCNodes == {n1, n2}
MCLegacy == << [id |-> b0, bolt |-> b0, request |-> r, node |-> n1] >>
MCLegacyNodes == << [id |-> n1, status |-> "active"] >>

Symmetry == Permutations(MCOps) \cup Permutations({b1, b2})
=============================================================================
