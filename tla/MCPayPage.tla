------------------------------ MODULE MCPayPage ------------------------------
(* A small instance of PayPage for TLC: one invoice that can be paid, and one *)
(* without an amount, which is refused. LND replies with a proof, an explicit *)
(* failure, or nothing that can be used.                                      *)
EXTENDS PayPage, TLC

MCInvoices == {"plain", "open"}
MCAmountOf == [i \in MCInvoices |-> IF i = "plain" THEN 1 ELSE 0]
MCPayloads == [invoice : MCInvoices, fallback : {0}]

MCReply == [isObject |-> TRUE, paymentError |-> "none", status |-> "none",
            errorEnvelope |-> FALSE, hash |-> "plain", preimage |-> "plain"]

MCReplies == {MCReply, [MCReply EXCEPT !.status = "FAILED"], [MCReply EXCEPT !.isObject = FALSE]}
=============================================================================
