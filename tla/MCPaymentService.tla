--------------------------- MODULE MCPaymentService ---------------------------
(* A small instance of PaymentService for TLC. *)
EXTENDS PaymentService, TLC

MCInvoices == {"plain", "other", "own"}
MCAmountOf == [i \in MCInvoices |-> 1]

MCPayloads == [invoice : {"plain", "own"}, fallback : {0}]

MCReply == [isObject |-> TRUE, paymentError |-> "none", status |-> "none",
            errorEnvelope |-> FALSE, hash |-> "plain", preimage |-> "plain"]

\* A proof, a proof for another payment, a stated hash without its preimage,
\* an explicit failure, one beside a proof, and an empty body.
MCReplies ==
    {MCReply,
     [MCReply EXCEPT !.hash = "other", !.preimage = "other"],
     [MCReply EXCEPT !.preimage = "bad"],
     [MCReply EXCEPT !.paymentError = "text", !.hash = "bad", !.preimage = "bad"],
     [MCReply EXCEPT !.status = "FAILED"],
     [MCReply EXCEPT !.isObject = FALSE]}

Symmetry == Permutations(Calls) \cup Permutations(Procs) \cup Permutations(Keys)
=============================================================================
