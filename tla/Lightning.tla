------------------------------ MODULE Lightning ------------------------------
(***************************************************************************)
(* Paying a Lightning invoice: settlePaymentRequest of src/lightning.js    *)
(* over callLnd and requestJson of src/lnd-client.js, in the real modes    *)
(* (regtest, lnd). An operation decodes the invoice (GET, retried), checks *)
(* the amount, posts one payment (POST) and reads what LND replies.        *)
(*                                                                         *)
(* LND is external: a payment it was sent may arrive late, succeed or fail *)
(* at any later time, whatever the client was told; replies get lost, come *)
(* after the deadline, or are garbled on the way.                          *)
(***************************************************************************)
EXTENDS Naturals

CONSTANTS
    Ops,          \* payment operations
    Invoices,     \* payment requests
    AmountOf,     \* the amount of each invoice in sats, 0 when it has none
    Fallbacks,    \* amounts a caller may state (0 when it states none)
    MaxAmount,    \* getMaxPaymentSats()
    MaxAttempts,  \* LND_GET_RETRY_ATTEMPTS
    Replies,      \* the replies to a POST that are considered
    NoTask        \* the task of an operation that has not begun

-----------------------------------------------------------------------------
(* Replies of LND to a payment, as far as validatePaymentResponse looks:   *)
(* the payment whose hash it states, the payment its preimage belongs to.  *)

AllReplies == [isObject : BOOLEAN,
               paymentError : {"none", "text", "junk"},
               status : {"none", "SUCCEEDED", "FAILED", "other"},
               errorEnvelope : BOOLEAN,
               hash : Invoices \cup {"bad"},
               preimage : Invoices \cup {"bad", "zero"}]

ASSUME AmountAssumption   == AmountOf \in [Invoices -> Nat] /\ MaxAmount \in Nat
ASSUME FallbackAssumption == Fallbacks \subseteq Nat
ASSUME AttemptAssumption  == MaxAttempts \in Nat \ {0}
ASSUME ReplyAssumption    == Replies \subseteq AllReplies
ASSUME InvoiceAssumption  == Invoices \cap {"bad", "zero"} = {}

Tasks == [invoice : Invoices, fallback : Fallbacks]
ASSUME TaskAssumption == NoTask \notin Tasks

VARIABLES
    stage,    \* where each operation is
    attempt,  \* the attempt of its current request
    task,     \* the invoice it pays and the amount its caller stated
    verdict,  \* how it ended
    posts,    \* how many POSTs it has sent
    lnd       \* external: what became of its payment at LND

vars == <<stage, attempt, task, verdict, posts, lnd>>

-----------------------------------------------------------------------------
(* Amounts *)

\* The amount of the invoice, or the stated one for an invoice without.
\* Mutant: the stated amount comes first.
EffectiveStated(t) == IF t.fallback # 0 THEN t.fallback ELSE AmountOf[t.invoice]

Effective(t) == IF AmountOf[t.invoice] # 0 THEN AmountOf[t.invoice] ELSE t.fallback

WithinLimit(t) == Effective(t) \in 1 .. MaxAmount

-----------------------------------------------------------------------------
(* Failed requests *)

TransportCodes == {"LND_TIMEOUT", "LND_UNAVAILABLE", "LND_HTTP_ERROR",
                   "LND_INVALID_RESPONSE", "LND_RESPONSE_TOO_LARGE"}

Retriable(code) == code \in {"LND_TIMEOUT", "LND_UNAVAILABLE", "LND_HTTP_ERROR"}

\* Mutant: every request is tried again.
AttemptsAlways(method) == IF method \in {"GET", "POST"} THEN MaxAttempts ELSE 1

\* Only a GET is tried more than once.
Attempts(method) == IF method = "GET" THEN MaxAttempts ELSE 1

Method(o) == IF posts[o] > 0 THEN "POST" ELSE "GET"

\* Mutant: attempts that are not counted.
SameAttempt(o) == attempt[o]

MayRetry(o, code) == attempt[o] < Attempts(Method(o)) /\ Retriable(code)

NextAttempt(o) == attempt[o] + 1

\* Mutant: an HTTP error is taken for a refusal.
LeavesDoubtButHttp(code) == code \in TransportCodes \ {"LND_HTTP_ERROR"}

\* The errors after which a payment may still have been made.
LeavesDoubt(code) == code \in {"LND_TIMEOUT", "LND_UNAVAILABLE", "LND_HTTP_ERROR",
                               "LND_INVALID_RESPONSE", "LND_RESPONSE_TOO_LARGE"}

-----------------------------------------------------------------------------
(* validatePaymentResponse *)

ReportsFailure(r) == r.paymentError = "text" \/ r.status = "FAILED"

\* Mutant: the stated hash is enough.
ProvesByHash(r, invoice) == r.hash = invoice

Proves(r, invoice) ==
    /\ r.hash = invoice
    /\ r.preimage = r.hash

Classify(r, invoice) ==
    IF ~ r.isObject \/ r.paymentError = "junk" THEN "unconfirmed"
    ELSE IF ReportsFailure(r) THEN "failed"
    ELSE IF r.status = "other" \/ r.errorEnvelope THEN "unconfirmed"
    ELSE IF Proves(r, invoice) THEN "settled"
    ELSE "unconfirmed"

-----------------------------------------------------------------------------
Init ==
    /\ stage = [o \in Ops |-> "idle"]
    /\ attempt = [o \in Ops |-> 0]
    /\ task = [o \in Ops |-> NoTask]
    /\ verdict = [o \in Ops |-> "none"]
    /\ posts = [o \in Ops |-> 0]
    /\ lnd = [o \in Ops |-> "none"]

Begin(o, t) ==
    /\ stage[o] = "idle"
    /\ stage' = [stage EXCEPT ![o] = "decoding"]
    /\ attempt' = [attempt EXCEPT ![o] = 1]
    /\ task' = [task EXCEPT ![o] = t]
    /\ UNCHANGED <<verdict, posts, lnd>>

Ends(o, v) ==
    /\ stage' = [stage EXCEPT ![o] = "over"]
    /\ verdict' = [verdict EXCEPT ![o] = v]
    /\ UNCHANGED <<attempt, task, posts, lnd>>

\* Sending a POST hands it to the network.
Sent(o) == posts' = [posts EXCEPT ![o] = @ + 1]

\* The request in progress fails, and is tried again after a delay.
Retries(o, code) ==
    /\ stage[o] \in {"decoding", "paying"}
    /\ MayRetry(o, code)
    /\ stage' = [stage EXCEPT ![o] = "waiting"]
    /\ UNCHANGED <<attempt, task, verdict, posts, lnd>>

Resends(o) ==
    /\ stage[o] = "waiting"
    /\ attempt' = [attempt EXCEPT ![o] = NextAttempt(o)]
    /\ IF Method(o) = "POST"
         THEN Sent(o) /\ stage' = [stage EXCEPT ![o] = "paying"]
         ELSE UNCHANGED posts /\ stage' = [stage EXCEPT ![o] = "decoding"]
    /\ UNCHANGED <<task, verdict, lnd>>

\* It fails for the last time.
GivesUp(o, code) ==
    /\ stage[o] \in {"decoding", "paying"}
    /\ ~ MayRetry(o, code)
    /\ Ends(o, IF stage[o] = "paying" /\ LeavesDoubt(code)
                 THEN "unconfirmed" ELSE "unavailable")

\* LND answers the decode request with something that is no decoded invoice.
DecodeGarbled(o) ==
    /\ stage[o] = "decoding"
    /\ Ends(o, "unavailable")

\* LND decodes the invoice, and its amount is out of bounds.
AmountRefused(o) ==
    /\ stage[o] = "decoding"
    /\ ~ WithinLimit(task[o])
    /\ Ends(o, "refused")

\* LND decodes the invoice, and the payment is posted.
Dispatch(o) ==
    /\ stage[o] = "decoding"
    /\ WithinLimit(task[o])
    /\ stage' = [stage EXCEPT ![o] = "paying"]
    /\ attempt' = [attempt EXCEPT ![o] = 1]
    /\ Sent(o)
    /\ lnd' = [lnd EXCEPT ![o] = "sent"]
    /\ UNCHANGED <<task, verdict>>

\* LND decodes the invoice, and the POST fails before it is sent
\* (LND_NOT_CONFIGURED, INVALID_LND_URL).
DispatchFails(o) ==
    /\ stage[o] = "decoding"
    /\ WithinLimit(task[o])
    /\ Ends(o, "unavailable")

-----------------------------------------------------------------------------
(* LND (external) *)

Paid(invoice) == \E o \in Ops : lnd[o] = "paid" /\ task[o].invoice = invoice

Step(o, from, to) ==
    /\ lnd[o] \in from
    /\ lnd' = [lnd EXCEPT ![o] = to]
    /\ UNCHANGED <<stage, attempt, task, verdict, posts>>

Accepts(o) == Step(o, {"sent"}, "accepted")

\* LND pays an invoice once, and none that has no amount.
Settles(o) ==
    /\ Step(o, {"accepted"}, "paid")
    /\ AmountOf[task[o].invoice] # 0
    /\ ~ Paid(task[o].invoice)

Rejects(o) == Step(o, {"sent", "accepted"}, "failed")

\* A preimage is known only once its invoice is paid. An explicit failure of
\* a payment is final. Anything else can be garbled on the way.
Possible(r, o) ==
    /\ r.preimage \in Invoices => Paid(r.preimage)
    /\ (r.isObject /\ r.paymentError # "junk" /\ ReportsFailure(r)) => lnd[o] = "failed"

Responds(o, r) ==
    /\ stage[o] = "paying"
    /\ Possible(r, o)
    /\ Ends(o, Classify(r, task[o].invoice))

-----------------------------------------------------------------------------
\* The process of the operations of O crashes.
Abandon(O) ==
    /\ stage' = [o \in Ops |-> IF o \in O THEN "over" ELSE stage[o]]
    /\ UNCHANGED <<attempt, task, verdict, posts, lnd>>

RequestEnds(o) ==
    \/ \E code \in TransportCodes : Retries(o, code) \/ GivesUp(o, code)
    \/ Resends(o)
    \/ DecodeGarbled(o)
    \/ AmountRefused(o)
    \/ Dispatch(o)
    \/ DispatchFails(o)
    \/ \E r \in Replies : Responds(o, r)

LndStep(o) == Accepts(o) \/ Settles(o) \/ Rejects(o)

Next ==
    \/ \E o \in Ops :
           \/ \E t \in Tasks : Begin(o, t)
           \/ RequestEnds(o)
           \/ LndStep(o)
    \/ \E O \in SUBSET Ops : Abandon(O)

\* Each request ends: requestJson arms a deadline. Nothing binds LND.
Fairness == \A o \in Ops : WF_vars(RequestEnds(o))

Spec == Init /\ [][Next]_vars
FairSpec == Spec /\ Fairness

-----------------------------------------------------------------------------
(* Properties *)

TypeOK ==
    /\ stage \in [Ops -> {"idle", "decoding", "waiting", "paying", "over"}]
    /\ attempt \in [Ops -> 0 .. MaxAttempts]
    /\ task \in [Ops -> Tasks \cup {NoTask}]
    /\ verdict \in [Ops -> {"none", "settled", "failed", "refused",
                            "unavailable", "unconfirmed"}]
    /\ posts \in [Ops -> Nat]
    /\ lnd \in [Ops -> {"none", "sent", "accepted", "paid", "failed"}]

\* A payment is posted at most once, whatever fails around it.
PostedAtMostOnce == \A o \in Ops : posts[o] <= 1

\* An operation that reports settled names an invoice that LND paid.
SettledIsPaid == \A o \in Ops : verdict[o] = "settled" => Paid(task[o].invoice)

\* An operation that reports a definite failure has moved nothing, and what
\* it sent never will: LND knows no payment of it, or has failed it for good.
DefiniteFailureMovesNothing ==
    \A o \in Ops : verdict[o] \in {"failed", "refused", "unavailable"}
                      => lnd[o] \in {"none", "failed"}

\* LND never pays more than the limit, whatever amount the caller stated.
PaidWithinLimit == \A o \in Ops : lnd[o] = "paid" => AmountOf[task[o].invoice] \in 1 .. MaxAmount

\* Every operation that begins ends.
EveryOperationEnds == \A o \in Ops : stage[o] # "idle" ~> stage[o] = "over"
=============================================================================
