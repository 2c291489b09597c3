---------------------------- MODULE PaymentService ----------------------------
(***************************************************************************)
(* POST /request, and a Bluetooth request, that pays an invoice: the       *)
(* handlers of src/app.js run handlePayment of src/processor.js as the     *)
(* operation of execute. Idempotency and Lightning are composed: a call    *)
(* whose claim is acquired runs one payment operation of its own name, and *)
(* a process that crashes takes both with it. What LND was sent survives.  *)
(***************************************************************************)
EXTENDS Naturals, FiniteSets

CONSTANTS
    Calls, Keys, Procs, Retention, MaxTime, None,            \* Idempotency
    Invoices, AmountOf, Fallbacks, MaxAmount, MaxAttempts, Replies,  \* Lightning
    Payloads,  \* the payment requests that clients make
    Own        \* the invoices this service created itself

Kinds == {"settled", "failed", "refused", "unavailable", "unconfirmed"}
Unconfirmed == "unconfirmed"

VARIABLES now, records, inFlight, pc, request, leader, startedAt, outcome
VARIABLES stage, attempt, task, verdict, posts, lnd

idemVars == <<now, records, inFlight, pc, request, leader, startedAt, outcome>>
payVars  == <<stage, attempt, task, verdict, posts, lnd>>
vars     == <<idemVars, payVars>>

Idem == INSTANCE Idempotency
Pay  == INSTANCE Lightning WITH Ops <- Calls, NoTask <- None

ASSUME PayloadAssumption   == Payloads \subseteq Pay!Tasks
ASSUME OwnAssumption       == Own \subseteq Invoices
ASSUME NoneAssumption      == None \notin Calls \cup Pay!Tasks
ASSUME RetentionAssumption == Retention \in Nat \ {0} /\ MaxTime \in Nat
ASSUME LightningAssumption ==
    /\ AmountOf \in [Invoices -> Nat] /\ MaxAmount \in Nat /\ Fallbacks \subseteq Nat
    /\ MaxAttempts \in Nat \ {0}
    /\ Replies \subseteq Pay!AllReplies
    /\ Invoices \cap {"bad", "zero"} = {}

-----------------------------------------------------------------------------
Init == Idem!Init /\ Pay!Init

\* execute up to its first await. The operation has then begun, and awaits
\* the stored requests and invoices.
Execute(c, r) == Idem!Execute(c, r) /\ UNCHANGED payVars

Reading(c) == pc[c] = "operating" /\ stage[c] = "idle"

OwnInvoice(c) == request[c].payload.invoice \in Own

\* SELF_PAYMENT_NOT_ALLOWED: the error is returned as a result.
RefusesOwn(c) ==
    /\ Reading(c)
    /\ OwnInvoice(c)
    /\ Idem!OperationReturns(c, "refused")
    /\ UNCHANGED payVars

\* The collections cannot be read: INTERNAL_ERROR.
ReadFails(c) ==
    /\ Reading(c)
    /\ Idem!OperationReturns(c, "unavailable")
    /\ UNCHANGED payVars

BeginsPayment(c) ==
    /\ Reading(c)
    /\ ~ OwnInvoice(c)
    /\ Pay!Begin(c, request[c].payload)
    /\ UNCHANGED idemVars

PaymentStep(c) ==
    /\ pc[c] = "operating"
    /\ Pay!RequestEnds(c)
    /\ UNCHANGED idemVars

\* Every verdict becomes a result with a code of its own: the handler turns
\* what the operation throws into a result, and execute never sees a throw.
EndsPayment(c) ==
    /\ pc[c] = "operating"
    /\ stage[c] = "over"
    /\ Idem!OperationReturns(c, verdict[c])
    /\ UNCHANGED payVars

Returns(c) == (Idem!Finish(c) \/ Idem!FollowerResumes(c)) /\ UNCHANGED payVars

LndStep(c) == Pay!LndStep(c) /\ UNCHANGED idemVars

\* The operations that die with process p.
RunningAt(p) == {c \in Calls : pc[c] = "operating" /\ request[c].proc = p}

Crash(p) == Idem!Crash(p) /\ Pay!Abandon(RunningAt(p))

Tick == Idem!Tick /\ UNCHANGED payVars

OperationStep(c) ==
    RefusesOwn(c) \/ ReadFails(c) \/ BeginsPayment(c) \/ PaymentStep(c) \/ EndsPayment(c)

Next ==
    \/ \E c \in Calls :
           \/ \E r \in Idem!Requests : Execute(c, r)
           \/ OperationStep(c)
           \/ Returns(c)
           \/ LndStep(c)
    \/ \E p \in Procs : Crash(p)
    \/ Tick

\* Requests to LND have a deadline, and settled promises resume their handlers.
Fairness == \A c \in Calls : WF_vars(OperationStep(c)) /\ WF_vars(Returns(c))

Spec == Init /\ [][Next]_vars
FairSpec == Spec /\ Fairness

-----------------------------------------------------------------------------
(* Properties *)

\* Two calls with one key post two payments only if the first was answered
\* with a definite result longer before than the retention: never after a
\* crash, a lost reply or a result that could not be recorded.
OnePaymentPerKey ==
    \A c, d \in Calls :
        (c # d /\ posts[c] > 0 /\ posts[d] > 0 /\ Idem!SameKey(c, d)) =>
            \E first, second \in {c, d} :
                /\ Idem!Recorded(first)
                /\ startedAt[second] > startedAt[first] + Retention

Answered(c, kinds) ==
    /\ outcome[c].code = "answer"
    /\ outcome[c].result.kind \in kinds
    /\ outcome[c].result.by # None

\* A client told that its payment settled, at once or by a replay after any
\* number of crashes, asked for an invoice that LND paid.
SettledAnswerIsPaid ==
    \A c \in Calls : Answered(c, {"settled"}) => Pay!Paid(request[c].payload.invoice)

\* A client told that its payment failed is told so of a payment that has
\* moved nothing, and never will.
FailedAnswerMovesNothing ==
    \A c \in Calls : Answered(c, {"failed", "refused", "unavailable"}) =>
        lnd[outcome[c].result.by] \in {"none", "failed"}

\* Every request is answered, unless its process crashes.
EveryCallEnds == \A c \in Calls : pc[c] # "new" ~> pc[c] \in {"done", "lost"}
=============================================================================
