------------------------------- MODULE PayPage -------------------------------
(***************************************************************************)
(* The landing page of src/landing.js in front of POST /request: its       *)
(* submit handler chooses an idempotency key, posts the payment and reads  *)
(* the reply, over the whole of PaymentService.                            *)
(*                                                                         *)
(* The page has one request at a time under way (its button is disabled),  *)
(* but a request it gave up may still reach the server, or be running      *)
(* there. External: the network, and the user, who may submit an invoice   *)
(* any number of times, or another one in between.                         *)
(***************************************************************************)
EXTENDS PaymentService

CONSTANT Submissions    \* requests the page sends

VARIABLES
    pending,  \* pendingPayment: the invoice and key to use again, or None
    waiting,  \* the request the page awaits a reply to, or None
    sent,     \* per request: the invoice and key it was sent with, or None
    mail,     \* requests on the way to the server
    served,   \* the call of execute that each request that got there became
    fate      \* history: what the page has heard under each key

pageVars == <<pending, waiting, sent, mail, served, fate>>

\* The page states no amount; it may be given any invoice.
ASSUME PageAssumption ==
    /\ [invoice : Invoices, fallback : {0}] \subseteq Payloads
    /\ None \notin Submissions \cup [invoice : Invoices, key : Keys]

-----------------------------------------------------------------------------
\* Keys are made by crypto.randomUUID: the server knows none of them.
PageInit ==
    /\ Init
    /\ \A k \in Keys : records[k] = Idem!Absent
    /\ pending = None
    /\ waiting = None
    /\ sent = [s \in Submissions |-> None]
    /\ served = [s \in Submissions |-> None]
    /\ mail = {}
    /\ fate = [k \in Keys |-> "unused"]

UnusedKeys == {k \in Keys : fate[k] = "unused"}
Unsent     == {s \in Submissions : sent[s] = None}

\* Which call a request becomes is of no account.
NewCalls == {c \in Calls : pc[c] = "new"}
NextCall == CHOOSE c \in NewCalls : TRUE

Repeats(i) == pending # None /\ pending.invoice = i

KeyFor(i) == IF Repeats(i) THEN pending.key ELSE CHOOSE k \in UnusedKeys : TRUE

\* The key of another invoice is forgotten.
FateOnSubmit(i) ==
    [k \in Keys |-> IF k = KeyFor(i) THEN (IF fate[k] = "unused" THEN "unread" ELSE fate[k])
                    ELSE IF pending # None /\ k = pending.key THEN "dropped"
                    ELSE fate[k]]

Submits(i) ==
    /\ waiting = None
    /\ Unsent # {}
    /\ Repeats(i) \/ UnusedKeys # {}
    /\ LET s == CHOOSE t \in Unsent : TRUE IN
        /\ waiting' = s
        /\ sent' = [sent EXCEPT ![s] = [invoice |-> i, key |-> KeyFor(i)]]
        /\ mail' = mail \cup {s}
    /\ pending' = [invoice |-> i, key |-> KeyFor(i)]
    /\ fate' = FateOnSubmit(i)
    /\ UNCHANGED <<vars, served>>

\* The request reaches the server, perhaps after the page gave it up.
Reaches(s, p) ==
    /\ s \in mail
    /\ NewCalls # {}
    /\ Execute(NextCall, [proc |-> p, key |-> sent[s].key,
                   payload |-> [invoice |-> sent[s].invoice, fallback |-> 0]])
    /\ mail' = mail \ {s}
    /\ served' = [served EXCEPT ![s] = NextCall]
    /\ UNCHANGED <<pending, waiting, sent, fate>>

\* The page gets a reply it can parse, of whatever status: the payment is no
\* longer pending for it.
Read(s, heard) ==
    /\ waiting = s
    /\ pending' = None
    /\ waiting' = None
    /\ fate' = [fate EXCEPT ![sent[s].key] = heard]
    /\ UNCHANGED <<vars, sent, served>>

\* The codes LND_PAYMENT_UNCONFIRMED and IDEMPOTENCY_RECONCILIATION_REQUIRED
\* leave the payment open.
Heard(o) ==
    IF o.code = "reconcile" \/ (o.code = "answer" /\ o.result.kind = Unconfirmed)
    THEN "unconfirmed" ELSE "told"

Reads(s) ==
    /\ served[s] # None
    /\ pc[served[s]] = "done"
    /\ Read(s, Heard(outcome[served[s]]))
    /\ UNCHANGED mail

\* The server answers with an error before execute: too many requests, no
\* access, invalid.
TurnedAway(s) ==
    /\ s \in mail
    /\ Read(s, "told")
    /\ mail' = mail \ {s}

\* Mutant: the catch block forgets the payment too.
PendingForgotten == pending' = None

\* The catch block leaves the payment pending.
PendingKept == UNCHANGED pending

\* The connection fails, before or after the request reached the server, or
\* the reply does not parse.
Unread(s) ==
    /\ waiting = s
    /\ waiting' = None
    /\ PendingKept
    /\ UNCHANGED <<vars, sent, mail, served, fate>>

-----------------------------------------------------------------------------
ServiceStep ==
    /\ \/ \E c \in Calls : OperationStep(c) \/ Returns(c) \/ LndStep(c)
       \/ \E p \in Procs : Crash(p)
       \/ Tick
    /\ UNCHANGED pageVars

PageStep(s) == Reads(s) \/ TurnedAway(s) \/ Unread(s)

PageNext ==
    \/ \E i \in Invoices : Submits(i)
    \/ \E s \in Submissions :
           PageStep(s) \/ \E p \in Procs : Reaches(s, p)
    \/ ServiceStep

PageSpec == PageInit /\ [][PageNext]_<<vars, pageVars>>
PageFairSpec ==
    /\ PageSpec
    /\ Fairness

-----------------------------------------------------------------------------
(* Properties *)

\* Two payments of one invoice that LND is sent under different keys.
Reposted(c, d) ==
    /\ posts[c] > 0 /\ posts[d] > 0
    /\ request[c].payload.invoice = request[d].payload.invoice
    /\ ~ Idem!SameKey(c, d)

FatesOf(c, d) == {fate[request[c].key], fate[request[d].key]}

\* The page has LND sent a second payment of an invoice only when it had read
\* a reply under the first key, or was given another invoice in between: a
\* request that is still on its way, running, or lost keeps its key.
RepostedOnlyWhenTold ==
    \A c, d \in Calls : Reposted(c, d) => FatesOf(c, d) # {"unread"}

\* docs/OPERATIONS.md of a payment that is not confirmed: "Do not submit the
\* payment under a new key."
UnconfirmedKeepsKey ==
    \A c, d \in Calls : Reposted(c, d) => "unconfirmed" \notin FatesOf(c, d)
=============================================================================
