---------------------------- MODULE PaymentProofs ----------------------------
(***************************************************************************)
(* Theorems about PaymentService and PayPage, for any number of calls,     *)
(* keys, processes, invoices and replies of LND.                           *)
(*                                                                         *)
(* The service is the idempotency layer and the Lightning client side by   *)
(* side: every step of it is a step (or a stutter) of each. What is proved *)
(* of the two therefore holds here, and is cited from their proofs. What   *)
(* is new is the glue: which operation belongs to which call, and that a   *)
(* result, wherever it is replayed, still tells the truth about LND.       *)
(***************************************************************************)
EXTENDS PayPage, TLAPS

I == INSTANCE IdempotencyProofs
L == INSTANCE LightningProofs WITH Ops <- Calls, NoTask <- None

LEMMA IdempotencyAssumed ==
    I!KindAssumption /\ I!RetentionAssumption /\ I!NoneAssumption
BY PayloadAssumption, NoneAssumption, RetentionAssumption
DEF I!KindAssumption, I!RetentionAssumption, I!NoneAssumption, Kinds, Unconfirmed

LEMMA LightningAssumed ==
    /\ L!AmountAssumption /\ L!FallbackAssumption /\ L!AttemptAssumption
    /\ L!ReplyAssumption /\ L!InvoiceAssumption /\ L!TaskAssumption
BY NoneAssumption, LightningAssumption
DEF L!AmountAssumption, L!FallbackAssumption, L!AttemptAssumption, L!ReplyAssumption,
    L!InvoiceAssumption, L!TaskAssumption, L!Tasks, Pay!Tasks, L!AllReplies, Pay!AllReplies

-----------------------------------------------------------------------------
(* The instances PaymentService is made of are those the proofs are about  *)

LEMMA SameIdempotency ==
    /\ Idem!Init <=> I!Init
    /\ Idem!Next <=> I!Next
    /\ \A c \in Calls, r \in Idem!Requests : Idem!Execute(c, r) <=> I!Execute(c, r)
    /\ \A c \in Calls, kind \in Kinds : Idem!OperationReturns(c, kind) <=> I!OperationReturns(c, kind)
    /\ \A c \in Calls : Idem!Finish(c) <=> I!Finish(c)
    /\ \A c \in Calls : Idem!FollowerResumes(c) <=> I!FollowerResumes(c)
    /\ \A p \in Procs : Idem!Crash(p) <=> I!Crash(p)
    /\ Idem!Tick <=> I!Tick
    /\ idemVars = I!vars
    /\ Idem!vars = I!vars
    /\ Idem!Requests = I!Requests
    /\ \A c \in Calls : Idem!Recorded(c) <=> I!Recorded(c)
    /\ \A c, d \in Calls : Idem!SameKey(c, d) <=> I!SameKey(c, d)
BY DEF idemVars, Idem!vars, I!vars, Idem!Init, I!Init, Idem!Next, I!Next,
       Idem!Inherited, I!Inherited, Idem!Never, I!Never,
       Idem!Requests, I!Requests, Idem!Execute, I!Execute, Idem!Arrives, I!Arrives,
       Idem!JoinActive, I!JoinActive, Idem!RejectActive, I!RejectActive,
       Idem!ClaimAcquired, I!ClaimAcquired, Idem!ClaimRefused, I!ClaimRefused,
       Idem!ClaimFaults, I!ClaimFaults, Idem!Leads, I!Leads,
       Idem!ActiveCall, I!ActiveCall, Idem!SamePayload, I!SamePayload,
       Idem!Error, I!Error, Idem!Reply, I!Reply, Idem!Refusal, I!Refusal,
       Idem!Claimable, I!Claimable, Idem!Purged, I!Purged, Idem!Expired, I!Expired,
       Idem!Absent, I!Absent, Idem!OperationEnds, I!OperationEnds,
       Idem!OperationReturns, I!OperationReturns,
       Idem!ReturnsUnconfirmed, I!ReturnsUnconfirmed,
       Idem!ReturnsRecorded, I!ReturnsRecorded, Idem!ReturnsUnrecorded, I!ReturnsUnrecorded,
       Idem!Settles, I!Settles, Idem!Owns, I!Owns, Idem!Completed, I!Completed,
       Idem!CompletedRow, I!CompletedRow, Idem!Uncertain, I!Uncertain,
       Idem!OperationThrows, I!OperationThrows, Idem!ThrowsUnconfirmed, I!ThrowsUnconfirmed,
       Idem!ThrowsReleased, I!ThrowsReleased, Idem!ThrowsUnreleased, I!ThrowsUnreleased,
       Idem!Released, I!Released, Idem!Finish, I!Finish, Idem!EntryRemoved, I!EntryRemoved,
       Idem!FollowerResumes, I!FollowerResumes, Idem!SettledFor, I!SettledFor,
       Idem!Shared, I!Shared, Idem!Crash, I!Crash, Idem!Active, I!Active,
       Idem!Tick, I!Tick, Idem!callVars, I!callVars,
       Idem!Recorded, I!Recorded, Idem!Ran, I!Ran, Idem!SameKey, I!SameKey

LEMMA SameLightning ==
    /\ Pay!Init <=> L!Init
    /\ Pay!Next <=> L!Next
    /\ \A c \in Calls : \A t : Pay!Begin(c, t) <=> L!Begin(c, t)
    /\ \A c \in Calls : Pay!RequestEnds(c) <=> L!RequestEnds(c)
    /\ \A c \in Calls : Pay!LndStep(c) <=> L!LndStep(c)
    /\ \A C \in SUBSET Calls : Pay!Abandon(C) <=> L!Abandon(C)
    /\ payVars = L!vars
    /\ Pay!vars = L!vars
    /\ Pay!Tasks = L!Tasks
    /\ \A i : Pay!Paid(i) <=> L!Paid(i)
BY DEF payVars, Pay!vars, L!vars, Pay!Init, L!Init, Pay!Next, L!Next, Pay!Tasks, L!Tasks,
       Pay!Begin, L!Begin, Pay!Ends, L!Ends, Pay!Sent, L!Sent,
       Pay!RequestEnds, L!RequestEnds, Pay!TransportCodes, L!TransportCodes,
       Pay!Retriable, L!Retriable, Pay!Attempts, L!Attempts, Pay!Method, L!Method,
       Pay!MayRetry, L!MayRetry, Pay!NextAttempt, L!NextAttempt,
       Pay!LeavesDoubt, L!LeavesDoubt, Pay!ReportsFailure, L!ReportsFailure,
       Pay!Proves, L!Proves, Pay!Classify, L!Classify, Pay!Retries, L!Retries,
       Pay!Resends, L!Resends, Pay!GivesUp, L!GivesUp, Pay!DecodeGarbled, L!DecodeGarbled,
       Pay!AmountRefused, L!AmountRefused, Pay!WithinLimit, L!WithinLimit,
       Pay!Effective, L!Effective, Pay!Dispatch, L!Dispatch,
       Pay!DispatchFails, L!DispatchFails, Pay!Responds, L!Responds,
       Pay!Possible, L!Possible, Pay!Paid, L!Paid, Pay!LndStep, L!LndStep,
       Pay!Accepts, L!Accepts, Pay!Settles, L!Settles, Pay!Rejects, L!Rejects,
       Pay!Step, L!Step, Pay!Abandon, L!Abandon

\* The facts about the two layers that no step of the service can disturb are
\* used through their proofs, so that their definitions stay closed here.
Definite == {"failed", "refused", "unavailable"}

\* Which operation belongs to which call, and how far it can be.
GlueOf(c) ==
    /\ outcome[c].code # "thrown"
    /\ stage[c] # "idle" => I!Ran(c)
    /\ stage[c] # "idle" /\ pc[c] = "operating" => task[c] = request[c].payload
    /\ stage[c] \in {"decoding", "waiting", "paying"} => pc[c] = "operating"
    /\ stage[c] = "over" /\ pc[c] = "operating" => verdict[c] \in Kinds

Glue == \A c \in Calls : GlueOf(c)

Core == I!IInv /\ L!IInv /\ Glue

-----------------------------------------------------------------------------
(* Every step of the service is a step of both layers *)

LEMMA CoreTypes ==
    ASSUME Core
    PROVE  /\ I!Base /\ I!Kept /\ L!Sound /\ L!TypeOK
           /\ pc \in [Calls -> {"new", "operating", "following", "settled", "done", "lost"}]
           /\ stage \in [Calls -> {"idle", "decoding", "waiting", "paying", "over"}]
           /\ \A c \in Calls : pc[c] \notin {"new", "following"} => request[c] \in Idem!Requests
           /\ \A c \in Calls : stage[c] = "idle" => lnd[c] = "none" /\ posts[c] = 0
BY SameIdempotency, LightningAssumed
DEF Core, I!IInv, I!Base, I!TypeOK, I!Shape, L!IInv, L!Sound, L!TypeOK, L!Progress

\* What a call that ends returns is true of its payment.
LEMMA CallEnds ==
    ASSUME Core, NEW c \in Calls, RefusesOwn(c) \/ ReadFails(c) \/ EndsPayment(c)
    PROVE  \E kind \in Kinds :
               /\ I!OperationReturns(c, kind) /\ UNCHANGED payVars
               /\ pc[c] = "operating" /\ stage[c] \in {"idle", "over"}
               /\ kind = "settled" => L!Paid(request[c].payload.invoice)
               /\ kind \in Definite => lnd[c] \in {"none", "failed"}
<1>1. CASE RefusesOwn(c) \/ ReadFails(c)
  <2>1. pc[c] = "operating" /\ stage[c] = "idle" /\ UNCHANGED payVars /\ lnd[c] = "none"
    BY <1>1, CoreTypes DEF RefusesOwn, ReadFails, Reading
  <2>2. \E kind \in {"refused", "unavailable"} : Idem!OperationReturns(c, kind)
    BY <1>1 DEF RefusesOwn, ReadFails
  <2> QED
    BY <2>1, <2>2, SameIdempotency DEF Kinds
<1>2. CASE EndsPayment(c)
  <2>1. /\ pc[c] = "operating" /\ stage[c] = "over" /\ UNCHANGED payVars
        /\ Idem!OperationReturns(c, verdict[c])
    BY <1>2 DEF EndsPayment
  <2>2. verdict[c] \in Kinds /\ task[c] = request[c].payload
    BY <2>1 DEF Core, Glue, GlueOf
  <2>3. verdict[c] = "settled" => L!Paid(task[c].invoice)
    BY DEF Core, L!IInv, L!SettledIsPaid
  <2>4. verdict[c] \in Definite => lnd[c] \in {"none", "failed"}
    BY DEF Core, L!IInv, L!DefiniteFailureMovesNothing, Definite
  <2> QED
    BY <2>1, <2>2, <2>3, <2>4, SameIdempotency
<1> QED
  BY <1>1, <1>2

\* The steps of the service, in terms of the two layers.
LEMMA Steps ==
    ASSUME Core, [Next]_vars
    PROVE  \/ /\ \/ \E c \in Calls, r \in I!Requests : I!Execute(c, r)
                 \/ \E c \in Calls : I!Finish(c) \/ I!FollowerResumes(c)
                 \/ I!Tick
              /\ UNCHANGED payVars
           \/ \E c \in Calls : RefusesOwn(c) \/ ReadFails(c) \/ EndsPayment(c)
           \/ /\ \E c \in Calls :
                    \/ /\ pc[c] = "operating" /\ request[c].payload \in L!Tasks
                       /\ L!Begin(c, request[c].payload)
                    \/ pc[c] = "operating" /\ L!RequestEnds(c)
                    \/ L!LndStep(c)
              /\ UNCHANGED idemVars
           \/ \E p \in Procs : I!Crash(p) /\ L!Abandon(RunningAt(p))
           \/ UNCHANGED vars
<1>1. ASSUME NEW c \in Calls, BeginsPayment(c)
      PROVE  /\ pc[c] = "operating" /\ request[c].payload \in L!Tasks
             /\ L!Begin(c, request[c].payload) /\ UNCHANGED idemVars
  <2>1. pc[c] = "operating" /\ Pay!Begin(c, request[c].payload) /\ UNCHANGED idemVars
    BY <1>1 DEF BeginsPayment, Reading
  <2>2. request[c].payload \in Payloads
    BY <2>1, CoreTypes DEF Idem!Requests
  <2> QED
    BY <2>1, <2>2, PayloadAssumption, SameLightning
<1>2. ASSUME NEW p \in Procs, Crash(p) PROVE I!Crash(p) /\ L!Abandon(RunningAt(p))
  BY <1>2, SameIdempotency, SameLightning DEF Crash, RunningAt
<1>3. ASSUME NEW c \in Calls, NEW r \in Idem!Requests, Execute(c, r)
      PROVE  I!Execute(c, r) /\ r \in I!Requests /\ UNCHANGED payVars
  BY <1>3, SameIdempotency DEF Execute
<1>4. ASSUME NEW c \in Calls, Returns(c)
      PROVE  (I!Finish(c) \/ I!FollowerResumes(c)) /\ UNCHANGED payVars
  BY <1>4, SameIdempotency DEF Returns
<1>5. ASSUME NEW c \in Calls, PaymentStep(c)
      PROVE  pc[c] = "operating" /\ L!RequestEnds(c) /\ UNCHANGED idemVars
  BY <1>5, SameLightning DEF PaymentStep
<1>6. ASSUME NEW c \in Calls, LndStep(c) PROVE L!LndStep(c) /\ UNCHANGED idemVars
  BY <1>6, SameLightning DEF LndStep
<1>7. ASSUME Tick PROVE I!Tick /\ UNCHANGED payVars
  BY <1>7, SameIdempotency DEF Tick
<1> QED
  BY <1>1, <1>2, <1>3, <1>4, <1>5, <1>6, <1>7 DEF Next, OperationStep

LEMMA StepsOfLayers ==
    ASSUME Core, [Next]_vars
    PROVE  [I!Next]_(I!vars) /\ [L!Next]_(L!vars)
<1>1. /\ UNCHANGED idemVars => UNCHANGED I!vars
      /\ UNCHANGED payVars => UNCHANGED L!vars
      /\ UNCHANGED vars => UNCHANGED idemVars /\ UNCHANGED payVars
  BY DEF vars, idemVars, payVars, I!vars, L!vars
<1>2. ASSUME \/ \E c \in Calls, r \in I!Requests : I!Execute(c, r)
             \/ \E c \in Calls : I!Finish(c) \/ I!FollowerResumes(c)
             \/ I!Tick
             \/ \E p \in Procs : I!Crash(p)
             \/ \E c \in Calls, kind \in Kinds : I!OperationReturns(c, kind)
      PROVE  I!Next
  BY <1>2 DEF I!Next, I!OperationEnds
<1>3. ASSUME NEW c \in Calls,
             \/ request[c].payload \in L!Tasks /\ L!Begin(c, request[c].payload)
             \/ L!RequestEnds(c)
             \/ L!LndStep(c)
      PROVE  L!Next
  BY <1>3 DEF L!Next
<1>4. ASSUME NEW p \in Procs, L!Abandon(RunningAt(p)) PROVE L!Next
  BY <1>4 DEF L!Next, RunningAt
<1>5. ASSUME NEW c \in Calls, RefusesOwn(c) \/ ReadFails(c) \/ EndsPayment(c)
      PROVE  I!Next /\ UNCHANGED payVars
  BY <1>2, <1>5, CallEnds
<1> QED
  BY <1>1, <1>2, <1>3, <1>4, <1>5, Steps

-----------------------------------------------------------------------------
(* The glue holds *)

LEMMA CoreInit == Init => Core
<1> SUFFICES ASSUME Init PROVE Core
  OBVIOUS
<1>1. I!Init /\ L!Init
  BY SameIdempotency, SameLightning DEF Init
<1>2. I!IInv
  BY <1>1, IdempotencyAssumed, I!BaseInit, I!KeptInit DEF I!IInv
<1>3. L!IInv
  BY <1>1, LightningAssumed, L!InitHolds
<1>4. Glue
  BY <1>1 DEF Glue, GlueOf, I!Init, I!Error, L!Init
<1> QED
  BY <1>2, <1>3, <1>4 DEF Core

\* A step of a call of the first layer.
LEMMA CallStepKeepsGlue ==
    ASSUME Core, UNCHANGED payVars, NEW c \in Calls,
           \/ \E r \in I!Requests : I!Execute(c, r)
           \/ stage[c] \in {"idle", "over"} /\ \E kind \in Kinds : I!OperationReturns(c, kind)
           \/ I!Finish(c)
           \/ I!FollowerResumes(c)
    PROVE  Glue'
<1> SUFFICES ASSUME NEW d \in Calls PROVE GlueOf(d)'
  BY DEF Glue
<1>1. stage' = stage /\ task' = task /\ verdict' = verdict /\ GlueOf(d) /\ I!Base
  BY CoreTypes DEF payVars, Core, Glue
<1>2. CASE d # c
  <2>1. /\ pc'[d] = pc[d] /\ request'[d] = request[d]
        /\ startedAt'[d] = startedAt[d] /\ outcome'[d] = outcome[d]
    BY <1>1, <1>2, IdempotencyAssumed, I!OthersUnmoved
  <2> QED
    BY <1>1, <2>1 DEF GlueOf, I!Ran, I!Never
<1>3. CASE d = c
  <2>1. outcome'[c].code # "thrown"
    BY <1>1, IdempotencyAssumed, I!NothingThrown DEF Core, Glue, GlueOf
  <2>2. CASE \E r \in I!Requests : I!Execute(c, r)
    <3>1. pc[c] = "new"
      BY <1>1, <2>2, IdempotencyAssumed, I!CallMoves
    <3>2. stage[c] = "idle"
      BY <1>1, <1>3, <3>1 DEF GlueOf, I!Base, I!Shape, I!Ran
    <3> QED
      BY <1>1, <1>3, <2>1, <3>2 DEF GlueOf
  <2>3. CASE ~ \E r \in I!Requests : I!Execute(c, r)
    <3>1. /\ pc'[c] \in {"settled", "done"} /\ startedAt'[c] = startedAt[c]
          /\ stage[c] \in {"idle", "over"} \/ pc[c] \in {"settled", "following"}
      BY <1>1, <2>3, IdempotencyAssumed, I!CallMoves
    <3> QED
      BY <1>1, <1>3, <2>1, <3>1 DEF GlueOf, I!Ran, I!Never
  <2> QED
    BY <2>2, <2>3
<1> QED
  BY <1>2, <1>3

\* A step of a payment.
LEMMA PaymentStepKeepsGlue ==
    ASSUME Core, UNCHANGED idemVars, NEW c \in Calls,
           \/ pc[c] = "operating" /\ L!Begin(c, request[c].payload)
           \/ pc[c] = "operating" /\ L!RequestEnds(c)
           \/ L!LndStep(c)
    PROVE  Glue'
<1> SUFFICES ASSUME NEW d \in Calls PROVE GlueOf(d)'
  BY DEF Glue
<1>1. /\ UNCHANGED <<pc, request, outcome, startedAt>> /\ GlueOf(d) /\ L!IInv /\ I!Base
  BY CoreTypes DEF idemVars, Core, Glue
<1>2. I!Ran(d)' = I!Ran(d)
  BY <1>1 DEF I!Ran, I!Never
<1>3. pc[d] = "operating" => I!Ran(d)
  BY <1>1 DEF I!Base, I!Shape, I!Ran
<1>4. CASE pc[c] = "operating" /\ L!Begin(c, request[c].payload)
  <2>1. /\ stage'[d] = IF d = c THEN "decoding" ELSE stage[d]
        /\ task'[d] = IF d = c THEN request[c].payload ELSE task[d]
        /\ verdict' = verdict
    BY <1>1, <1>4 DEF L!Begin, L!IInv, L!Sound, L!TypeOK
  <2> QED
    BY <1>1, <1>2, <1>3, <1>4, <2>1 DEF GlueOf
<1>5. CASE pc[c] = "operating" /\ L!RequestEnds(c)
  <2>1. /\ stage[c] \in {"decoding", "waiting", "paying"}
        /\ d # c => stage'[d] = stage[d]
        /\ stage'[c] \in {"decoding", "waiting", "paying", "over"}
        /\ stage'[c] = "over" => verdict'[c] \in L!Reports
        /\ task' = task
    BY <1>1, <1>5, LightningAssumed, L!RequestMoves
  <2>2. d # c => verdict'[d] = verdict[d]
    BY <1>1, <1>5 DEF L!RequestEnds, L!Retries, L!Resends, L!GivesUp, L!DecodeGarbled,
           L!AmountRefused, L!Dispatch, L!DispatchFails, L!Responds, L!Ends,
           L!IInv, L!Sound, L!TypeOK
  <2> QED
    BY <1>1, <1>2, <1>3, <1>5, <2>1, <2>2 DEF GlueOf, L!Reports, Kinds
<1>6. CASE L!LndStep(c)
  <2>1. UNCHANGED <<stage, task, verdict>>
    BY <1>6 DEF L!LndStep, L!Accepts, L!Settles, L!Rejects, L!Step
  <2> QED
    BY <1>1, <1>2, <2>1 DEF GlueOf
<1> QED
  BY <1>4, <1>5, <1>6

\* A crash ends the operations of its process, and their calls are lost.
LEMMA CrashKeepsGlue ==
    ASSUME Core, NEW p \in Procs, I!Crash(p), L!Abandon(RunningAt(p))
    PROVE  Glue'
<1> SUFFICES ASSUME NEW c \in Calls PROVE GlueOf(c)'
  BY DEF Glue
<1>1. /\ GlueOf(c) /\ UNCHANGED <<request, outcome, startedAt, task, verdict>>
      /\ pc'[c] = IF I!Active(c) /\ request[c].proc = p THEN "lost" ELSE pc[c]
      /\ stage'[c] = IF c \in RunningAt(p) THEN "over" ELSE stage[c]
  BY DEF Core, Glue, I!Crash, L!Abandon
<1>2. I!Ran(c)' = I!Ran(c) /\ (pc[c] = "operating" => I!Ran(c))
  BY <1>1, CoreTypes DEF I!Base, I!Shape, I!Ran, I!Never
<1> QED
  BY <1>1, <1>2 DEF GlueOf, RunningAt, I!Active

LEMMA GlueNext == Core /\ [Next]_vars => Glue'
<1> SUFFICES ASSUME Core, [Next]_vars PROVE Glue'
  OBVIOUS
<1>1. ASSUME NEW c \in Calls, RefusesOwn(c) \/ ReadFails(c) \/ EndsPayment(c) PROVE Glue'
  BY <1>1, CallEnds, CallStepKeepsGlue
<1>2. ASSUME (I!Tick /\ UNCHANGED payVars) \/ UNCHANGED vars PROVE Glue'
  <2>1. UNCHANGED <<pc, request, outcome, startedAt, stage, task, verdict>>
    BY <1>2 DEF I!Tick, I!callVars, payVars, idemVars, vars
  <2> QED
    BY <2>1 DEF Core, Glue, GlueOf, I!Ran, I!Never
<1> QED
  BY <1>1, <1>2, Steps, CallStepKeepsGlue, PaymentStepKeepsGlue, CrashKeepsGlue

LEMMA CoreNext == Core /\ [Next]_vars => Core'
<1> SUFFICES ASSUME Core, [Next]_vars PROVE Core'
  OBVIOUS
<1>1. [I!Next]_(I!vars) /\ [L!Next]_(L!vars)
  BY StepsOfLayers
<1>2. I!IInv'
  BY <1>1, IdempotencyAssumed, I!BaseNext, I!KeptNext DEF Core, I!IInv
<1>3. L!IInv'
  BY <1>1, LightningAssumed, L!StepHolds DEF Core
<1> QED
  BY <1>2, <1>3, GlueNext DEF Core

LEMMA CoreHolds == Spec => []Core
BY CoreInit, CoreNext, PTL DEF Spec

-----------------------------------------------------------------------------
(* The service implements both layers *)

\* Every behaviour of the service is one of the idempotency layer: executing
\* payments, it keeps all that Idempotency promises for any operation.
THEOREM ServiceIsIdempotent == Spec => Idem!Spec
<1>1. Init => Idem!Init
  BY DEF Init
<1>2. Core /\ [Next]_vars => [Idem!Next]_(Idem!vars)
  BY StepsOfLayers, SameIdempotency DEF Idem!vars, I!vars
<1> QED
  BY CoreHolds, <1>1, <1>2, PTL DEF Spec, Idem!Spec

\* Every behaviour of the service is one of the Lightning client, for as many
\* payments as there are calls: replays and crashes begin none anew.
THEOREM ServicePaysAsClient == Spec => Pay!Spec
<1>1. Init => Pay!Init
  BY DEF Init
<1>2. Core /\ [Next]_vars => [Pay!Next]_(Pay!vars)
  BY StepsOfLayers, SameLightning DEF Pay!vars, L!vars
<1> QED
  BY CoreHolds, <1>1, <1>2, PTL DEF Spec, Pay!Spec

\* The promises of the first layer that are used below.
LEMMA Promised == Spec => [](I!RunsLieApart /\ I!Origins /\ I!AnswerIsOwn)
<1>1. Idem!Spec => I!Spec
  <2>1. Idem!Init => I!Init
    BY SameIdempotency
  <2>2. [Idem!Next]_(Idem!vars) => [I!Next]_(I!vars)
    BY SameIdempotency DEF Idem!vars, I!vars
  <2> QED
    BY <2>1, <2>2, PTL DEF Idem!Spec, I!Spec
<1> QED
  BY ServiceIsIdempotent, <1>1, IdempotencyAssumed, I!RunsOfAKeyLieApart, I!OriginsHold,
     I!AnswersAreOwn, PTL

-----------------------------------------------------------------------------
(* Two payments under one key *)

\* Two calls with one key post two payments only if the first was answered
\* with a definite result longer before than the retention.
THEOREM PaymentsPerKey == Spec => []OnePaymentPerKey
<1>1. Core /\ I!RunsLieApart => OnePaymentPerKey
  <2> SUFFICES ASSUME Core, I!RunsLieApart, NEW c \in Calls, NEW d \in Calls,
                      c # d, posts[c] > 0, posts[d] > 0, I!SameKey(c, d)
               PROVE  \E first, second \in {c, d} :
                          /\ I!Recorded(first)
                          /\ startedAt[second] > startedAt[first] + Retention
    BY SameIdempotency DEF OnePaymentPerKey
  <2>1. \A e \in {c, d} : I!Ran(e) /\ ~ I!Undone(e)
    BY CoreTypes DEF Core, Glue, GlueOf, I!Undone
  <2> QED
    BY <2>1 DEF I!RunsLieApart
<1> QED
  BY CoreHolds, Promised, <1>1, PTL

-----------------------------------------------------------------------------
(* What clients are told *)

\* What a result says of the payment of its run.
TrueOf(result) ==
    result.by \in Calls =>
        /\ pc[result.by] \in {"settled", "done", "lost"}
        /\ result.kind = "settled" => L!Paid(request[result.by].payload.invoice)
        /\ result.kind \in Definite => lnd[result.by] \in {"none", "failed"}

Truthful == \A result \in I!Reported : TrueOf(result)

\* What is true of a payment when it is reported stays true.
LEMMA TruthStays ==
    ASSUME Core, [Next]_vars, NEW result, TrueOf(result)
    PROVE  TrueOf(result)'
<1> SUFFICES ASSUME NEW c \in Calls, c = result.by PROVE TrueOf(result)'
  BY DEF TrueOf
<1>1. pc[c] \in {"settled", "done", "lost"}
  BY DEF TrueOf
<1>2. pc'[c] \in {"settled", "done", "lost"} /\ request'[c] = request[c]
  BY <1>1, CoreTypes, StepsOfLayers, IdempotencyAssumed, I!EndedStays
<1>3. stage[c] # "decoding"
  BY <1>1 DEF Core, Glue, GlueOf
<1>4. lnd[c] \in {"none", "failed"} => lnd'[c] = lnd[c]
  BY <1>3, StepsOfLayers, LightningAssumed, L!LndMoves DEF Core
<1>5. \A i : L!Paid(i) => L!Paid(i)'
  BY StepsOfLayers, LightningAssumed, L!PaidStays DEF Core
<1> QED
  BY <1>2, <1>4, <1>5 DEF TrueOf

LEMMA TruthInit == Init => Truthful
<1> SUFFICES ASSUME Init, NEW result \in I!Reported PROVE TrueOf(result)
  BY DEF Truthful
<1>1. I!Init
  BY SameIdempotency DEF Init
<1>2. PICK k \in Keys : records[k].state = "completed" /\ result = records[k].result
  BY <1>1 DEF I!Init, I!Reported, I!Error
<1>3. result.by = None
  BY <1>1, <1>2 DEF I!Init, I!Inherited, I!Absent
<1> QED
  BY <1>3, NoneAssumption DEF TrueOf

LEMMA TruthNext == Core /\ Truthful /\ [Next]_vars => Truthful'
<1> SUFFICES ASSUME Core, Truthful, [Next]_vars PROVE Truthful'
  OBVIOUS
<1>1. \A result \in I!Reported : TrueOf(result)'
  BY TruthStays DEF Truthful
<1>2. CASE I!Reported' \subseteq I!Reported
  BY <1>1, <1>2 DEF Truthful
\* A result of a run is true of it when the run ends.
<1>3. ASSUME NEW c \in Calls, RefusesOwn(c) \/ ReadFails(c) \/ EndsPayment(c)
      PROVE  Truthful'
  <2>1. PICK kind \in Kinds :
            /\ I!OperationReturns(c, kind) /\ UNCHANGED payVars
            /\ kind = "settled" => L!Paid(request[c].payload.invoice)
            /\ kind \in Definite => lnd[c] \in {"none", "failed"}
    BY <1>3, CallEnds
  <2> DEFINE own == [kind |-> kind, by |-> c]
  <2>2. \A result \in I!Reported' : result \in I!Reported \/ result = own
    BY <2>1, CoreTypes, IdempotencyAssumed, I!EndReports
  <2>3. pc'[c] = "settled" /\ request'[c] = request[c]
    BY <2>1, CoreTypes, IdempotencyAssumed, I!CallMoves
  <2>4. L!Paid(request[c].payload.invoice) => L!Paid(request[c].payload.invoice)'
    BY <2>1, <2>3 DEF L!Paid, payVars
  <2>5. lnd' = lnd
    BY <2>1 DEF payVars
  <2>6. TrueOf(own)'
    BY <2>1, <2>3, <2>4, <2>5 DEF TrueOf
  <2> QED
    BY <1>1, <2>2, <2>6 DEF Truthful
<1>4. ASSUME \/ \E c \in Calls, r \in I!Requests : I!Execute(c, r)
             \/ \E c \in Calls : I!Finish(c) \/ I!FollowerResumes(c)
             \/ I!Tick
             \/ \E p \in Procs : I!Crash(p)
             \/ UNCHANGED idemVars
      PROVE  I!Reported' \subseteq I!Reported
  <2>1. UNCHANGED idemVars => UNCHANGED I!vars
    BY DEF idemVars, I!vars
  <2> QED
    BY <1>4, <2>1, CoreTypes, IdempotencyAssumed, I!OthersReportNothing
<1>5. UNCHANGED vars => UNCHANGED idemVars
  BY DEF vars
<1> QED
  BY <1>2, <1>3, <1>4, <1>5, Steps

LEMMA TruthHolds == Spec => []Truthful
BY CoreHolds, TruthInit, TruthNext, PTL DEF Spec

\* An answer that reports a run reports what is true of it, to whoever asked
\* for the same payment.
LEMMA AnswerIsTrue ==
    ASSUME I!Origins, I!AnswerIsOwn, Truthful, NEW c \in Calls,
           outcome[c].code = "answer", outcome[c].result.by # None
    PROVE  LET d == outcome[c].result.by IN
           /\ d \in Calls /\ TrueOf(outcome[c].result)
           /\ request[d].payload = request[c].payload
<1>1. outcome[c].result \in I!Reported
  BY DEF I!Reported
<1>2. outcome[c].result.by \in Calls
  BY DEF I!Origins, I!OwnOutcome, I!From, I!Results
<1> QED
  BY <1>1, <1>2 DEF Truthful, I!AnswerIsOwn

\* A client told that its payment settled, at once or by a replay after any
\* number of crashes, asked for an invoice that LND paid.
THEOREM SettledAnswersArePaid == Spec => []SettledAnswerIsPaid
<1>1. I!Origins /\ I!AnswerIsOwn /\ Truthful => SettledAnswerIsPaid
  BY AnswerIsTrue, SameLightning DEF SettledAnswerIsPaid, Answered, TrueOf
<1> QED
  BY Promised, TruthHolds, <1>1, PTL

\* A client told that its payment failed is told so of a payment that has
\* moved nothing, and never will.
THEOREM FailedAnswersMoveNothing == Spec => []FailedAnswerMovesNothing
<1>1. I!Origins /\ I!AnswerIsOwn /\ Truthful => FailedAnswerMovesNothing
  BY AnswerIsTrue DEF FailedAnswerMovesNothing, Answered, TrueOf, Definite
<1> QED
  BY Promised, TruthHolds, <1>1, PTL

-----------------------------------------------------------------------------
(* The page in front of the service *)

PageTypes ==
    /\ pending \in [invoice : Invoices, key : Keys] \cup {None}
    /\ waiting \in Submissions \cup {None}
    /\ sent \in [Submissions -> [invoice : Invoices, key : Keys] \cup {None}]
    /\ fate \in [Keys -> {"unused", "unread", "told", "unconfirmed", "dropped"}]
    /\ \A s \in mail : s \in Submissions /\ sent[s] # None

\* The page awaits the reply to its pending payment, and has one key at most
\* under which it has read nothing yet: that of the pending payment.
OneKeyUnread ==
    /\ waiting # None => pending # None /\ sent[waiting] = pending
    /\ \A k \in Keys : fate[k] = "unread" => pending # None /\ pending.key = k

PageInv == PageTypes /\ OneKeyUnread

LEMMA KeyForIsKey ==
    ASSUME PageTypes, NEW i \in Invoices, Repeats(i) \/ UnusedKeys # {}
    PROVE  /\ KeyFor(i) \in Keys
           /\ [invoice |-> i, key |-> KeyFor(i)] \in [invoice : Invoices, key : Keys]
<1>1. CASE Repeats(i)
  BY <1>1 DEF Repeats, KeyFor, PageTypes
<1>2. CASE ~ Repeats(i)
  <2>1. UnusedKeys # {} /\ KeyFor(i) = CHOOSE k \in UnusedKeys : TRUE
    BY <1>2 DEF KeyFor
  <2>2. KeyFor(i) \in UnusedKeys
    BY <2>1
  <2> QED
    BY <2>2 DEF UnusedKeys
<1> QED
  BY <1>1, <1>2

LEMMA SubmitKeepsPage ==
    ASSUME PageInv, NEW i \in Invoices, Submits(i)
    PROVE  PageInv'
<1> DEFINE payment == [invoice |-> i, key |-> KeyFor(i)]
<1>1. waiting = None /\ KeyFor(i) \in Keys /\ payment \in [invoice : Invoices, key : Keys]
  BY KeyForIsKey DEF Submits, PageInv
<1>2. PICK s \in Submissions :
          /\ waiting' = s
          /\ sent' = [sent EXCEPT ![s] = payment]
          /\ mail' = mail \cup {s}
  <2>1. Unsent # {} /\ (CHOOSE t \in Unsent : TRUE) \in Unsent
    BY DEF Submits
  <2> QED
    BY <2>1 DEF Submits, Unsent
<1>3. payment # None
  BY <1>1, PageAssumption
<1>4. pending' = payment /\ fate' = FateOnSubmit(i)
  BY DEF Submits
<1>5. \A k \in Keys :
          fate'[k] = IF k = KeyFor(i) THEN (IF fate[k] = "unused" THEN "unread" ELSE fate[k])
                     ELSE IF pending # None /\ k = pending.key THEN "dropped"
                     ELSE fate[k]
  BY <1>4 DEF FateOnSubmit
<1>6. PageTypes'
  <2>1. fate' \in [Keys -> {"unused", "unread", "told", "unconfirmed", "dropped"}]
    BY <1>4 DEF FateOnSubmit, PageInv, PageTypes
  <2>2. \A t \in mail' : t \in Submissions /\ sent'[t] # None
    BY <1>2, <1>3 DEF PageInv, PageTypes
  <2>3. sent' \in [Submissions -> [invoice : Invoices, key : Keys] \cup {None}]
    BY <1>1, <1>2 DEF PageInv, PageTypes
  <2> QED
    BY <1>1, <1>2, <1>4, <2>1, <2>2, <2>3 DEF PageTypes
<1>7. OneKeyUnread'
  <2>1. sent'[waiting'] = pending'
    BY <1>2, <1>4 DEF PageInv, PageTypes
  <2>2. \A k \in Keys : fate'[k] = "unread" => pending'.key = k
    BY <1>4, <1>5 DEF PageInv, OneKeyUnread
  <2> QED
    BY <1>3, <1>4, <2>1, <2>2 DEF OneKeyUnread
<1> QED
  BY <1>6, <1>7 DEF PageInv

LEMMA ReadKeepsPage ==
    ASSUME PageInv, NEW s \in Submissions, NEW heard \in {"told", "unconfirmed"},
           Read(s, heard), mail' \subseteq mail
    PROVE  PageInv'
<1>1. /\ waiting = s /\ pending' = None /\ waiting' = None /\ sent' = sent
      /\ fate' = [fate EXCEPT ![sent[s].key] = heard]
  BY DEF Read
<1>2. pending \in [invoice : Invoices, key : Keys] /\ sent[s] = pending
  BY <1>1, PageAssumption DEF PageInv, PageTypes, OneKeyUnread
<1>3. \A k \in Keys : fate'[k] = IF k = pending.key THEN heard ELSE fate[k]
  BY <1>1, <1>2 DEF PageInv, PageTypes
<1>4. PageTypes'
  BY <1>1, <1>2 DEF PageInv, PageTypes
<1>5. OneKeyUnread'
  BY <1>1, <1>3 DEF PageInv, OneKeyUnread
<1> QED
  BY <1>4, <1>5 DEF PageInv

LEMMA PageInvInit == PageInit => PageInv
BY DEF PageInit, PageInv, PageTypes, OneKeyUnread

LEMMA PageInvNext == PageInv /\ [PageNext]_<<vars, pageVars>> => PageInv'
<1> SUFFICES ASSUME PageInv, [PageNext]_<<vars, pageVars>> PROVE PageInv'
  OBVIOUS
<1>1. ASSUME NEW i \in Invoices, Submits(i) PROVE PageInv'
  BY <1>1, SubmitKeepsPage
<1>2. ASSUME NEW s \in Submissions, Reads(s) \/ TurnedAway(s) PROVE PageInv'
  <2>1. PICK heard \in {"told", "unconfirmed"} : Read(s, heard) /\ mail' \subseteq mail
    BY <1>2 DEF Reads, Heard, TurnedAway
  <2> QED
    BY <2>1, ReadKeepsPage
<1>3. ASSUME NEW s \in Submissions, Unread(s) PROVE PageInv'
  BY <1>3 DEF Unread, PendingKept, PageInv, PageTypes, OneKeyUnread
<1>4. ASSUME NEW s \in Submissions, NEW p \in Procs, Reaches(s, p) PROVE PageInv'
  BY <1>4 DEF Reaches, PageInv, PageTypes, OneKeyUnread
<1>5. CASE ServiceStep \/ UNCHANGED <<vars, pageVars>>
  BY <1>5 DEF ServiceStep, pageVars, PageInv, PageTypes, OneKeyUnread
<1> QED
  BY <1>1, <1>2, <1>3, <1>4, <1>5 DEF PageNext, PageStep

LEMMA PageHolds == PageSpec => []PageInv
BY PageInvInit, PageInvNext, PTL DEF PageSpec

\* Every behaviour of the page is one of the service: what clients are told,
\* and how often a key pays, holds for what the page submits too.
THEOREM PageUsesService == PageSpec => Spec
<1>1. PageInit => Init
  BY DEF PageInit
<1>2. PageInv /\ [PageNext]_<<vars, pageVars>> => [Next]_vars
  <2> SUFFICES ASSUME PageInv, PageNext PROVE [Next]_vars
    BY DEF pageVars
  <2>1. ASSUME NEW s \in Submissions, NEW p \in Procs, Reaches(s, p) PROVE Next
    <3> DEFINE r == [proc |-> p, key |-> sent[s].key,
                     payload |-> [invoice |-> sent[s].invoice, fallback |-> 0]]
    <3>1. sent[s] \in [invoice : Invoices, key : Keys]
      BY <2>1 DEF Reaches, PageInv, PageTypes
    <3>2. r \in Idem!Requests
      BY <3>1, PageAssumption DEF Idem!Requests
    <3>3. NextCall \in Calls
      BY <2>1 DEF Reaches, NextCall, NewCalls
    <3>4. Execute(NextCall, r)
      BY <2>1 DEF Reaches
    <3> QED
      BY <3>2, <3>3, <3>4 DEF Next
  <2>2. ASSUME NEW s \in Submissions, PageStep(s) PROVE UNCHANGED vars
    BY <2>2 DEF PageStep, Reads, TurnedAway, Unread, Read
  <2>3. ASSUME NEW i \in Invoices, Submits(i) PROVE UNCHANGED vars
    BY <2>3 DEF Submits
  <2>4. ASSUME ServiceStep PROVE Next
    BY <2>4 DEF ServiceStep, Next
  <2> QED
    BY <2>1, <2>2, <2>3, <2>4 DEF PageNext
<1> QED
  BY PageHolds, <1>1, <1>2, PTL DEF PageSpec, Spec

\* The page has LND sent a second payment of an invoice only when it had read
\* a reply under the first key, or was given another invoice in between.
THEOREM RepostsAreTold == PageSpec => []RepostedOnlyWhenTold
<1>1. Core /\ PageInv => RepostedOnlyWhenTold
  <2> SUFFICES ASSUME Core, PageInv, NEW c \in Calls, NEW d \in Calls,
                      posts[c] > 0, posts[d] > 0, request[c].key # request[d].key,
                      fate[request[c].key] = "unread", fate[request[d].key] = "unread"
               PROVE  FALSE
    BY DEF RepostedOnlyWhenTold, Reposted, FatesOf, Idem!SameKey
  <2>1. \A e \in {c, d} : request[e].key \in Keys
    BY CoreTypes, IdempotencyAssumed, I!RanHasKey DEF Core, Glue, GlueOf
  <2> QED
    BY <2>1 DEF PageInv, OneKeyUnread
<1> QED
  BY PageUsesService, CoreHolds, PageHolds, <1>1, PTL
=============================================================================
