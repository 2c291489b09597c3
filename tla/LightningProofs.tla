--------------------------- MODULE LightningProofs ---------------------------
(***************************************************************************)
(* Theorems about Lightning, for any invoices, replies, limits and number  *)
(* of attempts. Progress says what the stage of an operation tells of what *)
(* it has sent; with it, the truth of what an operation reports follows    *)
(* from what LND may reply.                                                *)
(***************************************************************************)
EXTENDS Lightning, TLAPS

Progress ==
    \A o \in Ops :
        /\ stage[o] = "idle" => verdict[o] = "none"
        /\ stage[o] \in {"idle", "decoding", "waiting"} => posts[o] = 0
        /\ stage[o] = "paying" => posts[o] = 1
        /\ posts[o] <= 1
        /\ posts[o] = 0 => lnd[o] = "none"
        /\ stage[o] \in {"decoding", "waiting", "paying"} =>
               task[o] \in Tasks /\ attempt[o] >= 1 /\ verdict[o] = "none"
        /\ stage[o] = "waiting" => attempt[o] < MaxAttempts

\* LND was only ever asked to pay amounts within the limit, and pays no
\* invoice without one.
Asked == \A o \in Ops :
            /\ lnd[o] # "none" => WithinLimit(task[o])
            /\ lnd[o] = "paid" => AmountOf[task[o].invoice] # 0

Sound == TypeOK /\ Progress /\ Asked

IInv == Sound /\ SettledIsPaid /\ DefiniteFailureMovesNothing

USE AmountAssumption, AttemptAssumption, ReplyAssumption, InvoiceAssumption, TaskAssumption

-----------------------------------------------------------------------------
LEMMA InitHolds == Init => IInv
BY DEF Init, IInv, Sound, TypeOK, Progress, Asked, SettledIsPaid, DefiniteFailureMovesNothing

\* Only a GET waits to be tried again.
LEMMA RetryIsGet ==
    ASSUME Sound, NEW o \in Ops, NEW code, Retries(o, code)
    PROVE  stage[o] = "decoding" /\ attempt[o] < MaxAttempts
<1>1. stage[o] \in {"decoding", "paying"} /\ attempt[o] < Attempts(Method(o))
  BY DEF Retries, MayRetry
<1>2. CASE stage[o] = "paying"
  <2>1. posts[o] = 1 /\ attempt[o] >= 1 /\ attempt[o] \in Nat
    BY <1>2 DEF Sound, Progress, TypeOK
  <2> QED
    BY <1>1, <2>1 DEF Attempts, Method
<1>3. CASE stage[o] = "decoding"
  BY <1>1, <1>3 DEF Attempts, Method, Sound, Progress
<1> QED
  BY <1>1, <1>2, <1>3

\* What an operation may report of its payment.
LEMMA ReplyIsTrue ==
    ASSUME TypeOK, NEW o \in Ops, NEW r \in Replies, Possible(r, o), task[o] \in Tasks
    PROVE  LET v == Classify(r, task[o].invoice) IN
           /\ v \in {"settled", "failed", "unconfirmed"}
           /\ v = "settled" => Paid(task[o].invoice)
           /\ v = "failed" => lnd[o] = "failed"
<1>1. task[o].invoice \in Invoices
  BY DEF Tasks
<1> QED
  BY <1>1 DEF Classify, Proves, Possible

-----------------------------------------------------------------------------
(* Operations that end *)

LEMMA EndHolds ==
    ASSUME Sound, NEW o \in Ops, NEW v \in {"settled", "failed", "refused", "unavailable", "unconfirmed"},
           stage[o] \in {"decoding", "paying"}, Ends(o, v)
    PROVE  Sound'
<1> USE DEF Sound, Ends
<1>1. TypeOK'
  BY DEF TypeOK
<1>2. Progress'
  BY DEF TypeOK, Progress
<1>3. Asked'
  BY DEF Asked
<1> QED
  BY <1>1, <1>2, <1>3

\* An end whose report is true leaves every report true.
LEMMA TrueEnd ==
    ASSUME IInv, NEW o \in Ops, NEW v, Ends(o, v),
           v = "settled" => Paid(task[o].invoice),
           v \in {"failed", "refused", "unavailable"} => lnd[o] \in {"none", "failed"}
    PROVE  (SettledIsPaid /\ DefiniteFailureMovesNothing)'
<1> USE DEF IInv, Sound, Ends
<1>1. \A p \in Ops : verdict'[p] = IF p = o THEN v ELSE verdict[p]
  BY DEF TypeOK
<1>2. SettledIsPaid'
  BY <1>1 DEF SettledIsPaid, Paid
<1>3. DefiniteFailureMovesNothing'
  BY <1>1 DEF DefiniteFailureMovesNothing
<1> QED
  BY <1>2, <1>3

\* Steps that report nothing, and change LND only from "none" to "sent" for
\* an operation without a report, leave the reports true.
LEMMA Unreported ==
    ASSUME IInv, UNCHANGED <<task, verdict>>,
           \A o \in Ops : verdict[o] # "none" => lnd'[o] = lnd[o],
           \A o \in Ops : lnd[o] = "paid" => lnd'[o] = "paid"
    PROVE  (SettledIsPaid /\ DefiniteFailureMovesNothing)'
BY DEF IInv, SettledIsPaid, DefiniteFailureMovesNothing, Paid

-----------------------------------------------------------------------------
(* Steps *)

LEMMA RequestEndHolds ==
    ASSUME IInv, NEW o \in Ops, RequestEnds(o)
    PROVE  IInv'
<1>1. Sound
  BY DEF IInv
<1>2. ASSUME NEW code \in TransportCodes, Retries(o, code) PROVE IInv'
  <2>1. stage[o] = "decoding" /\ attempt[o] < MaxAttempts
    BY <1>1, <1>2, RetryIsGet
  <2>2. Sound'
    BY <1>1, <1>2, <2>1 DEF Retries, Sound, TypeOK, Progress, Asked
  <2> QED
    BY <1>2, <2>2, Unreported DEF Retries, IInv
<1>3. CASE Resends(o)
  <2>1. posts[o] = 0 /\ attempt[o] \in Nat /\ attempt[o] < MaxAttempts
    BY <1>1, <1>3 DEF Resends, Sound, TypeOK, Progress
  <2>2. posts' = posts /\ stage' = [stage EXCEPT ![o] = "decoding"]
    BY <1>3, <2>1 DEF Resends, Method
  <2>3. Sound'
    BY <1>1, <1>3, <2>1, <2>2 DEF Resends, NextAttempt, Sound, TypeOK, Progress, Asked
  <2> QED
    BY <1>3, <2>3, Unreported DEF Resends, IInv
<1>4. ASSUME NEW code \in TransportCodes, GivesUp(o, code) PROVE IInv'
  <2>1. stage[o] \in {"decoding", "paying"}
    BY <1>4 DEF GivesUp
  <2>2. CASE stage[o] = "paying"
    <3>1. Ends(o, "unconfirmed")
      BY <1>4, <2>2 DEF GivesUp, LeavesDoubt, TransportCodes
    <3> QED
      BY <1>1, <2>1, <3>1, EndHolds, TrueEnd DEF IInv
  <2>3. CASE stage[o] = "decoding"
    <3>1. Ends(o, "unavailable") /\ lnd[o] = "none"
      BY <1>1, <1>4, <2>3 DEF GivesUp, Sound, Progress
    <3> QED
      BY <1>1, <2>1, <3>1, EndHolds, TrueEnd DEF IInv
  <2> QED
    BY <2>1, <2>2, <2>3
<1>5. CASE DecodeGarbled(o) \/ DispatchFails(o) \/ AmountRefused(o)
  <2>1. PICK v \in {"unavailable", "refused"} : Ends(o, v)
    BY <1>5 DEF DecodeGarbled, DispatchFails, AmountRefused
  <2>2. stage[o] = "decoding" /\ lnd[o] = "none"
    BY <1>1, <1>5 DEF DecodeGarbled, DispatchFails, AmountRefused, Sound, Progress
  <2> QED
    BY <1>1, <2>1, <2>2, EndHolds, TrueEnd DEF IInv
<1>6. CASE Dispatch(o)
  <2>1. posts[o] = 0 /\ lnd[o] = "none" /\ verdict[o] = "none" /\ WithinLimit(task[o])
    BY <1>1, <1>6 DEF Dispatch, Sound, Progress
  <2>2. TypeOK' /\ Progress'
    BY <1>1, <1>6, <2>1 DEF Dispatch, Sent, Sound, TypeOK, Progress
  <2>3. Asked'
    BY <1>1, <1>6, <2>1 DEF Dispatch, Sound, Asked, TypeOK, WithinLimit, Effective
  <2>4. (SettledIsPaid /\ DefiniteFailureMovesNothing)'
    BY <1>1, <1>6, <2>1, Unreported DEF Dispatch, Sound, TypeOK
  <2> QED
    BY <2>2, <2>3, <2>4 DEF IInv, Sound
<1>7. ASSUME NEW r \in Replies, Responds(o, r) PROVE IInv'
  <2>1. stage[o] = "paying" /\ task[o] \in Tasks /\ Possible(r, o) /\ TypeOK
    BY <1>1, <1>7 DEF Responds, Sound, Progress
  <2>2. PICK v \in {"settled", "failed", "unconfirmed"} :
            /\ Ends(o, v)
            /\ v = "settled" => Paid(task[o].invoice)
            /\ v = "failed" => lnd[o] = "failed"
    BY <1>7, <2>1, ReplyIsTrue DEF Responds
  <2> QED
    BY <1>1, <2>1, <2>2, EndHolds, TrueEnd DEF IInv
<1> QED
  BY <1>2, <1>3, <1>4, <1>5, <1>6, <1>7 DEF RequestEnds

LEMMA LndHolds ==
    ASSUME IInv, NEW o \in Ops, LndStep(o)
    PROVE  IInv'
<1>1. PICK to \in {"accepted", "paid", "failed"} :
          /\ lnd[o] \in {"sent", "accepted"}
          /\ lnd' = [lnd EXCEPT ![o] = to]
          /\ to = "paid" => AmountOf[task[o].invoice] # 0
          /\ UNCHANGED <<stage, attempt, task, verdict, posts>>
  BY DEF LndStep, Accepts, Settles, Rejects, Step
<1>2. Sound'
  BY <1>1 DEF IInv, Sound, TypeOK, Progress, Asked, WithinLimit, Effective
<1>3. SettledIsPaid'
  BY <1>1 DEF IInv, Sound, TypeOK, SettledIsPaid, Paid
<1>4. DefiniteFailureMovesNothing'
  BY <1>1 DEF IInv, Sound, TypeOK, DefiniteFailureMovesNothing
<1> QED
  BY <1>2, <1>3, <1>4 DEF IInv

LEMMA StepHolds == IInv /\ [Next]_vars => IInv'
<1> SUFFICES ASSUME IInv, [Next]_vars PROVE IInv'
  OBVIOUS
<1>1. ASSUME NEW o \in Ops, NEW t \in Tasks, Begin(o, t) PROVE IInv'
  <2>1. stage[o] = "idle" /\ posts[o] = 0 /\ lnd[o] = "none" /\ verdict[o] = "none"
    BY <1>1 DEF Begin, IInv, Sound, Progress
  <2>2. TypeOK' /\ Progress'
    BY <1>1, <2>1 DEF Begin, IInv, Sound, TypeOK, Progress
  <2>3. \A p \in Ops : p # o => task'[p] = task[p]
    BY <1>1 DEF Begin, IInv, Sound, TypeOK
  <2>4. Asked' /\ SettledIsPaid' /\ DefiniteFailureMovesNothing'
    BY <1>1, <2>1, <2>3 DEF Begin, IInv, Sound, Asked, WithinLimit, Effective,
                            SettledIsPaid, Paid, DefiniteFailureMovesNothing
  <2> QED
    BY <2>2, <2>4 DEF IInv, Sound
<1>2. ASSUME NEW o \in Ops, RequestEnds(o) \/ LndStep(o) PROVE IInv'
  BY <1>2, RequestEndHolds, LndHolds
<1>3. ASSUME NEW O \in SUBSET Ops, Abandon(O) PROVE IInv'
  <2>1. Sound'
    BY <1>3 DEF Abandon, IInv, Sound, TypeOK, Progress, Asked
  <2> QED
    BY <1>3, <2>1, Unreported DEF Abandon, IInv
<1>4. CASE UNCHANGED vars
  <2>1. Sound'
    BY <1>4 DEF vars, IInv, Sound, TypeOK, Progress, Asked, WithinLimit, Effective
  <2> QED
    BY <1>4, <2>1, Unreported DEF vars, IInv
<1> QED
  BY <1>1, <1>2, <1>3, <1>4 DEF Next

LEMMA Inductive == Spec => []IInv
BY InitHolds, StepHolds, PTL DEF Spec

-----------------------------------------------------------------------------
(* What later steps leave of a payment *)

Reports == {"settled", "failed", "refused", "unavailable", "unconfirmed"}

\* A step of an operation that is under way moves its own stage only, keeps
\* its task, and reports how it ended when it ends.
LEMMA RequestMoves ==
    ASSUME IInv, NEW o \in Ops, RequestEnds(o)
    PROVE  /\ stage[o] \in {"decoding", "waiting", "paying"}
           /\ \A p \in Ops : p # o => stage'[p] = stage[p]
           /\ stage'[o] \in {"decoding", "waiting", "paying", "over"}
           /\ stage'[o] = "over" => verdict'[o] \in Reports
           /\ task' = task
<1> USE DEF IInv, Sound, TypeOK
<1>1. ASSUME NEW v \in Reports, Ends(o, v), stage[o] \in {"decoding", "paying"}
      PROVE  /\ \A p \in Ops : p # o => stage'[p] = stage[p]
             /\ stage'[o] = "over" /\ verdict'[o] \in Reports /\ task' = task
  BY <1>1 DEF Ends
<1>2. CASE \E code \in TransportCodes : Retries(o, code)
  BY <1>2 DEF Retries
<1>3. CASE Resends(o)
  BY <1>3 DEF Resends
<1>4. CASE Dispatch(o)
  BY <1>4 DEF Dispatch
<1>5. CASE (\E code \in TransportCodes : GivesUp(o, code))
           \/ DecodeGarbled(o) \/ AmountRefused(o) \/ DispatchFails(o)
  BY <1>1, <1>5 DEF GivesUp, DecodeGarbled, AmountRefused, DispatchFails, Reports
<1>6. ASSUME NEW r \in Replies, Responds(o, r)
      PROVE  stage[o] = "paying" /\ \E v \in Reports : Ends(o, v)
  BY <1>6 DEF Responds, Classify, Reports
<1> QED
  BY <1>1, <1>2, <1>3, <1>4, <1>5, <1>6 DEF RequestEnds

\* What a step may make of a payment: LND is sent it by an operation that
\* decodes, and decides once.
LEMMA LndMoves ==
    ASSUME IInv, [Next]_vars, NEW o \in Ops
    PROVE  /\ lnd[o] \in {"paid", "failed"} => lnd'[o] = lnd[o]
           /\ lnd[o] = "none" /\ stage[o] # "decoding" => lnd'[o] = "none"
           /\ lnd[o] # "none" => task'[o] = task[o]
<1> USE DEF IInv, Sound, TypeOK
<1>1. ASSUME NEW p \in Ops, NEW t \in Tasks, Begin(p, t)
      PROVE  lnd' = lnd /\ (lnd[o] # "none" => task'[o] = task[o])
  BY <1>1 DEF Begin, Progress
<1>2. ASSUME NEW p \in Ops, RequestEnds(p)
      PROVE  task' = task /\ \/ lnd' = lnd
                             \/ /\ lnd' = [lnd EXCEPT ![p] = "sent"]
                                /\ stage[p] = "decoding" /\ lnd[p] = "none"
  BY <1>2 DEF RequestEnds, Retries, GivesUp, Resends, DecodeGarbled, AmountRefused,
              Dispatch, DispatchFails, Responds, Ends, Progress
<1>3. ASSUME NEW p \in Ops, LndStep(p)
      PROVE  task' = task /\ \E to : /\ lnd[p] \in {"sent", "accepted"}
                                     /\ lnd' = [lnd EXCEPT ![p] = to]
  BY <1>3 DEF LndStep, Accepts, Settles, Rejects, Step
<1>4. ASSUME (\E O \in SUBSET Ops : Abandon(O)) \/ UNCHANGED vars
      PROVE  task' = task /\ lnd' = lnd
  BY <1>4 DEF Abandon, vars
<1> QED
  BY <1>1, <1>2, <1>3, <1>4 DEF Next

\* An invoice that is paid stays paid.
LEMMA PaidStays ==
    ASSUME IInv, [Next]_vars, NEW i, Paid(i)
    PROVE  Paid(i)'
BY LndMoves DEF Paid

-----------------------------------------------------------------------------
\* Stages, attempts, tasks, reports and payments have their types.
THEOREM TypeCorrect == Spec => []TypeOK
<1>1. IInv => TypeOK
  BY DEF IInv, Sound
<1> QED
  BY Inductive, <1>1, PTL

\* Whatever fails and is tried again, an operation posts one payment at most.
THEOREM PostedOnce == Spec => []PostedAtMostOnce
<1>1. IInv => PostedAtMostOnce
  BY DEF IInv, Sound, Progress, PostedAtMostOnce
<1> QED
  BY Inductive, <1>1, PTL

\* An operation that reports settled names an invoice that LND has paid.
THEOREM SettledIsTrue == Spec => []SettledIsPaid
<1>1. IInv => SettledIsPaid
  BY DEF IInv
<1> QED
  BY Inductive, <1>1, PTL

\* LND never pays more than the limit, whatever amounts callers state.
THEOREM PaymentsWithinLimit == Spec => []PaidWithinLimit
<1>1. IInv => PaidWithinLimit
  BY DEF IInv, Sound, Asked, PaidWithinLimit, WithinLimit, Effective
<1> QED
  BY Inductive, <1>1, PTL

\* An operation that reports a definite failure moved nothing.
THEOREM FailureIsTrue == Spec => []DefiniteFailureMovesNothing
<1>1. IInv => DefiniteFailureMovesNothing
  BY DEF IInv
<1> QED
  BY Inductive, <1>1, PTL

-----------------------------------------------------------------------------
(* How many steps an operation still has, at most: it decodes at each of   *)
(* its attempts, waits between two of them, and posts once.                *)

StepsLeft(o) ==
    CASE stage[o] = "idle"     -> 2 * MaxAttempts + 1
      [] stage[o] = "decoding" -> 2 * (MaxAttempts - attempt[o]) + 2
      [] stage[o] = "waiting"  -> 2 * (MaxAttempts - attempt[o]) + 1
      [] stage[o] = "paying"   -> 1
      [] stage[o] = "over"     -> 0

\* Every step of an operation is one fewer, and none is added by another's.
RunsDown ==
    [][\A o \in Ops :
        /\ StepsLeft(o) \in Nat
        /\ RequestEnds(o) => StepsLeft(o)' < StepsLeft(o)
        /\ StepsLeft(o)' <= StepsLeft(o)]_vars

LEMMA StepsLeftIsNat ==
    ASSUME Sound, NEW o \in Ops
    PROVE  /\ StepsLeft(o) \in Nat
           /\ stage[o] \in {"decoding", "waiting"} => StepsLeft(o) >= 1
           /\ stage[o] = "decoding" => StepsLeft(o) >= 2
<1>1. /\ attempt[o] \in Nat /\ attempt[o] <= MaxAttempts /\ MaxAttempts \in Nat
      /\ stage[o] \in {"idle", "decoding", "waiting", "paying", "over"}
  BY DEF Sound, TypeOK
<1> QED
  BY <1>1 DEF StepsLeft

LEMMA RequestRunsDown ==
    ASSUME Sound, Sound', NEW o \in Ops, RequestEnds(o)
    PROVE  /\ StepsLeft(o)' < StepsLeft(o)
           /\ \A p \in Ops : p # o => StepsLeft(p)' = StepsLeft(p)
<1> USE DEF Sound, TypeOK
<1>1. ASSUME NEW v, Ends(o, v), stage[o] \in {"decoding", "paying"}
      PROVE  StepsLeft(o)' < StepsLeft(o)
  BY <1>1, StepsLeftIsNat DEF Ends, StepsLeft
<1>2. ASSUME NEW code, Retries(o, code) PROVE StepsLeft(o)' < StepsLeft(o)
  <2>1. stage[o] = "decoding" /\ stage'[o] = "waiting" /\ attempt'[o] = attempt[o]
    BY <1>2, RetryIsGet DEF Retries
  <2> QED
    BY <2>1 DEF StepsLeft
<1>3. ASSUME Resends(o) PROVE StepsLeft(o)' < StepsLeft(o)
  <2>1. stage[o] = "waiting" /\ stage'[o] = "decoding" /\ attempt'[o] = attempt[o] + 1
    BY <1>3 DEF Resends, Method, NextAttempt, Progress
  <2> QED
    BY <2>1 DEF StepsLeft
<1>4. ASSUME Dispatch(o) PROVE StepsLeft(o)' < StepsLeft(o)
  <2>1. stage[o] = "decoding" /\ stage'[o] = "paying"
    BY <1>4 DEF Dispatch
  <2> QED
    BY <2>1, StepsLeftIsNat DEF StepsLeft
<1>5. StepsLeft(o)' < StepsLeft(o)
  BY <1>1, <1>2, <1>3, <1>4 DEF RequestEnds, GivesUp, DecodeGarbled, AmountRefused, DispatchFails, Responds
<1>6. ASSUME NEW p \in Ops, p # o PROVE StepsLeft(p)' = StepsLeft(p)
  <2>1. stage'[p] = stage[p] /\ attempt'[p] = attempt[p]
    BY <1>6 DEF RequestEnds, Retries, GivesUp, Resends, DecodeGarbled, AmountRefused,
                Dispatch, DispatchFails, Responds, Ends
  <2> QED
    BY <2>1 DEF StepsLeft
<1> QED
  BY <1>5, <1>6

\* However its requests fail, an operation takes 2 * MaxAttempts + 1 steps at
\* most, the safety part of EveryOperationEnds: requests that end, as their
\* deadlines see to, end the operation.
THEOREM OperationsRunDown == Spec => RunsDown
<1> DEFINE Down ==
        \A o \in Ops :
            /\ StepsLeft(o) \in Nat
            /\ RequestEnds(o) => StepsLeft(o)' < StepsLeft(o)
            /\ StepsLeft(o)' <= StepsLeft(o)
<1>1. IInv /\ IInv' /\ [Next]_vars => [Down]_vars
  <2> SUFFICES ASSUME IInv, IInv', [Next]_vars, NEW o \in Ops
               PROVE  /\ RequestEnds(o) => StepsLeft(o)' < StepsLeft(o)
                      /\ StepsLeft(o)' <= StepsLeft(o)
    BY StepsLeftIsNat DEF IInv
  <2>1. StepsLeft(o) \in Nat /\ StepsLeft(o)' \in Nat
    <3>1. /\ attempt'[o] \in Nat /\ attempt'[o] <= MaxAttempts /\ MaxAttempts \in Nat
          /\ stage'[o] \in {"idle", "decoding", "waiting", "paying", "over"}
      BY DEF IInv, Sound, TypeOK
    <3>2. StepsLeft(o)' \in Nat
      BY <3>1 DEF StepsLeft
    <3> QED
      BY <3>2, StepsLeftIsNat DEF IInv
  <2>2. RequestEnds(o) => StepsLeft(o)' < StepsLeft(o)
    BY RequestRunsDown DEF IInv
  <2>3. ASSUME NEW p \in Ops, RequestEnds(p) PROVE StepsLeft(o)' <= StepsLeft(o)
    BY <2>1, <2>2, <2>3, RequestRunsDown DEF IInv
  <2>4. ASSUME NEW p \in Ops, NEW t \in Tasks, Begin(p, t) PROVE StepsLeft(o)' <= StepsLeft(o)
    <3>1. CASE p = o
      <4>1. stage[o] = "idle" /\ stage'[o] = "decoding" /\ attempt'[o] = 1
        BY <2>4, <3>1 DEF Begin, IInv, Sound, TypeOK
      <4> QED
        BY <4>1 DEF StepsLeft
    <3>2. CASE p # o
      BY <2>1, <2>4, <3>2 DEF Begin, StepsLeft, IInv, Sound, TypeOK
    <3> QED
      BY <3>1, <3>2
  <2>5. ASSUME NEW O \in SUBSET Ops, Abandon(O) PROVE StepsLeft(o)' <= StepsLeft(o)
    <3>1. stage'[o] = "over" \/ (stage'[o] = stage[o] /\ attempt'[o] = attempt[o])
      BY <2>5 DEF Abandon
    <3>2. stage'[o] = "over" => StepsLeft(o)' = 0
      BY DEF StepsLeft
    <3>3. stage'[o] = stage[o] /\ attempt'[o] = attempt[o] => StepsLeft(o)' = StepsLeft(o)
      BY DEF StepsLeft
    <3> QED
      BY <2>1, <3>1, <3>2, <3>3
  <2>6. ASSUME UNCHANGED <<stage, attempt>> PROVE StepsLeft(o)' <= StepsLeft(o)
    <3>1. StepsLeft(o)' = StepsLeft(o)
      BY <2>6 DEF StepsLeft
    <3> QED
      BY <2>1, <3>1
  <2>7. (\E p \in Ops : LndStep(p)) \/ UNCHANGED vars => UNCHANGED <<stage, attempt>>
    BY DEF LndStep, Accepts, Settles, Rejects, Step, vars
  <2> QED
    BY <2>2, <2>3, <2>4, <2>5, <2>6, <2>7 DEF Next
<1> QED
  BY <1>1, Inductive, PTL DEF Spec, RunsDown
=============================================================================
