----------------------------- MODULE Idempotency -----------------------------
(***************************************************************************)
(* The idempotency layer: execute of src/idempotency.js over the records   *)
(* of src/idempotency-store.js, kept in the SQLite database of             *)
(* src/database.js.                                                        *)
(*                                                                         *)
(* Several server processes may share the database. Each one runs its      *)
(* handlers on a single thread: what a handler does between two awaits is  *)
(* one action. Each access to the records is one BEGIN IMMEDIATE           *)
(* transaction, atomic across processes. A process may crash at any time;  *)
(* the records survive it, its inFlight map and its handlers do not.       *)
(***************************************************************************)
EXTENDS Naturals, FiniteSets

CONSTANTS
    Calls,        \* calls of execute: one request of a client, or one retry
    Keys,         \* idempotency keys
    Payloads,     \* validated payloads (one fingerprint each)
    Procs,        \* server processes sharing the database
    Kinds,        \* kinds of result an operation may return
    Unconfirmed,  \* the kind whose body code is LND_PAYMENT_UNCONFIRMED
    Retention,    \* IDEMPOTENCY_RETENTION_MS
    MaxTime,      \* bound on the clock
    None          \* no call, no record, no result

ASSUME KindAssumption      == Unconfirmed \in Kinds
ASSUME RetentionAssumption == Retention \in Nat \ {0} /\ MaxTime \in Nat
ASSUME NoneAssumption      == None \notin Calls \cup Payloads

VARIABLES
    now,        \* Date.now(), one clock for all processes
    records,    \* the row of each key, or Absent
    inFlight,   \* per process and key: the call whose promise is in the map
    pc,         \* where each call is
    request,    \* the process, key and payload of each call that started
    leader,     \* the call whose promise this one awaits (its own, or joined)
    startedAt,  \* when the call's claim was acquired, or Never
    outcome     \* what execute returned or threw

vars == <<now, records, inFlight, pc, request, leader, startedAt, outcome>>
callVars == <<pc, request, leader, startedAt, outcome>>

-----------------------------------------------------------------------------
(* Types *)

Times == 0 .. MaxTime
Never == MaxTime + 1

\* A result names the run of the operation that produced it; None stands for
\* a run that ended before the behaviour starts.
Results == [kind : Kinds, by : Calls \cup {None}]

Rows == [state : {"absent", "pending", "completed"}, payload : Payloads \cup {None},
         owner : Calls \cup {None}, result : Results \cup {None}, created : Times]

Absent == [state |-> "absent", payload |-> None, owner |-> None,
           result |-> None, created |-> 0]

Requests == [proc : Procs, key : Keys, payload : Payloads]

Codes == {"none", "answer", "conflict", "reconcile", "internal",
          "thrown", "unconfirmed", "unrecorded"}

Outcomes == [code : Codes, result : Results \cup {None}, replayed : BOOLEAN]

Error(code) == [code |-> code, result |-> None, replayed |-> FALSE]
Reply(result, replayed) == [code |-> "answer", result |-> result, replayed |-> replayed]

-----------------------------------------------------------------------------
(* The store *)

\* Mutants: the purge takes pending rows too; it is one tick early.
ExpiredAnyState(row) == row.state # "absent" /\ row.created + Retention < now
ExpiredEarly(row) == row.state = "completed" /\ row.created + Retention <= now

Expired(row) == row.state = "completed" /\ row.created + Retention < now

\* Every claim begins with the DELETE of all expired completed rows.
Purged == [k \in Keys |-> IF Expired(records[k]) THEN Absent ELSE records[k]]

\* completeRecord and releaseRecord touch the pending row of their owner only.
Owns(c) ==
    LET row == records[request[c].key] IN
    /\ row.state = "pending"
    /\ row.owner = c
    /\ row.payload = request[c].payload

CompletedRow(row, result) == [row EXCEPT !.state = "completed", !.result = result]

Completed(c, result) ==
    [records EXCEPT ![request[c].key] = CompletedRow(records[request[c].key], result)]

\* Mutant: the row is marked instead of deleted.
MarkedReleased(c) == [records EXCEPT ![request[c].key].state = "released"]

Released(c) == [records EXCEPT ![request[c].key] = Absent]

-----------------------------------------------------------------------------
(* Rows an earlier deployment left, once the migrations of the store ran:  *)
(* uncertain results are pending, and keep the result as evidence.         *)

Inherited ==
    {Absent}
    \cup [state : {"completed"}, payload : Payloads, owner : {None}, created : {0},
          result : [kind : Kinds \ {Unconfirmed}, by : {None}]]
    \cup [state : {"pending"}, payload : Payloads, owner : {None}, created : {0},
          result : {[kind |-> Unconfirmed, by |-> None]}]

Init ==
    /\ now = 0
    /\ records \in [Keys -> Inherited]
    /\ inFlight = [p \in Procs |-> [k \in Keys |-> None]]
    /\ pc = [c \in Calls |-> "new"]
    /\ request = [c \in Calls |-> None]
    /\ leader = [c \in Calls |-> None]
    /\ startedAt = [c \in Calls |-> Never]
    /\ outcome = [c \in Calls |-> Error("none")]

-----------------------------------------------------------------------------
(* execute, up to its first await *)

Arrives(c, r) ==
    /\ pc[c] = "new"
    /\ request' = [request EXCEPT ![c] = r]

ActiveCall(r) == inFlight[r.proc][r.key]

\* Mutant: the active call's fingerprint is not compared.
AnyPayload(d, r) == d \in Calls

SamePayload(d, r) == request[d].payload = r.payload

\* The key is in flight in this process, for the same payload.
JoinActive(c, r) ==
    /\ Arrives(c, r)
    /\ ActiveCall(r) # None
    /\ SamePayload(ActiveCall(r), r)
    /\ pc' = [pc EXCEPT ![c] = "following"]
    /\ leader' = [leader EXCEPT ![c] = ActiveCall(r)]
    /\ UNCHANGED <<now, records, inFlight, startedAt, outcome>>

\* The key is in flight in this process, for another payload.
RejectActive(c, r) ==
    /\ Arrives(c, r)
    /\ ActiveCall(r) # None
    /\ ~ SamePayload(ActiveCall(r), r)
    /\ pc' = [pc EXCEPT ![c] = "done"]
    /\ outcome' = [outcome EXCEPT ![c] = Error("conflict")]
    /\ UNCHANGED <<now, records, inFlight, leader, startedAt>>

\* The claim and inFlight.set happen without an await between them.
Leads(c, r) ==
    /\ Arrives(c, r)
    /\ ActiveCall(r) = None
    /\ inFlight' = [inFlight EXCEPT ![r.proc][r.key] = c]
    /\ leader' = [leader EXCEPT ![c] = c]

\* Mutant: a pending row does not stand in the way.
ClaimableIfPending(r) == Purged[r.key].state # "completed"

Claimable(r) == Purged[r.key].state = "absent"

ClaimAcquired(c, r) ==
    /\ Leads(c, r)
    /\ Claimable(r)
    /\ records' = [Purged EXCEPT ![r.key] =
           [state |-> "pending", payload |-> r.payload, owner |-> c,
            result |-> None, created |-> now]]
    /\ pc' = [pc EXCEPT ![c] = "operating"]
    /\ startedAt' = [startedAt EXCEPT ![c] = now]
    /\ UNCHANGED <<now, outcome>>

\* What a call learns from the row that stands in its way.
Refusal(row, r) ==
    IF row.payload # r.payload THEN Error("conflict")
    ELSE IF row.state = "completed" THEN Reply(row.result, TRUE)
    ELSE Error("reconcile")

ClaimRefused(c, r) ==
    /\ Leads(c, r)
    /\ ~ Claimable(r)
    /\ records' = Purged
    /\ pc' = [pc EXCEPT ![c] = "settled"]
    /\ outcome' = [outcome EXCEPT ![c] = Refusal(Purged[r.key], r)]
    /\ UNCHANGED <<now, startedAt>>

\* The transaction of the claim fails and is rolled back.
ClaimFaults(c, r) ==
    /\ Leads(c, r)
    /\ pc' = [pc EXCEPT ![c] = "settled"]
    /\ outcome' = [outcome EXCEPT ![c] = Error("internal")]
    /\ UNCHANGED <<now, records, startedAt>>

-----------------------------------------------------------------------------
(* execute, once its operation has ended *)

Settles(c, o) ==
    /\ pc[c] = "operating"
    /\ pc' = [pc EXCEPT ![c] = "settled"]
    /\ outcome' = [outcome EXCEPT ![c] = o]
    /\ UNCHANGED <<now, inFlight, request, leader, startedAt>>

\* Mutant: results are recorded whatever their code.
NothingUncertain(kind) == kind \notin Kinds

Uncertain(kind) == kind = Unconfirmed

\* An uncertain result is returned, and the row stays pending.
ReturnsUnconfirmed(c, kind) ==
    /\ Uncertain(kind)
    /\ Settles(c, Reply([kind |-> kind, by |-> c], FALSE))
    /\ UNCHANGED records

ReturnsRecorded(c, kind) ==
    /\ ~ Uncertain(kind)
    /\ Settles(c, Reply([kind |-> kind, by |-> c], FALSE))
    /\ Owns(c)
    /\ records' = Completed(c, [kind |-> kind, by |-> c])

\* completeRecord throws: the row is not ours any more, or the transaction
\* fails and is rolled back.
ReturnsUnrecorded(c, kind) ==
    /\ ~ Uncertain(kind)
    /\ Settles(c, Error("unrecorded"))
    /\ UNCHANGED records

OperationReturns(c, kind) ==
    \/ ReturnsUnconfirmed(c, kind)
    \/ ReturnsRecorded(c, kind)
    \/ ReturnsUnrecorded(c, kind)

\* The operation throws LND_PAYMENT_UNCONFIRMED: the row stays pending.
ThrowsUnconfirmed(c) ==
    /\ Settles(c, Error("unconfirmed"))
    /\ UNCHANGED records

\* It throws anything else: the row is released (if it is still ours).
ThrowsReleased(c) ==
    /\ Settles(c, Error("thrown"))
    /\ records' = IF Owns(c) THEN Released(c) ELSE records

\* releaseRecord fails in the catch block, and its error is what is thrown.
ThrowsUnreleased(c) ==
    /\ Settles(c, Error("internal"))
    /\ UNCHANGED records

OperationThrows(c) ==
    ThrowsUnconfirmed(c) \/ ThrowsReleased(c) \/ ThrowsUnreleased(c)

-----------------------------------------------------------------------------
(* execute returns to its caller *)

\* Mutant: not in a finally block.
EntryRemovedOnSuccess(c) ==
    IF outcome[c].code = "answer"
    THEN [inFlight EXCEPT ![request[c].proc][request[c].key] = None] ELSE inFlight

EntryRemoved(c) == [inFlight EXCEPT ![request[c].proc][request[c].key] = None]

\* The finally block of the leader removes the entry of its key.
Finish(c) ==
    /\ pc[c] = "settled"
    /\ pc' = [pc EXCEPT ![c] = "done"]
    /\ inFlight' = EntryRemoved(c)
    /\ UNCHANGED <<now, records, request, leader, startedAt, outcome>>

\* Mutant: only a fulfilled promise resumes the calls that joined it.
FulfilledFor(c) == pc[leader[c]] = "done" /\ outcome[leader[c]].code = "answer"

\* A call that joined shares the result, or the error, of the promise. It
\* awaited the promise after the leader did, so it resumes after it.
Shared(o) == [o EXCEPT !.replayed = o.code = "answer"]

SettledFor(c) == pc[leader[c]] = "done"

FollowerResumes(c) ==
    /\ pc[c] = "following"
    /\ SettledFor(c)
    /\ pc' = [pc EXCEPT ![c] = "done"]
    /\ outcome' = [outcome EXCEPT ![c] = Shared(outcome[leader[c]])]
    /\ UNCHANGED <<now, records, inFlight, request, leader, startedAt>>

-----------------------------------------------------------------------------
(* The environment *)

Active(c) == pc[c] \in {"operating", "following", "settled"}

Crash(p) ==
    /\ pc' = [c \in Calls |->
           IF Active(c) /\ request[c].proc = p THEN "lost" ELSE pc[c]]
    /\ inFlight' = [inFlight EXCEPT ![p] = [k \in Keys |-> None]]
    /\ UNCHANGED <<now, records, request, leader, startedAt, outcome>>

Tick ==
    /\ now < MaxTime
    /\ now' = now + 1
    /\ UNCHANGED <<records, inFlight, callVars>>

Execute(c, r) ==
    \/ JoinActive(c, r)
    \/ RejectActive(c, r)
    \/ ClaimAcquired(c, r)
    \/ ClaimRefused(c, r)
    \/ ClaimFaults(c, r)

OperationEnds(c) == (\E kind \in Kinds : OperationReturns(c, kind)) \/ OperationThrows(c)

Next ==
    \/ \E c \in Calls :
           \/ \E r \in Requests : Execute(c, r)
           \/ OperationEnds(c)
           \/ Finish(c)
           \/ FollowerResumes(c)
    \/ \E p \in Procs : Crash(p)
    \/ Tick

\* Operations end (every LND request has a deadline) and promises that have
\* settled resume the handlers that await them. Nothing else is fair.
Fairness ==
    \A c \in Calls : /\ WF_vars(OperationEnds(c))
                     /\ WF_vars(Finish(c))
                     /\ WF_vars(FollowerResumes(c))

Spec == Init /\ [][Next]_vars
FairSpec == Spec /\ Fairness
-----------------------------------------------------------------------------
(* Properties *)

TypeOK ==
    /\ now \in Times
    /\ records \in [Keys -> Rows]
    /\ inFlight \in [Procs -> [Keys -> Calls \cup {None}]]
    /\ pc \in [Calls -> {"new", "operating", "following", "settled", "done", "lost"}]
    /\ request \in [Calls -> Requests \cup {None}]
    /\ leader \in [Calls -> Calls \cup {None}]
    /\ startedAt \in [Calls -> Times \cup {Never}]
    /\ outcome \in [Calls -> Outcomes]

Ran(c) == startedAt[c] # Never
SameKey(c, d) == request[c].key = request[d].key

\* The run of c ended with a definite result, now recorded.
Recorded(c) == Ran(c) /\ outcome[c].code = "answer" /\ outcome[c].result.kind # Unconfirmed

\* The run of c is known to have had no effect.
Undone(c) == Ran(c) /\ outcome[c].code = "thrown"

\* Two operations never run at once for one key, in whichever processes.
OneOperationPerKey ==
    \A c, d \in Calls :
        (pc[c] = "operating" /\ pc[d] = "operating" /\ SameKey(c, d)) => c = d

\* As long as the outcome of a run is open, uncertain, or could not be
\* recorded, and for ever if its process died, the row of the key is pending
\* in the name of that run: nothing purges, completes or takes it.
UncertainKeepsKey ==
    \A c \in Calls : (Ran(c) /\ ~ Recorded(c) /\ ~ Undone(c)) => Owns(c)

\* A definite result that a run reported is found by every retry, in every
\* process, until it is older than the retention.
RetainedAnswerReplays ==
    \A c \in Calls : (Recorded(c) /\ now <= startedAt[c] + Retention) =>
        LET row == records[request[c].key] IN
        row.state = "completed" /\ row.result = outcome[c].result
                                /\ row.payload = request[c].payload

\* An answer comes from a run for the same key and the same payload.
AnswerIsOwn ==
    \A c \in Calls : outcome[c].code = "answer" =>
        LET d == outcome[c].result.by IN
        d # None => Ran(d) /\ SameKey(c, d) /\ request[d].payload = request[c].payload

\* The map of a process holds exactly its calls that lead and have not
\* returned: a finally block never removes the entry of another call.
InFlightIsExact ==
    \A p \in Procs, k \in Keys, c \in Calls :
        inFlight[p][k] = c <=> /\ pc[c] \in {"operating", "settled"}
                               /\ request[c].proc = p
                               /\ request[c].key = k

\* The operation of a key runs again only when each earlier run is known to
\* have had no effect, or was answered longer ago than the retention.
RerunIsSafe ==
    [][\A c, d \in Calls :
        (startedAt[c] # startedAt'[c] /\ Ran(d) /\ request'[c].key = request[d].key)
            => Undone(d) \/ (Recorded(d) /\ now > startedAt[d] + Retention)]_vars

\* Every call that starts returns, unless its process crashes.
EveryCallEnds == \A c \in Calls : pc[c] # "new" ~> pc[c] \in {"done", "lost"}

-----------------------------------------------------------------------------
(* The promise per key *)

Phase(row) ==
    IF row.state = "absent" THEN "free"
    ELSE IF row.state = "completed" THEN "answered"
    ELSE IF row.owner # None /\ pc[row.owner] = "operating" THEN "running"
    ELSE "stuck"

Contract == INSTANCE KeyContract WITH
    Bindings <- Payloads,
    Answers  <- [kind : Kinds \ {Unconfirmed}, by : Calls \cup {None}],
    phase    <- [k \in Keys |-> Phase(records[k])],
    bound    <- [k \in Keys |-> records[k].payload],
    since    <- [k \in Keys |-> records[k].created],
    answer   <- [k \in Keys |-> IF records[k].state = "completed"
                                THEN records[k].result ELSE None]

\* The layer keeps, key by key, the promise of KeyContract.
KeepsContract == Contract!Spec
=============================================================================
