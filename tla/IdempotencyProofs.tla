-------------------------- MODULE IdempotencyProofs --------------------------
(***************************************************************************)
(* Proofs about Idempotency, for all values of its constants.              *)
(***************************************************************************)
EXTENDS Idempotency, TLAPS

-----------------------------------------------------------------------------
(* The inductive invariant *)

\* What the place of a call says about the rest of its state.
Shape ==
    \A c \in Calls :
        /\ pc[c] # "new" => request[c] \in Requests
        /\ pc[c] = "following" => leader[c] \in Calls
        /\ pc[c] \in {"new", "following"} => startedAt[c] = Never
        /\ pc[c] = "operating" => startedAt[c] # Never
        /\ pc[c] \in {"new", "following", "operating"} => outcome[c].code = "none"

Base == TypeOK /\ Shape

\* The row of a run whose outcome is open, and of one that was recorded.
OpenRow(row, c) ==
    /\ row.state = "pending"
    /\ row.owner = c
    /\ row.payload = request[c].payload
    /\ row.created = startedAt[c]

AnswerRow(row, c) ==
    /\ row.state = "completed"
    /\ row.result = outcome[c].result
    /\ row.payload = request[c].payload
    /\ row.created = startedAt[c]

\* What the row of its key keeps of each run.
KeptBy(row, c) ==
    \/ Undone(c)
    \/ Recorded(c) /\ (now > startedAt[c] + Retention \/ AnswerRow(row, c))
    \/ ~ Recorded(c) /\ ~ Undone(c) /\ OpenRow(row, c)

Kept == \A c \in Calls : Ran(c) => KeptBy(records[request[c].key], c)

IInv == Base /\ Kept

-----------------------------------------------------------------------------
(* Lemmas about the operators of the model *)

LEMMA TimesFacts == /\ 0 \in Times
                    /\ Never \notin Times
                    /\ \A t \in Times : t \in Nat
                    /\ \A t \in Times : t < MaxTime => t + 1 \in Times
BY RetentionAssumption DEF Times, Never

LEMMA AbsentIsRow == Absent \in Rows
BY TimesFacts DEF Absent, Rows

\* The records after the purge of a claim are rows still.
LEMMA PurgedType ==
    ASSUME records \in [Keys -> Rows]
    PROVE  Purged \in [Keys -> Rows]
BY AbsentIsRow DEF Purged

LEMMA OutcomeTypes ==
    /\ \A code \in Codes : Error(code) \in Outcomes
    /\ \A result \in Results \cup {None}, replayed \in BOOLEAN :
           Reply(result, replayed) \in Outcomes
BY DEF Error, Reply, Outcomes, Codes

LEMMA RefusalType ==
    ASSUME NEW row \in Rows, NEW r \in Requests
    PROVE  Refusal(row, r) \in Outcomes
BY OutcomeTypes DEF Refusal, Rows, Codes

LEMMA CompletedRowType ==
    ASSUME NEW row \in Rows, NEW result \in Results
    PROVE  /\ CompletedRow(row, result) \in Rows
           /\ CompletedRow(row, result).state = "completed"
           /\ CompletedRow(row, result).result = result
           /\ CompletedRow(row, result).payload = row.payload
           /\ CompletedRow(row, result).owner = row.owner
           /\ CompletedRow(row, result).created = row.created
BY DEF CompletedRow, Rows

LEMMA SharedType ==
    ASSUME NEW o \in Outcomes
    PROVE  Shared(o) \in Outcomes /\ Shared(o).code = o.code /\ Shared(o).result = o.result
BY DEF Shared, Outcomes

-----------------------------------------------------------------------------
LEMMA BaseInit == Init => Base
<1> SUFFICES ASSUME Init PROVE Base
  OBVIOUS
<1>1. Inherited \subseteq Rows
  BY AbsentIsRow, TimesFacts, KindAssumption DEF Inherited, Rows, Results
<1>2. \A c \in Calls : outcome[c] \in Outcomes /\ outcome[c].code = "none"
  BY OutcomeTypes DEF Init, Codes, Error
<1> QED
  BY <1>1, <1>2, TimesFacts, RetentionAssumption DEF Init, Base, TypeOK, Shape

LEMMA BaseNext == Base /\ [Next]_vars => Base'
<1> SUFFICES ASSUME Base, [Next]_vars PROVE Base'
  OBVIOUS
<1> USE DEF Base, TypeOK, Shape
<1>1. ASSUME NEW c \in Calls, NEW r \in Requests, JoinActive(c, r) PROVE Base'
  BY <1>1 DEF JoinActive, Arrives, ActiveCall, Requests
<1>2. ASSUME NEW c \in Calls, NEW r \in Requests, RejectActive(c, r) PROVE Base'
  BY <1>2, OutcomeTypes DEF RejectActive, Arrives, Codes
<1>3. ASSUME NEW c \in Calls, NEW r \in Requests, ClaimAcquired(c, r) PROVE Base'
  <2>1. r.key \in Keys /\ r.payload \in Payloads /\ r.proc \in Procs
    BY DEF Requests
  <2>2. [state |-> "pending", payload |-> r.payload, owner |-> c,
         result |-> None, created |-> now] \in Rows
    BY <2>1 DEF Rows
  <2>3. records' \in [Keys -> Rows]
    BY <1>3, <2>1, <2>2, PurgedType DEF ClaimAcquired
  <2>4. /\ inFlight' \in [Procs -> [Keys -> Calls \cup {None}]]
        /\ request' \in [Calls -> Requests \cup {None}]
        /\ leader' \in [Calls -> Calls \cup {None}]
    BY <1>3, <2>1 DEF ClaimAcquired, Leads, Arrives
  <2>5. Shape'
    BY <1>3, <2>1, TimesFacts DEF ClaimAcquired, Leads, Arrives
  <2> QED
    BY <1>3, <2>3, <2>4, <2>5 DEF ClaimAcquired
<1>4. ASSUME NEW c \in Calls, NEW r \in Requests, ClaimRefused(c, r) PROVE Base'
  BY <1>4, PurgedType, RefusalType DEF ClaimRefused, Leads, Arrives, Requests
<1>5. ASSUME NEW c \in Calls, NEW r \in Requests, ClaimFaults(c, r) PROVE Base'
  BY <1>5, OutcomeTypes DEF ClaimFaults, Leads, Arrives, Requests, Codes
<1>6. ASSUME NEW c \in Calls, NEW kind \in Kinds, OperationReturns(c, kind) PROVE Base'
  <2> DEFINE result == [kind |-> kind, by |-> c]
  <2>1. result \in Results /\ Reply(result, FALSE) \in Outcomes
        /\ Error("unrecorded") \in Outcomes
    BY OutcomeTypes DEF Results, Codes
  <2>2. pc[c] = "operating" /\ request[c].key \in Keys
    BY <1>6 DEF OperationReturns, ReturnsUnconfirmed, ReturnsRecorded,
                ReturnsUnrecorded, Settles, Requests
  <2>3. CompletedRow(records[request[c].key], result) \in Rows
    BY <2>1, <2>2, CompletedRowType
  <2>4. records' \in [Keys -> Rows]
    BY <1>6, <2>2, <2>3
    DEF OperationReturns, ReturnsUnconfirmed, ReturnsRecorded, ReturnsUnrecorded, Completed
  <2>5. \E o \in Outcomes : Settles(c, o)
    BY <1>6, <2>1 DEF OperationReturns, ReturnsUnconfirmed, ReturnsRecorded,
                      ReturnsUnrecorded
  <2> QED
    BY <2>4, <2>5 DEF Settles
<1>7. ASSUME NEW c \in Calls, OperationThrows(c) PROVE Base'
  <2>1. \E o \in Outcomes : Settles(c, o)
    BY <1>7, OutcomeTypes DEF OperationThrows, ThrowsUnconfirmed, ThrowsReleased,
                              ThrowsUnreleased, Codes
  <2>2. records' \in [Keys -> Rows]
    BY <1>7, AbsentIsRow DEF OperationThrows, ThrowsUnconfirmed, ThrowsReleased,
                             ThrowsUnreleased, Released
  <2> QED
    BY <2>1, <2>2 DEF Settles
<1>8. ASSUME NEW c \in Calls, Finish(c) PROVE Base'
  BY <1>8 DEF Finish, EntryRemoved, Requests
<1>9. ASSUME NEW c \in Calls, FollowerResumes(c) PROVE Base'
  BY <1>9, SharedType DEF FollowerResumes, SettledFor
<1>10. ASSUME NEW p \in Procs, Crash(p) PROVE Base'
  BY <1>10 DEF Crash, Active
<1>11. CASE Tick
  BY <1>11, TimesFacts DEF Tick, callVars
<1>12. CASE UNCHANGED vars
  BY <1>12 DEF vars
<1> QED
  BY <1>1, <1>2, <1>3, <1>4, <1>5, <1>6, <1>7, <1>8, <1>9, <1>10, <1>11, <1>12
  DEF Next, Execute, OperationEnds

-----------------------------------------------------------------------------
(* What the rows keep of the runs *)

LEMMA RanHasKey ==
    ASSUME Base, NEW c \in Calls, Ran(c)
    PROVE  /\ request[c] \in Requests
           /\ request[c].key \in Keys
           /\ pc[c] \notin {"new", "following"}
BY DEF Base, TypeOK, Shape, Ran, Requests

\* Runs begin in the claim, and nowhere else.
LEMMA OnlyClaimsBegin ==
    ASSUME [Next]_vars, startedAt' # startedAt
    PROVE  \E c \in Calls, r \in Requests : ClaimAcquired(c, r)
BY DEF Next, vars, Execute, OperationEnds, JoinActive, RejectActive, ClaimRefused, ClaimFaults,
       OperationReturns, ReturnsUnconfirmed, ReturnsRecorded, ReturnsUnrecorded,
       OperationThrows, ThrowsUnconfirmed, ThrowsReleased, ThrowsUnreleased, Settles,
       Finish, FollowerResumes, Crash, Tick, callVars

\* A purge takes no open row, and an answer only when it has expired.
LEMMA PurgeKeeps ==
    ASSUME Base, Kept, NEW c \in Calls, Ran(c)
    PROVE  KeptBy(Purged[request[c].key], c)
<1> DEFINE row == records[request[c].key]
<1>1. KeptBy(row, c) /\ row \in Rows /\ request[c].key \in Keys
  BY RanHasKey DEF Kept, Base, TypeOK
<1>2. CASE Expired(row)
  BY <1>1, <1>2 DEF Expired, KeptBy, AnswerRow, OpenRow
<1>3. CASE ~ Expired(row)
  BY <1>1, <1>3 DEF Purged
<1> QED
  BY <1>2, <1>3

\* A key is claimed only when no run of it is open, or answered and retained.
LEMMA ClaimIsSafe ==
    ASSUME Base, Kept, NEW r \in Requests, Claimable(r),
           NEW d \in Calls, Ran(d), request[d].key = r.key
    PROVE  Undone(d) \/ (Recorded(d) /\ now > startedAt[d] + Retention)
BY PurgeKeeps DEF Claimable, KeptBy, AnswerRow, OpenRow

LEMMA KeptInit == Init => Kept
BY DEF Init, Kept, Ran

\* A step that leaves the rows and the runs alone keeps Kept.
LEMMA KeptFrame ==
    ASSUME Kept, UNCHANGED <<now, records, startedAt>>,
           \A c \in Calls : Ran(c) => request'[c] = request[c] /\ outcome'[c] = outcome[c]
    PROVE  Kept'
BY DEF Kept, KeptBy, AnswerRow, OpenRow, Recorded, Undone, Ran

LEMMA KeptNext == IInv /\ [Next]_vars => Kept'
<1> SUFFICES ASSUME Base, Kept, [Next]_vars PROVE Kept'
  BY DEF IInv
<1>1. ASSUME NEW c \in Calls, NEW r \in Requests, JoinActive(c, r) PROVE Kept'
  BY <1>1, KeptFrame, RanHasKey DEF JoinActive, Arrives, Base, TypeOK
<1>2. ASSUME NEW c \in Calls, NEW r \in Requests, RejectActive(c, r) PROVE Kept'
  BY <1>2, KeptFrame, RanHasKey DEF RejectActive, Arrives, Base, TypeOK
<1>3. ASSUME NEW c \in Calls, NEW r \in Requests, ClaimAcquired(c, r) PROVE Kept'
  <2> SUFFICES ASSUME NEW d \in Calls, Ran(d)' PROVE KeptBy(records[request[d].key], d)'
    BY DEF Kept
  <2>1. r.key \in Keys /\ pc[c] = "new" /\ Claimable(r)
    BY <1>3 DEF ClaimAcquired, Leads, Arrives, Requests
  <2>2. CASE d = c
    <3>1. request'[c] = r /\ startedAt'[c] = now /\ outcome'[c].code = "none"
      BY <1>3, <2>1 DEF ClaimAcquired, Leads, Arrives, Base, TypeOK, Shape
    <3>2. records'[r.key] = [state |-> "pending", payload |-> r.payload, owner |-> c,
                             result |-> None, created |-> now]
      BY <1>3, <2>1, PurgedType DEF ClaimAcquired, Base, TypeOK
    <3> QED
      BY <2>2, <3>1, <3>2 DEF KeptBy, OpenRow, Recorded, Undone
  <2>3. CASE d # c
    <3>1. /\ request'[d] = request[d] /\ startedAt'[d] = startedAt[d]
          /\ outcome'[d] = outcome[d] /\ now' = now /\ Ran(d)
      BY <1>3, <2>3 DEF ClaimAcquired, Leads, Arrives, Ran, Base, TypeOK
    <3>2. CASE request[d].key = r.key
      BY <2>1, <3>1, <3>2, ClaimIsSafe DEF KeptBy, Recorded, Undone, Ran
    <3>3. CASE request[d].key # r.key
      <4>1. records'[request[d].key] = Purged[request[d].key]
        BY <1>3, <3>1, <3>3, RanHasKey, PurgedType DEF ClaimAcquired, Base, TypeOK
      <4> QED
        BY <3>1, <4>1, PurgeKeeps DEF KeptBy, OpenRow, AnswerRow, Recorded, Undone, Ran
    <3> QED
      BY <3>2, <3>3
  <2> QED
    BY <2>2, <2>3
<1>4. ASSUME NEW c \in Calls, NEW r \in Requests, ClaimRefused(c, r) PROVE Kept'
  <2> SUFFICES ASSUME NEW d \in Calls, Ran(d)' PROVE KeptBy(records[request[d].key], d)'
    BY DEF Kept
  <2>1. Ran(d) /\ d # c
    BY <1>4, RanHasKey DEF ClaimRefused, Leads, Arrives, Ran
  <2>2. /\ request'[d] = request[d] /\ startedAt'[d] = startedAt[d]
        /\ outcome'[d] = outcome[d] /\ now' = now /\ records' = Purged
    BY <1>4, <2>1 DEF ClaimRefused, Leads, Arrives, Base, TypeOK
  <2> QED
    BY <2>1, <2>2, PurgeKeeps DEF KeptBy, OpenRow, AnswerRow, Recorded, Undone, Ran
<1>5. ASSUME NEW c \in Calls, NEW r \in Requests, ClaimFaults(c, r) PROVE Kept'
  BY <1>5, KeptFrame, RanHasKey DEF ClaimFaults, Leads, Arrives, Base, TypeOK
<1>6. ASSUME NEW c \in Calls, NEW kind \in Kinds, OperationReturns(c, kind) PROVE Kept'
  <2> DEFINE result == [kind |-> kind, by |-> c]
             row == records[request[c].key]
  <2> SUFFICES ASSUME NEW d \in Calls, Ran(d)' PROVE KeptBy(records[request[d].key], d)'
    BY DEF Kept
  <2>1. PICK o \in Outcomes : Settles(c, o)
    BY <1>6, OutcomeTypes DEF OperationReturns, ReturnsUnconfirmed, ReturnsRecorded,
                              ReturnsUnrecorded, Results, Codes
  <2>2. Ran(d) /\ Ran(c) /\ OpenRow(row, c) /\ row \in Rows
    BY <2>1, RanHasKey DEF Settles, Base, TypeOK, Shape, Kept, KeptBy, Recorded, Undone, Ran
  <2>3. /\ request' = request /\ startedAt' = startedAt /\ now' = now
        /\ outcome' = [outcome EXCEPT ![c] = o]
    BY <2>1 DEF Settles
  <2>4. CASE d # c /\ request[d].key # request[c].key
    <3>1. records'[request[d].key] = records[request[d].key]
      BY <1>6, <2>2, <2>4, RanHasKey
      DEF OperationReturns, ReturnsUnconfirmed, ReturnsRecorded, ReturnsUnrecorded,
          Completed, Base, TypeOK
    <3> QED
      BY <2>2, <2>3, <2>4, <3>1 DEF Kept, KeptBy, OpenRow, AnswerRow, Recorded, Undone, Ran,
                                    Base, TypeOK
  <2>5. CASE d # c /\ request[d].key = request[c].key
    <3>1. Undone(d) \/ (Recorded(d) /\ now > startedAt[d] + Retention)
      BY <2>2, <2>5 DEF Kept, KeptBy, OpenRow, AnswerRow
    <3> QED
      BY <2>3, <2>5, <3>1 DEF KeptBy, Recorded, Undone, Ran, Base, TypeOK
  <2>6. CASE d = c
    <3>1. CASE ReturnsRecorded(c, kind)
      <4>1. records'[request[c].key] = CompletedRow(row, result)
        BY <2>2, <3>1, RanHasKey DEF ReturnsRecorded, Completed, Base, TypeOK
      <4>2. /\ CompletedRow(row, result).state = "completed"
            /\ CompletedRow(row, result).result = result
            /\ CompletedRow(row, result).payload = row.payload
            /\ CompletedRow(row, result).created = row.created
        BY <2>2, CompletedRowType DEF Results
      <4>3. outcome'[c] = Reply(result, FALSE) /\ kind # Unconfirmed
        BY <3>1 DEF ReturnsRecorded, Settles, Uncertain, Base, TypeOK
      <4> QED
        BY <2>2, <2>3, <2>6, <4>1, <4>2, <4>3
        DEF KeptBy, OpenRow, AnswerRow, Recorded, Reply, Ran
    <3>2. CASE ReturnsUnconfirmed(c, kind) \/ ReturnsUnrecorded(c, kind)
      <4>1. records' = records
        BY <3>2 DEF ReturnsUnconfirmed, ReturnsUnrecorded
      <4>2. ~ Recorded(c)' /\ ~ Undone(c)'
        BY <3>2 DEF ReturnsUnconfirmed, ReturnsUnrecorded, Settles, Uncertain, Reply, Error,
                    Recorded, Undone, Base, TypeOK
      <4> QED
        BY <2>2, <2>3, <2>6, <4>1, <4>2 DEF KeptBy, OpenRow
    <3> QED
      BY <1>6, <3>1, <3>2 DEF OperationReturns
  <2> QED
    BY <2>4, <2>5, <2>6
<1>7. ASSUME NEW c \in Calls, OperationThrows(c) PROVE Kept'
  <2> DEFINE row == records[request[c].key]
  <2> SUFFICES ASSUME NEW d \in Calls, Ran(d)' PROVE KeptBy(records[request[d].key], d)'
    BY DEF Kept
  <2>1. PICK code \in {"unconfirmed", "thrown", "internal"} :
            /\ Settles(c, Error(code))
            /\ records' # records => code = "thrown" /\ records' = Released(c)
            /\ code = "thrown" => records' = IF Owns(c) THEN Released(c) ELSE records
    BY <1>7 DEF OperationThrows, ThrowsUnconfirmed, ThrowsReleased, ThrowsUnreleased
  <2>2. Ran(d) /\ Ran(c) /\ OpenRow(row, c)
    BY <2>1, RanHasKey DEF Settles, Base, TypeOK, Shape, Kept, KeptBy, Recorded, Undone, Ran
  <2>3. /\ request' = request /\ startedAt' = startedAt /\ now' = now
        /\ outcome' = [outcome EXCEPT ![c] = Error(code)]
    BY <2>1 DEF Settles
  <2>4. CASE d # c /\ request[d].key # request[c].key
    <3>1. records'[request[d].key] = records[request[d].key]
      BY <2>1, <2>2, <2>4, RanHasKey DEF Released, Base, TypeOK
    <3> QED
      BY <2>2, <2>3, <2>4, <3>1 DEF Kept, KeptBy, OpenRow, AnswerRow, Recorded, Undone, Ran,
                                    Base, TypeOK
  <2>5. CASE d # c /\ request[d].key = request[c].key
    <3>1. Undone(d) \/ (Recorded(d) /\ now > startedAt[d] + Retention)
      BY <2>2, <2>5 DEF Kept, KeptBy, OpenRow, AnswerRow
    <3> QED
      BY <2>3, <2>5, <3>1 DEF KeptBy, Recorded, Undone, Ran, Base, TypeOK
  <2>6. CASE d = c
    <3>1. outcome'[c].code = code
      BY <2>3 DEF Error, Base, TypeOK
    <3>2. CASE code = "thrown"
      BY <2>2, <2>3, <2>6, <3>1, <3>2 DEF KeptBy, Undone, Ran
    <3>3. CASE code # "thrown"
      BY <2>1, <2>2, <2>3, <2>6, <3>1, <3>3 DEF KeptBy, OpenRow, Recorded, Undone
    <3> QED
      BY <3>2, <3>3
  <2> QED
    BY <2>4, <2>5, <2>6
<1>8. ASSUME NEW c \in Calls, Finish(c) PROVE Kept'
  BY <1>8, KeptFrame DEF Finish
<1>9. ASSUME NEW c \in Calls, FollowerResumes(c) PROVE Kept'
  BY <1>9, KeptFrame, RanHasKey DEF FollowerResumes, Base, TypeOK
<1>10. ASSUME NEW p \in Procs, Crash(p) PROVE Kept'
  BY <1>10, KeptFrame DEF Crash
<1>11. CASE Tick
  BY <1>11, TimesFacts, RetentionAssumption
  DEF Tick, callVars, Kept, KeptBy, OpenRow, AnswerRow, Recorded, Undone, Ran, Base, TypeOK, Times, Never
<1>12. CASE UNCHANGED vars
  BY <1>12, KeptFrame DEF vars
<1> QED
  BY <1>1, <1>2, <1>3, <1>4, <1>5, <1>6, <1>7, <1>8, <1>9, <1>10, <1>11, <1>12
  DEF Next, Execute, OperationEnds

-----------------------------------------------------------------------------
\* In every state, every variable has its type.
THEOREM TypeCorrect == Spec => []TypeOK
<1>1. Base => TypeOK
  BY DEF Base
<1> QED
  BY BaseInit, BaseNext, <1>1, PTL DEF Spec

LEMMA Inductive == Spec => []IInv
<1>1. Init => IInv
  BY BaseInit, KeptInit DEF IInv
<1>2. IInv /\ [Next]_vars => IInv'
  BY BaseNext, KeptNext DEF IInv
<1> QED
  BY <1>1, <1>2, PTL DEF Spec

\* Whatever happens, the row of a run without a definite, recorded outcome is
\* pending in its name: no purge, completion or release of another takes it.
THEOREM UncertainRunKeepsKey == Spec => []UncertainKeepsKey
<1>1. IInv => UncertainKeepsKey
  BY DEF IInv, UncertainKeepsKey, Kept, KeptBy, OpenRow, Owns
<1> QED
  BY Inductive, <1>1, PTL

\* However many processes share the database, one operation runs per key.
THEOREM OneOperation == Spec => []OneOperationPerKey
<1>1. IInv => OneOperationPerKey
  <2> SUFFICES ASSUME IInv, NEW c \in Calls, NEW d \in Calls,
                      pc[c] = "operating", pc[d] = "operating", SameKey(c, d)
               PROVE  c = d
    BY DEF OneOperationPerKey
  <2>1. \A e \in {c, d} : Ran(e) /\ outcome[e].code = "none"
    BY DEF IInv, Base, Shape, Ran
  <2>2. \A e \in {c, d} : OpenRow(records[request[e].key], e)
    BY <2>1 DEF IInv, Kept, KeptBy, Recorded, Undone
  <2> QED
    BY <2>2 DEF OpenRow, SameKey
<1> QED
  BY Inductive, <1>1, PTL

\* A definite answer that was reported is found until it is older than the
\* retention.
THEOREM AnswersAreRetained == Spec => []RetainedAnswerReplays
<1>1. IInv => RetainedAnswerReplays
  <2> SUFFICES ASSUME IInv, NEW c \in Calls, Recorded(c), now <= startedAt[c] + Retention
               PROVE  AnswerRow(records[request[c].key], c)
    BY DEF RetainedAnswerReplays, AnswerRow
  <2>1. Ran(c) /\ ~ Undone(c)
    BY DEF Recorded, Undone
  <2>2. now \in Nat /\ startedAt[c] \in Nat
    BY <2>1, TimesFacts, RetentionAssumption DEF IInv, Base, TypeOK, Ran
  <2> QED
    BY <2>1, <2>2, RetentionAssumption DEF IInv, Kept, KeptBy
<1> QED
  BY Inductive, <1>1, PTL

\* A key runs again only once each earlier run of it is known to have had no
\* effect, or was answered longer ago than the retention.
THEOREM RerunsAreSafe == Spec => RerunIsSafe
<1> DEFINE Safe(c, d) ==
      (startedAt[c] # startedAt'[c] /\ Ran(d) /\ request'[c].key = request[d].key)
          => Undone(d) \/ (Recorded(d) /\ now > startedAt[d] + Retention)
<1>1. IInv /\ [Next]_vars => [\A c, d \in Calls : Safe(c, d)]_vars
  <2> SUFFICES ASSUME IInv, Next, NEW c \in Calls, NEW d \in Calls,
                      startedAt[c] # startedAt'[c], Ran(d), request'[c].key = request[d].key
               PROVE  Undone(d) \/ (Recorded(d) /\ now > startedAt[d] + Retention)
    BY DEF vars
  <2>1. PICK e \in Calls, r \in Requests : ClaimAcquired(e, r)
    BY OnlyClaimsBegin
  <2>2. e = c /\ request'[c] = r /\ Claimable(r)
    BY <2>1 DEF ClaimAcquired, Leads, Arrives, IInv, Base, TypeOK
  <2> QED
    BY <2>2, ClaimIsSafe DEF IInv
<1> QED
  BY Inductive, <1>1, PTL DEF Spec, RerunIsSafe

-----------------------------------------------------------------------------
(* The map of active calls *)

LEMMA ExactInit == Init => InFlightIsExact
BY NoneAssumption DEF Init, InFlightIsExact

LEMMA ExactNext == Base /\ InFlightIsExact /\ [Next]_vars => InFlightIsExact'
<1> SUFFICES ASSUME Base, InFlightIsExact, [Next]_vars PROVE InFlightIsExact'
  OBVIOUS
<1> USE NoneAssumption DEF InFlightIsExact, Base, TypeOK
\* A call that leads was in no map, and takes a free place.
<1>1. ASSUME NEW c \in Calls, NEW r \in Requests, Leads(c, r),
             pc'[c] \in {"operating", "settled"}, \E x : pc' = [pc EXCEPT ![c] = x]
      PROVE  InFlightIsExact'
  <2>1. r.proc \in Procs /\ r.key \in Keys /\ pc[c] = "new" /\ inFlight[r.proc][r.key] = None
    BY <1>1 DEF Leads, Arrives, ActiveCall, Requests
  <2>2. SUFFICES ASSUME NEW p \in Procs, NEW k \in Keys, NEW d \in Calls
        PROVE  (inFlight[p][k] = d <=> /\ pc[d] \in {"operating", "settled"}
                                       /\ request[d].proc = p
                                       /\ request[d].key = k)'
    OBVIOUS
  <2>3. inFlight'[p][k] = IF p = r.proc /\ k = r.key THEN c ELSE inFlight[p][k]
    BY <1>1, <2>1 DEF Leads
  <2>4. CASE d = c
    <3>1. request'[c] = r /\ inFlight[p][k] # c
      BY <1>1, <2>1 DEF Leads, Arrives
    <3> QED
      BY <1>1, <2>3, <2>4, <3>1
  <2>5. CASE d # c
    BY <1>1, <2>1, <2>3, <2>5 DEF Leads, Arrives
  <2> QED
    BY <2>4, <2>5
<1>2. ASSUME NEW c \in Calls, NEW r \in Requests, JoinActive(c, r) \/ RejectActive(c, r)
      PROVE  InFlightIsExact'
  BY <1>2 DEF JoinActive, RejectActive, Arrives
<1>3. ASSUME NEW c \in Calls, NEW r \in Requests,
             ClaimAcquired(c, r) \/ ClaimRefused(c, r) \/ ClaimFaults(c, r)
      PROVE  InFlightIsExact'
  BY <1>1, <1>3 DEF ClaimAcquired, ClaimRefused, ClaimFaults
<1>4. ASSUME NEW c \in Calls, NEW o, Settles(c, o) PROVE InFlightIsExact'
  BY <1>4 DEF Settles
<1>5. ASSUME NEW c \in Calls, OperationEnds(c) PROVE InFlightIsExact'
  <2>1. PICK o : Settles(c, o)
    BY <1>5 DEF OperationEnds, OperationReturns, ReturnsUnconfirmed, ReturnsRecorded,
                ReturnsUnrecorded, OperationThrows, ThrowsUnconfirmed, ThrowsReleased,
                ThrowsUnreleased
  <2> QED
    BY <1>4, <2>1
\* The entry of a call that returns is its own.
<1>6. ASSUME NEW c \in Calls, Finish(c) PROVE InFlightIsExact'
  <2>1. /\ request[c].proc \in Procs /\ request[c].key \in Keys /\ pc[c] = "settled"
        /\ inFlight[request[c].proc][request[c].key] = c
    BY <1>6 DEF Finish, Shape, Requests
  <2>2. SUFFICES ASSUME NEW p \in Procs, NEW k \in Keys, NEW d \in Calls
        PROVE  (inFlight[p][k] = d <=> /\ pc[d] \in {"operating", "settled"}
                                       /\ request[d].proc = p
                                       /\ request[d].key = k)'
    OBVIOUS
  <2>3. inFlight'[p][k] = IF p = request[c].proc /\ k = request[c].key
                            THEN None ELSE inFlight[p][k]
    BY <1>6, <2>1 DEF Finish, EntryRemoved
  <2> QED
    BY <1>6, <2>1, <2>3 DEF Finish
<1>7. ASSUME NEW c \in Calls, FollowerResumes(c) PROVE InFlightIsExact'
  BY <1>7 DEF FollowerResumes
<1>8. ASSUME NEW p \in Procs, Crash(p) PROVE InFlightIsExact'
  <2>1. SUFFICES ASSUME NEW q \in Procs, NEW k \in Keys, NEW d \in Calls
        PROVE  (inFlight[q][k] = d <=> /\ pc[d] \in {"operating", "settled"}
                                       /\ request[d].proc = q
                                       /\ request[d].key = k)'
    OBVIOUS
  <2>2. inFlight'[q][k] = IF q = p THEN None ELSE inFlight[q][k]
    BY <1>8 DEF Crash
  <2>3. pc'[d] = IF Active(d) /\ request[d].proc = p THEN "lost" ELSE pc[d]
    BY <1>8 DEF Crash
  <2> QED
    BY <1>8, <2>2, <2>3 DEF Crash, Active
<1>9. CASE Tick
  BY <1>9 DEF Tick, callVars
<1>10. CASE UNCHANGED vars
  BY <1>10 DEF vars
<1> QED
  BY <1>2, <1>3, <1>5, <1>6, <1>7, <1>8, <1>9, <1>10 DEF Next, Execute

\* The map of a process holds exactly its calls that lead and have not
\* returned, so that a finally block removes the entry of its own call.
THEOREM InFlightExact == Spec => []InFlightIsExact
<1>1. Spec => []Base
  BY BaseInit, BaseNext, PTL DEF Spec
<1> QED
  BY <1>1, ExactInit, ExactNext, PTL DEF Spec
-----------------------------------------------------------------------------
(* Where answers come from, and how runs of one key lie apart *)

\* What a run began with never changes, and its outcome is set once.
LEMMA RunsStay ==
    ASSUME Base, [Next]_vars, NEW d \in Calls, Ran(d)
    PROVE  /\ request'[d] = request[d] /\ startedAt'[d] = startedAt[d] /\ Ran(d)'
           /\ outcome'[d] = outcome[d] \/ pc[d] = "operating"
<1>1. pc[d] \notin {"new", "following"} /\ Never' = Never
  BY RanHasKey DEF Never
<1> USE <1>1 DEF Base, TypeOK, Ran
<1>2. ASSUME NEW c \in Calls, NEW r \in Requests, Execute(c, r)
      PROVE  c # d /\ request'[d] = request[d] /\ startedAt'[d] = startedAt[d]
             /\ outcome'[d] = outcome[d]
  BY <1>2 DEF Execute, JoinActive, RejectActive, ClaimAcquired, ClaimRefused, ClaimFaults,
              Leads, Arrives
<1>3. ASSUME NEW c \in Calls, NEW o, Settles(c, o)
      PROVE  request' = request /\ startedAt' = startedAt
             /\ (outcome'[d] = outcome[d] \/ pc[d] = "operating")
  BY <1>3 DEF Settles
<1>4. ASSUME NEW c \in Calls, OperationEnds(c) PROVE \E o : Settles(c, o)
  BY <1>4 DEF OperationEnds, OperationReturns, ReturnsUnconfirmed, ReturnsRecorded,
              ReturnsUnrecorded, OperationThrows, ThrowsUnconfirmed, ThrowsReleased,
              ThrowsUnreleased
<1>5. ASSUME NEW c \in Calls, FollowerResumes(c)
      PROVE  request' = request /\ startedAt' = startedAt /\ outcome'[d] = outcome[d]
  BY <1>5 DEF FollowerResumes
<1>6. ASSUME \/ \E c \in Calls : Finish(c)
             \/ \E p \in Procs : Crash(p)
             \/ Tick
             \/ UNCHANGED vars
      PROVE  request' = request /\ startedAt' = startedAt /\ outcome' = outcome
  BY <1>6 DEF Finish, Crash, Tick, callVars, vars
<1> QED
  BY <1>2, <1>3, <1>4, <1>5, <1>6 DEF Next

RunsLieApart ==
    \A c, d \in Calls : (c # d /\ Ran(c) /\ Ran(d) /\ SameKey(c, d)) =>
        \E first, second \in {c, d} :
            /\ first # second
            /\ \/ Undone(first)
               \/ Recorded(first) /\ startedAt[second] > startedAt[first] + Retention

LEMMA ApartNext == IInv /\ RunsLieApart /\ [Next]_vars => RunsLieApart'
<1> SUFFICES ASSUME IInv, RunsLieApart, [Next]_vars,
                    NEW c \in Calls, NEW d \in Calls,
                    c # d, Ran(c)', Ran(d)', SameKey(c, d)'
             PROVE  (\E first, second \in {c, d} :
                        /\ first # second
                        /\ \/ Undone(first)
                           \/ /\ Recorded(first)
                              /\ startedAt[second] > startedAt[first] + Retention)'
  BY DEF RunsLieApart
<1>1. Base /\ Kept
  BY DEF IInv
\* What is known of a run stays known.
<1>2. ASSUME NEW e \in Calls, Ran(e)
      PROVE  /\ Undone(e) => Undone(e)'
             /\ Recorded(e) => Recorded(e)'
  <2>1. outcome'[e] = outcome[e] \/ outcome[e].code = "none"
    BY <1>1, <1>2, RunsStay DEF Base, Shape
  <2> QED
    BY <1>1, <1>2, <2>1, RunsStay DEF Undone, Recorded
<1>3. CASE Ran(c) /\ Ran(d)
  <2>1. /\ request'[c] = request[c] /\ startedAt'[c] = startedAt[c]
        /\ request'[d] = request[d] /\ startedAt'[d] = startedAt[d]
    BY <1>1, <1>3, RunsStay
  <2>2. PICK first \in {c, d}, second \in {c, d} :
            /\ first # second
            /\ \/ Undone(first)
               \/ Recorded(first) /\ startedAt[second] > startedAt[first] + Retention
    BY <1>3, <2>1 DEF RunsLieApart, SameKey
  <2>3. startedAt'[first] = startedAt[first] /\ startedAt'[second] = startedAt[second]
    BY <2>1
  <2> QED
    BY <1>2, <1>3, <2>2, <2>3
\* A run that begins is later than what is known of the other.
<1>4. ASSUME NEW e \in Calls, NEW f \in Calls, e # f, {e, f} = {c, d},
             ~ Ran(e), Ran(e)', Ran(f)', SameKey(e, f)'
      PROVE  Undone(f)' \/ (Recorded(f)' /\ startedAt'[e] > startedAt'[f] + Retention)
  <2>1. PICK g \in Calls, r \in Requests : ClaimAcquired(g, r)
    BY <1>4, OnlyClaimsBegin DEF Ran, Never
  <2>2. g = e /\ startedAt'[e] = now /\ request'[e] = r /\ startedAt'[f] = startedAt[f]
    BY <1>1, <1>4, <2>1 DEF ClaimAcquired, Leads, Arrives, Base, TypeOK, Ran, Never
  <2>3. Ran(f)
    BY <1>4, <2>2 DEF Ran, Never
  <2>4. request[f].key = r.key /\ Claimable(r)
    BY <1>1, <1>4, <2>1, <2>2, <2>3, RunsStay DEF SameKey, ClaimAcquired
  <2>5. Undone(f) \/ (Recorded(f) /\ now > startedAt[f] + Retention)
    BY <1>1, <2>3, <2>4, ClaimIsSafe
  <2> QED
    BY <1>2, <2>2, <2>3, <2>5
<1>5. Ran(c) \/ Ran(d)
  <2> SUFFICES ASSUME ~ Ran(c), ~ Ran(d) PROVE FALSE
    OBVIOUS
  <2>1. PICK g \in Calls, r \in Requests : ClaimAcquired(g, r)
    BY OnlyClaimsBegin DEF Ran, Never
  <2> QED
    BY <1>1, <2>1 DEF ClaimAcquired, Leads, Arrives, Base, TypeOK, Ran, Never
<1>6. CASE ~ Ran(c) /\ Ran(d)
  BY <1>4, <1>6 DEF SameKey
<1>7. CASE ~ Ran(d) /\ Ran(c)
  BY <1>4, <1>7 DEF SameKey
<1> QED
  BY <1>3, <1>5, <1>6, <1>7

\* Of any two runs of one key, one is known to have had no effect, or was
\* answered longer than the retention before the other began.
THEOREM RunsOfAKeyLieApart == Spec => []RunsLieApart
<1>1. Init => RunsLieApart
  BY DEF Init, RunsLieApart, Ran
<1> QED
  BY Inductive, <1>1, ApartNext, PTL DEF Spec

\* A result is one of a run for this key and payload, if it is of a run.
From(result, key, payload) ==
    /\ result \in Results
    /\ result.by # None =>
           /\ Ran(result.by)
           /\ request[result.by].key = key
           /\ request[result.by].payload = payload

OwnOutcome(c) ==
    outcome[c].code = "answer" =>
        From(outcome[c].result, request[c].key, request[c].payload)

OwnRow(k) ==
    records[k].state = "completed" => From(records[k].result, k, records[k].payload)

\* A call that joined asks what its leader asked.
OwnLeader(c) ==
    pc[c] = "following" =>
        /\ pc[leader[c]] # "new"
        /\ SameKey(leader[c], c)
        /\ request[leader[c]].payload = request[c].payload

Origins ==
    /\ \A c \in Calls : OwnOutcome(c) /\ OwnLeader(c)
    /\ \A k \in Keys : OwnRow(k)

LEMMA OriginsInit == Init => Origins
<1> SUFFICES ASSUME Init PROVE Origins
  OBVIOUS
<1>1. ASSUME NEW k \in Keys PROVE OwnRow(k)
  BY <1>1, KindAssumption DEF Init, OwnRow, Inherited, Absent, From, Results
<1> QED
  BY <1>1 DEF Init, Origins, OwnOutcome, OwnLeader, Error

LEMMA FromKept ==
    ASSUME Base, [Next]_vars, NEW result, NEW key, NEW payload, From(result, key, payload)
    PROVE  /\ result \in Results
           /\ result.by # None =>
                  /\ Ran(result.by)'
                  /\ request'[result.by].key = key
                  /\ request'[result.by].payload = payload
<1>1. result \in Results /\ (result.by # None => result.by \in Calls)
  BY DEF From, Results
<1> QED
  BY <1>1, RunsStay DEF From

LEMMA PurgedRow ==
    ASSUME Base, Origins, NEW k \in Keys, Purged[k].state = "completed"
    PROVE  From(Purged[k].result, k, Purged[k].payload)
BY DEF Purged, Absent, Origins, OwnRow, Base, TypeOK

\* Calls whose request and outcome a step leaves alone.
LEMMA OutcomeKept ==
    ASSUME Base, Origins, [Next]_vars, NEW c \in Calls,
           request'[c] = request[c], outcome'[c] = outcome[c]
    PROVE  OwnOutcome(c)'
BY FromKept DEF Origins, OwnOutcome, From, Results

\* Requests are made once, and a call that leads another has made its own.
LEMMA LeaderKept ==
    ASSUME Base, Origins, NEW c \in Calls, pc'[c] = "following" => pc[c] = "following",
           request'[c] = request[c], leader'[c] = leader[c],
           \A d \in Calls : pc[d] # "new" => pc'[d] # "new" /\ request'[d] = request[d]
    PROVE  OwnLeader(c)'
BY DEF Base, Shape, Origins, OwnLeader, SameKey

LEMMA RowKept ==
    ASSUME Base, Origins, [Next]_vars, NEW k \in Keys,
           records'[k] \in {records[k], Purged[k]}
    PROVE  OwnRow(k)'
<1>1. records'[k].state = "completed" => From(records'[k].result, k, records'[k].payload)
  BY PurgedRow DEF Origins, OwnRow
<1> QED
  BY <1>1, FromKept DEF OwnRow, From, Results

LEMMA OriginsNext == Base /\ InFlightIsExact /\ Origins /\ [Next]_vars => Origins'
<1> SUFFICES ASSUME Base, InFlightIsExact, Origins, [Next]_vars PROVE Origins'
  OBVIOUS
<1> USE DEF Base, TypeOK
\* execute, up to its first await: a new call, and rows purged or claimed.
<1>1. ASSUME NEW c \in Calls, NEW r \in Requests, Execute(c, r) PROVE Origins'
  <2>1. /\ pc[c] = "new" /\ r.key \in Keys /\ r.proc \in Procs
        /\ request' = [request EXCEPT ![c] = r]
        /\ \E x : pc' = [pc EXCEPT ![c] = x] /\ x # "new"
    BY <1>1 DEF Execute, JoinActive, RejectActive, ClaimAcquired, ClaimRefused, ClaimFaults,
                Leads, Arrives, Requests
  <2>2. ASSUME NEW d \in Calls, d # c PROVE (OwnOutcome(d) /\ OwnLeader(d))'
    <3>1. outcome'[d] = outcome[d] /\ leader'[d] = leader[d]
          /\ request'[d] = request[d] /\ pc'[d] = pc[d]
      BY <1>1, <2>1, <2>2 DEF Execute, JoinActive, RejectActive, ClaimAcquired, ClaimRefused,
                              ClaimFaults, Leads
    <3> QED
      BY <2>1, <3>1, OutcomeKept, LeaderKept
  <2>3. OwnOutcome(c)'
    <3>1. request'[c] = r
      BY <2>1
    <3>2. CASE ClaimRefused(c, r)
      <4>1. outcome'[c] = Refusal(Purged[r.key], r) /\ Purged[r.key].state # "absent"
            /\ Purged[r.key] \in Rows
        BY <2>1, <3>2, PurgedType DEF ClaimRefused, Claimable
      <4>2. outcome'[c].code = "answer" =>
                From(outcome'[c].result, r.key, r.payload)
        BY <2>1, <4>1, PurgedRow DEF Refusal, Error, Reply
      <4> SUFFICES ASSUME outcome'[c].code = "answer"
                   PROVE  From(outcome[c].result, request[c].key, request[c].payload)'
        BY DEF OwnOutcome
      <4>3. PICK result : result = outcome'[c].result
        OBVIOUS
      <4>4. From(result, r.key, r.payload)
        BY <4>2, <4>3
      <4>5. /\ result \in Results
            /\ result.by # None =>
                   /\ Ran(result.by)'
                   /\ request'[result.by].key = r.key
                   /\ request'[result.by].payload = r.payload
        BY <4>4, FromKept
      <4> QED
        BY <3>1, <4>3, <4>5 DEF From, Results
    <3>3. CASE ~ ClaimRefused(c, r)
      <4>1. outcome'[c].code # "answer"
        BY <1>1, <2>1, <3>3 DEF Execute, JoinActive, RejectActive, ClaimAcquired, ClaimFaults,
                                Shape, Error
      <4> QED
        BY <4>1 DEF OwnOutcome
    <3> QED
      BY <3>2, <3>3
  <2>4. OwnLeader(c)'
    <3>1. CASE JoinActive(c, r)
      <4> DEFINE d == inFlight[r.proc][r.key]
      <4>1. d \in Calls /\ pc[d] \in {"operating", "settled"} /\ request[d].key = r.key
            /\ request[d].payload = r.payload
        BY <2>1, <3>1 DEF JoinActive, ActiveCall, SamePayload, InFlightIsExact
      <4>2. leader'[c] = d /\ request'[c] = r /\ d # c
        BY <2>1, <3>1, <4>1 DEF JoinActive, ActiveCall
      <4>3. request'[d] = request[d] /\ pc'[d] = pc[d]
        BY <2>1, <4>1, <4>2
      <4> QED
        BY <4>1, <4>2, <4>3 DEF OwnLeader, SameKey
    <3>2. CASE ~ JoinActive(c, r)
      <4>1. pc'[c] # "following"
        BY <1>1, <2>1, <3>2 DEF Execute, RejectActive, ClaimAcquired, ClaimRefused, ClaimFaults
      <4> QED
        BY <4>1 DEF OwnLeader
    <3> QED
      BY <3>1, <3>2
  <2>5. ASSUME NEW k \in Keys PROVE OwnRow(k)'
    <3>1. CASE ClaimAcquired(c, r) /\ k = r.key
      <4>1. records'[k].state = "pending"
        BY <3>1, PurgedType DEF ClaimAcquired
      <4> QED
        BY <4>1 DEF OwnRow
    <3>2. CASE ~ (ClaimAcquired(c, r) /\ k = r.key)
      <4>1. records'[k] \in {records[k], Purged[k]}
        BY <1>1, <3>2, PurgedType DEF Execute, JoinActive, RejectActive, ClaimAcquired,
                                      ClaimRefused, ClaimFaults
      <4> QED
        BY <4>1, RowKept
    <3> QED
      BY <3>1, <3>2
  <2> QED
    BY <2>2, <2>3, <2>4, <2>5 DEF Origins
\* The operation of c ends: its result goes to its caller and to its own row.
<1>2. ASSUME NEW c \in Calls, OperationEnds(c) PROVE Origins'
  <2>1. PICK o \in Outcomes : Settles(c, o)
    BY <1>2, OutcomeTypes DEF OperationEnds, OperationReturns, ReturnsUnconfirmed,
           ReturnsRecorded, ReturnsUnrecorded, OperationThrows, ThrowsUnconfirmed,
           ThrowsReleased, ThrowsUnreleased, Results, Codes
  <2>2. Ran(c) /\ request[c].key \in Keys
    BY <2>1 DEF Settles, Shape, Ran, Requests
  <2>3. ASSUME NEW kind \in Kinds
        PROVE  LET result == [kind |-> kind, by |-> c] IN
               From(result, request[c].key, request[c].payload)'
    BY <2>1, <2>2, RunsStay DEF Settles, From, Results
  <2>4. o.code = "answer" => \E kind \in Kinds : o.result = [kind |-> kind, by |-> c]
    <3>1. ASSUME NEW x, Settles(c, x) PROVE x = o
      BY <2>1, <3>1 DEF Settles
    <3>2. ASSUME OperationThrows(c) PROVE o.code # "answer"
      BY <3>1, <3>2 DEF OperationThrows, ThrowsUnconfirmed, ThrowsReleased, ThrowsUnreleased,
                        Error
    <3>3. ASSUME NEW kind \in Kinds, OperationReturns(c, kind)
          PROVE  o \in {Reply([kind |-> kind, by |-> c], FALSE), Error("unrecorded")}
      BY <3>1, <3>3 DEF OperationReturns, ReturnsUnconfirmed, ReturnsRecorded, ReturnsUnrecorded
    <3> QED
      <4>1. o.code = "answer" => \E kind \in Kinds : OperationReturns(c, kind)
        BY <1>2, <3>2 DEF OperationEnds
      <4>2. ASSUME NEW kind \in Kinds, OperationReturns(c, kind), o.code = "answer"
            PROVE  o.result = [kind |-> kind, by |-> c]
        BY <3>3, <4>2 DEF Reply, Error
      <4> QED
        BY <4>1, <4>2
  <2>5. ASSUME NEW d \in Calls PROVE (OwnOutcome(d) /\ OwnLeader(d))'
    <3>1. OwnLeader(d)'
      BY <2>1, LeaderKept DEF Settles
    <3>2. CASE d = c
      BY <2>1, <2>3, <2>4, <3>1, <3>2 DEF Settles, OwnOutcome
    <3>3. CASE d # c
      BY <2>1, <3>1, <3>3, OutcomeKept DEF Settles
    <3> QED
      BY <3>2, <3>3
  <2>6. ASSUME NEW k \in Keys PROVE OwnRow(k)'
    <3> DEFINE row == records[request[c].key]
    <3>1. CASE \E kind \in Kinds : ReturnsRecorded(c, kind) /\ k = request[c].key
      <4>1. PICK kind \in Kinds : ReturnsRecorded(c, kind) /\ k = request[c].key
        BY <3>1
      <4> DEFINE result == [kind |-> kind, by |-> c]
      <4>2. result \in Results /\ row \in Rows /\ row.payload = request[c].payload
        BY <2>2, <4>1 DEF ReturnsRecorded, Owns, Results
      <4>3. records'[k] = CompletedRow(row, result)
        BY <4>1 DEF ReturnsRecorded, Completed
      <4>4. records'[k].result = result /\ records'[k].payload = request[c].payload
        BY <4>2, <4>3, CompletedRowType
      <4>5. request' = request
        BY <2>1 DEF Settles
      <4> QED
        BY <2>3, <4>1, <4>4, <4>5 DEF OwnRow
    <3>2. CASE records'[k] = records[k]
      BY <3>2, RowKept
    <3>3. CASE ThrowsReleased(c) /\ k = request[c].key /\ records' = Released(c)
      <4>1. records'[k].state = "absent"
        BY <3>3 DEF Released, Absent
      <4> QED
        BY <4>1 DEF OwnRow
    <3> QED
      BY <1>2, <3>1, <3>2, <3>3
      DEF OperationEnds, OperationReturns, ReturnsUnconfirmed, ReturnsRecorded,
          ReturnsUnrecorded, OperationThrows, ThrowsUnconfirmed, ThrowsReleased,
          ThrowsUnreleased, Completed, Released
  <2> QED
    BY <2>5, <2>6 DEF Origins
\* A call that joined takes what its leader got, which is its own.
<1>3. ASSUME NEW c \in Calls, FollowerResumes(c) PROVE Origins'
  <2>1. /\ pc[c] = "following" /\ leader[c] \in Calls
        /\ pc' = [pc EXCEPT ![c] = "done"]
        /\ outcome' = [outcome EXCEPT ![c] = Shared(outcome[leader[c]])]
        /\ UNCHANGED <<now, records, inFlight, request, leader, startedAt>>
    BY <1>3 DEF FollowerResumes, Shape
  <2>2. OwnOutcome(c)'
    <3>1. outcome'[c].code = outcome[leader[c]].code
          /\ outcome'[c].result = outcome[leader[c]].result
      BY <2>1, SharedType
    <3>2. outcome'[c].code = "answer" =>
              From(outcome'[c].result, request[c].key, request[c].payload)
      BY <2>1, <3>1 DEF Origins, OwnOutcome, OwnLeader, SameKey
    <3> QED
      BY <2>1, <3>2, FromKept DEF OwnOutcome, From, Results
  <2>3. ASSUME NEW d \in Calls PROVE OwnLeader(d)' /\ (d # c => OwnOutcome(d)')
    BY <2>1, LeaderKept, OutcomeKept
  <2>4. ASSUME NEW k \in Keys PROVE OwnRow(k)'
    BY <2>1, RowKept
  <2> QED
    BY <2>2, <2>3, <2>4 DEF Origins
<1>4. ASSUME \/ \E c \in Calls : Finish(c)
             \/ \E p \in Procs : Crash(p)
             \/ Tick
             \/ UNCHANGED vars
      PROVE  Origins'
  <2>1. UNCHANGED <<records, request, leader, outcome>>
    BY <1>4 DEF Finish, Crash, Tick, callVars, vars
  <2>2. \A d \in Calls : /\ pc'[d] = "following" => pc[d] = "following"
                         /\ pc[d] # "new" => pc'[d] # "new"
    BY <1>4 DEF Finish, Crash, Active, Tick, callVars, vars
  <2>3. ASSUME NEW d \in Calls PROVE (OwnOutcome(d) /\ OwnLeader(d))'
    BY <2>1, <2>2, OutcomeKept, LeaderKept
  <2>4. ASSUME NEW k \in Keys PROVE OwnRow(k)'
    BY <2>1, RowKept
  <2> QED
    BY <2>3, <2>4 DEF Origins
<1> QED
  BY <1>1, <1>2, <1>3, <1>4 DEF Next

LEMMA OriginsHold == Spec => []Origins
<1>1. Spec => []Base
  BY BaseInit, BaseNext, PTL DEF Spec
<1> QED
  BY <1>1, InFlightExact, OriginsInit, OriginsNext, PTL DEF Spec

\* Whether run, replayed from its row or shared in its process, an answer is
\* that of a run for the same key and the same payload.
THEOREM AnswersAreOwn == Spec => []AnswerIsOwn
<1>1. Origins => AnswerIsOwn
  BY DEF Origins, OwnOutcome, From, AnswerIsOwn, SameKey
<1> QED
  BY OriginsHold, <1>1, PTL

-----------------------------------------------------------------------------
(* Where results come from *)

\* The results that rows keep and calls were answered with.
Reported ==
    {outcome[c].result : c \in {d \in Calls : outcome[d].code = "answer"}}
    \cup {records[k].result : k \in {l \in Keys : records[l].state = "completed"}}

\* An operation that ends adds its own result at most.
LEMMA EndReports ==
    ASSUME Base, NEW c \in Calls, NEW kind \in Kinds, OperationReturns(c, kind)
    PROVE  \A result \in Reported' : result \in Reported \/ result = [kind |-> kind, by |-> c]
<1> USE DEF Base, TypeOK
<1> DEFINE own == [kind |-> kind, by |-> c]
<1>1. ASSUME NEW d \in Calls, outcome'[d].code = "answer"
      PROVE  (outcome[d].code = "answer" /\ outcome'[d].result = outcome[d].result)
             \/ outcome'[d].result = own
  BY <1>1 DEF OperationReturns, ReturnsUnconfirmed, ReturnsRecorded, ReturnsUnrecorded,
              Settles, Reply, Error
<1>2. ASSUME NEW k \in Keys, records'[k].state = "completed"
      PROVE  (records[k].state = "completed" /\ records'[k].result = records[k].result)
             \/ records'[k].result = own
  <2>1. CASE records'[k] = records[k]
    BY <1>2, <2>1
  <2>2. CASE ReturnsRecorded(c, kind) /\ k = request[c].key
    <3>1. records'[k] = CompletedRow(records[k], own) /\ own \in Results
      BY <2>2 DEF ReturnsRecorded, Completed, Results
    <3> QED
      BY <3>1, CompletedRowType
  <2> QED
    BY <1>2, <2>1, <2>2 DEF OperationReturns, ReturnsUnconfirmed, ReturnsRecorded,
                            ReturnsUnrecorded, Completed
<1> QED
  BY <1>1, <1>2 DEF Reported

\* Nothing but the end of an operation brings a new result.
LEMMA OthersReportNothing ==
    ASSUME Base, \/ \E c \in Calls, r \in Requests : Execute(c, r)
                 \/ \E c \in Calls : Finish(c) \/ FollowerResumes(c)
                 \/ \E p \in Procs : Crash(p)
                 \/ Tick
                 \/ UNCHANGED vars
    PROVE  Reported' \subseteq Reported
<1> USE DEF Base, TypeOK
\* A claim may replay the result of a row, and purges others.
<1>1. ASSUME NEW c \in Calls, NEW r \in Requests, Execute(c, r)
      PROVE  Reported' \subseteq Reported
  <2>1. pc[c] = "new" /\ r.key \in Keys
    BY <1>1 DEF Execute, JoinActive, RejectActive, ClaimAcquired, ClaimRefused, ClaimFaults,
                Leads, Arrives, Requests
  <2>2. ASSUME NEW k \in Keys, Purged[k].state = "completed"
        PROVE  records[k].state = "completed" /\ Purged[k].result = records[k].result
    BY <2>2 DEF Purged, Absent
  <2>3. ASSUME NEW k \in Keys, records'[k].state = "completed"
        PROVE  records[k].state = "completed" /\ records'[k].result = records[k].result
    <3>1. records'[k] \in {records[k], Purged[k]}
      BY <1>1, <2>1, <2>3, PurgedType
      DEF Execute, JoinActive, RejectActive, ClaimAcquired, ClaimRefused, ClaimFaults
    <3> QED
      BY <2>2, <2>3, <3>1
  <2>4. ASSUME NEW d \in Calls, outcome'[d].code = "answer"
        PROVE  outcome'[d].result \in Reported
    <3>1. CASE ClaimRefused(c, r) /\ d = c
      <4>1. outcome'[d] = Refusal(Purged[r.key], r) /\ Purged[r.key].state # "absent"
        BY <2>1, <3>1 DEF ClaimRefused, Claimable
      <4>2. Purged[r.key].state = "completed" /\ outcome'[d].result = Purged[r.key].result
        BY <2>4, <4>1 DEF Refusal, Error, Reply
      <4> QED
        BY <2>1, <2>2, <4>2 DEF Reported
    <3>2. CASE ~ (ClaimRefused(c, r) /\ d = c)
      <4>1. outcome'[d] = outcome[d]
        BY <1>1, <2>4, <3>2 DEF Execute, JoinActive, RejectActive, ClaimAcquired, ClaimRefused,
                                ClaimFaults, Error
      <4> QED
        BY <2>4, <4>1 DEF Reported
    <3> QED
      BY <3>1, <3>2
  <2> QED
    BY <2>3, <2>4 DEF Reported
\* A call that joined shares the result of its leader.
<1>2. ASSUME NEW c \in Calls, FollowerResumes(c) PROVE Reported' \subseteq Reported
  <2>1. /\ leader[c] \in Calls /\ records' = records
        /\ outcome' = [outcome EXCEPT ![c] = Shared(outcome[leader[c]])]
    BY <1>2 DEF FollowerResumes, Shape
  <2>2. Shared(outcome[leader[c]]).code = outcome[leader[c]].code
        /\ Shared(outcome[leader[c]]).result = outcome[leader[c]].result
    BY <2>1, SharedType
  <2> QED
    BY <2>1, <2>2 DEF Reported
<1>3. ASSUME \/ \E c \in Calls : Finish(c)
             \/ \E p \in Procs : Crash(p)
             \/ Tick
             \/ UNCHANGED vars
      PROVE  Reported' \subseteq Reported
  BY <1>3 DEF Finish, Crash, Tick, callVars, vars, Reported
<1> QED
  BY <1>1, <1>2, <1>3

-----------------------------------------------------------------------------
(* What the steps of one call leave alone *)

\* A call moves nothing of another.
LEMMA OthersUnmoved ==
    ASSUME Base, NEW c \in Calls,
           \/ \E r \in Requests : Execute(c, r)
           \/ \E kind \in Kinds : OperationReturns(c, kind)
           \/ Finish(c)
           \/ FollowerResumes(c)
    PROVE  \A d \in Calls : d # c =>
               /\ pc'[d] = pc[d] /\ request'[d] = request[d]
               /\ startedAt'[d] = startedAt[d] /\ outcome'[d] = outcome[d]
<1> USE DEF Base, TypeOK
<1>1. CASE \E r \in Requests : Execute(c, r)
  BY <1>1 DEF Execute, JoinActive, RejectActive, ClaimAcquired, ClaimRefused, ClaimFaults,
              Leads, Arrives
<1>2. CASE \E kind \in Kinds : OperationReturns(c, kind)
  BY <1>2 DEF OperationReturns, ReturnsUnconfirmed, ReturnsRecorded, ReturnsUnrecorded, Settles
<1>3. CASE Finish(c) \/ FollowerResumes(c)
  BY <1>3 DEF Finish, FollowerResumes
<1> QED
  BY <1>1, <1>2, <1>3

\* From where to where a call moves.
LEMMA CallMoves ==
    ASSUME Base, NEW c \in Calls
    PROVE  /\ \A r \in Requests : Execute(c, r) => pc[c] = "new" /\ pc'[c] # "new"
           /\ \A kind \in Kinds : OperationReturns(c, kind) =>
                  pc[c] = "operating" /\ pc'[c] = "settled" /\ startedAt'[c] = startedAt[c]
                  /\ request'[c] = request[c]
           /\ Finish(c) \/ FollowerResumes(c) =>
                  pc[c] \in {"settled", "following"} /\ pc'[c] = "done"
                  /\ startedAt'[c] = startedAt[c] /\ request'[c] = request[c]
BY DEF Base, TypeOK, Execute, JoinActive, RejectActive, ClaimAcquired, ClaimRefused,
       ClaimFaults, Leads, Arrives, OperationReturns, ReturnsUnconfirmed, ReturnsRecorded,
       ReturnsUnrecorded, Settles, Finish, FollowerResumes

\* Where no operation throws, no call is told that one did.
LEMMA NothingThrown ==
    ASSUME Base, \A d \in Calls : outcome[d].code # "thrown", NEW c \in Calls,
           \/ \E r \in Requests : Execute(c, r)
           \/ \E kind \in Kinds : OperationReturns(c, kind)
           \/ Finish(c)
           \/ FollowerResumes(c)
    PROVE  outcome'[c].code # "thrown"
<1> USE DEF Base, TypeOK
<1>1. ASSUME NEW r \in Requests, Execute(c, r) PROVE outcome'[c].code # "thrown"
  <2>1. outcome'[c] \in {outcome[c], Error("conflict"), Error("internal"),
                         Refusal(Purged[r.key], r)}
    BY <1>1 DEF Execute, JoinActive, RejectActive, ClaimAcquired, ClaimRefused, ClaimFaults,
                Leads, Arrives
  <2> QED
    BY <2>1 DEF Refusal, Error, Reply
<1>2. ASSUME NEW kind \in Kinds, OperationReturns(c, kind) PROVE outcome'[c].code # "thrown"
  BY <1>2 DEF OperationReturns, ReturnsUnconfirmed, ReturnsRecorded, ReturnsUnrecorded,
              Settles, Reply, Error
<1>3. CASE Finish(c)
  BY <1>3 DEF Finish
<1>4. CASE FollowerResumes(c)
  BY <1>4, SharedType DEF FollowerResumes, Shape
<1> QED
  BY <1>1, <1>2, <1>3, <1>4

\* A call that has ended makes no other request, and is never taken up again.
LEMMA EndedStays ==
    ASSUME Base, [Next]_vars, NEW d \in Calls, pc[d] \in {"settled", "done", "lost"}
    PROVE  pc'[d] \in {"settled", "done", "lost"} /\ request'[d] = request[d]
<1> USE DEF Base, TypeOK
<1>1. ASSUME NEW c \in Calls, NEW r \in Requests, Execute(c, r)
      PROVE  pc'[d] = pc[d] /\ request'[d] = request[d]
  <2>1. d # c
    BY <1>1, CallMoves
  <2> QED
    BY <1>1, <2>1, OthersUnmoved
<1>2. ASSUME NEW c \in Calls, OperationEnds(c)
      PROVE  pc'[d] = pc[d] /\ request' = request
  <2>1. PICK o : Settles(c, o)
    BY <1>2 DEF OperationEnds, OperationReturns, ReturnsUnconfirmed, ReturnsRecorded,
                ReturnsUnrecorded, OperationThrows, ThrowsUnconfirmed, ThrowsReleased,
                ThrowsUnreleased
  <2> QED
    BY <2>1 DEF Settles
<1>3. ASSUME NEW c \in Calls, Finish(c) \/ FollowerResumes(c)
      PROVE  pc'[d] \in {pc[d], "done"} /\ request' = request
  BY <1>3 DEF Finish, FollowerResumes
<1>4. ASSUME (\E p \in Procs : Crash(p)) \/ Tick \/ UNCHANGED vars
      PROVE  pc'[d] \in {pc[d], "lost"} /\ request' = request
  BY <1>4 DEF Crash, Tick, callVars, vars
<1> QED
  BY <1>1, <1>2, <1>3, <1>4 DEF Next

-----------------------------------------------------------------------------
(* The idempotency layer implements KeyContract: each of its steps is a    *)
(* step of the contract or leaves the keys as they are. Kept says of each  *)
(* run what the row of its key keeps; OwnersRan says the converse, which   *)
(* call the owner of a row is.                                             *)

OwnersRan ==
    \A k \in Keys : records[k].owner \in Calls =>
        Ran(records[k].owner) /\ request[records[k].owner].key = k

-----------------------------------------------------------------------------
(* OwnersRan is inductive *)

LEMMA OwnersInit == Init => OwnersRan
<1> SUFFICES ASSUME Init, NEW k \in Keys PROVE records[k].owner \notin Calls
  BY DEF OwnersRan
<1>1. records[k] \in Inherited
  BY DEF Init
<1> QED
  BY <1>1, NoneAssumption DEF Inherited, Absent

\* The owner of a row that a purge leaves is the owner it had.
LEMMA PurgedOwner ==
    ASSUME NEW k \in Keys
    PROVE  \/ Purged[k] = records[k]
           \/ Purged[k] = Absent /\ Absent.owner \notin Calls
BY NoneAssumption DEF Purged, Absent

\* What a step does to the owners of the rows, at most.
LEMMA OwnersFrame ==
    ASSUME OwnersRan,
           \A k \in Keys : records'[k].owner \in Calls => records'[k].owner = records[k].owner,
           \A c \in Calls : Ran(c) => Ran(c)' /\ request'[c] = request[c]
    PROVE  OwnersRan'
BY DEF OwnersRan

LEMMA OwnersNext == IInv /\ OwnersRan /\ [Next]_vars => OwnersRan'
<1> SUFFICES ASSUME IInv, OwnersRan, [Next]_vars PROVE OwnersRan'
  OBVIOUS
<1> USE DEF IInv, Base, TypeOK
<1>1. ASSUME NEW c \in Calls, NEW r \in Requests, JoinActive(c, r) PROVE OwnersRan'
  BY <1>1, OwnersFrame, RanHasKey DEF JoinActive, Arrives, Ran
<1>2. ASSUME NEW c \in Calls, NEW r \in Requests, RejectActive(c, r) PROVE OwnersRan'
  BY <1>2, OwnersFrame, RanHasKey DEF RejectActive, Arrives, Ran
<1>3. ASSUME NEW c \in Calls, NEW r \in Requests, ClaimAcquired(c, r) PROVE OwnersRan'
  <2> SUFFICES ASSUME NEW k \in Keys, records'[k].owner \in Calls
               PROVE  (Ran(records[k].owner) /\ request[records[k].owner].key = k)'
    BY DEF OwnersRan
  <2>1. /\ records' = [Purged EXCEPT ![r.key] =
                [state |-> "pending", payload |-> r.payload, owner |-> c,
                 result |-> None, created |-> now]]
        /\ startedAt' = [startedAt EXCEPT ![c] = now]
        /\ request' = [request EXCEPT ![c] = r]
        /\ pc[c] = "new"
    BY <1>3 DEF ClaimAcquired, Leads, Arrives
  <2>2. CASE k = r.key
    <3>1. records'[k].owner = c
      BY <2>1, <2>2, PurgedType
    <3> QED
      BY <2>1, <2>2, <3>1, TimesFacts DEF Ran
  <2>3. CASE k # r.key
    <3>1. records'[k].owner = records[k].owner
      BY <2>1, <2>3, PurgedType, PurgedOwner
    <3>2. Ran(records[k].owner) /\ records[k].owner # c
      BY <2>1, <3>1, RanHasKey DEF OwnersRan
    <3> QED
      BY <2>1, <3>1, <3>2 DEF OwnersRan, Ran
  <2> QED
    BY <2>2, <2>3
<1>4. ASSUME NEW c \in Calls, NEW r \in Requests, ClaimRefused(c, r) PROVE OwnersRan'
  BY <1>4, OwnersFrame, RanHasKey, PurgedOwner DEF ClaimRefused, Leads, Arrives, Ran
<1>5. ASSUME NEW c \in Calls, NEW r \in Requests, ClaimFaults(c, r) PROVE OwnersRan'
  BY <1>5, OwnersFrame, RanHasKey DEF ClaimFaults, Leads, Arrives, Ran
<1>6. ASSUME NEW c \in Calls, OperationEnds(c) PROVE OwnersRan'
  <2>1. PICK o : Settles(c, o)
    BY <1>6 DEF OperationEnds, OperationReturns, ReturnsUnconfirmed, ReturnsRecorded,
                ReturnsUnrecorded, OperationThrows, ThrowsUnconfirmed, ThrowsReleased,
                ThrowsUnreleased
  <2>2. request[c].key \in Keys /\ records[request[c].key] \in Rows
    BY <2>1, RanHasKey DEF Settles, Shape, Ran
  <2>3. \/ records' = records
        \/ records' = Released(c)
        \/ \E kind \in Kinds : records' = Completed(c, [kind |-> kind, by |-> c])
    BY <1>6 DEF OperationEnds, OperationReturns, ReturnsUnconfirmed, ReturnsRecorded,
                ReturnsUnrecorded, OperationThrows, ThrowsUnconfirmed, ThrowsReleased,
                ThrowsUnreleased
  <2>4. \A k \in Keys : records'[k].owner \in Calls => records'[k].owner = records[k].owner
    <3>1. CASE records' = records
      BY <3>1
    <3>2. CASE records' = Released(c)
      BY <2>2, <3>2, NoneAssumption DEF Released, Absent
    <3>3. CASE \E kind \in Kinds : records' = Completed(c, [kind |-> kind, by |-> c])
      <4>1. PICK kind \in Kinds : records' = Completed(c, [kind |-> kind, by |-> c])
        BY <3>3
      <4>2. CompletedRow(records[request[c].key], [kind |-> kind, by |-> c]).owner
                = records[request[c].key].owner
        BY <2>2, CompletedRowType DEF Results
      <4> QED
        BY <2>2, <4>1, <4>2 DEF Completed
    <3> QED
      BY <2>3, <3>1, <3>2, <3>3
  <2> QED
    BY <2>1, <2>4, OwnersFrame DEF Settles, Ran
<1>7. ASSUME NEW c \in Calls, Finish(c) \/ FollowerResumes(c) PROVE OwnersRan'
  BY <1>7, OwnersFrame DEF Finish, FollowerResumes, Ran
<1>8. ASSUME NEW p \in Procs, Crash(p) PROVE OwnersRan'
  BY <1>8, OwnersFrame DEF Crash, Ran
<1>9. CASE Tick \/ UNCHANGED vars
  BY <1>9, OwnersFrame DEF Tick, callVars, vars, Ran
<1> QED
  BY <1>1, <1>2, <1>3, <1>4, <1>5, <1>6, <1>7, <1>8, <1>9 DEF Next, Execute

-----------------------------------------------------------------------------
(* The phases of the keys *)

LEMMA Phases ==
    ASSUME NEW row \in Rows
    PROVE  /\ Phase(row) = "free" <=> row.state = "absent"
           /\ Phase(row) = "answered" <=> row.state = "completed"
           /\ Phase(row) = "running" <=> /\ row.state = "pending" /\ row.owner # None
                                         /\ pc[row.owner] = "operating"
BY DEF Phase, Rows

\* The row of a call that operates is its own, and its key runs.
LEMMA OperatingOwns ==
    ASSUME IInv, NEW c \in Calls, pc[c] = "operating"
    PROVE  /\ Ran(c) /\ request[c].key \in Keys
           /\ OpenRow(records[request[c].key], c)
           /\ Phase(records[request[c].key]) = "running"
<1>1. Ran(c) /\ request[c].key \in Keys /\ outcome[c].code = "none"
  BY RanHasKey DEF IInv, Base, Shape, Ran
<1>2. OpenRow(records[request[c].key], c)
  BY <1>1 DEF IInv, Kept, KeptBy, Recorded, Undone
<1> QED
  BY <1>1, <1>2, NoneAssumption DEF OpenRow, Phase

\* If neither its row nor its owner's place changes, nor does a key's phase.
LEMMA SamePhase ==
    ASSUME NEW k \in Keys, records'[k] = records[k],
           records[k].owner \in Calls =>
               (pc'[records[k].owner] = "operating" <=> pc[records[k].owner] = "operating"),
           records[k] \in Rows
    PROVE  (Phase(records[k]))' = Phase(records[k])
BY DEF Phase, Rows

\* A step that leaves the rows and the clock alone, and starts or ends no
\* operation, is no step of the contract.
LEMMA Stutters ==
    ASSUME IInv, UNCHANGED <<now, records>>,
           \A c \in Calls : pc'[c] = "operating" <=> pc[c] = "operating"
    PROVE  UNCHANGED Contract!vars
<1>1. \A k \in Keys : (Phase(records[k]))' = Phase(records[k])
  BY SamePhase DEF IInv, Base, TypeOK
<1> QED
  BY <1>1 DEF Contract!vars

\* What a purge takes is what the contract may forget.
LEMMA Forgotten ==
    ASSUME IInv, NEW k \in Keys
    PROVE  Expired(records[k]) <=> Contract!Expired(k)
<1>1. /\ records[k] \in Rows /\ now \in Nat /\ records[k].created \in Nat
      /\ Retention \in Nat
  BY TimesFacts, RetentionAssumption DEF IInv, Base, TypeOK, Rows
<1> QED
  BY <1>1, Phases DEF Expired, Contract!Expired

LEMMA PurgeForgets ==
    ASSUME IInv
    PROVE  LET F == {k \in Keys : Contract!Expired(k)} IN
           \A k \in Keys :
               /\ Contract!PhaseWithout(F)[k] = Phase(Purged[k])
               /\ Contract!BoundWithout(F)[k] = Purged[k].payload
               /\ Contract!SinceWithout(F)[k] = Purged[k].created
               /\ Contract!AnswerWithout(F)[k] =
                      IF Purged[k].state = "completed" THEN Purged[k].result ELSE None
<1> DEFINE F == {k \in Keys : Contract!Expired(k)}
<1> SUFFICES ASSUME NEW k \in Keys
    PROVE  /\ Contract!PhaseWithout(F)[k] = Phase(Purged[k])
           /\ Contract!BoundWithout(F)[k] = Purged[k].payload
           /\ Contract!SinceWithout(F)[k] = Purged[k].created
           /\ Contract!AnswerWithout(F)[k] =
                  IF Purged[k].state = "completed" THEN Purged[k].result ELSE None
  OBVIOUS
<1>1. CASE Expired(records[k])
  <2>1. k \in F /\ Purged[k] = Absent
    BY <1>1, Forgotten DEF Purged
  <2> QED
    BY <2>1 DEF Contract!PhaseWithout, Contract!BoundWithout, Contract!SinceWithout,
                Contract!AnswerWithout, Absent, Phase
<1>2. CASE ~ Expired(records[k])
  <2>1. k \notin F /\ Purged[k] = records[k]
    BY <1>2, Forgotten DEF Purged
  <2> QED
    BY <2>1 DEF Contract!PhaseWithout, Contract!BoundWithout, Contract!SinceWithout,
                Contract!AnswerWithout
<1> QED
  BY <1>1, <1>2

-----------------------------------------------------------------------------
(* Initial states and steps *)

LEMMA ContractInit == Init => Contract!Init
<1> SUFFICES ASSUME Init PROVE Contract!Init
  OBVIOUS
<1>1. /\ now \in Nat
      /\ \A k \in Keys : records[k] \in Rows /\ records[k].created \in Nat
    BY BaseInit, TimesFacts DEF Base, TypeOK, Init, Rows
<1>2. \A k \in Keys :
         /\ records[k].state = "completed" =>
                records[k].result \in [kind : Kinds \ {Unconfirmed}, by : Calls \cup {None}]
         /\ Phase(records[k]) \in {"free", "answered", "stuck"}
         /\ records[k].payload \in Payloads \cup {None}
  <2> SUFFICES ASSUME NEW k \in Keys
      PROVE  /\ records[k].state = "completed" =>
                    records[k].result \in [kind : Kinds \ {Unconfirmed}, by : Calls \cup {None}]
             /\ Phase(records[k]) \in {"free", "answered", "stuck"}
             /\ records[k].payload \in Payloads \cup {None}
    OBVIOUS
  <2>1. records[k] \in Inherited
    BY DEF Init
  <2> QED
    BY <2>1 DEF Inherited, Absent, Phase
<1> QED
  BY <1>1, <1>2 DEF Contract!Init, Phase

\* A claim that is acquired begins the run of its key.
LEMMA ClaimBegins ==
    ASSUME IInv, OwnersRan, NEW c \in Calls, NEW r \in Requests, ClaimAcquired(c, r)
    PROVE  Contract!Begin(r.key)
<1> DEFINE F == {k \in Keys : Contract!Expired(k)}
           new == [state |-> "pending", payload |-> r.payload, owner |-> c,
                   result |-> None, created |-> now]
<1>1. /\ records' = [Purged EXCEPT ![r.key] = new] /\ now' = now /\ pc[c] = "new"
      /\ pc' = [pc EXCEPT ![c] = "operating"] /\ Claimable(r)
      /\ r.key \in Keys /\ r.payload \in Payloads
  BY DEF ClaimAcquired, Leads, Arrives, Requests
<1>2. Purged \in [Keys -> Rows] /\ pc'[c] = "operating"
  BY <1>1, PurgedType DEF IInv, Base, TypeOK
<1>3. Contract!PhaseWithout(F)[r.key] = "free" /\ Contract!AnswerWithout(F)[r.key] = None
  BY <1>1, PurgeForgets DEF Claimable, Phase
<1>4. \A k \in Keys : (Phase(records[k]))' =
          IF k = r.key THEN "running" ELSE Phase(Purged[k])
  <2> SUFFICES ASSUME NEW k \in Keys
      PROVE (Phase(records[k]))' = IF k = r.key THEN "running" ELSE Phase(Purged[k])
    OBVIOUS
  <2>1. CASE k = r.key
    BY <1>1, <1>2, <2>1, NoneAssumption DEF Phase
  <2>2. CASE k # r.key
    <3>1. records'[k] = Purged[k]
      BY <1>1, <1>2, <2>2
    <3>2. Purged[k].owner \in Calls => Purged[k].owner # c
      BY <1>1, PurgedOwner, RanHasKey DEF OwnersRan, IInv
    <3> QED
      BY <1>1, <1>2, <2>2, <3>1, <3>2 DEF Phase, Rows, IInv, Base, TypeOK
  <2> QED
    BY <2>1, <2>2
<1>5. \A k \in Keys : records'[k] = IF k = r.key THEN new ELSE Purged[k]
  BY <1>1, <1>2
<1>6. /\ Contract!PhaseWithout(F) = [k \in Keys |-> Phase(Purged[k])]
      /\ Contract!BoundWithout(F) = [k \in Keys |-> Purged[k].payload]
      /\ Contract!SinceWithout(F) = [k \in Keys |-> Purged[k].created]
      /\ Contract!AnswerWithout(F) =
             [k \in Keys |-> IF Purged[k].state = "completed" THEN Purged[k].result ELSE None]
  <2>1. Contract!PhaseWithout(F) = [k \in Keys |-> Contract!PhaseWithout(F)[k]]
    BY DEF Contract!PhaseWithout
  <2>2. Contract!BoundWithout(F) = [k \in Keys |-> Contract!BoundWithout(F)[k]]
    BY DEF Contract!BoundWithout
  <2>3. Contract!SinceWithout(F) = [k \in Keys |-> Contract!SinceWithout(F)[k]]
    BY DEF Contract!SinceWithout
  <2>4. Contract!AnswerWithout(F) = [k \in Keys |-> Contract!AnswerWithout(F)[k]]
    BY DEF Contract!AnswerWithout
  <2> QED
    BY <2>1, <2>2, <2>3, <2>4, PurgeForgets
<1>7. [k \in Keys |-> Phase(records[k])]' = [Contract!PhaseWithout(F) EXCEPT ![r.key] = "running"]
  <2>1. [k \in Keys |-> Phase(records[k])]' =
            [k \in Keys |-> IF k = r.key THEN "running" ELSE Phase(Purged[k])]
    BY <1>4
  <2>2. [[k \in Keys |-> Phase(Purged[k])] EXCEPT ![r.key] = "running"] =
            [k \in Keys |-> IF k = r.key THEN "running" ELSE Phase(Purged[k])]
    BY <1>1
  <2> QED
    BY <1>6, <2>1, <2>2
<1>8. [k \in Keys |-> records[k].payload]' = [Contract!BoundWithout(F) EXCEPT ![r.key] = r.payload]
  <2>1. \A k \in Keys : records'[k].payload = IF k = r.key THEN r.payload ELSE Purged[k].payload
    BY <1>5
  <2> QED
    BY <1>1, <1>6, <2>1
<1>9. [k \in Keys |-> records[k].created]' = [Contract!SinceWithout(F) EXCEPT ![r.key] = now]
  BY <1>1, <1>5, <1>6
<1>10. [k \in Keys |-> IF records[k].state = "completed" THEN records[k].result ELSE None]'
          = Contract!AnswerWithout(F)
  BY <1>1, <1>5, <1>6 DEF Claimable
<1> QED
  BY <1>1, <1>3, <1>7, <1>8, <1>9, <1>10 DEF Contract!Begin

\* A claim that is refused may forget keys.
LEMMA RefusalForgets ==
    ASSUME IInv, NEW c \in Calls, NEW r \in Requests, ClaimRefused(c, r)
    PROVE  Contract!Forget
<1> DEFINE F == {k \in Keys : Contract!Expired(k)}
<1>1. /\ records' = Purged /\ now' = now /\ pc[c] = "new"
      /\ pc' = [pc EXCEPT ![c] = "settled"]
  BY DEF ClaimRefused, Leads, Arrives
<1>2. \A k \in Keys : (Phase(records[k]))' = Phase(Purged[k])
  <2> SUFFICES ASSUME NEW k \in Keys PROVE (Phase(records[k]))' = Phase(Purged[k])
    OBVIOUS
  <2>1. Purged[k] \in Rows
    BY PurgedType DEF IInv, Base, TypeOK
  <2> QED
    BY <1>1, <2>1 DEF Phase, Rows, IInv, Base, TypeOK
<1>3. /\ [k \in Keys |-> Phase(records[k])]' = Contract!PhaseWithout(F)
      /\ [k \in Keys |-> records[k].payload]' = Contract!BoundWithout(F)
      /\ [k \in Keys |-> records[k].created]' = Contract!SinceWithout(F)
      /\ [k \in Keys |-> IF records[k].state = "completed" THEN records[k].result ELSE None]'
             = Contract!AnswerWithout(F)
  BY <1>1, <1>2, PurgeForgets DEF Contract!PhaseWithout, Contract!BoundWithout,
                                  Contract!SinceWithout, Contract!AnswerWithout
<1> QED
  BY <1>1, <1>3 DEF Contract!Forget

\* The phases of the other keys when an operation ends.
LEMMA OthersKeepPhase ==
    ASSUME IInv, OwnersRan, NEW c \in Calls, NEW o, Settles(c, o),
           NEW k \in Keys, k # request[c].key, records'[k] = records[k]
    PROVE  (Phase(records[k]))' = Phase(records[k])
<1>1. records[k].owner \in Calls => records[k].owner # c
  BY DEF OwnersRan
<1> QED
  BY <1>1, SamePhase DEF Settles, IInv, Base, TypeOK

\* An operation that ends and leaves the rows alone strands its key.
LEMMA EndStrands ==
    ASSUME IInv, OwnersRan, NEW c \in Calls, NEW o, Settles(c, o), UNCHANGED records
    PROVE  Contract!Strand
<1> DEFINE key == request[c].key
<1>1. /\ pc[c] = "operating" /\ pc'[c] = "settled" /\ now' = now
  BY DEF Settles, IInv, Base, TypeOK
<1>2. /\ key \in Keys /\ Phase(records[key]) = "running"
      /\ records[key].state = "pending" /\ records[key].owner = c
  BY <1>1, OperatingOwns DEF OpenRow
<1>3. (Phase(records[key]))' = "stuck"
  BY <1>1, <1>2, NoneAssumption DEF Phase, Settles
<1>4. \A k \in Keys : (Phase(records[k]))' = IF k \in {key} THEN "stuck" ELSE Phase(records[k])
  <2> SUFFICES ASSUME NEW k \in Keys
      PROVE (Phase(records[k]))' = IF k \in {key} THEN "stuck" ELSE Phase(records[k])
    OBVIOUS
  <2>1. CASE k = key
    BY <1>3, <2>1 DEF Settles
  <2>2. CASE k # key
    BY <2>2, OthersKeepPhase
  <2> QED
    BY <2>1, <2>2
<1> QED
  BY <1>1, <1>2, <1>4 DEF Contract!Strand

\* A definite result, recorded, answers its key.
LEMMA RecordAnswers ==
    ASSUME IInv, OwnersRan, NEW c \in Calls, NEW kind \in Kinds, ReturnsRecorded(c, kind),
           NEW key \in Keys, key = request[c].key
    PROVE  Contract!Answer(key)
<1> DEFINE result == [kind |-> kind, by |-> c]
           o == Reply(result, FALSE)
<1>1. Settles(c, o) /\ pc[c] = "operating" /\ now' = now /\ kind # Unconfirmed
  BY DEF ReturnsRecorded, Settles, Uncertain
<1>2. key \in Keys /\ Phase(records[key]) = "running" /\ records[key] \in Rows
  BY <1>1, OperatingOwns DEF IInv, Base, TypeOK
<1>3. \A k \in Keys : records'[k] = IF k = key THEN CompletedRow(records[key], result)
                                                ELSE records[k]
  BY <1>2 DEF ReturnsRecorded, Completed, IInv, Base, TypeOK
<1>4. /\ records'[key].state = "completed" /\ records'[key].result = result
      /\ records'[key].payload = records[key].payload
      /\ records'[key].created = records[key].created
  BY <1>2, <1>3, CompletedRowType DEF Results
<1>5. \A k \in Keys : (Phase(records[k]))' = IF k = key THEN "answered" ELSE Phase(records[k])
  <2> SUFFICES ASSUME NEW k \in Keys
      PROVE (Phase(records[k]))' = IF k = key THEN "answered" ELSE Phase(records[k])
    OBVIOUS
  <2>1. CASE k = key
    BY <1>4, <2>1 DEF Phase, Settles
  <2>2. CASE k # key
    BY <1>1, <1>3, <2>2, OthersKeepPhase
  <2> QED
    BY <2>1, <2>2
<1>6. result \in [kind : Kinds \ {Unconfirmed}, by : Calls \cup {None}]
  BY <1>1
<1>7. /\ [k \in Keys |-> Phase(records[k])]' =
             [[k \in Keys |-> Phase(records[k])] EXCEPT ![key] = "answered"]
      /\ [k \in Keys |-> records[k].payload]' = [k \in Keys |-> records[k].payload]
      /\ [k \in Keys |-> records[k].created]' = [k \in Keys |-> records[k].created]
      /\ [k \in Keys |-> IF records[k].state = "completed" THEN records[k].result ELSE None]' =
             [[k \in Keys |-> IF records[k].state = "completed" THEN records[k].result ELSE None]
                 EXCEPT ![key] = result]
  BY <1>2, <1>3, <1>4, <1>5
<1> QED
  BY <1>1, <1>2, <1>6, <1>7 DEF Contract!Answer

\* A release frees the key.
LEMMA ThrowReleases ==
    ASSUME IInv, OwnersRan, NEW c \in Calls, ThrowsReleased(c),
           NEW key \in Keys, key = request[c].key
    PROVE  Contract!Release(key)
<1>1. Settles(c, Error("thrown")) /\ pc[c] = "operating" /\ now' = now
  BY DEF ThrowsReleased, Settles
<1>2. /\ key \in Keys /\ Phase(records[key]) = "running" /\ OpenRow(records[key], c)
  BY <1>1, OperatingOwns
<1>3. records' = Released(c)
  BY <1>2 DEF ThrowsReleased, OpenRow, Owns
<1>4. \A k \in Keys : records'[k] = IF k = key THEN Absent ELSE records[k]
  BY <1>2, <1>3 DEF Released, IInv, Base, TypeOK
<1>5. \A k \in Keys : (Phase(records[k]))' = IF k = key THEN "free" ELSE Phase(records[k])
  <2> SUFFICES ASSUME NEW k \in Keys
      PROVE (Phase(records[k]))' = IF k = key THEN "free" ELSE Phase(records[k])
    OBVIOUS
  <2>1. CASE k = key
    BY <1>4, <2>1 DEF Phase, Absent, Settles
  <2>2. CASE k # key
    BY <1>1, <1>4, <2>2, OthersKeepPhase
  <2> QED
    BY <2>1, <2>2
<1>6. /\ Absent.payload = None /\ Absent.created = 0 /\ Absent.state = "absent"
      /\ records[key].state = "pending"
  BY <1>2 DEF Absent, OpenRow
<1>7. [k \in Keys |-> Phase(records[k])]' = [[k \in Keys |-> Phase(records[k])] EXCEPT ![key] = "free"]
  BY <1>2, <1>5
<1>8. [k \in Keys |-> records[k].payload]' = [[k \in Keys |-> records[k].payload] EXCEPT ![key] = None]
  BY <1>2, <1>4, <1>6
<1>9. [k \in Keys |-> records[k].created]' = [[k \in Keys |-> records[k].created] EXCEPT ![key] = 0]
  BY <1>2, <1>4, <1>6
<1>10. [k \in Keys |-> IF records[k].state = "completed" THEN records[k].result ELSE None]' =
          [k \in Keys |-> IF records[k].state = "completed" THEN records[k].result ELSE None]
  BY <1>4, <1>6
<1> QED
  BY <1>1, <1>2, <1>7, <1>8, <1>9, <1>10 DEF Contract!Release

\* A crash strands the keys whose operations it ends.
LEMMA CrashStrands ==
    ASSUME IInv, OwnersRan, NEW p \in Procs, Crash(p)
    PROVE  Contract!Strand
<1> DEFINE S == {k \in Keys : /\ Phase(records[k]) = "running"
                              /\ request[records[k].owner].proc = p}
<1>1. now' = now /\ records' = records
      /\ \A c \in Calls : pc'[c] = IF Active(c) /\ request[c].proc = p THEN "lost" ELSE pc[c]
  BY DEF Crash
<1>2. \A k \in Keys : (Phase(records[k]))' = IF k \in S THEN "stuck" ELSE Phase(records[k])
  <2> SUFFICES ASSUME NEW k \in Keys
      PROVE (Phase(records[k]))' = IF k \in S THEN "stuck" ELSE Phase(records[k])
    OBVIOUS
  <2>1. records[k] \in Rows /\ records'[k] = records[k]
    BY <1>1 DEF IInv, Base, TypeOK
  <2>2. CASE k \in S
    <3>1. records[k].state = "pending" /\ records[k].owner \in Calls
          /\ pc[records[k].owner] = "operating"
      BY <2>1, <2>2, Phases DEF Rows
    <3>2. pc'[records[k].owner] = "lost"
      BY <1>1, <2>2, <3>1 DEF Active
    <3> QED
      BY <2>1, <2>2, <3>1, <3>2 DEF Phase
  <2>3. CASE k \notin S
    <3>1. records[k].owner \in Calls /\ records[k].state = "pending" =>
              (pc'[records[k].owner] = "operating" <=> pc[records[k].owner] = "operating")
      BY <1>1, <2>1, <2>3, Phases, NoneAssumption DEF Active
    <3> QED
      BY <2>1, <2>3, <3>1 DEF Phase, Rows
  <2> QED
    BY <2>2, <2>3
<1>3. S \in SUBSET {k \in Keys : [j \in Keys |-> Phase(records[j])][k] = "running"}
  OBVIOUS
<1> QED
  BY <1>1, <1>2, <1>3 DEF Contract!Strand

LEMMA ContractNext == IInv /\ OwnersRan /\ [Next]_vars => [Contract!Next]_(Contract!vars)
<1> SUFFICES ASSUME IInv, OwnersRan, [Next]_vars PROVE Contract!Next \/ UNCHANGED Contract!vars
  OBVIOUS
<1>1. ASSUME NEW c \in Calls, NEW r \in Requests, Execute(c, r)
      PROVE  Contract!Next \/ UNCHANGED Contract!vars
  <2>1. CASE ClaimAcquired(c, r)
    BY <2>1, ClaimBegins DEF Contract!Next, Requests
  <2>2. CASE ClaimRefused(c, r)
    BY <2>2, RefusalForgets DEF Contract!Next
  <2>3. CASE JoinActive(c, r) \/ RejectActive(c, r) \/ ClaimFaults(c, r)
    BY <2>3, Stutters DEF JoinActive, RejectActive, ClaimFaults, Leads, Arrives,
                          IInv, Base, TypeOK
  <2> QED
    BY <1>1, <2>1, <2>2, <2>3 DEF Execute
<1>2. ASSUME NEW c \in Calls, OperationEnds(c) PROVE Contract!Next
  <2>1. PICK key \in Keys : key = request[c].key
    BY <1>2, OperatingOwns
    DEF OperationEnds, OperationReturns, ReturnsUnconfirmed, ReturnsRecorded,
        ReturnsUnrecorded, OperationThrows, ThrowsUnconfirmed, ThrowsReleased,
        ThrowsUnreleased, Settles
  <2>2. ASSUME NEW o, Settles(c, o), UNCHANGED records PROVE Contract!Next
    <3>1. Contract!Strand
      BY <2>2, EndStrands
    <3> QED
      BY <3>1 DEF Contract!Next
  <2>3. ASSUME NEW kind \in Kinds, OperationReturns(c, kind) PROVE Contract!Next
    <3>1. CASE ReturnsRecorded(c, kind)
      <4>1. Contract!Answer(key)
        BY <2>1, <3>1, RecordAnswers
      <4> QED
        BY <2>1, <4>1 DEF Contract!Next
    <3>2. CASE ReturnsUnconfirmed(c, kind) \/ ReturnsUnrecorded(c, kind)
      BY <2>2, <3>2 DEF ReturnsUnconfirmed, ReturnsUnrecorded
    <3> QED
      BY <2>3, <3>1, <3>2 DEF OperationReturns
  <2>4. CASE OperationThrows(c)
    <3>1. CASE ThrowsReleased(c)
      <4>1. Contract!Release(key)
        BY <2>1, <3>1, ThrowReleases
      <4> QED
        BY <2>1, <4>1 DEF Contract!Next
    <3>2. CASE ThrowsUnconfirmed(c) \/ ThrowsUnreleased(c)
      BY <2>2, <3>2 DEF ThrowsUnconfirmed, ThrowsUnreleased
    <3> QED
      BY <2>4, <3>1, <3>2 DEF OperationThrows
  <2> QED
    BY <1>2, <2>3, <2>4 DEF OperationEnds
<1>3. ASSUME NEW c \in Calls, Finish(c) \/ FollowerResumes(c) PROVE UNCHANGED Contract!vars
  BY <1>3, Stutters DEF Finish, FollowerResumes, IInv, Base, TypeOK
<1>4. ASSUME NEW p \in Procs, Crash(p) PROVE Contract!Next
  BY <1>4, CrashStrands DEF Contract!Next
<1>5. CASE Tick
  <2>1. now \in Nat /\ now' = now + 1 /\ UNCHANGED <<records, pc>>
    BY <1>5, TimesFacts DEF Tick, callVars, IInv, Base, TypeOK
  <2> QED
    BY <2>1 DEF Contract!Next, Contract!Tick, Phase
<1>6. CASE UNCHANGED vars
  BY <1>6, Stutters DEF vars
<1> QED
  BY <1>1, <1>2, <1>3, <1>4, <1>5, <1>6 DEF Next

-----------------------------------------------------------------------------
\* Whatever the calls, the processes and their crashes, each key goes through
\* the phases that KeyContract promises, and in no other way.
THEOREM ContractKept == Spec => KeepsContract
<1>1. Init => IInv /\ OwnersRan
  BY BaseInit, KeptInit, OwnersInit DEF IInv
<1>2. IInv /\ OwnersRan /\ [Next]_vars => (IInv /\ OwnersRan)'
  BY BaseNext, KeptNext, OwnersNext DEF IInv
<1> QED
  BY <1>1, <1>2, ContractInit, ContractNext, PTL DEF Spec, KeepsContract, Contract!Spec

-----------------------------------------------------------------------------
(* What a call that joined waits for. A call leads itself or another that  *)
(* had already led when it joined, so waiting is never circular.           *)

\* The calls whose promise is still to come are in the process of the call
\* that awaits them, and go on: they are not lost while it waits.
FollowersAreLed ==
    \A c \in Calls : pc[c] = "following" =>
        /\ pc[leader[c]] \in {"operating", "settled", "done"}
        /\ request[leader[c]].proc = request[c].proc

\* Who shares a promise is told what its leader was.
SharersAgree ==
    \A c \in Calls : pc[c] = "done" /\ leader[c] \in Calls \ {c} =>
        /\ pc[leader[c]] = "done"
        /\ outcome[c] = Shared(outcome[leader[c]])

LeadersLead ==
    \A c \in Calls :
        /\ pc[c] = "new" => leader[c] = None
        /\ pc[c] \in {"operating", "settled"} => leader[c] = c

Waits == FollowersAreLed /\ SharersAgree /\ LeadersLead

LEMMA WaitsInit == Init => Waits
BY DEF Init, Waits, FollowersAreLed, SharersAgree, LeadersLead

LEMMA ArrivalWaits ==
    ASSUME Base, InFlightIsExact, Waits, NEW c \in Calls, NEW r \in Requests, Execute(c, r)
    PROVE  Waits'
<1> USE DEF Base, TypeOK
<1>1. pc[c] = "new" /\ pc'[c] # "new" /\ leader[c] = None
  BY CallMoves DEF Waits, LeadersLead
<1>2. \A d \in Calls : d # c => /\ pc'[d] = pc[d] /\ request'[d] = request[d]
                                /\ outcome'[d] = outcome[d] /\ leader'[d] = leader[d]
  <2>1. \A d \in Calls : d # c => leader'[d] = leader[d]
    BY DEF Execute, JoinActive, RejectActive, ClaimAcquired, ClaimRefused, ClaimFaults, Leads
  <2> QED
    BY <2>1, OthersUnmoved
<1>3. CASE JoinActive(c, r)
  <2> DEFINE e == ActiveCall(r)
  <2>1. e \in Calls /\ pc[e] \in {"operating", "settled"} /\ request[e].proc = r.proc
    BY <1>3 DEF JoinActive, ActiveCall, Requests, InFlightIsExact
  <2>2. pc'[c] = "following" /\ leader'[c] = e /\ request'[c] = r
    BY <1>3 DEF JoinActive, Arrives
  <2>3. e # c
    BY <1>1, <2>1
  <2> QED
    BY <1>1, <1>2, <2>1, <2>2, <2>3 DEF Waits, FollowersAreLed, SharersAgree, LeadersLead, Shape
<1>4. CASE ~ JoinActive(c, r)
  <2>1. \/ pc'[c] = "done" /\ leader'[c] = None
        \/ pc'[c] \in {"operating", "settled"} /\ leader'[c] = c
    BY <1>1, <1>4 DEF Execute, RejectActive, ClaimAcquired, ClaimRefused, ClaimFaults, Leads
  <2> QED
    BY <1>1, <1>2, <2>1, NoneAssumption DEF Waits, FollowersAreLed, SharersAgree, LeadersLead, Shape
<1> QED
  BY <1>3, <1>4

LEMMA WaitsNext == Base /\ InFlightIsExact /\ Waits /\ [Next]_vars => Waits'
<1> SUFFICES ASSUME Base, InFlightIsExact, Waits, [Next]_vars PROVE Waits'
  OBVIOUS
<1> USE DEF Base, TypeOK, Waits, FollowersAreLed, SharersAgree, LeadersLead
<1>1. ASSUME NEW c \in Calls, NEW r \in Requests, Execute(c, r) PROVE Waits'
  BY <1>1, ArrivalWaits
<1>2. ASSUME NEW c \in Calls, OperationEnds(c) PROVE Waits'
  <2>1. PICK o : Settles(c, o)
    BY <1>2 DEF OperationEnds, OperationReturns, ReturnsUnconfirmed, ReturnsRecorded,
                ReturnsUnrecorded, OperationThrows, ThrowsUnconfirmed, ThrowsReleased,
                ThrowsUnreleased
  <2> QED
    BY <2>1 DEF Settles, Shape
<1>3. ASSUME NEW c \in Calls, Finish(c) PROVE Waits'
  BY <1>3 DEF Finish, Shape
<1>4. ASSUME NEW c \in Calls, FollowerResumes(c) PROVE Waits'
  BY <1>4 DEF FollowerResumes, SettledFor, Shape
<1>5. ASSUME NEW p \in Procs, Crash(p) PROVE Waits'
  BY <1>5 DEF Crash, Active, Shape
<1>6. ASSUME Tick \/ UNCHANGED vars PROVE Waits'
  BY <1>6 DEF Tick, callVars, vars
<1> QED
  BY <1>1, <1>2, <1>3, <1>4, <1>5, <1>6 DEF Next

LEMMA WaitsHold == Spec => []Waits
<1>1. Spec => []Base
  BY BaseInit, BaseNext, PTL DEF Spec
<1> QED
  BY <1>1, InFlightExact, WaitsInit, WaitsNext, PTL DEF Spec

\* A call that joined the promise of another never waits for nobody: its
\* leader runs in the same process, and is lost only together with it. This
\* is the safety part of the liveness of execute.
THEOREM NobodyWaitsForTheLost == Spec => []FollowersAreLed
<1>1. Waits => FollowersAreLed
  BY DEF Waits
<1> QED
  BY <1>1, WaitsHold, PTL

\* All requests that share a promise are told the same.
THEOREM SharedAnswersAgree == Spec => []SharersAgree
<1>1. Waits => SharersAgree
  BY DEF Waits
<1> QED
  BY <1>1, WaitsHold, PTL
=============================================================================
