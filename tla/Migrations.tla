----------------------------- MODULE Migrations -----------------------------
(***************************************************************************)
(* What a claim does before it claims: preparedDatabase of                 *)
(* src/idempotency-store.js imports the records of the JSON versions, and  *)
(* turns the uncertain results that earlier versions stored as completed   *)
(* back into pending records, each of them once per database. Then the     *)
(* claim purges what expired, and finds or inserts the row of its key.     *)
(*                                                                         *)
(* The processes that share the database start at any time. A process runs *)
(* one claim at a time (no step of it awaits), but another process may     *)
(* act between any two of its statements. The codes of uncertain results   *)
(* are also codes of definite errors that this version records: only the   *)
(* moment of the migration tells them apart.                               *)
(***************************************************************************)
EXTENDS Naturals

CONSTANTS
    Keys,        \* idempotency keys
    Procs,       \* server processes sharing the database
    Retention,   \* IDEMPOTENCY_RETENTION_MS
    MaxTime,     \* bound on the clock
    None         \* no record, no result

ASSUME RetentionAssumption == Retention \in Nat \ {0} /\ MaxTime \in Nat

VARIABLES
    now,       \* Date.now(), one clock for all processes
    rows,      \* idempotency_records
    marks,     \* the keys of schema_metadata: "imported", "preserved"
    legacy,    \* the records of data/idempotency.json (never written)
    pc,        \* where each process is in its claim
    history,   \* what was known of each key before this version started
    replayed   \* history: what was replayed, per key

vars == <<now, rows, marks, legacy, pc, history, replayed>>

-----------------------------------------------------------------------------
(* An answer is "coded" if its body has one of the codes the migration     *)
(* looks for, and "plain" if not. A row is old if an earlier version       *)
(* claimed its key.                                                        *)

ASSUME NoneAssumption == None \notin {"plain", "coded"}

Times   == 0 .. MaxTime
Answers == {"plain", "coded"}
Rows == [state : {"absent", "pending", "completed"}, answer : Answers \cup {None},
         old : BOOLEAN, created : Times]

Absent == [state |-> "absent", answer |-> None, old |-> FALSE, created |-> 0]

OldRows ==
    {Absent} \cup [state : {"completed"}, answer : Answers, old : {TRUE}, created : {0}]
             \cup [state : {"pending"}, answer : {None}, old : {TRUE}, created : {0}]

\* A record without createdAt is dated when it is imported.
LegacyRecords == [answer : Answers, dated : BOOLEAN]

Imported(l) == [state |-> "completed", answer |-> l.answer, old |-> TRUE,
                created |-> IF l.dated THEN 0 ELSE now]

\* Mutant: an answer of exactly the retention's age is purged.
ExpiredEarly(row) == row.state = "completed" /\ row.created + Retention <= now

Expired(row) == row.state = "completed" /\ row.created + Retention < now

Purged == [k \in Keys |-> IF Expired(rows[k]) THEN Absent ELSE rows[k]]

-----------------------------------------------------------------------------
(* The database is new, with the records of a JSON version to import, or   *)
(* was written by an earlier SQLite version, which imported them.          *)

Known(k) ==
    IF rows[k].state # "absent"
    THEN [answer |-> rows[k].answer, state |-> rows[k].state]
    ELSE IF marks = {} /\ legacy[k] # None
         THEN [answer |-> legacy[k].answer, state |-> "completed"]
         ELSE [answer |-> None, state |-> "absent"]

Init ==
    /\ now = 0
    /\ legacy \in [Keys -> LegacyRecords \cup {None}]
    /\ \/ marks = {} /\ rows = [k \in Keys |-> Absent]
       \/ marks = {"imported"} /\ rows \in [Keys -> OldRows]
    /\ pc = [p \in Procs |-> "idle"]
    /\ history = [k \in Keys |-> Known(k)]
    /\ replayed = {}

Goto(p, place) == pc' = [pc EXCEPT ![p] = place]

-----------------------------------------------------------------------------
(* importLegacyRecords *)

Starts(p) ==
    /\ pc[p] = "idle"
    /\ Goto(p, IF "imported" \in marks THEN "check" ELSE "import")
    /\ UNCHANGED <<now, rows, marks, legacy, history, replayed>>

\* INSERT OR IGNORE, then the marker.
WithLegacy == [k \in Keys |-> IF rows[k].state = "absent" /\ legacy[k] # None
                              THEN Imported(legacy[k]) ELSE rows[k]]

\* Mutant: the marker is inserted OR REPLACEd.
NeverCollides == FALSE

\* The marker is a primary key.
Collides == "imported" \in marks

Imports(p) ==
    /\ pc[p] = "import"
    /\ ~ Collides
    /\ rows' = WithLegacy
    /\ marks' = marks \cup {"imported"}
    /\ Goto(p, "check")
    /\ UNCHANGED <<now, legacy, history, replayed>>

\* Another process has imported since Starts: the transaction is rolled back
\* and the claim fails.
ImportCollides(p) ==
    /\ pc[p] = "import"
    /\ Collides
    /\ Goto(p, "idle")
    /\ UNCHANGED <<now, rows, marks, legacy, history, replayed>>

-----------------------------------------------------------------------------
(* preserveHistoricalUncertainResults *)

\* Mutant: the marker of the other migration is read.
MarkedImported == "imported" \in marks

Marked == "preserved" \in marks

Checks(p) ==
    /\ pc[p] = "check"
    /\ Goto(p, IF Marked THEN "claim" ELSE "preserve")
    /\ UNCHANGED <<now, rows, marks, legacy, history, replayed>>

\* The answer is kept as evidence. A pending row is never replayed.
Preserved(row) ==
    IF row.state = "completed" /\ row.answer = "coded"
    THEN [row EXCEPT !.state = "pending"] ELSE row

\* Mutant: no second look, and the marker replaced.
NotRechecked == FALSE

\* The second look, under the write lock.
Rechecked == Marked

Preserves(p) ==
    /\ pc[p] = "preserve"
    /\ rows' = IF Rechecked THEN rows ELSE [k \in Keys |-> Preserved(rows[k])]
    /\ marks' = marks \cup {"preserved"}
    /\ Goto(p, "claim")
    /\ UNCHANGED <<now, legacy, history, replayed>>

-----------------------------------------------------------------------------
(* claimRecord, and the end of the operation it lets run *)

Claims(p, k) ==
    /\ pc[p] = "claim"
    /\ LET row == Purged[k] IN
        /\ rows' = IF row.state = "absent"
                   THEN [Purged EXCEPT ![k] = [state |-> "pending", answer |-> None,
                                               old |-> FALSE, created |-> now]]
                   ELSE Purged
        /\ replayed' = IF row.state = "completed"
                       THEN replayed \cup {[key |-> k, answer |-> row.answer, old |-> row.old]}
                       ELSE replayed
    /\ Goto(p, "idle")
    /\ UNCHANGED <<now, marks, legacy, history>>

\* A run of this version owns the row.
RunsNew(row) == row.state = "pending" /\ ~ row.old

\* Mutant: the row is completed without the result.
WithoutAnswer(row, a) == [row EXCEPT !.state = "completed"]

WithAnswer(row, a) == [row EXCEPT !.state = "completed", !.answer = a]

\* completeRecord by the claim that owns the row. The markers it looks for
\* are there: the claim came after them.
Records(k) ==
    /\ RunsNew(rows[k])
    /\ \E a \in Answers : rows' = [rows EXCEPT ![k] = WithAnswer(@, a)]
    /\ UNCHANGED <<now, marks, legacy, pc, history, replayed>>

\* releaseRecord.
Releases(k) ==
    /\ RunsNew(rows[k])
    /\ rows' = [rows EXCEPT ![k] = Absent]
    /\ UNCHANGED <<now, marks, legacy, pc, history, replayed>>

-----------------------------------------------------------------------------
\* A process crashes, or a transaction fails and is rolled back.
Interrupted(p) ==
    /\ pc[p] # "idle"
    /\ Goto(p, "idle")
    /\ UNCHANGED <<now, rows, marks, legacy, history, replayed>>

Tick ==
    /\ now < MaxTime
    /\ now' = now + 1
    /\ UNCHANGED <<rows, marks, legacy, pc, history, replayed>>

Prepares(p) ==
    Starts(p) \/ Imports(p) \/ ImportCollides(p) \/ Checks(p) \/ Preserves(p)

Next ==
    \/ \E p \in Procs : Prepares(p) \/ Interrupted(p)
    \/ \E p \in Procs, k \in Keys : Claims(p, k)
    \/ \E k \in Keys : Records(k) \/ Releases(k)
    \/ Tick

Spec == Init /\ [][Next]_vars

-----------------------------------------------------------------------------
(* Properties *)

TypeOK ==
    /\ now \in Times
    /\ rows \in [Keys -> Rows]
    /\ \A k \in Keys : rows[k].state = "completed" => rows[k].answer # None
    /\ marks \subseteq {"imported", "preserved"}
    /\ legacy \in [Keys -> LegacyRecords \cup {None}]
    /\ pc \in [Procs -> {"idle", "import", "check", "preserve", "claim"}]
    /\ history \in [Keys -> [answer : Answers \cup {None}, state : {"absent", "pending", "completed"}]]
    /\ replayed \subseteq [key : Keys, answer : Answers, old : BOOLEAN]

\* A key whose operation an earlier version left open, or answered with an
\* uncertain result, is never claimed for a new run: whichever process
\* imports, migrates or purges first, and however often they are interrupted.
OpenHistoryIsNotRerun ==
    \A k \in Keys :
        history[k].state = "pending" \/ history[k].answer = "coded"
            => rows[k].state = "absent" \/ rows[k].old

\* A key that an earlier version answered is claimed only when that answer
\* has been kept for the retention.
AnsweredHistoryIsKept ==
    [][\A k \in Keys :
        history[k].state = "completed" /\ ~ RunsNew(rows[k]) /\ RunsNew(rows'[k])
            => now > Retention]_vars

\* The uncertain result of an earlier version is never replayed.
UncertainIsNotReplayed ==
    ~ \E r \in replayed : r.old /\ r.answer = "coded"

\* A record is imported once: what was purged, or released, does not return.
ImportedOnce ==
    [][\A k \in Keys :
        rows[k].state = "absent" /\ "imported" \in marks => ~ rows'[k].old]_vars

\* What this version recorded stays replayable until it expires, also if it is
\* an error with one of the codes the migration looks for.
OwnAnswersStay ==
    [][\A k \in Keys :
        rows[k].state = "completed" /\ ~ rows[k].old
            => rows'[k] = rows[k] \/ Expired(rows[k])]_vars
=============================================================================
