-------------------------- MODULE MigrationsProofs --------------------------
(***************************************************************************)
(* Theorems about Migrations, for any sets of keys and processes, any      *)
(* retention and any bound on the clock. Ready says what the place of a    *)
(* process in its claim tells about the markers, and Guarded where a key   *)
(* with an open history is, at each stage of the migration: the two are    *)
(* inductive together with the types.                                      *)
(***************************************************************************)
EXTENDS Migrations, TLAPS

Open(k) == history[k].state = "pending" \/ history[k].answer = "coded"

\* A claim is made only after both migrations, which happen in their order.
Ready ==
    /\ "preserved" \in marks => "imported" \in marks
    /\ \A p \in Procs :
        /\ pc[p] \in {"check", "preserve", "claim"} => "imported" \in marks
        /\ pc[p] = "claim" => "preserved" \in marks

InFile(k)    == rows[k].state = "absent" /\ "imported" \notin marks
                    /\ legacy[k] # None /\ legacy[k].answer = "coded"
InDoubt(k)   == rows[k].state = "completed" /\ rows[k].old /\ rows[k].answer = "coded"
                    /\ "preserved" \notin marks
IsPending(k) == rows[k].state = "pending" /\ rows[k].old

\* A key with an open history is in the file, in a row not yet migrated, or
\* in a row that stays pending. No uncertain result outlives the migration.
Guarded ==
    \A k \in Keys :
        /\ Open(k) => InFile(k) \/ InDoubt(k) \/ IsPending(k)
        /\ rows[k].state = "completed" /\ rows[k].old /\ rows[k].answer = "coded"
                => "preserved" \notin marks

IInv == TypeOK /\ Ready /\ Guarded /\ UncertainIsNotReplayed

-----------------------------------------------------------------------------
USE RetentionAssumption, NoneAssumption

LEMMA AbsentTyped == Absent \in Rows
  BY DEF Absent, Rows, Answers, Times

\* What the row of an earlier version may be.
LEMMA OldRowTyped ==
    ASSUME NEW row \in OldRows
    PROVE  /\ row \in Rows
           /\ row.state = "completed" => row.old /\ row.answer \in Answers
           /\ row.state = "pending" => row.old /\ row.answer = None
  <1>1. CASE row = Absent
    BY <1>1, AbsentTyped DEF Absent
  <1>2. CASE row \in [state : {"completed"}, answer : Answers, old : {TRUE}, created : {0}]
    <2>1. PICK a \in Answers : row = [state |-> "completed", answer |-> a, old |-> TRUE, created |-> 0]
      BY <1>2
    <2>2. row \in Rows
      BY <2>1 DEF Rows, Times
    <2>3. QED
      BY <2>1, <2>2
  <1>3. CASE row \in [state : {"pending"}, answer : {None}, old : {TRUE}, created : {0}]
    <2>1. PICK a \in {None} : row = [state |-> "pending", answer |-> a, old |-> TRUE, created |-> 0]
      BY <1>3
    <2>2. row \in Rows
      BY <2>1 DEF Rows, Times
    <2>3. QED
      BY <2>1, <2>2
  <1>4. QED
    BY <1>1, <1>2, <1>3 DEF OldRows

LEMMA InitHolds == Init => IInv
  <1> SUFFICES ASSUME Init PROVE IInv
    OBVIOUS
  <1>1. TypeOK
    <2>1. rows \in [Keys -> Rows] /\ \A k \in Keys : rows[k].state = "completed" => rows[k].answer # None
      <3>1. CASE rows = [k \in Keys |-> Absent]
        BY <3>1, AbsentTyped DEF Absent
      <3>2. CASE rows \in [Keys -> OldRows]
        <4>1. \A k \in Keys : rows[k] \in Rows /\ (rows[k].state = "completed" => rows[k].answer # None)
          BY <3>2, OldRowTyped DEF Answers
        <4>2. QED
          BY <3>2, <4>1
      <3>3. QED
        BY <3>1, <3>2 DEF Init
    <2>2. \A k \in Keys : Known(k) \in [answer : Answers \cup {None},
                                        state : {"absent", "pending", "completed"}]
      <3> SUFFICES ASSUME NEW k \in Keys
                   PROVE  Known(k) \in [answer : Answers \cup {None},
                                        state : {"absent", "pending", "completed"}]
        OBVIOUS
      <3>1. rows[k] \in Rows /\ (legacy[k] # None => legacy[k] \in LegacyRecords)
        BY <2>1 DEF Init
      <3>2. rows[k].answer \in Answers \cup {None}
                /\ rows[k].state \in {"absent", "pending", "completed"}
                /\ (legacy[k] # None => legacy[k].answer \in Answers)
        BY <3>1 DEF Rows, LegacyRecords
      <3>3. QED
        BY <3>2 DEF Known
    <2>3. QED
      BY <2>1, <2>2 DEF Init, TypeOK, Times
  <1>2. Ready
    BY DEF Init, Ready
  <1>3. Guarded
    <2> SUFFICES ASSUME NEW k \in Keys
                 PROVE /\ Open(k) => InFile(k) \/ InDoubt(k) \/ IsPending(k)
                       /\ "preserved" \notin marks
      BY DEF Guarded
    <2>1. "preserved" \notin marks
      BY DEF Init
    <2>2. history[k] = Known(k)
      BY DEF Init
    <2>3. /\ rows[k].state \in {"absent", "pending", "completed"}
          /\ rows[k].state = "completed" => rows[k].old
          /\ rows[k].state = "pending" => rows[k].old
      <3>1. CASE rows[k] = Absent
        BY <3>1 DEF Absent
      <3>2. CASE rows[k] \in OldRows
        BY <3>2, OldRowTyped DEF Rows
      <3>3. QED
        BY <3>1, <3>2 DEF Init
    <2>4. ASSUME Open(k) PROVE InFile(k) \/ InDoubt(k) \/ IsPending(k)
      <3>1. CASE rows[k].state = "absent"
        BY <2>1, <2>2, <2>4, <3>1 DEF Open, Known, InFile
      <3>2. CASE rows[k].state = "completed"
        BY <2>1, <2>2, <2>3, <2>4, <3>2 DEF Open, Known, InDoubt
      <3>3. CASE rows[k].state = "pending"
        BY <2>3, <3>3 DEF IsPending
      <3>4. QED
        BY <2>3, <3>1, <3>2, <3>3
    <2>5. QED
      BY <2>1, <2>4
  <1>4. UncertainIsNotReplayed
    BY DEF Init, UncertainIsNotReplayed
  <1>5. QED
    BY <1>1, <1>2, <1>3, <1>4 DEF IInv

-----------------------------------------------------------------------------
\* The steps that leave the rows, the markers and the replays alone keep
\* everything but what Ready says of the process that moves.
LEMMA QuietStep ==
    ASSUME IInv, TypeOK', Ready',
           UNCHANGED <<rows, marks, legacy, history, replayed>>
    PROVE  IInv'
  BY DEF IInv, Guarded, Open, InFile, InDoubt, IsPending, UncertainIsNotReplayed

\* The rows after an import: it happens before the other migration.
LEMMA ImportHolds ==
    ASSUME IInv, NEW p \in Procs, Imports(p)
    PROVE  IInv'
  <1>1. TypeOK /\ Ready /\ Guarded /\ UncertainIsNotReplayed
    BY DEF IInv
  <1>2. "preserved" \notin marks
    BY <1>1 DEF Imports, Collides, Ready
  <1>3. \A k \in Keys : legacy[k] # None => Imported(legacy[k]) \in Rows
    BY <1>1 DEF TypeOK, LegacyRecords, Imported, Rows, Times
  <1>4. TypeOK'
    <2>1. \A k \in Keys : WithLegacy[k] \in Rows /\ (WithLegacy[k].state = "completed" => WithLegacy[k].answer # None)
      BY <1>1, <1>3 DEF TypeOK, WithLegacy, Imported, LegacyRecords, Answers
    <2>2. WithLegacy \in [Keys -> Rows]
      BY <2>1 DEF WithLegacy
    <2>3. QED
      BY <1>1, <2>1, <2>2 DEF TypeOK, Imports, Goto
  <1>5. Ready'
    BY <1>1, <1>2 DEF Ready, Imports, Goto, TypeOK
  <1>6. Guarded'
    <2> SUFFICES ASSUME NEW k \in Keys, Open(k)'
                 PROVE  InDoubt(k)' \/ IsPending(k)'
      BY <1>2 DEF Guarded, Imports
    <2>1. Open(k)
      BY DEF Open, Imports
    <2>2. rows'[k] = IF rows[k].state = "absent" /\ legacy[k] # None
                     THEN Imported(legacy[k]) ELSE rows[k]
      BY DEF Imports, WithLegacy
    <2>3. CASE InFile(k)
      BY <1>2, <2>2, <2>3 DEF InFile, InDoubt, Imported, Imports
    <2>4. CASE InDoubt(k) \/ IsPending(k)
      BY <1>2, <2>2, <2>4 DEF InDoubt, IsPending, Imports
    <2>5. QED
      BY <1>1, <2>1, <2>3, <2>4 DEF Guarded
  <1>7. QED
    BY <1>1, <1>4, <1>5, <1>6 DEF IInv, UncertainIsNotReplayed, Imports

\* The rows after the migration: no uncertain result is completed any more.
LEMMA PreserveHolds ==
    ASSUME IInv, NEW p \in Procs, Preserves(p)
    PROVE  IInv'
  <1>1. TypeOK /\ Ready /\ Guarded /\ UncertainIsNotReplayed
    BY DEF IInv
  <1>2. "imported" \in marks
    BY <1>1 DEF Preserves, Ready
  <1>3. \A k \in Keys :
            /\ rows'[k] \in {rows[k], Preserved(rows[k])}
            /\ "preserved" \notin marks => rows'[k] = Preserved(rows[k])
    BY DEF Preserves, Rechecked, Marked
  <1>4. \A k \in Keys :
            /\ Preserved(rows[k]) \in Rows
            /\ Preserved(rows[k]).old = rows[k].old
            /\ Preserved(rows[k]).state = "completed" => rows[k].state = "completed"
            /\ Preserved(rows[k]).answer = rows[k].answer
            /\ ~ (Preserved(rows[k]).state = "completed" /\ rows[k].answer = "coded")
            /\ rows[k].state = "pending" => Preserved(rows[k]) = rows[k]
            /\ rows[k].state = "completed" /\ rows[k].answer = "coded"
                    => Preserved(rows[k]).state = "pending"
    <2> SUFFICES ASSUME NEW k \in Keys
                 PROVE  /\ Preserved(rows[k]) \in Rows
                        /\ Preserved(rows[k]).old = rows[k].old
                        /\ Preserved(rows[k]).state = "completed" => rows[k].state = "completed"
                        /\ Preserved(rows[k]).answer = rows[k].answer
                        /\ ~ (Preserved(rows[k]).state = "completed" /\ rows[k].answer = "coded")
                        /\ rows[k].state = "pending" => Preserved(rows[k]) = rows[k]
                        /\ rows[k].state = "completed" /\ rows[k].answer = "coded"
                                => Preserved(rows[k]).state = "pending"
      OBVIOUS
    <2>1. rows[k] \in Rows
      BY <1>1 DEF TypeOK
    <2>2. CASE rows[k].state = "completed" /\ rows[k].answer = "coded"
      BY <2>1, <2>2 DEF Preserved, Rows
    <2>3. CASE ~ (rows[k].state = "completed" /\ rows[k].answer = "coded")
      BY <2>1, <2>3 DEF Preserved
    <2>4. QED
      BY <2>2, <2>3
  <1>5. TypeOK'
    <2>1. rows' \in [Keys -> Rows]
      BY <1>1, <1>4 DEF Preserves, TypeOK
    <2>2. \A k \in Keys : rows'[k].state = "completed" => rows'[k].answer # None
      BY <1>1, <1>3, <1>4 DEF TypeOK
    <2>3. QED
      BY <1>1, <2>1, <2>2 DEF TypeOK, Preserves, Goto
  <1>6. Ready'
    BY <1>1, <1>2 DEF Ready, Preserves, Goto, TypeOK
  <1>7. Guarded'
    <2> SUFFICES ASSUME NEW k \in Keys
                 PROVE  /\ Open(k)' => IsPending(k)'
                        /\ ~ (rows'[k].state = "completed" /\ rows'[k].old /\ rows'[k].answer = "coded")
      BY DEF Guarded
    <2>1. Open(k) => InDoubt(k) \/ IsPending(k)
      BY <1>1, <1>2 DEF Guarded, InFile
    <2>2. Open(k)' <=> Open(k)
      BY DEF Open, Preserves
    <2>3. CASE "preserved" \in marks
      BY <1>1, <2>1, <2>2, <2>3 DEF Preserves, Rechecked, Marked, Guarded, InDoubt, IsPending
    <2>4. CASE "preserved" \notin marks
      BY <1>3, <1>4, <2>1, <2>2, <2>4 DEF InDoubt, IsPending
    <2>5. QED
      BY <2>3, <2>4
  <1>8. QED
    BY <1>1, <1>5, <1>6, <1>7 DEF IInv, UncertainIsNotReplayed, Preserves

\* A claim purges, and inserts the row of a new run: it never meets a key
\* with an open history that has no old pending row.
LEMMA ClaimHolds ==
    ASSUME IInv, NEW p \in Procs, NEW k \in Keys, Claims(p, k)
    PROVE  IInv'
  <1>1. TypeOK /\ Ready /\ Guarded /\ UncertainIsNotReplayed
    BY DEF IInv
  <1>2. "imported" \in marks /\ "preserved" \in marks
    BY <1>1 DEF Claims, Ready
  <1>3. Purged \in [Keys -> Rows] /\ \A j \in Keys : Purged[j] = Absent \/ Purged[j] = rows[j]
    BY <1>1 DEF TypeOK, Purged, Rows, Absent, Times
  <1> DEFINE New == [state |-> "pending", answer |-> None, old |-> FALSE, created |-> now]
  <1>4. New \in Rows
    BY <1>1 DEF TypeOK, Rows
  <1>5. \A j \in Keys :
            \/ rows'[j] = Purged[j]
            \/ rows'[j] = New /\ Purged[j].state = "absent"
    BY <1>3 DEF Claims
  <1>6. TypeOK'
    <2>1. rows' \in [Keys -> Rows]
      BY <1>3, <1>4 DEF Claims
    <2>2. \A j \in Keys : rows'[j].state = "completed" => rows'[j].answer # None
      BY <1>1, <1>3, <1>5 DEF TypeOK, Absent
    <2>3. replayed' \subseteq [key : Keys, answer : Answers, old : BOOLEAN]
      <3>1. Purged[k].state = "completed" => Purged[k] = rows[k] /\ rows[k].answer \in Answers
        BY <1>1, <1>3 DEF TypeOK, Rows, Absent
      <3>2. Purged[k].old \in BOOLEAN
        BY <1>3 DEF Rows
      <3>3. QED
        BY <1>1, <3>1, <3>2 DEF Claims, TypeOK
    <2>4. QED
      BY <1>1, <2>1, <2>2, <2>3 DEF TypeOK, Claims, Goto
  <1>7. Ready'
    BY <1>1 DEF Ready, Claims, Goto, TypeOK
  <1>8. Guarded'
    <2> SUFFICES ASSUME NEW j \in Keys
                 PROVE  /\ Open(j)' => IsPending(j)'
                        /\ ~ (rows'[j].state = "completed" /\ rows'[j].old /\ rows'[j].answer = "coded")
      BY DEF Guarded
    <2>1. Open(j) => IsPending(j)
      BY <1>1, <1>2 DEF Guarded, InFile, InDoubt
    <2>2. IsPending(j) => Purged[j] = rows[j]
      BY DEF IsPending, Purged, Expired
    <2>3. Open(j)' <=> Open(j)
      BY DEF Open, Claims
    <2>4. QED
      BY <1>1, <1>2, <1>3, <1>5, <2>1, <2>2, <2>3 DEF IsPending, Guarded, Absent
  <1>9. UncertainIsNotReplayed'
    <2>1. ~ (Purged[k].state = "completed" /\ Purged[k].old /\ Purged[k].answer = "coded")
      BY <1>1, <1>2, <1>3 DEF Guarded, Absent
    <2>2. \A r \in replayed' : r \in replayed \/ (Purged[k].state = "completed" /\ r.answer = Purged[k].answer /\ r.old = Purged[k].old)
      BY DEF Claims
    <2>3. QED
      BY <1>1, <2>1, <2>2 DEF UncertainIsNotReplayed
  <1>10. QED
    BY <1>6, <1>7, <1>8, <1>9 DEF IInv

\* The end of a run touches only a row of this version.
LEMMA RunEndHolds ==
    ASSUME IInv, NEW k \in Keys, Records(k) \/ Releases(k)
    PROVE  IInv'
  <1>1. TypeOK /\ Ready /\ Guarded /\ UncertainIsNotReplayed
    BY DEF IInv
  <1>2. RunsNew(rows[k])
    BY DEF Records, Releases
  <1>3. PICK row \in Rows :
            /\ rows' = [rows EXCEPT ![k] = row]
            /\ ~ row.old
            /\ row.state = "completed" => row.answer # None
    <2>1. CASE Records(k)
      <3>1. PICK a \in Answers :
                rows' = [rows EXCEPT ![k] = WithAnswer(@, a)]
        BY <2>1 DEF Records
      <3>2. rows' = [rows EXCEPT ![k] = [rows[k] EXCEPT !.state = "completed", !.answer = a]]
        BY <1>1, <3>1 DEF TypeOK, WithAnswer
      <3>3. rows[k] \in Rows
        BY <1>1 DEF TypeOK
      <3> DEFINE done == [rows[k] EXCEPT !.state = "completed", !.answer = a]
      <3>5. done \in Rows /\ done.old = rows[k].old /\ done.answer = a
        BY <3>3 DEF Rows
      <3>6. a # None
        BY DEF Answers
      <3>7. QED
        BY <1>2, <3>2, <3>5, <3>6 DEF RunsNew
    <2>2. CASE Releases(k)
      <3>1. rows' = [rows EXCEPT ![k] = Absent]
        BY <2>2 DEF Releases
      <3>2. ~ Absent.old /\ Absent.state # "completed"
        BY DEF Absent
      <3>3. QED
        BY <3>1, <3>2, AbsentTyped
    <2>3. QED
      BY <2>1, <2>2
  <1>4. UNCHANGED <<now, marks, legacy, pc, history, replayed>>
    BY DEF Records, Releases
  <1>5. TypeOK'
    BY <1>1, <1>3, <1>4 DEF TypeOK
  <1>6. Ready'
    BY <1>1, <1>4 DEF Ready
  <1>7. Guarded'
    <2> SUFFICES ASSUME NEW j \in Keys
                 PROVE  /\ Open(j)' => (InFile(j) \/ InDoubt(j) \/ IsPending(j))'
                        /\ rows'[j].state = "completed" /\ rows'[j].old /\ rows'[j].answer = "coded"
                                => "preserved" \notin marks
      BY <1>4 DEF Guarded
    <2>1. CASE j = k
      BY <1>1, <1>2, <1>3, <1>4, <2>1 DEF Guarded, Open, InFile, InDoubt, IsPending, RunsNew, TypeOK
    <2>2. CASE j # k
      <3>1. rows'[j] = rows[j]
        BY <1>1, <1>3, <2>2 DEF TypeOK
      <3>2. QED
        BY <1>1, <1>4, <3>1 DEF Guarded, Open, InFile, InDoubt, IsPending
    <2>3. QED
      BY <2>1, <2>2
  <1>8. QED
    BY <1>1, <1>4, <1>5, <1>6, <1>7 DEF IInv, UncertainIsNotReplayed

LEMMA StepHolds == IInv /\ [Next]_vars => IInv'
  <1> SUFFICES ASSUME IInv, [Next]_vars PROVE IInv'
    OBVIOUS
  <1>1. TypeOK /\ Ready
    BY DEF IInv
  <1>2. ASSUME NEW p \in Procs, Prepares(p) \/ Interrupted(p)
        PROVE  IInv'
    <2>1. CASE Imports(p)
      BY <2>1, ImportHolds
    <2>2. CASE Preserves(p)
      BY <2>2, PreserveHolds
    <2>3. CASE Starts(p) \/ ImportCollides(p) \/ Checks(p) \/ Interrupted(p)
      <3>1. UNCHANGED <<rows, marks, legacy, history, replayed>>
        BY <2>3 DEF Starts, ImportCollides, Checks, Interrupted
      <3>2. TypeOK'
        BY <1>1, <2>3 DEF TypeOK, Starts, ImportCollides, Checks, Interrupted, Goto
      <3>3. Ready'
        BY <1>1, <2>3 DEF TypeOK, Ready, Starts, ImportCollides, Collides, Checks, Marked, Interrupted, Goto
      <3>4. QED
        BY <3>1, <3>2, <3>3, QuietStep
    <2>4. QED
      BY <1>2, <2>1, <2>2, <2>3 DEF Prepares
  <1>3. CASE \E p \in Procs, k \in Keys : Claims(p, k)
    BY <1>3, ClaimHolds
  <1>4. CASE \E k \in Keys : Records(k) \/ Releases(k)
    BY <1>4, RunEndHolds
  <1>5. CASE Tick \/ UNCHANGED vars
    <2>1. UNCHANGED <<rows, marks, legacy, history, replayed, pc>> /\ now' \in Times
      BY <1>1, <1>5 DEF Tick, vars, TypeOK, Times
    <2>2. TypeOK' /\ Ready'
      BY <1>1, <2>1 DEF TypeOK, Ready
    <2>3. QED
      BY <2>1, <2>2, QuietStep
  <1>6. QED
    BY <1>2, <1>3, <1>4, <1>5 DEF Next

-----------------------------------------------------------------------------
\* The records, the markers and the processes have their types.
THEOREM TypeCorrect == Spec => []TypeOK
  <1>1. IInv => TypeOK
    BY DEF IInv
  <1>2. QED
    BY <1>1, InitHolds, StepHolds, PTL DEF Spec

\* No process ever starts a new run for a key that an earlier version left
\* open or answered with an uncertain result.
THEOREM OpenHistory == Spec => []OpenHistoryIsNotRerun
  <1>1. IInv => OpenHistoryIsNotRerun
    BY DEF IInv, Guarded, OpenHistoryIsNotRerun, Open, InFile, InDoubt, IsPending
  <1>2. QED
    BY <1>1, InitHolds, StepHolds, PTL DEF Spec

\* The uncertain result of an earlier version is never replayed.
THEOREM UncertainHistory == Spec => []UncertainIsNotReplayed
  <1>1. IInv => UncertainIsNotReplayed
    BY DEF IInv
  <1>2. QED
    BY <1>1, InitHolds, StepHolds, PTL DEF Spec

-----------------------------------------------------------------------------
(* The action properties. NewAfter and Kept are inductive relative to IInv *)
(* and say what the rows remember of the past: a row of this version is    *)
(* there only after both migrations, and an answer of an earlier version   *)
(* is in the file or in its row until it has been kept for the retention.  *)

NewAfter ==
    \A k \in Keys :
        /\ rows[k].state # "absent" /\ ~ rows[k].old => "preserved" \in marks
        /\ rows[k].state = "absent" => ~ rows[k].old

KeepsAnswer(k) ==
    \/ rows[k].state = "absent" /\ "imported" \notin marks /\ legacy[k] # None
    \/ rows[k].state \in {"completed", "pending"} /\ rows[k].old
    \/ now > Retention

Kept == \A k \in Keys : history[k].state = "completed" => KeepsAnswer(k)

AInv == IInv /\ NewAfter /\ Kept

\* The ways a row changes.
IsImported(k) ==
    /\ rows[k].state = "absent" /\ legacy[k] # None
    /\ "imported" \notin marks /\ "preserved" \notin marks'
    /\ rows'[k].state = "completed" /\ rows'[k].old

IsPreserved(k) ==
    /\ "preserved" \notin marks
    /\ rows[k].state = "completed"
    /\ rows'[k].state = "pending" /\ rows'[k].old = rows[k].old

IsPurged(k) == Expired(rows[k]) /\ rows'[k] = Absent

IsClaimed(k) ==
    /\ rows[k].state = "absent" \/ Expired(rows[k])
    /\ "imported" \in marks /\ "preserved" \in marks
    /\ ~ rows'[k].old

IsEnded(k) == RunsNew(rows[k]) /\ ~ RunsNew(rows'[k]) /\ ~ rows'[k].old

RowMoves(k) ==
    \/ rows'[k] = rows[k]
    \/ IsImported(k) \/ IsPreserved(k) \/ IsPurged(k) \/ IsClaimed(k) \/ IsEnded(k)

\* A step takes no marker away, and only an import sets its marker: it leaves
\* no record of the file out.
Advances ==
    /\ \A k \in Keys : RowMoves(k)
    /\ marks \subseteq marks'
    /\ "imported" \in marks' \ marks
            => \A k \in Keys : rows[k].state = "absent" /\ legacy[k] # None
                    => rows'[k].state = "completed" /\ rows'[k].old
    /\ now \in Nat /\ now' \in Nat /\ now <= now'
    /\ UNCHANGED <<legacy, history>>

LEMMA EveryRowMoves == IInv /\ [Next]_vars => Advances
  <1> SUFFICES ASSUME IInv, [Next]_vars PROVE Advances
    OBVIOUS
  <1>1. TypeOK /\ Ready /\ now \in Nat
    BY DEF IInv, TypeOK, Times
  <1>2. ASSUME NEW p \in Procs, Imports(p) PROVE Advances
    <2>1. "imported" \notin marks /\ "preserved" \notin marks'
      BY <1>1, <1>2 DEF Imports, Collides, Ready
    <2>2. ASSUME NEW k \in Keys, rows[k].state = "absent", legacy[k] # None
          PROVE  rows'[k].state = "completed" /\ rows'[k].old
      BY <1>2, <2>2 DEF Imports, WithLegacy, Imported
    <2>3. ASSUME NEW k \in Keys, ~ (rows[k].state = "absent" /\ legacy[k] # None)
          PROVE  rows'[k] = rows[k]
      BY <1>2, <2>3 DEF Imports, WithLegacy
    <2>4. \A k \in Keys : RowMoves(k)
      BY <2>1, <2>2, <2>3 DEF RowMoves, IsImported
    <2>5. QED
      BY <1>1, <1>2, <2>2, <2>4 DEF Imports, Advances
  <1>3. ASSUME NEW p \in Procs, Preserves(p) PROVE Advances
    <2>1. "imported" \notin marks' \ marks
      BY <1>3 DEF Preserves
    <2>2. ASSUME NEW k \in Keys PROVE RowMoves(k)
      <3>1. CASE rows'[k] = rows[k]
        BY <3>1 DEF RowMoves
      <3>2. CASE rows'[k] # rows[k]
        <4>1. "preserved" \notin marks /\ rows'[k] = Preserved(rows[k])
          BY <1>3, <3>2 DEF Preserves, Rechecked, Marked
        <4>2. rows[k].state = "completed" /\ rows'[k] = [rows[k] EXCEPT !.state = "pending"]
          BY <4>1, <3>2 DEF Preserved
        <4>3. rows[k] \in Rows
          BY <1>1 DEF TypeOK
        <4>4. rows'[k].state = "pending" /\ rows'[k].old = rows[k].old
          BY <4>2, <4>3 DEF Rows
        <4>5. QED
          BY <4>1, <4>2, <4>4 DEF RowMoves, IsPreserved
      <3>3. QED
        BY <3>1, <3>2
    <2>3. QED
      BY <1>1, <1>3, <2>1, <2>2 DEF Preserves, Advances
  <1>4. ASSUME NEW p \in Procs, NEW c \in Keys, Claims(p, c) PROVE Advances
    <2>1. "imported" \in marks /\ "preserved" \in marks
      BY <1>1, <1>4 DEF Claims, Ready
    <2>2. ASSUME NEW k \in Keys PROVE RowMoves(k)
      <3>1. Purged \in [Keys -> {Absent} \cup Rows] /\ Purged[k] = IF Expired(rows[k]) THEN Absent ELSE rows[k]
        BY <1>1 DEF Purged, TypeOK
      <3>2. \/ rows'[k] = Purged[k]
            \/ /\ Purged[k].state = "absent"
               /\ rows'[k] = [state |-> "pending", answer |-> None, old |-> FALSE, created |-> now]
        BY <1>4, <3>1 DEF Claims
      <3>3. CASE rows'[k] = Purged[k]
        BY <3>1, <3>3 DEF RowMoves, IsPurged
      <3>4. CASE /\ Purged[k].state = "absent"
                 /\ rows'[k] = [state |-> "pending", answer |-> None, old |-> FALSE, created |-> now]
        BY <2>1, <3>1, <3>4 DEF RowMoves, IsClaimed
      <3>5. QED
        BY <3>2, <3>3, <3>4
    <2>3. QED
      BY <1>1, <1>4, <2>2 DEF Claims, Advances
  <1>5. ASSUME NEW c \in Keys, Records(c) \/ Releases(c) PROVE Advances
    <2>1. RunsNew(rows[c]) /\ UNCHANGED <<now, marks, legacy, history>>
      BY <1>5 DEF Records, Releases
    <2>2. ASSUME NEW k \in Keys, k # c PROVE rows'[k] = rows[k]
      BY <1>1, <1>5, <2>2 DEF Records, Releases, TypeOK
    <2>3. ~ RunsNew(rows'[c]) /\ ~ rows'[c].old
      <3>1. CASE Releases(c)
        BY <1>1, <3>1 DEF Releases, TypeOK, RunsNew, Absent
      <3>2. CASE Records(c)
        <4>1. PICK a \in Answers : rows' = [rows EXCEPT ![c] = WithAnswer(@, a)]
          BY <3>2 DEF Records
        <4>2. rows'[c] = [rows[c] EXCEPT !.state = "completed", !.answer = a]
          BY <1>1, <4>1 DEF TypeOK, WithAnswer
        <4>3. rows[c] \in Rows
          BY <1>1 DEF TypeOK
        <4>4. QED
          BY <2>1, <4>2, <4>3 DEF Rows, RunsNew
      <3>3. QED
        BY <1>5, <3>1, <3>2
    <2>4. \A k \in Keys : RowMoves(k)
      BY <2>1, <2>2, <2>3 DEF RowMoves, IsEnded
    <2>5. QED
      BY <1>1, <2>1, <2>4 DEF Advances
  <1>6. ASSUME NEW p \in Procs, Starts(p) \/ ImportCollides(p) \/ Checks(p) \/ Interrupted(p)
        PROVE  Advances
    BY <1>1, <1>6 DEF Starts, ImportCollides, Checks, Interrupted, RowMoves, Advances
  <1>7. ASSUME Tick \/ UNCHANGED vars PROVE Advances
    BY <1>1, <1>7 DEF Tick, vars, RowMoves, Advances
  <1>8. QED
    BY <1>2, <1>3, <1>4, <1>5, <1>6, <1>7 DEF Next, Prepares

-----------------------------------------------------------------------------
LEMMA AnswersKeptAtFirst == Init => NewAfter /\ Kept
  <1> SUFFICES ASSUME Init, NEW k \in Keys
               PROVE  /\ rows[k].old <=> rows[k].state # "absent"
                      /\ history[k].state = "completed" => KeepsAnswer(k)
    BY DEF NewAfter, Kept
  <1>1. history[k] = Known(k)
    BY DEF Init
  <1>2. CASE marks = {} /\ rows = [j \in Keys |-> Absent]
    BY <1>1, <1>2 DEF Known, KeepsAnswer, Absent
  <1>3. CASE marks = {"imported"} /\ rows \in [Keys -> OldRows]
    <2>1. rows[k] \in OldRows
      BY <1>3
    <2>2. /\ rows[k].state \in {"absent", "pending", "completed"}
          /\ rows[k].old <=> rows[k].state # "absent"
      <3>1. CASE rows[k] = Absent
        BY <3>1 DEF Absent
      <3>2. CASE rows[k] # Absent
        BY <2>1, <3>2, OldRowTyped DEF Rows, OldRows
      <3>3. QED
        BY <3>1, <3>2
    <2>3. QED
      BY <1>1, <1>3, <2>2 DEF Known, KeepsAnswer
  <1>4. QED
    BY <1>2, <1>3 DEF Init

LEMMA AnswersStayKept == IInv /\ NewAfter /\ Kept /\ [Next]_vars => (NewAfter /\ Kept)'
  <1> SUFFICES ASSUME IInv, NewAfter, Kept, [Next]_vars, NEW k \in Keys
               PROVE  /\ rows'[k].state # "absent" /\ ~ rows'[k].old => "preserved" \in marks'
                      /\ rows'[k].state = "absent" => ~ rows'[k].old
                      /\ history'[k].state = "completed" => KeepsAnswer(k)'
    BY DEF NewAfter, Kept
  <1>1. /\ RowMoves(k)
        /\ marks \subseteq marks'
        /\ "imported" \in marks' \ marks /\ rows[k].state = "absent" /\ legacy[k] # None
               => rows'[k].old /\ rows'[k].state = "completed"
        /\ now' \in Nat /\ now \in Nat /\ now <= now'
        /\ UNCHANGED <<legacy, history>>
    BY EveryRowMoves DEF Advances
  <1>2. /\ rows'[k].state # "absent" /\ ~ rows'[k].old => "preserved" \in marks'
        /\ rows'[k].state = "absent" => ~ rows'[k].old
    BY <1>1 DEF RowMoves, NewAfter, IsImported, IsPreserved, IsPurged, IsClaimed, IsEnded, Absent, RunsNew
  <1>3. ASSUME history'[k].state = "completed" PROVE KeepsAnswer(k)'
    <2>1. KeepsAnswer(k)
      BY <1>1, <1>3 DEF Kept
    <2>2. CASE now > Retention
      BY <1>1, <2>2 DEF KeepsAnswer
    <2>3. CASE Expired(rows[k])
      <3>1. rows[k].created \in Nat
        BY DEF IInv, TypeOK, Rows, Times
      <3>2. QED
        BY <1>1, <2>3, <3>1 DEF Expired, KeepsAnswer
    <2>4. CASE rows[k].state = "absent" /\ "imported" \notin marks /\ legacy[k] # None
      BY <1>1, <2>4 DEF RowMoves, KeepsAnswer, IsImported, IsPreserved, IsPurged, IsClaimed, IsEnded, RunsNew, Expired
    <2>5. CASE rows[k].state \in {"completed", "pending"} /\ rows[k].old /\ ~ Expired(rows[k])
      BY <1>1, <2>5 DEF RowMoves, KeepsAnswer, IsImported, IsPreserved, IsPurged, IsClaimed, IsEnded, RunsNew
    <2>6. QED
      BY <2>1, <2>2, <2>3, <2>4, <2>5 DEF KeepsAnswer
  <1>4. QED
    BY <1>2, <1>3

LEMMA AInvHolds == Spec => []AInv
  <1>1. Init => AInv
    BY InitHolds, AnswersKeptAtFirst DEF AInv
  <1>2. AInv /\ [Next]_vars => AInv'
    BY StepHolds, AnswersStayKept DEF AInv
  <1>3. QED
    BY <1>1, <1>2, PTL DEF Spec

\* A key that an earlier version answered is claimed for a new run only when
\* the retention has passed: the import, the migration and the purges of the
\* other processes never leave it without its row before that.
THEOREM AnsweredHistory == Spec => AnsweredHistoryIsKept
  <1> DEFINE Step ==
        \A k \in Keys :
            history[k].state = "completed" /\ ~ RunsNew(rows[k]) /\ RunsNew(rows'[k])
                => now > Retention
  <1>1. AInv /\ [Next]_vars => [Step]_vars
    <2> SUFFICES ASSUME AInv, [Next]_vars, NEW k \in Keys,
                        history[k].state = "completed", ~ RunsNew(rows[k]), RunsNew(rows'[k])
                 PROVE  now > Retention
      OBVIOUS
    <2>1. RowMoves(k) /\ now \in Nat /\ KeepsAnswer(k)
      BY EveryRowMoves DEF Advances, AInv, Kept
    <2>2. CASE Expired(rows[k])
      <3>1. rows[k].created \in Nat
        BY DEF AInv, IInv, TypeOK, Rows, Times
      <3>2. QED
        BY <2>1, <2>2, <3>1 DEF Expired
    <2>3. CASE ~ Expired(rows[k])
      BY <2>1, <2>3 DEF AInv, NewAfter, RowMoves, KeepsAnswer, IsImported, IsPreserved, IsPurged, IsClaimed, IsEnded, RunsNew
    <2>4. QED
      BY <2>2, <2>3
  <1>2. QED
    BY <1>1, AInvHolds, PTL DEF Spec, AnsweredHistoryIsKept

\* A record of an earlier version enters the database once: a row that was
\* purged or released after the import never becomes an old row again.
THEOREM ImportsHappenOnce == Spec => ImportedOnce
  <1> DEFINE Step ==
        \A k \in Keys : rows[k].state = "absent" /\ "imported" \in marks => ~ rows'[k].old
  <1>1. AInv /\ [Next]_vars => [Step]_vars
    <2> SUFFICES ASSUME AInv, [Next]_vars, NEW k \in Keys,
                        rows[k].state = "absent", "imported" \in marks
                 PROVE  ~ rows'[k].old
      OBVIOUS
    <2>1. RowMoves(k)
      BY EveryRowMoves DEF Advances, AInv
    <2>2. QED
      BY <2>1 DEF AInv, NewAfter, RowMoves, IsImported, IsPreserved, IsPurged, IsClaimed, IsEnded, RunsNew, Absent
  <1>2. QED
    BY <1>1, AInvHolds, PTL DEF Spec, ImportedOnce

\* An answer that this version recorded is never changed, nor reopened by the
\* migration of another process: it leaves its row only when it has expired.
THEOREM OwnAnswers == Spec => OwnAnswersStay
  <1> DEFINE Step ==
        \A k \in Keys :
            rows[k].state = "completed" /\ ~ rows[k].old
                => rows'[k] = rows[k] \/ Expired(rows[k])
  <1>1. AInv /\ [Next]_vars => [Step]_vars
    <2> SUFFICES ASSUME AInv, [Next]_vars, NEW k \in Keys,
                        rows[k].state = "completed", ~ rows[k].old
                 PROVE  rows'[k] = rows[k] \/ Expired(rows[k])
      OBVIOUS
    <2>1. RowMoves(k)
      BY EveryRowMoves DEF Advances, AInv
    <2>2. QED
      BY <2>1 DEF AInv, NewAfter, RowMoves, IsImported, IsPreserved, IsPurged, IsClaimed, IsEnded, RunsNew
  <1>2. QED
    BY <1>1, AInvHolds, PTL DEF Spec, OwnAnswersStay
=============================================================================
