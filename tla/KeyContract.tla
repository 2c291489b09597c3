----------------------------- MODULE KeyContract -----------------------------
(***************************************************************************)
(* What the idempotency layer promises about each key, whoever asks and    *)
(* however many server processes share the database.                       *)
(*                                                                         *)
(*   free      nothing is known: the next request may run the operation    *)
(*   running   one operation runs, on behalf of the request bound to it    *)
(*   answered  the operation has a definite answer, kept for Retention     *)
(*   stuck     whether the operation took effect is not known: the key is  *)
(*             never run again, an operator must reconcile it              *)
(***************************************************************************)
EXTENDS Naturals

CONSTANTS
    Keys,       \* idempotency keys
    Bindings,   \* what a request asks for: a key is bound to one of them
    Answers,    \* definite answers of the operation
    Retention,  \* how long an answer is promised to be kept
    None        \* no binding, no answer

VARIABLES
    now,        \* the wall clock
    phase,      \* the phase of each key
    bound,      \* the binding of each key that is not free
    since,      \* when the key was bound
    answer      \* the answer of each answered key

vars == <<now, phase, bound, since, answer>>

-----------------------------------------------------------------------------

Expired(k) == phase[k] = "answered" /\ now - since[k] > Retention

(* The state of the keys once those of F have been forgotten.              *)
PhaseWithout(F)  == [k \in Keys |-> IF k \in F THEN "free" ELSE phase[k]]
BoundWithout(F)  == [k \in Keys |-> IF k \in F THEN None ELSE bound[k]]
SinceWithout(F)  == [k \in Keys |-> IF k \in F THEN 0 ELSE since[k]]
AnswerWithout(F) == [k \in Keys |-> IF k \in F THEN None ELSE answer[k]]

-----------------------------------------------------------------------------

(* A deployment may start on a database that already holds keys.           *)
Init ==
    /\ now \in Nat
    /\ phase \in [Keys -> {"free", "answered", "stuck"}]
    /\ bound \in [Keys -> Bindings \cup {None}]
    /\ since \in [Keys -> Nat]
    /\ answer \in [Keys -> Answers \cup {None}]
    /\ \A k \in Keys : phase[k] = "answered" => answer[k] \in Answers

(* Expired answers, and only those, are forgotten.                         *)
Forget ==
    \E F \in SUBSET {k \in Keys : Expired(k)} :
        /\ phase' = PhaseWithout(F)
        /\ bound' = BoundWithout(F)
        /\ since' = SinceWithout(F)
        /\ answer' = AnswerWithout(F)
        /\ UNCHANGED now

(* A free key, or one just forgotten, starts to run.                       *)
Begin(k) ==
    \E F \in SUBSET {j \in Keys : Expired(j)}, b \in Bindings :
        /\ PhaseWithout(F)[k] = "free"
        /\ phase' = [PhaseWithout(F) EXCEPT ![k] = "running"]
        /\ bound' = [BoundWithout(F) EXCEPT ![k] = b]
        /\ since' = [SinceWithout(F) EXCEPT ![k] = now]
        /\ answer' = AnswerWithout(F)
        /\ UNCHANGED now

Answer(k) ==
    /\ phase[k] = "running"
    /\ \E a \in Answers : answer' = [answer EXCEPT ![k] = a]
    /\ phase' = [phase EXCEPT ![k] = "answered"]
    /\ UNCHANGED <<now, bound, since>>

(* The operation is known to have had no effect.                           *)
Release(k) ==
    /\ phase[k] = "running"
    /\ phase' = [phase EXCEPT ![k] = "free"]
    /\ bound' = [bound EXCEPT ![k] = None]
    /\ since' = [since EXCEPT ![k] = 0]
    /\ UNCHANGED <<now, answer>>

(* The outcome of some running operations is lost, or was uncertain.       *)
Strand ==
    \E S \in SUBSET {k \in Keys : phase[k] = "running"} :
        /\ phase' = [k \in Keys |-> IF k \in S THEN "stuck" ELSE phase[k]]
        /\ UNCHANGED <<now, bound, since, answer>>

Tick ==
    /\ now' \in Nat
    /\ now' > now
    /\ UNCHANGED <<phase, bound, since, answer>>

Next ==
    \/ Forget
    \/ \E k \in Keys : Begin(k) \/ Answer(k) \/ Release(k)
    \/ Strand
    \/ Tick

Spec == Init /\ [][Next]_vars
=============================================================================
