---------------------------- MODULE MCIdempotency ----------------------------
(* A small instance of Idempotency for TLC. *)
EXTENDS Idempotency, TLC

MCKinds == {"settled", "unconfirmed"}

Symmetry == Permutations(Calls) \cup Permutations(Procs)
            \cup Permutations(Keys) \cup Permutations(Payloads)
=============================================================================
