---------------------------- MODULE MCMigrations ----------------------------
(* A small instance of Migrations for TLC. *)
EXTENDS Migrations, TLC

Symmetry == Permutations(Keys) \cup Permutations(Procs)
=============================================================================
