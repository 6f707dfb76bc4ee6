------------------------------ MODULE MCIngest ------------------------------
(***************************************************************************)
(* Ingest on small instances.  The runs are interchangeable: every action  *)
(* treats them alike, so safety is checked up to their permutations.       *)
(***************************************************************************)
EXTENDS Ingest, TLC

RunSymmetry == Permutations(Runs)
=============================================================================
