----------------------------- MODULE MCCatalog -----------------------------
(***************************************************************************)
(* Catalog on a small instance.  The jobs are interchangeable.             *)
(***************************************************************************)
EXTENDS Catalog, TLC

JobSymmetry == Permutations(Jobs)
=============================================================================
