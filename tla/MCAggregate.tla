---------------------------- MODULE MCAggregate ----------------------------
(***************************************************************************)
(* Aggregate on small instances.  The runs are interchangeable, and so are *)
(* the partitions.                                                         *)
(***************************************************************************)
EXTENDS Aggregate, TLC

Symmetry == Permutations(Runs) \cup Permutations(Parts)
=============================================================================
