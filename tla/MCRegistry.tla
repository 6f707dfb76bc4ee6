----------------------------- MODULE MCRegistry -----------------------------
(***************************************************************************)
(* The registry with three schemas of a table "orders": the second adds a  *)
(* column, the third changes its type.  The oldest version is v9, so that  *)
(* the next ones are not in the order of their names.                      *)
(***************************************************************************)
EXTENDS Registry, TLC

Id == [id |-> "bigint"]
Narrow == [id |-> "bigint", qty |-> "smallint"]
Wide == [id |-> "bigint", qty |-> "bigint"]

ThreeFrames == {Id, Narrow, Wide}
OneFrame == {Wide}

UserSymmetry == Permutations(Sessions) \cup Permutations(Jobs)
=============================================================================
