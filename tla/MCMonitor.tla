----------------------------- MODULE MCMonitor -----------------------------
(***************************************************************************)
(* Monitor on a small instance: two runs of the first job, and a second    *)
(* job that never runs, as transform, which has no code in the repository. *)
(***************************************************************************)
EXTENDS Monitor

AllOfFirstJob == [r \in Runs |-> 1]
=============================================================================
