-------------------------- MODULE MCIngestionRunner --------------------------
(***************************************************************************)
(* Instances of IngestionRunner for TLC.                                   *)
(***************************************************************************)
EXTENDS IngestionRunner, TLC

\* Calls are interchangeable.  Safety runs only.
MCSymmetry == Permutations(Calls)
=============================================================================
