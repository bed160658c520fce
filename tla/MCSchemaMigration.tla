-------------------------- MODULE MCSchemaMigration --------------------------
(***************************************************************************)
(* Instances of SchemaMigration for TLC.                                   *)
(***************************************************************************)
EXTENDS SchemaMigration, TLC

\* Conditions are interchangeable, and so are bars.
MCSymmetry == Permutations(Conditions) \cup Permutations(Bars)
=============================================================================
