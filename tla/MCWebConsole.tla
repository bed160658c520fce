---------------------------- MODULE MCWebConsole ----------------------------
(***************************************************************************)
(* Instances of WebConsole for TLC.                                        *)
(***************************************************************************)
EXTENDS WebConsole, TLC

Symmetry == Permutations(Tabs)
=============================================================================
