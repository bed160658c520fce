--------------------------- MODULE MCAgentSession ---------------------------
(***************************************************************************)
(* Instances of AgentSession for TLC: one thesis, since sessions of two    *)
(* theses share nothing but identities.  No symmetry: the run checks       *)
(* liveness along with the rest.                                           *)
(***************************************************************************)
EXTENDS AgentSession
=============================================================================
