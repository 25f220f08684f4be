----------------------------- MODULE MCAgentTask -----------------------------
(***************************************************************************)
(* Instances of AgentTask for TLC.                                         *)
(***************************************************************************)
EXTENDS AgentTask
=============================================================================
