--------------------------- MODULE MCAgentManager ---------------------------
(* Instances of AgentManager for TLC.  Agents and tasks are interchangeable. *)
EXTENDS AgentManager, TLC

Interchangeable == Permutations(Agents) \cup Permutations(Tasks)
=============================================================================
