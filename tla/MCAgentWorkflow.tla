-------------------------- MODULE MCAgentWorkflow --------------------------
(***************************************************************************)
(* Small instances of AgentWorkflow for TLC.  Conversations, files and     *)
(* contents are interchangeable: no definition names one of them.          *)
(***************************************************************************)
EXTENDS AgentWorkflow, TLC

Symmetry == Permutations(Thread) \cup Permutations(File) \cup Permutations(Content)
=============================================================================
