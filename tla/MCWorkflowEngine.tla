-------------------------- MODULE MCWorkflowEngine --------------------------
(* Every graph over the tasks is an initial state.                          *)
EXTENDS WorkflowEngine
=============================================================================
