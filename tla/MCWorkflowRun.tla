--------------------------- MODULE MCWorkflowRun ---------------------------
(* Instances of WorkflowRun for TLC. *)
EXTENDS WorkflowRun, TLC

CONSTANTS a, b

\* One task.
Alone == a :> {}

\* b depends on a.
Chain == (a :> {}) @@ (b :> {a})

\* Two tasks that may run side by side.
Siblings == (a :> {}) @@ (b :> {})
=============================================================================
