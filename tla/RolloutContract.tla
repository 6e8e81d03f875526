--------------------------- MODULE RolloutContract ---------------------------
(***************************************************************************)
(* What the engine relies on when it awaits one rollout of a workflow      *)
(* (Workflow.run_with_termination_handling): the await comes back, once,   *)
(* with one of the outcomes of the workflow, and nothing of the rollout    *)
(* changes afterwards.                                                     *)
(***************************************************************************)
CONSTANT Outcomes   \* see WorkflowEngine

VARIABLE outcome

Running == "running"

ContractInit == outcome = Running

ComeBack ==
  /\ outcome = Running
  /\ outcome' \in Outcomes

Safety == ContractInit /\ [][ComeBack]_outcome

Contract == Safety /\ WF_outcome(ComeBack)

=============================================================================
