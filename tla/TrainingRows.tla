---------------------------- MODULE TrainingRows ----------------------------
(***************************************************************************)
(* transform_results_for_verl (rllm/engine/agent_workflow_engine.py): the  *)
(* episodes of a batch become the rows the trainer works on.               *)
(*                                                                         *)
(* A row is one trajectory, or one step of it when advantages are computed *)
(* stepwise.  Its tokens are abstracted to the steps that have any token   *)
(* left in the response mask (StepMask says which tokens those are).       *)
(*                                                                         *)
(* IsValidWithoutOverride and RepeatCountsOfKept are plausible bugs, as in *)
(* ReactAgent.                                                             *)
(***************************************************************************)
EXTENDS Integers, Sequences, SequencesExt

CONSTANTS
  MaskUnknown,   \* compact_filtering.enable and mask_unknown
  MaskError      \* compact_filtering.enable and mask_error

ASSUME FilterAssumption == MaskUnknown \in BOOLEAN /\ MaskError \in BOOLEAN

NoFatalStep == -1

(***************************************************************************)
(* What the transform reads of an episode (DeepResearchWorkflow!Episode).  *)
(* An episode without steps has no trajectory or an empty one; that of an  *)
(* error has none, and an unfinished one is fatal (UnfinishedIsFatal).     *)
(***************************************************************************)
IsEpisode(e) ==
  /\ e.steps \in Nat
  /\ e.fatal \in {NoFatalStep} \cup 0 .. e.steps
  /\ e.termination_reason \in {"ENV_DONE", "UNKNOWN", "ERROR"}
  /\ e.is_correct \in BOOLEAN
  /\ e.reward \in {0, 1}
  /\ e.termination_reason = "ERROR" => e.steps = 0
  /\ e.termination_reason = "UNKNOWN" => e.fatal # NoFatalStep

(***************************************************************************)
(* compact filtering, and its override: a fatal trajectory with something  *)
(* in front of the fatal step stays.                                       *)
(***************************************************************************)
IsValidWithoutOverride(e) ==
  ~ \/ MaskUnknown /\ e.termination_reason = "UNKNOWN"
    \/ MaskError /\ e.termination_reason = "ERROR"

IsValid(e) ==
  \/ ~ \/ MaskUnknown /\ e.termination_reason = "UNKNOWN"
       \/ MaskError /\ e.termination_reason = "ERROR"
  \/ e.fatal > 0

(* The steps whose tokens are not masked. *)
LearnableSteps(e) ==
  {k \in 0 .. e.steps - 1 : e.fatal = NoFatalStep \/ k < e.fatal}

(***************************************************************************)
(* One row.  The task of a row is the task id at the position of its       *)
(* episode; trajectory_ids is that task id again, as every episode has one *)
(* trajectory of the same name, so the rollouts of a task share it.        *)
(***************************************************************************)
Row(e, episode, task, step, n_steps, steps) ==
  [task |-> task, episode |-> episode, trajectory |-> task, step |-> step, step_num |-> n_steps,
   is_last_step |-> step = n_steps - 1,
   tokens |-> {<<episode, k>> : k \in steps \cap LearnableSteps(e)},
   is_fatal |-> e.fatal # NoFatalStep, is_valid |-> IsValid(e), is_pad_step |-> FALSE,
   is_correct |-> e.is_correct, reward |-> e.reward, advantage |-> "none"]

(***************************************************************************)
(* The rows of an episode: none when it has no steps.                      *)
(***************************************************************************)
EpisodeRows(e, episode, task, stepwise) ==
  IF e.steps = 0 THEN <<>>
  ELSE IF stepwise
       THEN [k \in 1 .. e.steps |-> Row(e, episode, task, k - 1, e.steps, {k - 1})]
       ELSE <<Row(e, episode, task, 0, 1, 0 .. e.steps - 1)>>

(***************************************************************************)
(* repeat_counts: a dropped episode counts 0, so that the counts keep the  *)
(* positions of the batch.                                                 *)
(***************************************************************************)
RepeatCountsOfKept(rows) == SelectSeq([i \in DOMAIN rows |-> Len(rows[i])], LAMBDA n : n > 0)
RepeatCounts(rows) == [i \in DOMAIN rows |-> Len(rows[i])]

(***************************************************************************)
(* sample_level_repeat of the batch by the counts, and union with the      *)
(* rows: the columns of the batch (task_ids) join the rows by position.    *)
(***************************************************************************)
JoinBatch(rows, task_ids) ==
  LET counts == RepeatCounts(rows)
      column == FlattenSeq([i \in DOMAIN counts |-> [k \in 1 .. counts[i] |-> task_ids[i]]])
      flat   == FlattenSeq(rows)
  IN  [r \in DOMAIN flat |-> [flat[r] EXCEPT !.task = column[r]]]

=============================================================================
