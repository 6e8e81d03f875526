--------------------------- MODULE WorkflowTrainer ---------------------------
(***************************************************************************)
(* AgentWorkflowTrainer.fit_agent (rllm/trainer/verl/                      *)
(* agent_workflow_trainer.py): what happens to the rows of a batch between *)
(* the rollouts and the update of the actor.  The driver is one thread; an *)
(* action ends where it hands a batch to the workers, which need batches   *)
(* that divide by their number.                                            *)
(*                                                                         *)
(* An advantage is abstracted to its sign.  The advantages of a group are  *)
(* those of compute_rloo_outcome_advantage (verl), the estimator of the    *)
(* launch scripts: reward minus the mean of the others.                    *)
(*                                                                         *)
(* ToUpdateUnpadded, ClampInvalid, ... are plausible bugs, as in           *)
(* ReactAgent.                                                             *)
(***************************************************************************)
EXTENDS TrainingRows, Positions, FiniteSetsExt

CONSTANTS
  Tasks,           \* tasks drawn per generation
  RolloutN,        \* rollout.n: rollouts per task
  Options,         \* configurations of the run: mode, rejection_sample
  EpisodeKinds,    \* what a rollout may come back as, without and with sampling
  TrainBatchSize,  \* data.train_batch_size
  WorldSize,       \* lcm of the world sizes of the worker groups
  TotalTrainingSteps,
  GenerationLimit  \* bound: generations of one step under rejection sampling

(***************************************************************************)
(* stepwise_advantage: "none" when disabled (the launch scripts), or its   *)
(* mode.                                                                   *)
(***************************************************************************)
ASSUME OptionsAssumption ==
  Options \subseteq [mode : {"none", "per_step", "broadcast"}, rejection_sample : BOOLEAN]
ASSUME KindsAssumption == \A r \in BOOLEAN : \A e \in EpisodeKinds[r] : IsEpisode(e)
ASSUME SizesAssumption ==
  /\ Tasks \in Nat \ {0} /\ RolloutN \in Nat \ {0} /\ WorldSize \in Nat \ {0}
  /\ TrainBatchSize \in Nat \ {0} /\ TotalTrainingSteps \in Nat \ {0} /\ GenerationLimit \in Nat \ {0}

VARIABLES
  mode,              \* of stepwise_advantage, chosen once
  rejection_sample,  \* rejection_sample.enable, chosen once
  phase,          \* "generate", "log_prob", "update", "done" or "crashed"
  global_steps,
  generation,     \* generations of this step, task ids are drawn anew for each
  batch,          \* the rows, or <<>> for None
  solve_partial,  \* tasks with both correct and incorrect rollouts so far
  cause,          \* why the driver crashed
  generated       \* history: what this step's rollouts came back as

options == <<mode, rejection_sample>>

vars == <<options, phase, global_steps, generation, batch, solve_partial, cause, generated>>

-----------------------------------------------------------------------------

TaskIds(g) == [i \in 1 .. Tasks * RolloutN |-> <<g, (i - 1) \div RolloutN>>]

TasksOf(rows) == {rows[r].task : r \in DOMAIN rows}

RowsOfTask(rows, task) == {r \in DOMAIN rows : rows[r].task = task}

(***************************************************************************)
(* Solved by some rollouts of the task and not by others.                  *)
(***************************************************************************)
IsPartial(rows, task) ==
  {rows[r].is_correct : r \in RowsOfTask(rows, task)} = {TRUE, FALSE}

(***************************************************************************)
(* pad_dataproto_to_divisor (verl): the batch is repeated from its start   *)
(* until its size divides.                                                 *)
(***************************************************************************)
PadSize(rows) == (WorldSize - (Len(rows) % WorldSize)) % WorldSize

RemovePadding(rows) == At(rows, {r \in DOMAIN rows : ~ rows[r].is_pad_step})

Padding(row) ==
  [row EXCEPT !.is_last_step = FALSE, !.is_pad_step = TRUE, !.is_valid = FALSE,
              !.is_fatal = FALSE]

PadToWorldSize(batch_rows) ==
  LET rows == RemovePadding(batch_rows)
  IN  IF rows = <<>> THEN <<>>
      ELSE rows \o [i \in 1 .. PadSize(rows) |-> Padding(rows[((i - 1) % Len(rows)) + 1])]

(***************************************************************************)
(* Broadcast mode trains on whole trajectories: the last steps are rounded *)
(* down to a multiple of the world size, and the other steps kept by       *)
(* trajectory_id.                                                          *)
(***************************************************************************)
LastSteps(rows) == At(rows, {r \in DOMAIN rows : rows[r].is_last_step})

OtherSteps(rows) == At(rows, {r \in DOMAIN rows : ~ rows[r].is_last_step})

RoundDown(rows) ==
  LET last   == LastSteps(rows)
      kept   == SubSeq(last, 1, (Len(last) \div WorldSize) * WorldSize)
      others == OtherSteps(rows)
  IN  kept \o At(others, {r \in DOMAIN others :
                 \E k \in DOMAIN kept : kept[k].trajectory = others[r].trajectory})

MakeWhole(rows) ==
  PadToWorldSize(IF mode = "broadcast" THEN RoundDown(rows) ELSE rows)

-----------------------------------------------------------------------------

Init ==
  /\ \E o \in Options : mode = o.mode /\ rejection_sample = o.rejection_sample
  /\ phase = "generate"
  /\ global_steps = 1
  /\ generation = 0
  /\ batch = <<>>
  /\ solve_partial = 0
  /\ cause = "none"
  /\ generated = <<>>

Crash(why) == phase' = "crashed" /\ cause' = why /\ UNCHANGED batch

(***************************************************************************)
(* The driver hands a padded batch to compute_log_prob.                    *)
(***************************************************************************)
ToWorkers(rows) ==
  /\ phase' = "log_prob"
  /\ batch' = MakeWhole(rows)
  /\ UNCHANGED cause

(***************************************************************************)
(* Rejection sampling: the tasks every or no rollout solved are dropped,   *)
(* the rest gathered over several generations; TrainBatchSize of their     *)
(* tasks make the batch.                                                   *)
(***************************************************************************)
GatherAnyTask(rows) == batch \o rows
Gather(rows) == batch \o At(rows, {r \in DOMAIN rows : IsPartial(rows, rows[r].task)})

SampleTasks(gathered, partial) ==
  IF partial < TrainBatchSize
    THEN phase' = "generate" /\ batch' = gathered /\ UNCHANGED cause
    ELSE \E selected \in kSubset(TrainBatchSize, TasksOf(gathered)) :
           ToWorkers(At(gathered, {r \in DOMAIN gathered : gathered[r].task \in selected}))

(***************************************************************************)
(* One generation: the engine's episodes, transformed and joined to the    *)
(* batch.  With no row at all the transform pads an empty list and raises. *)
(***************************************************************************)
Generate ==
  /\ phase = "generate"
  /\ generation < GenerationLimit
  /\ generation' = generation + 1
  /\ \E episodes \in [1 .. Tasks * RolloutN -> EpisodeKinds[rejection_sample]] :
       LET task_ids == TaskIds(generation)
           rows == JoinBatch([i \in DOMAIN episodes |->
                                EpisodeRows(episodes[i], <<generation, i>>, task_ids[i],
                                            mode # "none")],
                             task_ids)
       IN  /\ generated' = Append(generated, episodes)
           /\ solve_partial' = solve_partial
                + Cardinality({t \in TasksOf(rows) : IsPartial(rows, t)})
           /\ \/ rows = <<>> /\ Crash("no_rows")
              \/ rows # <<>> /\ ~rejection_sample /\ ToWorkers(rows)
              \/ /\ rows # <<>> /\ rejection_sample
                 /\ SampleTasks(Gather(rows), solve_partial')
  /\ UNCHANGED <<options, global_steps>>

(***************************************************************************)
(* compute_advantage: the group of a row are the rows with its step_ids.   *)
(* per_step scores a row by the reward of its step, which                  *)
(* DeepResearchWorkflow leaves at 0; the other modes by the trajectory's.  *)
(***************************************************************************)
Score(row) == IF mode = "per_step" THEN 0 ELSE row.reward

Group(rows, r) ==
  {s \in DOMAIN rows : rows[s].task = rows[r].task /\ rows[s].step = rows[r].step}

Advantage(rows, r) ==
  LET group == Group(rows, r)
      sum   == MapThenSumSet(LAMBDA s : Score(rows[s]), group)
      above == IF Cardinality(group) = 1 THEN Score(rows[r])
               ELSE Cardinality(group) * Score(rows[r]) - sum
  IN  IF above > 0 THEN "positive" ELSE IF above < 0 THEN "negative" ELSE "zero"

WithAdvantages(rows) ==
  [r \in DOMAIN rows |-> [rows[r] EXCEPT !.advantage = Advantage(rows, r)]]

(***************************************************************************)
(* The one-sided clamp of fatal trajectories.                              *)
(***************************************************************************)
ClampInvalid(rows) ==
  [r \in DOMAIN rows |->
     IF ~rows[r].is_valid /\ rows[r].advantage = "negative"
       THEN [rows[r] EXCEPT !.advantage = "zero"] ELSE rows[r]]

Clamp(rows) ==
  [r \in DOMAIN rows |->
     IF rows[r].is_fatal /\ rows[r].advantage = "negative"
       THEN [rows[r] EXCEPT !.advantage = "zero"] ELSE rows[r]]

(***************************************************************************)
(* _stepwise_advantage_broadcast: the mean advantage over the tokens of    *)
(* the last step, not a number when it has none, goes to the other steps   *)
(* of the same trajectory and episode, even where their tokens are masked  *)
(* (nan * 0 is nan).  A step whose last step was rounded away raises       *)
(* KeyError; with no other steps at all there is nothing to stack.         *)
(***************************************************************************)
HasLastStep(last, row) == \E r \in DOMAIN last : last[r].episode = row.episode

Broadcast(last, others) ==
  [o \in DOMAIN others |->
     LET source == last[CHOOSE r \in DOMAIN last : last[r].episode = others[o].episode]
     IN  [others[o] EXCEPT !.advantage =
            IF source.tokens = {} THEN "nan"
            ELSE IF others[o].tokens = {} THEN "zero" ELSE source.advantage]]

(***************************************************************************)
(* compact filtering takes effect, padding goes with it; an empty batch    *)
(* skips the update.                                                       *)
(***************************************************************************)
FilterValid(rows) == At(rows, {r \in DOMAIN rows : rows[r].is_valid})

NextStepKeepsCounters ==
  /\ global_steps' = global_steps + 1
  /\ phase' = IF global_steps + 1 >= TotalTrainingSteps THEN "done" ELSE "generate"
  /\ batch' = <<>>
  /\ generation' = 0
  /\ generated' = <<>>
  /\ UNCHANGED solve_partial

NextStep ==
  /\ global_steps' = global_steps + 1
  /\ phase' = IF global_steps + 1 >= TotalTrainingSteps THEN "done" ELSE "generate"
  /\ batch' = <<>>
  /\ solve_partial' = 0
  /\ generation' = 0
  /\ generated' = <<>>

ToUpdateUnpadded(rows) ==
  LET valid == FilterValid(rows)
  IN  \/ /\ valid = <<>>
         /\ NextStep
         /\ UNCHANGED cause
      \/ /\ valid # <<>>
         /\ phase' = "update"
         /\ batch' = valid
         /\ UNCHANGED <<global_steps, generation, generated, solve_partial, cause>>

ToUpdate(rows) ==
  LET valid == FilterValid(rows)
  IN  \/ /\ valid = <<>>
         /\ NextStep
         /\ UNCHANGED cause
      \/ /\ valid # <<>>
         /\ phase' = "update"
         /\ batch' = PadToWorldSize(valid)
         /\ UNCHANGED <<global_steps, generation, generated, solve_partial, cause>>

ComputeAdvantages ==
  /\ phase = "log_prob"
  /\ \/ /\ mode # "broadcast"
        /\ ToUpdate(Clamp(WithAdvantages(RemovePadding(batch))))
     \/ /\ mode = "broadcast"
        /\ LET last   == Clamp(WithAdvantages(LastSteps(batch)))
               others == OtherSteps(batch)
           IN  \/ /\ others = <<>>
                  /\ Crash("empty_stack")
                  /\ UNCHANGED <<global_steps, generation, generated, solve_partial>>
               \/ /\ \E o \in DOMAIN others : ~ HasLastStep(last, others[o])
                  /\ Crash("no_last_step")
                  /\ UNCHANGED <<global_steps, generation, generated, solve_partial>>
               \/ /\ others # <<>>
                  /\ \A o \in DOMAIN others : HasLastStep(last, others[o])
                  /\ ToUpdate(last \o Broadcast(last, others))
  /\ UNCHANGED options

(***************************************************************************)
(* update_actor; then the counters of the step are reset.                  *)
(***************************************************************************)
UpdateActor ==
  /\ phase = "update"
  /\ NextStep
  /\ UNCHANGED <<options, cause>>

Next == Generate \/ ComputeAdvantages \/ UpdateActor

Spec == Init /\ [][Next]_vars

-----------------------------------------------------------------------------
(***************************************************************************)
(* Properties                                                              *)
(***************************************************************************)

TypeOK ==
  /\ [mode |-> mode, rejection_sample |-> rejection_sample] \in Options
  /\ phase \in {"generate", "log_prob", "update", "done", "crashed"}
  /\ global_steps \in 1 .. TotalTrainingSteps + 1
  /\ generation \in 0 .. GenerationLimit
  /\ \A r \in DOMAIN batch :
       /\ batch[r].advantage \in {"none", "positive", "negative", "zero", "nan"}
       /\ batch[r].tokens \subseteq {batch[r].episode} \X Nat
  /\ solve_partial \in 0 .. GenerationLimit * Tasks
  /\ cause \in {"none", "no_rows", "empty_stack", "no_last_step"}

RealRows == {r \in DOMAIN batch : ~ batch[r].is_pad_step}

EpisodeOf(id) == generated[id[1] + 1][id[2]]

(***************************************************************************)
(* A row belongs to the task its rollout was made for, although dropped    *)
(* episodes leave gaps: advantages compare only rollouts of one task.      *)
(***************************************************************************)
RowsKeepTheirTask ==
  \A r \in DOMAIN batch :
    LET id == batch[r].episode
    IN  batch[r].task = TaskIds(id[1])[id[2]]

(***************************************************************************)
(* Every batch the workers get divides among them, and the actor is never  *)
(* updated on nothing.                                                     *)
(***************************************************************************)
WorkersShareEvenly ==
  /\ phase \in {"log_prob", "update"} => Len(batch) % WorldSize = 0
  /\ phase = "update" => RealRows # {}

(***************************************************************************)
(* The update learns the steps before the fatal step of the episodes that  *)
(* have such steps, each once, and nothing of a masked episode; padding    *)
(* aside.  Sampling leaves out whole episodes; broadcast mode rounds some  *)
(* trajectories away.                                                      *)
(***************************************************************************)
Kept(e) == {k \in 0 .. e.steps - 1 : k < e.fatal \/ e.fatal = NoFatalStep}

Learnt == UNION {batch[r].tokens : r \in RealRows}

LearnsWhatIsKept ==
  phase = "update" =>
    /\ \A r, s \in RealRows : r # s => batch[r].tokens \cap batch[s].tokens = {}
    /\ \A token \in Learnt : token[2] \in Kept(EpisodeOf(token[1]))
    /\ mode # "broadcast" =>
         \A g \in DOMAIN generated : \A i \in DOMAIN generated[g] :
           (rejection_sample => <<g - 1, (i - 1) \div RolloutN>> \in TasksOf(batch))
           => \A k \in Kept(generated[g][i]) : <<(<<g - 1, i>>), k>> \in Learnt

(***************************************************************************)
(* A fatal trajectory is never pushed down, on whichever row, padding      *)
(* included, its kept steps are.                                           *)
(***************************************************************************)
FatalIsNotPushedDown ==
  phase = "update" =>
    \A r \in DOMAIN batch :
      EpisodeOf(batch[r].episode).fatal # NoFatalStep => batch[r].advantage # "negative"

(***************************************************************************)
(* Rejection sampling counts the tasks it has gathered: what it waits for  *)
(* is what the assertion on the number of tasks and the choice of          *)
(* TrainBatchSize tasks need, and a gathered task has all its rollouts     *)
(* that came back with steps.                                              *)
(***************************************************************************)
GatheredTasks ==
  rejection_sample /\ phase = "generate" =>
    /\ solve_partial = Cardinality(TasksOf(batch))
    /\ solve_partial < TrainBatchSize
    /\ \A g \in DOMAIN generated : \A i \in DOMAIN generated[g] :
         (/\ TaskIds(g - 1)[i] \in TasksOf(batch)
          /\ generated[g][i].steps > 0)
         => \E r \in DOMAIN batch : batch[r].episode = <<g - 1, i>>

(***************************************************************************)
(* A training step is made on TrainBatchSize tasks, each with an incorrect *)
(* and a correct rollout; broadcast mode then rounds some of them away.    *)
(***************************************************************************)
SampledTasks ==
  rejection_sample /\ mode # "broadcast" /\ phase = "log_prob" =>
    /\ Cardinality(TasksOf(batch)) = TrainBatchSize
    /\ \A t \in TasksOf(batch) : IsPartial(batch, t)

(***************************************************************************)
(* "For the padded dataproto, make the traj mask to 0": padding rows hold  *)
(* no token to learn from.                                                 *)
(***************************************************************************)
PaddingLearnsNothing ==
  phase = "update" => \A r \in DOMAIN batch : batch[r].is_pad_step => batch[r].tokens = {}

=============================================================================
