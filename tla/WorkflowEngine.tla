--------------------------- MODULE WorkflowEngine ---------------------------
(***************************************************************************)
(* AgentWorkflowEngine (rllm/engine/agent_workflow_engine.py): runs the    *)
(* rollouts of a batch concurrently on a pool of workflow instances, with  *)
(* retries, and hands the episodes back in the order of the batch.         *)
(*                                                                         *)
(* Everything runs on one event loop: an action is what one coroutine does *)
(* between two awaits.  asyncio.as_completed starts the coroutines of a    *)
(* set in any order, so any rollout that waits may get the next workflow.  *)
(* After a call that raised, the engine is not called again: the exception *)
(* ends the training run, but the other rollouts are not cancelled.        *)
(*                                                                         *)
(* EndWithoutFinally, RetryInQueue, ... are plausible bugs, as in        *)
(* ReactAgent.                                                             *)
(***************************************************************************)
EXTENDS Integers, Sequences, FiniteSets

CONSTANTS
  TaskIds,       \* the task id of each rollout of a batch, in batch order
  PoolSize,      \* n_parallel_tasks
  RetryLimit,    \* retry_limit
  RaiseOnError,  \* raise_on_error
  Outcomes,      \* what awaiting a rollout may come back with, see below
  CallLimit,     \* bound: calls of execute_tasks_verl
  NoWorkflow     \* stands for: the rollout holds no workflow

(***************************************************************************)
(* What one await of run_with_termination_handling may come back with:     *)
(*   "episode"     an episode whose termination reason is not ERROR;       *)
(*   "error_dict"  an ERROR episode whose info["error"] is a dictionary,   *)
(*                 as Workflow.postprocess_episode makes it;               *)
(*   "error_text"  an ERROR episode whose info["error"] is a text, as      *)
(*                 DeepResearchWorkflow.run makes it;                      *)
(*   "raise"       an exception.                                           *)
(* DeepResearchWorkflow!KeepsContract says which of them that workflow     *)
(* produces.                                                               *)
(***************************************************************************)
AllOutcomes == {"episode", "error_dict", "error_text", "raise"}

Rollouts == 1 .. Len(TaskIds)
Workflows == 1 .. PoolSize

(***************************************************************************)
(* The trainer repeats each task n times in place (interleave=True): the   *)
(* rollouts of a task are neighbours in the batch.                         *)
(***************************************************************************)
Contiguous ==
  \A i, j, k \in Rollouts : i <= j /\ j <= k /\ TaskIds[i] = TaskIds[k] => TaskIds[j] = TaskIds[i]

ASSUME TaskIdsAssumption == TaskIds \in Seq(STRING) /\ Contiguous
ASSUME LimitsAssumption ==
  PoolSize \in Nat \ {0} /\ RetryLimit \in Nat \ {0} /\ CallLimit \in Nat \ {0}
ASSUME OptionsAssumption == RaiseOnError \in BOOLEAN /\ Outcomes \subseteq AllOutcomes
ASSUME NoWorkflowAssumption == NoWorkflow \notin Nat

VARIABLES
  call,             \* "idle", "collecting", or "raised"
  calls,            \* calls so far
  is_validation,    \* of the current call
  rollout_engine,   \* [awake, validate]: the flags of the shared rollout engine
  workflow_queue,   \* the free workflow instances; None is <<>> with calls = 0
  future,           \* per rollout: "none", "get", "run", "returned", "failed"
  workflow,         \* per rollout: the workflow it holds
  retry_attempt,    \* per rollout
  outcome,          \* per rollout: the outcome of its last attempt
  done,             \* as_completed: finished futures not yet awaited
  episodes,         \* the rollouts whose episodes were collected, in that order
  results           \* the rollouts whose episodes were returned, in that order

poolVars == <<workflow_queue, future, workflow, retry_attempt, outcome>>
callVars == <<call, calls, is_validation, rollout_engine, results>>
vars == <<callVars, poolVars, done, episodes>>

-----------------------------------------------------------------------------

Init ==
  /\ call = "idle"
  /\ calls = 0
  /\ is_validation = FALSE
  /\ rollout_engine = [awake |-> FALSE, validate |-> FALSE]
  /\ workflow_queue = <<>>
  /\ future = [r \in Rollouts |-> "none"]
  /\ workflow = [r \in Rollouts |-> NoWorkflow]
  /\ retry_attempt = [r \in Rollouts |-> 0]
  /\ outcome = [r \in Rollouts |-> "none"]
  /\ done = <<>>
  /\ episodes = <<>>
  /\ results = <<>>

(***************************************************************************)
(* initialize_pool: only the first call makes the workflows.               *)
(***************************************************************************)
InitializePoolAgain(queue) == [w \in Workflows |-> w] \o queue
InitializePool(queue) == IF calls = 0 THEN [w \in Workflows |-> w] ELSE queue

(***************************************************************************)
(* execute_tasks_verl wakes the rollout engine, sets its mode, and         *)
(* execute_tasks starts one future per rollout.                            *)
(***************************************************************************)
ExecuteTasks(validate) ==
  /\ call = "idle"
  /\ calls < CallLimit
  /\ call' = "collecting"
  /\ calls' = calls + 1
  /\ is_validation' = validate
  /\ rollout_engine' = [awake |-> TRUE,
                        validate |-> validate \/ rollout_engine.validate]
  /\ workflow_queue' = InitializePool(workflow_queue)
  /\ future' = [r \in Rollouts |-> "get"]
  /\ retry_attempt' = [r \in Rollouts |-> 0]
  /\ outcome' = [r \in Rollouts |-> "none"]
  /\ episodes' = <<>>
  /\ UNCHANGED <<workflow, done, results>>

(***************************************************************************)
(* process_task_with_retry(r): workflow_queue.get().                       *)
(***************************************************************************)
GetWorkflow(r) ==
  /\ future[r] = "get"
  /\ workflow_queue # <<>>
  /\ workflow' = [workflow EXCEPT ![r] = Head(workflow_queue)]
  /\ workflow_queue' = Tail(workflow_queue)
  /\ future' = [future EXCEPT ![r] = "run"]
  /\ retry_attempt' = [retry_attempt EXCEPT ![r] = 1]
  /\ UNCHANGED <<callVars, outcome, done, episodes>>

(***************************************************************************)
(* The future of r ends, and finally puts the workflow back; the queue is  *)
(* never full here, so the put does not suspend.                           *)
(***************************************************************************)
EndWithoutFinally(r, how) ==
  /\ future' = [future EXCEPT ![r] = how]
  /\ workflow_queue' = IF how = "returned" THEN Append(workflow_queue, workflow[r])
                       ELSE workflow_queue
  /\ workflow' = [workflow EXCEPT ![r] = NoWorkflow]
  /\ done' = Append(done, r)
  /\ UNCHANGED retry_attempt

End(r, how) ==
  /\ future' = [future EXCEPT ![r] = how]
  /\ workflow_queue' = Append(workflow_queue, workflow[r])
  /\ workflow' = [workflow EXCEPT ![r] = NoWorkflow]
  /\ done' = Append(done, r)
  /\ UNCHANGED retry_attempt

RetryInQueue(r) ==
  /\ retry_attempt' = [retry_attempt EXCEPT ![r] = @ + 1]
  /\ workflow_queue' = Append(workflow_queue, workflow[r])
  /\ UNCHANGED <<future, workflow, done>>

Retry(r) ==
  /\ retry_attempt' = [retry_attempt EXCEPT ![r] = @ + 1]
  /\ UNCHANGED <<future, workflow, workflow_queue, done>>

(***************************************************************************)
(* The await of run_with_termination_handling comes back.  A text under    *)
(* info["error"] has no get: reading its traceback raises AttributeError.  *)
(***************************************************************************)
RolloutReturnsOneMore(r, o) ==
  /\ future[r] = "run"
  /\ outcome' = [outcome EXCEPT ![r] = o]
  /\ \/ o = "episode" /\ End(r, "returned")
     \/ o \in {"error_text", "raise"} /\ End(r, "failed")
     \/ o = "error_dict" /\ retry_attempt[r] <= RetryLimit /\ Retry(r)
     \/ /\ o = "error_dict" /\ retry_attempt[r] > RetryLimit
        /\ End(r, IF RaiseOnError THEN "failed" ELSE "returned")
  /\ UNCHANGED <<callVars, episodes>>

RolloutReturns(r, o) ==
  /\ future[r] = "run"
  /\ outcome' = [outcome EXCEPT ![r] = o]
  /\ \/ o = "episode" /\ End(r, "returned")
     \/ o \in {"error_text", "raise"} /\ End(r, "failed")
     \/ o = "error_dict" /\ retry_attempt[r] < RetryLimit /\ Retry(r)
     \/ /\ o = "error_dict" /\ retry_attempt[r] = RetryLimit
        /\ End(r, IF RaiseOnError THEN "failed" ELSE "returned")
  /\ UNCHANGED <<callVars, episodes>>

(***************************************************************************)
(* execute_tasks awaits the next finished future: its episode is kept, or  *)
(* its exception ends the call, with the rollout engine left awake.        *)
(***************************************************************************)
CollectReturned ==
  /\ call = "collecting"
  /\ done # <<>>
  /\ future[Head(done)] = "returned"
  /\ done' = Tail(done)
  /\ episodes' = Append(episodes, Head(done))
  /\ UNCHANGED <<callVars, poolVars>>

CollectAnyway ==
  /\ call = "collecting"
  /\ done # <<>>
  /\ done' = Tail(done)
  /\ episodes' = Append(episodes, Head(done))
  /\ UNCHANGED <<callVars, poolVars>>

Collect ==
  /\ call = "collecting"
  /\ done # <<>>
  /\ done' = Tail(done)
  /\ \/ /\ future[Head(done)] = "returned"
        /\ episodes' = Append(episodes, Head(done))
        /\ UNCHANGED call
     \/ /\ future[Head(done)] = "failed"
        /\ call' = "raised"
        /\ UNCHANGED episodes
  /\ UNCHANGED <<calls, is_validation, rollout_engine, results, poolVars>>

(* The position of the first rollout of r's task. *)
TaskIdx(r) == CHOOSE i \in Rollouts :
                /\ TaskIds[i] = TaskIds[r]
                /\ \A j \in Rollouts : TaskIds[j] = TaskIds[r] => i <= j

(***************************************************************************)
(* task_states, flattened: the tasks in the order of their first rollout,  *)
(* the episodes of a task in the order they were collected.                *)
(***************************************************************************)
Before(collected, p, q) ==
  \/ TaskIdx(collected[p]) < TaskIdx(collected[q])
  \/ TaskIdx(collected[p]) = TaskIdx(collected[q]) /\ p <= q

Place(collected, p) == Cardinality({q \in DOMAIN collected : Before(collected, q, p)})

InCompletionOrder(collected) == collected

InTaskOrder(collected) ==
  [k \in DOMAIN collected |->
     collected[CHOOSE p \in DOMAIN collected : Place(collected, p) = k]]

(***************************************************************************)
(* Every future was awaited: execute_tasks returns, and execute_tasks_verl *)
(* resets the mode and lets the rollout engine sleep.                      *)
(***************************************************************************)
ReturnWithoutReset ==
  /\ call = "collecting"
  /\ Len(episodes) = Len(TaskIds)
  /\ call' = "idle"
  /\ results' = InTaskOrder(episodes)
  /\ rollout_engine' = [rollout_engine EXCEPT !.awake = FALSE]
  /\ UNCHANGED <<calls, is_validation, poolVars, done, episodes>>

Return ==
  /\ call = "collecting"
  /\ Len(episodes) = Len(TaskIds)
  /\ call' = "idle"
  /\ results' = InTaskOrder(episodes)
  /\ rollout_engine' = [awake |-> FALSE, validate |-> FALSE]
  /\ UNCHANGED <<calls, is_validation, poolVars, done, episodes>>

Next ==
  \/ \E validate \in BOOLEAN : ExecuteTasks(validate)
  \/ \E r \in Rollouts : GetWorkflow(r)
  \/ \E r \in Rollouts, o \in Outcomes : RolloutReturns(r, o)
  \/ Collect
  \/ Return

Spec == Init /\ [][Next]_vars

(***************************************************************************)
(* The event loop runs every coroutine that can go on; an awaited rollout  *)
(* comes back (DeepResearchWorkflow!KeepsContract).  Nobody has to call.   *)
(***************************************************************************)
Fairness ==
  /\ \A r \in Rollouts :
       /\ WF_vars(GetWorkflow(r))
       /\ WF_vars(\E o \in Outcomes : RolloutReturns(r, o))
  /\ WF_vars(Collect)
  /\ WF_vars(Return)

FairSpec == Spec /\ Fairness

-----------------------------------------------------------------------------
(***************************************************************************)
(* Properties                                                              *)
(***************************************************************************)

Futures == {"none", "get", "run", "returned", "failed"}

TypeOK ==
  /\ call \in {"idle", "collecting", "raised"}
  /\ calls \in 0 .. CallLimit
  /\ is_validation \in BOOLEAN
  /\ rollout_engine \in [awake : BOOLEAN, validate : BOOLEAN]
  /\ workflow_queue \in Seq(Workflows)
  /\ future \in [Rollouts -> Futures]
  /\ workflow \in [Rollouts -> Workflows \cup {NoWorkflow}]
  /\ retry_attempt \in [Rollouts -> 0 .. RetryLimit]
  /\ outcome \in [Rollouts -> AllOutcomes \cup {"none"}]
  /\ done \in Seq(Rollouts)
  /\ episodes \in Seq(Rollouts)
  /\ results \in Seq(Rollouts)

Holders == {r \in Rollouts : workflow[r] # NoWorkflow}

Free == {workflow_queue[i] : i \in DOMAIN workflow_queue}

(***************************************************************************)
(* A workflow instance, with the agent and the token counters in it, is    *)
(* used by one rollout at a time, and never while it is free.              *)
(***************************************************************************)
Exclusive ==
  /\ \A r, s \in Holders : r # s => workflow[r] # workflow[s]
  /\ \A r \in Holders : workflow[r] \notin Free
  /\ \A r \in Rollouts : future[r] = "run" <=> r \in Holders

(***************************************************************************)
(* No workflow is lost or made twice, whatever fails: the pool has the     *)
(* room for every put, and the next call finds it whole.                   *)
(***************************************************************************)
PoolConserved ==
  /\ calls > 0 => Len(workflow_queue) + Cardinality(Holders) = PoolSize
  /\ call = "idle" /\ calls > 0 => Free = Workflows

(***************************************************************************)
(* A rollout generates only on an engine that is awake and in the mode of  *)
(* its own call.                                                           *)
(***************************************************************************)
RunsInItsMode ==
  \A r \in Rollouts : future[r] = "run" =>
    rollout_engine = [awake |-> TRUE, validate |-> is_validation]

(***************************************************************************)
(* A call that returned has one episode for every rollout, and position i  *)
(* holds an episode of the task at position i of the batch: the transform  *)
(* to training rows pairs them by position.                                *)
(***************************************************************************)
ResultsAlign ==
  call = "idle" /\ calls > 0 =>
    /\ Len(results) = Len(TaskIds)
    /\ \A r \in Rollouts : \E i \in Rollouts : results[i] = r
    /\ \A i \in Rollouts : TaskIds[results[i]] = TaskIds[i]

(***************************************************************************)
(* "Raises Exception: If task fails permanently after retry_limit attempts *)
(* and raise_on_error is True": a rollout fails for no other reason.       *)
(***************************************************************************)
RaisesAfterRetries ==
  \A r \in Rollouts :
    future[r] = "failed" => RaiseOnError /\ retry_attempt[r] = RetryLimit

(***************************************************************************)
(* Every call returns or raises.                                           *)
(***************************************************************************)
CallEnds == call = "collecting" ~> call \in {"idle", "raised"}

(***************************************************************************)
(* The rollouts a raised call leaves behind end too, and give their        *)
(* workflows back.                                                         *)
(***************************************************************************)
PoolRefills == call = "raised" ~> Free = Workflows

(***************************************************************************)
(* The contract with the trainer, with the rollouts' outcomes as they are  *)
(* decided.                                                                *)
(***************************************************************************)
Verdict == [r \in Rollouts |->
              IF future[r] \in {"returned", "failed"} THEN future[r] ELSE "pending"]

Batch == INSTANCE BatchContract WITH verdict <- Verdict

KeepsContract == Batch!Contract

=============================================================================
