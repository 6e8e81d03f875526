------------------------------ MODULE SdkEngine ------------------------------
(***************************************************************************)
(* AgentSdkEngine (rllm/engine/agent_sdk_engine.py): it runs an agent      *)
(* function once per row of a batch, several at a time and each with       *)
(* retries; the calls the agents make of the model are traced by the       *)
(* proxy, and the steps of the episodes are the traces, read back from the *)
(* store when all rollouts have ended.                                     *)
(*                                                                         *)
(* The batch is executed up to Rounds times.  When a rollout raises, the   *)
(* round is given up at once, but its other rollouts go on: they hold the  *)
(* semaphore and are traced, under the names the next round uses again.    *)
(*                                                                         *)
(* HoldingAfterRaise, AttemptFailsOnceMore, TracesOfName and AnyOrder are  *)
(* plausible bugs, as in ReactAgent.                                       *)
(***************************************************************************)
EXTENDS TraceStore, Positions

CONSTANTS
  Batch,       \* the sequence of the task ids of a batch
  Parallel,    \* n_parallel_tasks
  Rounds,      \* executions of the batch; 3 in execute_tasks
  Modes        \* the settings: whether the agent returns views of its steps or a
               \* reward, whether steps are grouped, retry_limit, and two bounds:
               \* rounds of execute_tasks, model calls of an attempt

Rollouts == DOMAIN Batch
Launches == (1 .. Rounds) \X Rollouts

(***************************************************************************)
(* The trainer repeats the rows of a batch in place, once per rollout of a *)
(* task (DataProto.repeat interleaves): the rows of a task are neighbours. *)
(***************************************************************************)
Contiguous ==
  \A i, j, k \in Rollouts : i < j /\ j < k /\ Batch[i] = Batch[k] => Batch[j] = Batch[i]

ASSUME BatchAssumption == Batch \in Seq(ToSet(Batch)) \ {<<>>} /\ Contiguous
ASSUME NoTraceAssumption ==
  NoTrace \notin [round : Nat, rollout : Rollouts, attempt : Nat, call : Nat]
ASSUME LimitsAssumption ==
  /\ Parallel \in Nat \ {0}
  /\ Rounds \in Nat \ {0}
ASSUME ModesAssumption ==
  Modes \subseteq [views : BOOLEAN, grouped : BOOLEAN, retry_limit : Nat \ {0},
                   rounds : 1 .. Rounds, calls : Nat]

VARIABLES
  mode,
  phase,      \* of execute_tasks
  round,
  status,     \* of a rollout
  attempt,    \* retry_attempt of a rollout
  calls,      \* model calls of its attempt
  flushed,    \* what flush_traces returned
  read,       \* the rollouts whose session is read
  collected,  \* their traces
  results     \* the episodes: a sequence of [rollout, steps]

engineVars == <<phase, round, flushed, read, collected, results>>
rolloutVars == <<status, attempt, calls>>
vars == <<storeVars, engineVars, rolloutVars, mode>>

Current(r) == <<round, r>>

Trace(l, n) == [round |-> l[1], rollout |-> l[2], attempt |-> attempt[l], call |-> n]

CallTraces(l) == [n \in 1 .. calls[l] |-> Trace(l, n)]

-----------------------------------------------------------------------------

Init ==
  /\ StoreInit
  /\ mode \in Modes
  /\ phase = "pausing"
  /\ round = 0
  /\ status = [l \in Launches |-> "none"]
  /\ attempt = [l \in Launches |-> 0]
  /\ calls = [l \in Launches |-> 0]
  /\ flushed = FALSE
  /\ read = {}
  /\ collected = [r \in Rollouts |-> <<>>]
  /\ results = <<>>

(***************************************************************************)
(* A round begins: all rollouts are launched.                              *)
(***************************************************************************)
Launch ==
  /\ phase = "pausing"
  /\ phase' = "rolling"
  /\ round' = round + 1
  /\ status' = [l \in Launches |-> IF l[1] = round + 1 THEN "waiting" ELSE status[l]]
  /\ UNCHANGED <<storeVars, flushed, read, collected, results, attempt, calls, mode>>

(***************************************************************************)
(* process_task_with_retry.  An attempt has a session uid of its own.      *)
(***************************************************************************)
HoldingAfterRaise == {l \in Launches : status[l] \in {"running", "raised"}}

Holding == {l \in Launches : status[l] = "running"}

(***************************************************************************)
(* The semaphore serves who asked first: the rollouts of an earlier round, *)
(* those of one round in any order.                                        *)
(***************************************************************************)
Acquire(l) ==
  /\ status[l] = "waiting"
  /\ \A k \in Launches : status[k] = "waiting" => k[1] >= l[1]
  /\ Cardinality(Holding) < Parallel
  /\ status' = [status EXCEPT ![l] = "running"]
  /\ attempt' = [attempt EXCEPT ![l] = 1]
  /\ UNCHANGED <<storeVars, engineVars, calls, mode>>

(***************************************************************************)
(* A call is traced before its answer is sent.                             *)
(***************************************************************************)
Call(l) ==
  /\ status[l] = "running"
  /\ calls[l] < mode.calls
  /\ Log(Trace(l, calls[l] + 1))
  /\ calls' = [calls EXCEPT ![l] = @ + 1]
  /\ UNCHANGED <<engineVars, status, attempt, mode>>

AttemptEnds(l) ==
  /\ status[l] = "running"
  /\ status' = [status EXCEPT ![l] = "finished"]
  /\ UNCHANGED <<storeVars, engineVars, attempt, calls, mode>>

AttemptFailsOnceMore(l) ==
  /\ status[l] = "running"
  /\ IF attempt[l] <= mode.retry_limit
       THEN /\ attempt' = [attempt EXCEPT ![l] = @ + 1]
            /\ calls' = [calls EXCEPT ![l] = 0]
            /\ UNCHANGED status
       ELSE /\ status' = [status EXCEPT ![l] = "raised"]
            /\ UNCHANGED <<attempt, calls>>
  /\ UNCHANGED <<storeVars, engineVars, mode>>

AttemptFails(l) ==
  /\ status[l] = "running"
  /\ IF attempt[l] < mode.retry_limit
       THEN /\ attempt' = [attempt EXCEPT ![l] = @ + 1]
            /\ calls' = [calls EXCEPT ![l] = 0]
            /\ UNCHANGED status
       ELSE /\ status' = [status EXCEPT ![l] = "raised"]
            /\ UNCHANGED <<attempt, calls>>
  /\ UNCHANGED <<storeVars, engineVars, mode>>

(***************************************************************************)
(* A list with something in it that is no view is not tried again.         *)
(***************************************************************************)
ListRefused(l) ==
  /\ status[l] = "running"
  /\ mode.views
  /\ status' = [status EXCEPT ![l] = "raised"]
  /\ UNCHANGED <<storeVars, engineVars, attempt, calls, mode>>

RolloutStep(l) ==
  Acquire(l) \/ Call(l) \/ AttemptEnds(l) \/ AttemptFails(l) \/ ListRefused(l)

-----------------------------------------------------------------------------
(***************************************************************************)
(* _execute_tasks and execute_tasks                                        *)
(***************************************************************************)

GiveUpRound == phase' = IF round < mode.rounds THEN "pausing" ELSE "raised"

(***************************************************************************)
(* as_completed raises what the first failing rollout raised.              *)
(***************************************************************************)
RolloutRaised ==
  /\ phase = "rolling"
  /\ \E r \in Rollouts : status[Current(r)] = "raised"
  /\ GiveUpRound
  /\ UNCHANGED <<storeVars, round, flushed, read, collected, results, rolloutVars, mode>>

AllFinished ==
  /\ phase = "rolling"
  /\ \A r \in Rollouts : status[Current(r)] = "finished"
  /\ phase' = "flushing"
  /\ UNCHANGED <<storeVars, round, flushed, read, collected, results, rolloutVars, mode>>

(***************************************************************************)
(* A flush that times out or fails is only noted.                          *)
(***************************************************************************)
FlushReturns(ok) ==
  /\ phase = "flushing"
  /\ ok => up /\ Flushed
  /\ flushed' = ok
  /\ read' = {}
  /\ phase' = "collecting"
  /\ UNCHANGED <<storeVars, round, collected, results, rolloutVars, mode>>

(***************************************************************************)
(* get_by_session_uid: the traces of the session, newest first.            *)
(***************************************************************************)
NewestFirst(traces) ==
  LET made == {t.call : t \in traces}
      n    == Cardinality(made)
  IN  [k \in 1 .. n |-> CHOOSE t \in traces : t.call = Nth(made, n + 1 - k)]

TracesOfName(l) ==
  NewestFirst({t \in stored : t.rollout = l[2] /\ t.attempt = attempt[l]})

TracesOf(l) ==
  NewestFirst({t \in stored : t.round = l[1] /\ t.rollout = l[2] /\ t.attempt = attempt[l]})

Collect(r) ==
  /\ phase = "collecting"
  /\ r \notin read
  /\ read' = read \cup {r}
  /\ collected' = [collected EXCEPT ![r] = TracesOf(Current(r))]
  /\ UNCHANGED <<storeVars, phase, round, flushed, results, rolloutVars, mode>>

(***************************************************************************)
(* The store cannot be read, or a trace has no response in it: the round   *)
(* is given up.                                                            *)
(***************************************************************************)
ReadFails ==
  /\ phase = "collecting"
  /\ GiveUpRound
  /\ UNCHANGED <<storeVars, round, flushed, read, collected, results, rolloutVars, mode>>

(***************************************************************************)
(* A reward takes the traces as they were read; views name their steps,    *)
(* and a step that is not found raises.  The agents of the bare rollouts   *)
(* returned an empty list of views.                                        *)
(***************************************************************************)
EpisodeOf(r, bare) ==
  IF r \in bare THEN <<>>
  ELSE IF mode.views THEN CallTraces(Current(r)) ELSE collected[r]

StepsMissing(bare) ==
  \E r \in Rollouts : ~(ToSet(EpisodeOf(r, bare)) \subseteq ToSet(collected[r]))

(***************************************************************************)
(* Without a grouping key an episode without steps has a trajectory, and   *)
(* does not count as an error.                                             *)
(***************************************************************************)
Errors(bare) ==
  bare \cup {r \in Rollouts : mode.grouped /\ ~mode.views /\ collected[r] = <<>>}

TooManyErrors(bare) == Cardinality(Errors(bare)) * 100 > Len(Batch)

(***************************************************************************)
(* The episodes of a task come together, the tasks in the order of the     *)
(* batch; within a task they come as a set is listed.                      *)
(***************************************************************************)
IndexOf(task) == Min({i \in Rollouts : Batch[i] = task})

AnyOrder(order) == IsInjective(order)

InOrder(order) ==
  /\ IsInjective(order)
  /\ \A i, j \in Rollouts : i < j => IndexOf(Batch[order[i]]) <= IndexOf(Batch[order[j]])

Assemble(order, bare) ==
  /\ phase = "collecting"
  /\ read = Rollouts
  /\ bare # {} => mode.views
  /\ IF StepsMissing(bare) \/ TooManyErrors(bare)
       THEN GiveUpRound /\ UNCHANGED results
       ELSE /\ InOrder(order)
            /\ phase' = "done"
            /\ results' = [i \in Rollouts |->
                 [rollout |-> order[i], steps |-> EpisodeOf(order[i], bare)]]
  /\ UNCHANGED <<storeVars, round, flushed, read, collected, rolloutVars, mode>>

Engine ==
  \/ Launch \/ RolloutRaised \/ AllFinished
  \/ \E ok \in BOOLEAN : FlushReturns(ok)
  \/ \E r \in Rollouts : Collect(r)
  \/ ReadFails
  \/ \E order \in [Rollouts -> Rollouts], bare \in SUBSET Rollouts : Assemble(order, bare)

(***************************************************************************)
(* What happens after execute_tasks returned is left out.                  *)
(***************************************************************************)
Executing == phase \notin {"done", "raised"}

Background == (Worker \/ Die) /\ UNCHANGED <<engineVars, rolloutVars, mode>>

Next ==
  \/ Engine
  \/ Executing /\ \E l \in Launches : RolloutStep(l)
  \/ Executing /\ Background

Spec == Init /\ [][Next]_vars

(***************************************************************************)
(* The event loop and the worker of the tracer go on; an attempt ends,     *)
(* because model calls carry timeouts, or fails.  The proxy need not die.  *)
(***************************************************************************)
FairSpec ==
  /\ Spec
  /\ WF_vars(Engine)
  /\ \A l \in Launches : WF_vars(Executing /\ RolloutStep(l))
  /\ WF_vars(Executing /\ Worker /\ UNCHANGED <<engineVars, rolloutVars, mode>>)

-----------------------------------------------------------------------------
(***************************************************************************)
(* Properties                                                              *)
(***************************************************************************)

Traces == [round : 1 .. Rounds, rollout : Rollouts,
           attempt : 1 .. mode.retry_limit, call : 1 .. mode.calls]

TypeOK ==
  /\ up \in BOOLEAN /\ flushed \in BOOLEAN
  /\ queue \in Seq(Traces) /\ Len(queue) <= QueueSize
  /\ storing \in Traces \cup {NoTrace}
  /\ tries \in 0 .. StoreAttempts - 1
  /\ stored \subseteq Traces
  /\ mode \in Modes
  /\ phase \in {"pausing", "rolling", "flushing", "collecting", "done", "raised"}
  /\ round \in 0 .. Rounds
  /\ status \in [Launches -> {"none", "waiting", "running", "finished", "raised"}]
  /\ attempt \in [Launches -> 0 .. mode.retry_limit]
  /\ calls \in [Launches -> 0 .. mode.calls]
  /\ read \subseteq Rollouts
  /\ collected \in [Rollouts -> Seq(Traces)]
  /\ results \in Seq([rollout : Rollouts, steps : Seq(Traces)])

(***************************************************************************)
(* The steps of an episode are calls of the attempt it reports: none of an *)
(* earlier attempt, and none of a rollout that an earlier round left       *)
(* running under the same name.  When the agent named any, all are there.  *)
(***************************************************************************)
OwnSteps ==
  \A i \in DOMAIN results :
    LET made == ToSet(CallTraces(Current(results[i].rollout)))
    IN  /\ ToSet(results[i].steps) \subseteq made
        /\ mode.views /\ results[i].steps # <<>> => made \subseteq stored

(***************************************************************************)
(* When the flush was answered, no call of a reported attempt is still on  *)
(* its way to the store, to be missed by the reading of its session.       *)
(***************************************************************************)
FlushedIsSettled ==
  phase \in {"collecting", "done"} /\ flushed =>
    \A r \in Rollouts :
      ToSet(CallTraces(Current(r))) \cap (ToSet(queue) \cup {storing}) = {}

(***************************************************************************)
(* The i-th episode is one of the task of the i-th row, which the rows of  *)
(* the training batch are named by; every rollout has one.                 *)
(***************************************************************************)
EpisodesKeepTheirTask ==
  phase = "done" =>
    /\ {results[i].rollout : i \in Rollouts} = Rollouts
    /\ \A i \in Rollouts : Batch[results[i].rollout] = Batch[i]

(***************************************************************************)
(* execute_tasks returns or raises, also when the rollouts of an earlier   *)
(* round still hold the semaphore and when the proxy is gone.              *)
(***************************************************************************)
ExecuteReturns == <>(phase \in {"done", "raised"})

(***************************************************************************)
(* "This final-step advantage is then broadcast to all previous steps of   *)
(* the trajectory": the step marked as the last is the last call.          *)
(***************************************************************************)
FinalStepIsLast ==
  \A i \in DOMAIN results :
    LET steps == results[i].steps
    IN  \A n \in DOMAIN steps : steps[n].call <= steps[Len(steps)].call

=============================================================================
