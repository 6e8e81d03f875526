# TLA+ models of OpenSearch-VL's reinforcement-learning rollouts

OpenSearch-VL trains a vision-language agent that searches the web and works on
images over many turns. The training loop is the repository's own core: an
agent loop produces a conversation, a workflow turns it into a scored and
partly masked episode, an engine runs hundreds of workflows concurrently, and a
trainer turns the episodes into rows and updates the model. These modules model
that loop, from one call of the model to one update of the actor, with the
result cache that the package's search, visit and crop-and-search tools share,
and rLLM's second engine, which learns from the traces of a proxy. TLC checks them on small instances; TLAPS proves the safety properties
of the agent, the rollout, the masking, the workflow engine, the trainer, the SDK
engine and the search cache for every value of their constants.

Paths below are relative to `src/RL/rllm/`: `vdr/` stands for
`vision_deepresearch_async_workflow/`.

## The system

| Component | State it keeps | Operations | Interacts by |
| --- | --- | --- | --- |
| Agent loop (`vdr/deepresearch_agent.py`) | messages, call budget, counter of bad steps | one round: reply, tool, hint | awaits model server and tools; returns a result |
| Rollout workflow (`vdr/deepresearch_workflow.py`, `rllm/workflows/workflow.py`) | the episode being built | run, convert, reward, judge, fatal step, timeout | awaits the agent, the reward function, the judge; returns an episode or raises |
| Token masking (`_find_fatal_step_index`, `_apply_fatal_step_mask`, `rllm/parser/chat_template_parser.py`) | an index exchanged through `episode.info` | scan, tokenize, cut | workflow writes the index, engine reads it |
| Workflow engine (`rllm/engine/agent_workflow_engine.py`) | queue of workflow instances, futures, mode of the shared rollout engine | start a batch, retry, collect, order | called by the trainer; awaits rollouts |
| Training rows (same file, `transform_results_for_verl`) | none | episodes to rows | result joined to the batch by position |
| Trainer (`rllm/trainer/verl/agent_workflow_trainer.py`) | batch, counters of rejection sampling | generate, sample, pad, advantages, clamp, filter, update | calls engine and workers |
| Tool cache (`vdr/tools/shared.py`) | one lazily opened SQLite connection, a lock to open it, a lock to write | get, set, note of a hit, each with retries | called by `SearchTool`, `VisitTool` and `CropAndSearchTool`; one per process, shared by whatever coroutines run them |
| Search tool (`vdr/tools/search_tool.py`) | none | look up, request with retries, store | a tool an agent may be given; uses the cache |
| SDK engine (`rllm/engine/agent_sdk_engine.py`) | rounds, futures, session names | launch, retry, flush, read sessions, assemble | sessions name the rollouts; asks the proxy to flush; reads the trace store |
| Trace store (`rllm/sdk/tracers/sqlite.py`, `rllm/sdk/store/sqlite_store.py`) | bounded queue, worker, SQLite file | log, store with retries, flush, query | filled behind the answers of the model, read by the engine |
| Model-server clients, gym-style execution engine, other trainers, evaluation, inference (`src/opensearch_vl`) | see `PROJECT.json` | | |

The table of tools that training and evaluation give the agent
(`vdr/deepresearch_tools_async_executor.py:16-26`) registers none of the three
tools that use the cache: its `TextSearchTool` and `WebSearchTool` never call it.
Cache and search tool are modelled as the package offers them, for an agent
whose table has them.

Everything from the agent to the engine runs on one event loop, so two
coroutines interleave only at awaits; the trainer is one driver thread; the
tracer of the SDK has a worker thread in the process of the proxy. What is
hard: rollouts end in any order and are paired with the batch by position; a
timeout may cancel a rollout in any await; a failed rollout must give its
workflow back; several parts count the same thing (rounds, steps, blocks of
tokens, consecutive errors) and must agree; batches shrink by dropping and
filtering and must divide among the workers all the same.

What makes each component correct:

* agent loop: messages alternate, the bad-step counter is the length of the run
  of bad steps the conversation ends with, budget, rounds and messages add up,
  and nothing said is revised;
* workflow: steps correspond to rounds, a cascade the agent gave up on is
  found, an unfinished trajectory is flagged, a masked episode earns nothing,
  and the engine gets one outcome;
* masking: a token is trained on exactly when it was written before the first
  cascade;
* engine: a workflow serves one rollout at a time, none is lost, rollouts run
  in the mode of their call, results line up with the batch, calls end;
* cache and search: the connection in use is never replaced, others are opened
  only when an opener is cancelled, writers take turns
  and no uncommitted row is without an owner, nothing reported as stored is lost,
  and no search waits for a lock for ever;
* SDK engine and trace store: the steps of an episode are those of its own
  attempt, all of them settled before they are read, and episodes stay on the
  rows of their tasks;
* rows and trainer: a row keeps its task, exactly the kept steps are learned,
  a fatal trajectory is never pushed down, batches divide, sampling counts what
  it gathers.

`PROJECT.json` lists all components, also those not modelled, and the hazards
at the lines where they bite.

## Modules

| Module | Models | State and actions |
| --- | --- | --- |
| `ReactAgent` | `MultiTurnReactAgent._run` | variables named as the locals of `_run`; an action is the code between two awaits: `RequestTool`, `ToolReturns`, `Answer`, `Degenerate`, `InvalidFormat`, `CallServerFails` |
| `Positions` | order and selection of rows (`DataProto.select_idxs` of verl) | the operators `Nth` and `At` |
| `FatalSteps` | what `_find_fatal_step_index` returns | operators only |
| `FatalScan` | its loop | `LookAtStep`, `EndOfSteps` |
| `StepMask` | the loop of `_apply_fatal_step_mask` | `LookAtToken`, `Return` |
| `TokenMasking` | extends `FatalScan` and `StepMask`; the row of one trajectory | `Scan`, then `CutFatal`, `KeepSound` or `SingleStep`, then `CutTokens` |
| `DeepResearchWorkflow` | extends `ReactAgent` and `FatalSteps`; `DeepResearchWorkflow.run` and the wrapper of its base class | `AgentRuns`, `Convert`, `RewardReturns`, `JudgeReturns`, `RunFails`, `Timeout` |
| `RolloutContract` | abstract: a rollout comes back once | implemented by `DeepResearchWorkflow` |
| `WorkflowEngine` | `AgentWorkflowEngine` | `ExecuteTasks`, `GetWorkflow`, `RolloutReturns`, `Collect`, `Return` |
| `BatchContract` | abstract: a batch is decided rollout by rollout and returned in order, or raises | implemented by `WorkflowEngine` |
| `ToolCache` | `AsyncCacheDB` and the three functions on it | an action is the code between two awaits: `AcquireWrite`, `AcquireInit`, `Connect`, `SetUp`, `Statement`, `Commit`; `Abandon` is a cancellation, `CacheRestart` a new process |
| `SearchTool` | extends `ToolCache`; `_zhipu_search` | `Start`, `Hit`, `Miss`, `RequestFails`, `Respond`, `SetReturns`, `Cancel`, `Restart`; the note of a hit runs as an actor of its own |
| `TraceStore` | `SqliteTracer` and its worker | `Log`, `Take`, `StoreSucceeds`, `StoreFails`, `Die` |
| `SdkEngine` | extends `TraceStore`; `AgentSdkEngine._execute_tasks` and the rounds around it | `Launch`, `Acquire`, `Call`, `AttemptEnds`, `AttemptFails`, `ListRefused`, `RolloutRaised`, `AllFinished`, `FlushReturns`, `Collect`, `ReadFails`, `Assemble` |
| `TrainingRows` | `transform_results_for_verl` | operators only |
| `WorkflowTrainer` | extends `TrainingRows`; `fit_agent` | `Generate`, `ComputeAdvantages`, `UpdateActor` |

The `MC` modules give small instances, one `.cfg` per run; the modules whose
name ends with `Proofs` hold the theorems. Definitions named
after another one with a suffix (`FlagFirst`, `EndWithoutFinally`, ...) are
plausible bugs; no specification uses them, they are substituted to see that a
property fails.

The contracts connect the layers. `DeepResearchWorkflow!KeepsContract` shows
which outcomes a rollout may come back with (`episode`, `error_text`, `raise`);
those are among the outcomes `WorkflowEngine` is checked with, which also has
`error_dict`, what other workflows of the base class return.
`WorkflowEngine!KeepsContract` is what the trainer relies on: one episode per
rollout, in an order that follows the tasks. `WorkflowTrainer` takes a batch of
episodes in that order and adds no interleaving.

Abstractions. Text is what the code tests for: tags, error markers. An episode
is its error verdicts, reason, fatal index and reward. Tokens of a row are the
steps they belong to; `TokenMasking` says which tokens those are. An advantage is
its sign. Wall-clock and token limits of the agent are not configured by any
launch script and are left out, and so are logging, metrics and image files.
A row of the cache is whether its result was empty. A cancelled rollout leaves
whichever await of the cache it is in, and the statement it had sent may still
take effect; the connection it was opening is opened, and lost (`opened` counts
the connections of a process, `connection` is the one in use). In `SdkEngine` a trace is the name of its session and the number
of the call; calls of one attempt come one after another; what a rollout that
was left behind does after the call of `execute_tasks` returned is left out, as are the
stop of the tracer, its synchronous mode, and the grouping of rows by the trainer.

## Runs

| Run | Bounds | Shows |
| --- | --- | --- |
| `agent_answer` (violation) | 2 calls | the prediction may be cut out of the loop's own hint |
| `masking` | 5 steps, 11 tokens, threshold 3 | only what precedes the first cascade is learned |
| `rollout` | 5 calls, 3 bad steps, 6 replies, 4 tool results | agent and workflow composed: the agent's properties, the episode's, and the contract |
| `rollout_timeout` (violation) | 4 calls | the wrapper raises on a timeout |
| `engine` | 3 rollouts of 2 tasks, 2 workflows, 2 attempts, 2 calls, every outcome | pool, order, modes, contract, and every call ends |
| `engine_text_errors` (violation) | the same, errors as texts | a text under `info["error"]` is never retried |
| `trainer` | 2 tasks with 2 rollouts of 7 kinds (4 under rejection sampling, 2 generations), 3 workers, 2 steps, all modes | rows, masks, clamp, sizes, and what sampling counts |
| `trainer_padding` (violation) | 1 task, 2 rollouts, 4 workers | padding rows keep their tokens |
| `search_cache` | 2 searches of 1 query with their notes, 3 tries, 2 requests, 2 restarts | the connection in use stays and none is opened beside it but for those cancelled searches lost, writers in turn, nothing stored is lost, every search ends |
| `search_stored` (violation) | the same without restarts | only empty results are stored |
| `sdk_engine` | 2 tasks, 1 slot, a queue of 1, 2 tries to store; a retry, a second round or a second call; 3 ways to return and group | steps of an episode, flush, order of the batch, and the call ends |
| `sdk_last_step` (violation) | the same | the steps of a session run backwards |

Why these are enough. Three is the threshold and the limit of bad steps in the
code: four and five calls reach a cascade at the start, after a good step, and
one interrupted by a recovery, and the exhausted budget in every branch. Five
steps and eleven tokens hold a cascade with a step before and after it, with
blocks of unequal length. Three rollouts on two workflows make one wait, and
two tasks of unequal size make the order matter; a second call starts on the
pool the first one left. In the trainer the seven kinds are: dropped, solved,
failed, unfinished, recovered after a cascade, cascade, and cascade from the start; two
tasks with two rollouts have partially solved, solved and failed tasks at once;
three workers make both padding and rounding happen. Two searches of one query
and their notes are four coroutines on the locks, so that one opens the
connection, one waits for it, one writes and one waits to write; they meet on
the same row. Three tries are the code's own; the second restart finds what the
first process left of a write. In the SDK engine one slot makes
a rollout wait for another, a queue of one is full at once, two tries let a
trace be stored although it was reported as failed, and the second round starts while the rollouts
of the first still run. A retry, a second round and a second call are taken one
at a time: each by itself mixes traces that must be kept apart, and all at once
give too many states.

Bounds that the code does not have are `CallLimit` (calls of the engine),
`GenerationLimit` (generations of one step), `RestartLimit` (ends of the
process) and `mode.calls` (model calls of an attempt); they stop a counter, not a behaviour.

Deadlock checking is off: a run ends with `done`, a call limit, or a finished
mask, a trainer that crashed stops, and so does a call of the SDK engine that returned.

### Fairness

`ReactAgent` and `DeepResearchWorkflow` assume weak fairness of their next
steps: calls of the model server, of the tools, of the reward function and of the judge carry
timeouts, and one timeout covers the whole rollout. `WorkflowEngine` assumes
weak fairness of each coroutine that can go on (`GetWorkflow(r)`, an awaited
rollout, `Collect`, `Return`), which is what an event loop gives; that a rollout
comes back is what `RolloutContract` promises. `ExecuteTasks` has no fairness:
nobody has to call the engine. Liveness holds without assumptions on the order
in which waiting rollouts get workflows. `SearchTool` assumes weak fairness of
each search and of each note: statements and requests carry timeouts, and an
`asyncio` lock is handed to a waiter. That a search ends then rests on the
retries being bounded and on every lock being given back. `SdkEngine` assumes weak
fairness of the engine, of each rollout and of the tracer's worker; the proxy
may die, or not. Masking and the trainer are checked for safety only.

### Where the code and its documents disagree

`PROJECT.json` quotes them under `findings`: the prediction taken from a
hint, the timeout that raises an `AttributeError`, error texts that are not
retried, padding that is trained on, search results that are stored only when
there are none, and steps of a session in the order of a query that lists the newest
first. The cache calls itself a single-connection design (`shared.py:156`): a rollout cancelled while it
opens the connection loses it and the next caller opens another, and `OneConnection`
says that this is the only way to a second one. Others are noted as hazards without a property, because no document says
otherwise: a tool that fails with a text without a marker counts as one that
worked; a table that could not be created leaves the process without a cache; and two of
stepwise broadcast mode, reached in the `trainer` run and switched off by the
launch scripts: rounding the last steps down leaves steps whose lookup raises
`KeyError` (`cause = "no_last_step"`), and the mean over a wholly masked last
step is `nan`.

## Proofs

`tlapm` checks, for every value of the constants within the named assumptions:

| Module | Theorems | Argument |
| --- | --- | --- |
| `ReactAgentProofs` | `AgentTypeOK`, `AgentAlternation`, `AgentCascadeStops`, `AgentBudget`, `AgentConversationGrows` | The properties are not inductive: while a tool runs, the counter and the error flag of the last message are out of date. `Suspended` says by how much: what the conversation looked like before the assistant message that waits. That the flag only ever goes up needs `Unflagged`: the message that waits has none yet. |
| `PositionsProofs` | lemmas only | A set of numbers has a least member (`LeastNatural`). The rank of a member grows along a set and takes every value (`RankGrows`, `RankCovers`), so `Nth` is a bijection that keeps the order and `At` keeps exactly the selected rows. `SortedTwice`: sorting by first position moves nothing out of its task's segment. |
| `TokenMaskingProofs` | `FatalScanCorrect`, `FatalScanPrefix`, `StepMaskCorrect`, `MaskingTypes`, `MaskingPartsAreCorrect`, `MaskingLearnsBeforeCascade` | `Scanning`: the counter is the length of the run of errors that ends at `idx`, and no cascade ends before it. Then the first cascade found is the least, and `CHOOSE` has no other choice. `Walking`: the blocks seen are the counter plus the block one is in, and at most the fatal index; the number of blocks grows by one where a block starts (`BlocksGrow`). Composed: while the scan runs the mask is untouched; while the mask is cut the index is the scan's result; at the end the mask is what the cascade leaves. |
| `DeepResearchWorkflowProofs` | `RolloutTypeOK`, `RolloutStepsMatchRounds`, `RolloutCascadeIsFatal`, `RolloutUnfinishedIsFatal`, `RolloutKeptPrefixIsClean`, `RolloutMaskedEarnsNothing`, `RolloutRunsAgent`, `RolloutKeepsContract` | The agent's invariant, plus `Parity`: assistant messages are the odd ones, so the k-th step is message `2 * k - 1`; plus `InPhase`: in each phase the episode is what `StepErrors` makes of the conversation, unscored or with the verdict of the scan. The cascade the agent gave up on is the last `BadStepLimit` steps, which hold `Threshold` errors because `BadStepLimit >= Threshold`. |
| `WorkflowEngineProofs` | `EngineTypeOK`, `EngineExclusive`, `EnginePoolConserved`, `EngineRunsInItsMode`, `EngineResultsAlign`, `EngineKeepsContract`, `EngineRaisesAfterRetries` | `Pool`: the queue holds no workflow twice and none that is held. `Counted`: queued and held workflows number `PoolSize`, so between calls a queue without duplicates holds them all. `Book`: every finished future is in `done` or was awaited, once. `Mode`: the flags follow the call. Results line up because the rollouts of a task are neighbours in the batch (`TaskIdsAssumption`, from `repeat(interleave=True)` in the trainer), so sorting by first position moves no rollout out of its task's segment. |
| `SearchToolProofs` | `Invariance`, `Types`, `ConnectionStays`, `WriterTurns`, `Durability` | `LockInv`: holding a lock is being at one of the awaits under it, and the connection exists as soon as its opener is past `connect`, so that nobody is at `connect` while there is one. `WriteInv`: whoever may have left a row in the transaction still may have (`MayOwn`), until a commit takes it along. `LostInv`: connections opened beside the one in use are no more than cancelled searches, each cancelled once. `DurableInv`: a row of the file is never removed from what the connection sees, so the next commit is harmless, and a write that committed has its row in the file. |
| `SdkEngineProofs` | `SdkEngineInductive`, `SdkEngineTypes`, `EpisodesOwnTheirSteps`, `FlushSettles`, `EpisodesMatchTheirRows` | A rollout left running by an earlier round traces on while a later round reads. `Launched`: a rollout has an attempt from its round on. `Recorded`: every trace in the queue, in the worker's hands or in the store was made by its rollout in this attempt or an earlier one, so a name never anticipates a later attempt. `Reading`: while sessions are read all rollouts of the round have ended, and what was read of one are calls of its attempt that are in the store. A flush is answered when the queue is empty and the worker idle, and since the rollouts of the round have ended nothing of theirs is queued behind it. |
| `WorkflowTrainerProofs` | `TrainerInductive`, `TrainerTypes`, `RowsStayWithTheirTask`, `BatchesDivide`, `KeptStepsAreLearnt`, `FatalStaysUp`, `GatheringCounts`, `SampledStepsArePartial` | See below. |

`EngineKeepsContract` and `RolloutKeepsContract` prove the safety halves of the
refinements: initial states map to initial states and every step to a step of
the contract or a stutter. `RolloutRunsAgent` shows that the composed workflow
implements `ReactAgent!Spec`, so the theorems about the agent hold in it too.
`EngineRaisesAfterRetries` assumes workflows that report errors as
dictionaries; without it the run `engine_text_errors` refutes it.

The trainer. Its batch is concatenated, selected, padded, rounded, weighed,
clamped, filtered and padded again, and each of its properties speaks of the end of that
chain. The invariant says of the batch, at each of the three actions:

* `Fine`: every row is what the transform makes of its episode at its step, but
  for the padding flag, the advantage and the tokens a clamp or a filter took;
* `Spread`: no two rows that are not padding are the same step of a rollout;
* `Covers`, and `CoversKept` in front of the update: every (kept) step of a
  rollout that came back, and under sampling whose task is there, is on a row;
* `Gentle` in front of the update: no row of a fatal episode has a negative
  advantage;
* the counts: what sampling gathered, and that the length divides.

`Sound` puts them together per phase. For each operator of the model there is a
relation that says what it does to the rows and what it keeps (`Fresh`, `Picked`,
`Padded`, `Scored`, `Thinned`, `Chosen`, `MadeWhole`), proved once and composed
in the order the code calls them. The rows of a generation are a
`FlattenSeq` over episodes, a recursive function; `Offsets` numbers where each
episode's rows start, and a least counterexample in place of an induction shows
that every row lies in the part of one episode. In broadcast mode `Covers` is
not kept, because the last steps are rounded down and the rows of their
trajectories stay behind: so `SampledTasks` and the covering half of
`LearnsWhatIsKept` are stated without it, and what is learned is still correct and
learned once in every mode.

The assumptions are the `ASSUME`s of the modules: sizes are positive, the
agent's limit of bad steps is not below the threshold of the scan (both are 3
in the code), task ids of one task are neighbours in the batches of both engines
(`repeat` is called with `interleave=True`, or by its default), options are Booleans, and the searches of a process are finitely many. `IsEpisode` is what
the trainer is given: an episode that ended in `ERROR` has no steps, because
the engine builds it without a trajectory, and one that ended `UNKNOWN` is fatal, which
`RolloutUnfinishedIsFatal` proves of the workflow. `NoTrace` is no trace.

Only model-checked: everything that needs fairness (`CallEnds`, `PoolRefills`,
`SearchReturns`, `ExecuteReturns`, the liveness half of both contracts), because
the prover has no liveness or `ENABLED` reasoning. Every invariant of the passing
runs is proved. What is refuted by a run is not: the six properties of
the runs marked violation. The library's induction theorems take an operator as a parameter,
which the provers cannot instantiate. Inductions over natural numbers are
therefore made by least counterexample; what a fold computes for every
sequence is not stated as a theorem.

## Not modelled, and the plan

The repository holds some 390 thousand lines of code, nearly all of it vendored
frameworks (Megatron-LM, mbridge, verl, the fork used for supervised
fine-tuning), notebooks and tables of data. What is specific to this program is
the loop modelled here, so the modules cover a small share of
the lines of the repository, and will.

Next, in this order:

1. The gym-style execution engine, with its semaphore, timeouts and retries; no
   launch script of this program starts it.
2. The thread pool of the inference pipeline in `src/opensearch_vl`.

Left out of the modelled parts: validation, checkpoints, the critic and the KL terms of
the trainer; `close`, the clean-up of old entries and the batched writes of the
cache, which nothing calls; the other search backend and the visit, crop-and-search
and image tools; rendering of chat templates; the truncation of a row to
`max_response_length` (`agent_workflow_engine.py:574`), which cuts tokens at the
end of a mask. Two guards of the trainer are left out because the launch scripts
leave them off: `mask_truncated_samples` (`agent_workflow_trainer.py:517-520`) and
`critic_warmup` (553). `RoundDown` divides by the workers of the actor (325); they
are taken to be as many as the padding counts, as where there is no critic or
reference group of another size.

Left out for good: model and tool services, prompts and templates, tensor
layout, vendored frameworks, and training backends the launch scripts never
start.
