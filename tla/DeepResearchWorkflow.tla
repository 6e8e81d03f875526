------------------------ MODULE DeepResearchWorkflow ------------------------
(***************************************************************************)
(* One rollout: DeepResearchWorkflow.run under                             *)
(* Workflow.run_with_termination_handling.  The agent loop (ReactAgent)    *)
(* runs to its end; its messages become the steps of an episode; a reward  *)
(* function and a judge score it; a fatal step tells the trainer from      *)
(* which step on tokens are masked.                                        *)
(*                                                                         *)
(* The coroutine is suspended in the agent's awaits, in the reward         *)
(* function or in the judge: only there can the timeout cancel it.         *)
(*                                                                         *)
(* IsStepErrorWithoutFlag, TimeoutAfterReturn, ... are plausible bugs, as  *)
(* in ReactAgent.                                                          *)
(***************************************************************************)
EXTENDS ReactAgent, FatalSteps, FiniteSets

ASSUME LimitsAssumption == BadStepLimit >= Threshold

VARIABLES
  phase,     \* where the coroutine is: "agent", "reward", "judge", "returned", "raised"
  episode

vars == <<agentVars, phase, episode>>

(***************************************************************************)
(* steps holds the error verdict of each step (_is_step_error); fatal is   *)
(* info["fatal_step_index"], absent unless the episode is fatal; masked is *)
(* metrics["masked"]; error is info["error"], a text here and never the    *)
(* dictionary Workflow.postprocess_episode would store.                    *)
(***************************************************************************)
Episode ==
  [termination_reason : {"ENV_DONE", "UNKNOWN", "ERROR"},
   is_correct : BOOLEAN,
   steps : Seq(BOOLEAN),
   fatal : {NoFatalStep} \cup Nat,
   reward : {"zero", "positive"},
   masked : BOOLEAN,
   error : {"none", "text"}]

NoEpisode ==
  [termination_reason |-> "UNKNOWN", is_correct |-> FALSE, steps |-> <<>>,
   fatal |-> NoFatalStep, reward |-> "zero", masked |-> FALSE, error |-> "none"]

ErrorEpisode ==
  [NoEpisode EXCEPT !.termination_reason = "ERROR", !.masked = TRUE, !.error = "text"]

-----------------------------------------------------------------------------
(***************************************************************************)
(* From messages to steps: one step per assistant message.                 *)
(***************************************************************************)

(* The message after the next one. *)
ObservationOneLate(msgs, i) ==
  IF i + 2 <= Len(msgs) THEN msgs[i + 2].failure ELSE "none"

(***************************************************************************)
(* The tool response that follows message i; a format hint is none.        *)
(***************************************************************************)
Observation(msgs, i) ==
  IF /\ i + 1 <= Len(msgs)
     /\ msgs[i + 1].role = "user"
     /\ msgs[i + 1].failure # "format"
    THEN msgs[i + 1].failure
    ELSE "none"

HasErrorMarker(failure) == failure \in {"reported", "marked"}

(* The observation alone: the flags of the agent are lost. *)
IsStepErrorWithoutFlag(msgs, i) == HasErrorMarker(Observation(msgs, i))

IsStepError(msgs, i) == msgs[i].step_error \/ HasErrorMarker(Observation(msgs, i))

AssistantMessages(msgs) == {i \in DOMAIN msgs : msgs[i].role = "assistant"}

(* The message of the k-th step. *)
StepMessage(msgs, k) ==
  CHOOSE i \in AssistantMessages(msgs) :
    Cardinality({j \in AssistantMessages(msgs) : j <= i}) = k

StepErrors(msgs) ==
  [k \in 1 .. Cardinality(AssistantMessages(msgs)) |-> IsStepError(msgs, StepMessage(msgs, k))]

(***************************************************************************)
(* _map_termination_reason: every reason but an answer is UNKNOWN.         *)
(***************************************************************************)
TerminationReason(reason) == IF reason = "answer" THEN "ENV_DONE" ELSE "UNKNOWN"

Converted(correct) ==
  [NoEpisode EXCEPT
     !.termination_reason = TerminationReason(termination),
     !.is_correct = correct,
     !.steps = StepErrors(messages)]

Fatal(e) == FatalStepIndex(e.steps, termination = "answer")

(* The steps in front of the fatal one: how many are kept. *)
KeptSteps(e) == IF e.fatal = NoFatalStep THEN Len(e.steps) ELSE e.fatal

-----------------------------------------------------------------------------

WorkflowInit ==
  /\ Init
  /\ phase = "agent"
  /\ episode = NoEpisode

AgentRuns ==
  /\ phase = "agent"
  /\ AgentStep
  /\ UNCHANGED <<phase, episode>>

(***************************************************************************)
(* Nothing salvageable: the episode is masked as a whole.                  *)
(***************************************************************************)
MaskWithoutReset(e) == [e EXCEPT !.fatal = 0, !.masked = TRUE]
MaskWhole(e) ==
  [e EXCEPT !.termination_reason = "UNKNOWN", !.fatal = 0, !.reward = "zero",
            !.masked = TRUE]

(***************************************************************************)
(* The scored episode: masked, or suspended in the judge.                  *)
(***************************************************************************)
Score(e) ==
  \/ /\ Fatal(e) = 0
     /\ episode' = MaskWhole(e)
     /\ phase' = "returned"
  \/ /\ Fatal(e) # 0
     /\ episode' = e
     /\ phase' = "judge"

(***************************************************************************)
(* The agent's result is converted.  A prediction that is not blank goes   *)
(* to the reward function.                                                 *)
(***************************************************************************)
Convert ==
  /\ phase = "agent"
  /\ pc = "done"
  /\ \E correct \in BOOLEAN :
       /\ correct => prediction \in Sources
       /\ \/ /\ prediction # "blank"
             /\ episode' = Converted(correct)
             /\ phase' = "reward"
          \/ /\ prediction = "blank"
             /\ Score(Converted(correct))
  /\ UNCHANGED agentVars

(***************************************************************************)
(* The reward function gives a verdict, or none (is_correct is None), or   *)
(* raises and is ignored.                                                  *)
(***************************************************************************)
RewardReturns ==
  /\ phase = "reward"
  /\ \E correct \in BOOLEAN : Score([episode EXCEPT !.is_correct = correct])
  /\ UNCHANGED agentVars

(***************************************************************************)
(* The judge gives the query utility of the kept steps, 0 when it fails.   *)
(* The total is r_format * (0.2 * r_query + 0.8 * r_accuracy): it is       *)
(* positive only if some kept step without an error is well formed.        *)
(***************************************************************************)
ScoredSteps(e) == {k \in 1 .. KeptSteps(e) : ~ e.steps[k]}

JudgeReturns ==
  /\ phase = "judge"
  /\ LET e == [episode EXCEPT !.fatal = Fatal(episode)]
     IN  \E reward \in {"zero", "positive"} :
           /\ reward = "positive" => ScoredSteps(e) # {}
           /\ episode' = [e EXCEPT !.reward = reward]
  /\ phase' = "returned"
  /\ UNCHANGED agentVars

(***************************************************************************)
(* Any exception of the run becomes an episode with its text: reading a    *)
(* reply of the model server, or what the reward function returned.        *)
(***************************************************************************)
RunFails ==
  /\ phase = "reward" \/ (phase = "agent" /\ pc = "call_server")
  /\ episode' = ErrorEpisode
  /\ phase' = "returned"
  /\ UNCHANGED agentVars

(***************************************************************************)
(* asyncio.wait_for cancels the run; postprocess_episode then reads        *)
(* self.uid, which DeepResearchWorkflow.reset never sets, and raises.      *)
(***************************************************************************)
TimeoutAfterReturn ==
  /\ phase # "raised"
  /\ phase' = "raised"
  /\ UNCHANGED <<agentVars, episode>>

Timeout ==
  /\ \/ phase = "agent" /\ pc # "done"
     \/ phase \in {"reward", "judge"}
  /\ phase' = "raised"
  /\ UNCHANGED <<agentVars, episode>>

WorkflowNext ==
  \/ AgentRuns \/ Convert \/ RewardReturns \/ JudgeReturns \/ RunFails \/ Timeout

WorkflowSpec == WorkflowInit /\ [][WorkflowNext]_vars

(***************************************************************************)
(* The model server, the tools, the reward function and the judge are      *)
(* called with timeouts of their own, and the await has one over all.      *)
(***************************************************************************)
FairWorkflowSpec == WorkflowSpec /\ WF_vars(WorkflowNext)

-----------------------------------------------------------------------------
(***************************************************************************)
(* Properties                                                              *)
(***************************************************************************)

Whole == phase = "returned" /\ episode.error = "none"

WorkflowTypeOK ==
  /\ TypeOK
  /\ phase \in {"agent", "reward", "judge", "returned", "raised"}
  /\ episode \in Episode
  /\ episode.fatal <= Len(episode.steps)

(***************************************************************************)
(* The steps are the rounds the model answered, in order; a step is an     *)
(* error exactly when the reply was malformed or when its own tool call    *)
(* failed with a marker.                                                   *)
(***************************************************************************)
StepsMatchRounds ==
  Whole =>
    /\ Len(episode.steps) = (IF termination = "error" THEN round - 1 ELSE round)
    /\ \A k \in 1 .. Len(episode.steps) :
         episode.steps[k] <=>
           \/ messages[2 * k - 1].step_error
           \/ 2 * k <= Len(messages) /\ HasErrorMarker(messages[2 * k].failure)

(***************************************************************************)
(* The agent and the workflow count errors separately: when the agent      *)
(* gives up on a cascade, the workflow finds that cascade (or an earlier   *)
(* one) and masks it.                                                      *)
(***************************************************************************)
CascadeIsFatal ==
  Whole /\ termination = "consecutive_step_errors" =>
    episode.fatal \in 0 .. Len(episode.steps) - Threshold

(***************************************************************************)
(* An episode that is not flagged fatal did end with an answer, so that    *)
(* no unfinished trajectory is trained on without the clamp; and ENV_DONE  *)
(* is never an episode with nothing kept.                                  *)
(***************************************************************************)
UnfinishedIsFatal ==
  Whole =>
    /\ episode.fatal = NoFatalStep => termination = "answer"
    /\ episode.termination_reason = "UNKNOWN" => episode.fatal # NoFatalStep
    /\ episode.termination_reason = "ENV_DONE" =>
         /\ episode.fatal # 0
         /\ episode.fatal < Len(episode.steps)

(***************************************************************************)
(* What the trainer learns from holds no cascade, and when it was cut      *)
(* short it does not end with an error.                                    *)
(***************************************************************************)
KeptPrefixIsClean ==
  Whole =>
    /\ \A i \in 0 .. KeptSteps(episode) - Threshold : ~ IsCascade(episode.steps, i)
    /\ episode.fatal \in 1 .. Len(episode.steps) - 1 => ~ episode.steps[episode.fatal]

(***************************************************************************)
(* An episode is masked as a whole exactly when it has nothing to learn    *)
(* from, and then it has no part in a success: no reward, never ENV_DONE.  *)
(***************************************************************************)
MaskedEarnsNothing ==
  phase = "returned" =>
    /\ episode.masked <=> KeptSteps(episode) = 0
    /\ episode.masked =>
         episode.reward = "zero" /\ episode.termination_reason # "ENV_DONE"

(***************************************************************************)
(* The engine's view of the rollout.                                       *)
(***************************************************************************)
Outcome ==
  IF phase = "raised" THEN "raise"
  ELSE IF phase # "returned" THEN "running"
       ELSE IF episode.error = "text" THEN "error_text" ELSE "episode"

Rollout == INSTANCE RolloutContract
             WITH outcome <- Outcome, Outcomes <- {"episode", "error_text", "raise"}

(***************************************************************************)
(* The rollout keeps its contract with the engine.                         *)
(***************************************************************************)
KeepsContract == Rollout!Contract

(***************************************************************************)
(* "Wrapper method around workflow.run that handles termination events,    *)
(* errors, timeouts, and post-processing": the await never raises.         *)
(***************************************************************************)
TimeoutIsHandled == phase # "raised"

=============================================================================
