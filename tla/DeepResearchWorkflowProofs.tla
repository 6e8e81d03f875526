--------------------- MODULE DeepResearchWorkflowProofs ---------------------
(***************************************************************************)
(* One rollout, for every budget, every limit on bad steps not below the   *)
(* threshold, and every set of replies and tool results.                   *)
(*                                                                         *)
(* The agent's own inductive invariant is kept by the rollout around it.   *)
(* It is joined by Parity, which says where the assistant messages are     *)
(* (so that the k-th step is message 2 * k - 1), and by InPhase, which     *)
(* says what the episode is made of wherever the coroutine is suspended.   *)
(***************************************************************************)
EXTENDS DeepResearchWorkflow, ReactAgentProofs, PositionsProofs

OddAssistants(msgs) == \A k \in 1 .. Len(msgs) : msgs[k].role = "assistant" <=> k % 2 = 1

Parity == OddAssistants(messages)

-----------------------------------------------------------------------------

(***************************************************************************)
(* The fatal step is the first cascade, or past the last step when the     *)
(* trajectory just stops, or there is none.                                *)
(***************************************************************************)
LEMMA FatalStepFacts ==
  ASSUME NEW verdicts \in Seq(BOOLEAN), verdicts # <<>>, NEW has_answer \in BOOLEAN
  PROVE  LET f == FatalStepIndex(verdicts, has_answer)
         IN  /\ f \in {NoFatalStep} \cup 0 .. Len(verdicts)
             /\ f = NoFatalStep => has_answer /\ Cascades(verdicts) = {}
             /\ f = Len(verdicts) => ~ has_answer /\ Cascades(verdicts) = {}
             /\ f \in 0 .. Len(verdicts) - 1 => f \in Cascades(verdicts)
             /\ \A i \in Cascades(verdicts) : f <= i /\ f # NoFatalStep
<1>1. Len(verdicts) \in Nat
  OBVIOUS
<1>2. ASSUME NEW i \in Cascades(verdicts) PROVE i \in 0 .. Len(verdicts) - 1
  BY <1>1, ThresholdAssumption DEF Cascades, IsCascade
<1>3. CASE Cascades(verdicts) = {}
  BY <1>1, <1>3 DEF FatalStepIndex, NoFatalStep
<1>4. CASE Cascades(verdicts) # {}
  <2>1. Cascades(verdicts) \in SUBSET Nat
    BY DEF Cascades
  <2>2. /\ FirstCascade(verdicts) \in Cascades(verdicts)
        /\ \A i \in Cascades(verdicts) : FirstCascade(verdicts) <= i
    BY <1>4, <2>1, MinIsLeast DEF FirstCascade
  <2>. QED BY <1>1, <1>2, <1>4, <2>2 DEF FatalStepIndex, NoFatalStep
<1>. QED BY <1>3, <1>4

-----------------------------------------------------------------------------
(***************************************************************************)
(* The assistant messages are the odd ones.                                *)
(***************************************************************************)

(* Appending a message in its turn keeps the assistant messages odd. *)
LEMMA AppendParity ==
  ASSUME NEW msgs \in Seq(Message), NEW m \in Message, OddAssistants(msgs),
         m.role = "assistant" <=> (Len(msgs) + 1) % 2 = 1
  PROVE  OddAssistants(Append(msgs, m))
<1>. DEFINE new == Append(msgs, m)
<1>1. /\ Len(new) = Len(msgs) + 1 /\ Len(msgs) \in Nat
      /\ \A k \in 1 .. Len(msgs) : new[k] = msgs[k]
      /\ new[Len(msgs) + 1] = m
  BY AppendMessage
<1>. HIDE DEF new
<1>2. ASSUME NEW k \in 1 .. Len(new) PROVE new[k].role = "assistant" <=> k % 2 = 1
  <2>1. CASE k \in 1 .. Len(msgs)
    BY <1>1, <2>1 DEF OddAssistants
  <2>2. CASE k = Len(msgs) + 1
    BY <1>1, <2>2
  <2>. QED BY <1>1, <2>1, <2>2
<1>3. OddAssistants(new)
  BY <1>2 DEF OddAssistants
<1>. QED BY <1>3 DEF new

(* What the loop makes of a reply is an assistant message. *)
LEMMA ReplyMessage ==
  ASSUME NEW reply \in Replies, NEW e \in BOOLEAN
  PROVE  Assistant(e, reply.tag) \in Message /\ Assistant(e, reply.tag).role = "assistant"
BY MessageTypes, RepliesAssumption DEF Assistant, Reply

(***************************************************************************)
(* A step of the agent keeps the parity.                                   *)
(***************************************************************************)
LEMMA ParityStep ==
  ASSUME IInv, Parity, AgentStep
  PROVE  Parity'
<1>1. messages \in Seq(Message) /\ round \in Nat /\ OddAssistants(messages)
  BY MaxLLMCallsAssumption DEF IInv, TypeOK, Parity
<1>2. CASE CallServerFails
  BY <1>2 DEF CallServerFails, Parity
<1>3. ASSUME NEW reply \in Replies, RequestTool(reply) \/ Answer(reply) \/ Degenerate(reply)
      PROVE  Parity'
  <2>1. PICK e \in BOOLEAN : messages' = Append(messages, Assistant(e, reply.tag))
    BY <1>3 DEF RequestTool, Answer, Degenerate
  <2>2. (Len(messages) + 1) % 2 = 1
    <3>1. Len(messages) = 2 * round
      BY <1>3 DEF RequestTool, Answer, Degenerate, StartRound, IInv, Suspended
    <3>. QED BY <1>1, <3>1
  <2>3. OddAssistants(Append(messages, Assistant(e, reply.tag)))
    BY <1>1, <2>2, ReplyMessage, AppendParity
  <2>. QED BY <2>1, <2>3 DEF Parity
<1>4. ASSUME NEW reply \in Replies, InvalidFormat(reply)
      PROVE  Parity'
  <2>. DEFINE said == Append(messages, Assistant(TRUE, reply.tag))
  <2>1. messages' = Append(said, FormatHint)
    BY <1>4 DEF InvalidFormat
  <2>2. (Len(messages) + 1) % 2 = 1 /\ (Len(messages) + 2) % 2 # 1
    <3>1. Len(messages) = 2 * round
      BY <1>4 DEF InvalidFormat, StartRound, IInv, Suspended
    <3>. QED BY <1>1, <3>1
  <2>3. OddAssistants(said) /\ said \in Seq(Message) /\ Len(said) = Len(messages) + 1
    BY <1>1, <2>2, ReplyMessage, AppendParity, AppendMessage
  <2>4. (Len(said) + 1) % 2 # 1
    BY <1>1, <2>2, <2>3
  <2>5. FormatHint \in Message /\ FormatHint.role # "assistant"
    BY MessageTypes DEF FormatHint
  <2>. HIDE DEF said
  <2>6. OddAssistants(Append(said, FormatHint))
    BY <2>3, <2>4, <2>5, AppendParity
  <2>. QED BY <2>1, <2>6 DEF Parity
<1>5. ASSUME NEW result \in ToolResults, ToolReturns(result)
      PROVE  Parity'
  <2>. DEFINE e == result.failure = "reported"
              flagged == FlagLast(messages, e)
  <2>1. messages' = Append(flagged, ToolResponse(result))
    BY <1>5 DEF ToolReturns
  <2>2. Len(messages) = 2 * round - 1 /\ round > 0
    BY <1>5 DEF ToolReturns, IInv, Suspended
  <2>3. messages[Len(messages)] \in Message
    BY <1>1, <2>2
  <2>4. [messages[Len(messages)] EXCEPT !.step_error = e] \in Message
    BY <2>3 DEF Message
  <2>5. flagged \in Seq(Message) /\ Len(flagged) = Len(messages)
    BY <1>1, <2>2, <2>4 DEF FlagLast
  <2>6. \A k \in 1 .. Len(messages) : flagged[k].role = messages[k].role
    BY <1>1, <2>2, <2>3 DEF FlagLast, Message
  <2>7. OddAssistants(flagged)
    BY <1>1, <2>5, <2>6 DEF OddAssistants
  <2>8. (Len(flagged) + 1) % 2 # 1
    BY <1>1, <2>2, <2>5
  <2>9. ToolResponse(result) \in Message /\ ToolResponse(result).role # "assistant"
    BY MessageTypes DEF ToolResponse
  <2>. HIDE DEF flagged
  <2>10. OddAssistants(Append(flagged, ToolResponse(result)))
    BY <2>5, <2>7, <2>8, <2>9, AppendParity
  <2>. QED BY <2>1, <2>10 DEF Parity
<1>. QED BY <1>2, <1>3, <1>4, <1>5 DEF AgentStep

-----------------------------------------------------------------------------
(***************************************************************************)
(* The steps of an episode.                                                *)
(***************************************************************************)

(***************************************************************************)
(* There are m odd numbers below 2 * m.                                    *)
(***************************************************************************)
LEMMA OddNumbers ==
  ASSUME NEW m \in Nat
  PROVE  /\ IsFiniteSet({2 * k - 1 : k \in 1 .. m})
         /\ Cardinality({2 * k - 1 : k \in 1 .. m}) = m
<1>. DEFINE S == {2 * k - 1 : k \in 1 .. m}
            f == [k \in 1 .. m |-> 2 * k - 1]
<1>1. f \in Bijection(1 .. m, S)
  <2>1. f \in [1 .. m -> S]
    OBVIOUS
  <2>2. \A a, b \in 1 .. m : f[a] = f[b] => a = b
    OBVIOUS
  <2>3. \A s \in S : \E k \in 1 .. m : f[k] = s
    OBVIOUS
  <2>. QED BY <2>1, <2>2, <2>3 DEF Bijection, Injection, Surjection, IsInjective
<1>2. IsFiniteSet(1 .. m) /\ Cardinality(1 .. m) = m
  BY FS_Interval
<1>. QED BY <1>1, <1>2, FS_Bijection DEF ExistsBijection

(***************************************************************************)
(* The k-th step is the one of message 2 * k - 1.                          *)
(***************************************************************************)
LEMMA StepPositions ==
  ASSUME NEW msgs \in Seq(Message), OddAssistants(msgs),
         NEW n \in Nat, Len(msgs) \in {2 * n - 1, 2 * n}
  PROVE  /\ Cardinality(AssistantMessages(msgs)) = n
         /\ \A k \in 1 .. n : StepMessage(msgs, k) = 2 * k - 1
<1>. DEFINE Odd(m) == {2 * k - 1 : k \in 1 .. m}
<1>1. AssistantMessages(msgs) = Odd(n)
  <2>1. ASSUME NEW i \in 1 .. Len(msgs), i % 2 = 1
        PROVE  i \in Odd(n)
    <3>1. i = 2 * ((i + 1) \div 2) - 1 /\ (i + 1) \div 2 \in 1 .. n
      BY <2>1
    <3>. QED BY <3>1
  <2>2. ASSUME NEW i \in Odd(n)
        PROVE  i \in 1 .. Len(msgs) /\ i % 2 = 1
    OBVIOUS
  <2>3. \A i : i \in AssistantMessages(msgs) <=> i \in 1 .. Len(msgs) /\ i % 2 = 1
    BY DEF AssistantMessages, OddAssistants
  <2>. HIDE DEF Odd
  <2>4. \A i : i \in AssistantMessages(msgs) <=> i \in Odd(n)
    BY <2>1, <2>2, <2>3
  <2>. QED BY <2>4
<1>2. Cardinality(AssistantMessages(msgs)) = n
  BY <1>1, OddNumbers
<1>3. ASSUME NEW k \in 1 .. n
      PROVE  {j \in AssistantMessages(msgs) : j <= 2 * k - 1} = Odd(k)
  <2>1. k \in Nat /\ k <= n
    OBVIOUS
  <2>2. ASSUME NEW j \in Odd(n), j <= 2 * k - 1
        PROVE  j \in Odd(k)
    <3>1. PICK l \in 1 .. n : j = 2 * l - 1
      OBVIOUS
    <3>2. l \in 1 .. k
      BY <2>1, <2>2, <3>1
    <3>. QED BY <3>1, <3>2
  <2>3. ASSUME NEW j \in Odd(k)
        PROVE  j \in Odd(n) /\ j <= 2 * k - 1
    <3>1. PICK l \in 1 .. k : j = 2 * l - 1
      OBVIOUS
    <3>2. l \in 1 .. n /\ 2 * l - 1 <= 2 * k - 1
      BY <2>1, <3>1
    <3>. QED BY <3>1, <3>2
  <2>. HIDE DEF Odd
  <2>. QED BY <1>1, <2>2, <2>3
<1>4. ASSUME NEW k \in 1 .. n
      PROVE  Cardinality({j \in AssistantMessages(msgs) : j <= 2 * k - 1}) = k
  <2>1. k \in Nat
    OBVIOUS
  <2>2. Cardinality(Odd(k)) = k
    BY <2>1, OddNumbers
  <2>. HIDE DEF Odd
  <2>. QED BY <1>3, <2>2
<1>5. ASSUME NEW k \in 1 .. n
      PROVE  StepMessage(msgs, k) = 2 * k - 1
  <2>. DEFINE Is(i) == Cardinality({j \in AssistantMessages(msgs) : j <= i}) = k
  <2>1. 2 * k - 1 \in AssistantMessages(msgs) /\ Is(2 * k - 1)
    BY <1>1, <1>4
  <2>2. ASSUME NEW i \in AssistantMessages(msgs), Is(i)
        PROVE  i = 2 * k - 1
    <3>1. PICK l \in 1 .. n : i = 2 * l - 1
      BY <1>1
    <3>. QED BY <1>4, <2>2, <3>1
  <2>. QED BY <2>1, <2>2 DEF StepMessage
<1>. QED BY <1>2, <1>5

(***************************************************************************)
(* The rounds the model answered, and the error verdicts on them.          *)
(***************************************************************************)
Answered == IF termination = "error" THEN round - 1 ELSE round

Steps == StepErrors(messages)

(* An episode has one step per answered round, each with its own verdict. *)
LEMMA StepFacts ==
  ASSUME IInv, Parity
  PROVE  /\ Answered \in Nat /\ Len(messages) \in {2 * Answered - 1, 2 * Answered}
         /\ Steps \in Seq(BOOLEAN) /\ Len(Steps) = Answered
         /\ \A k \in 1 .. Answered : Steps[k] = IsStepError(messages, 2 * k - 1)
<1>1. messages \in Seq(Message) /\ round \in Nat /\ OddAssistants(messages)
  BY MaxLLMCallsAssumption DEF IInv, TypeOK, Parity
<1>2. Answered \in Nat /\ Len(messages) \in {2 * Answered - 1, 2 * Answered}
  <2>1. Len(messages) \in {2 * Answered - 1, 2 * Answered}
    BY DEF IInv, BudgetAccounting, Answered
  <2>2. Answered \in Int /\ Len(messages) \in Nat
    BY <1>1 DEF Answered
  <2>. QED BY <2>1, <2>2
<1>3. /\ Cardinality(AssistantMessages(messages)) = Answered
      /\ \A k \in 1 .. Answered : StepMessage(messages, k) = 2 * k - 1
  BY <1>1, <1>2, StepPositions
<1>4. \A k \in 1 .. Answered : IsStepError(messages, 2 * k - 1) \in BOOLEAN
  BY DEF IsStepError
<1>5. Steps = [k \in 1 .. Answered |-> IsStepError(messages, 2 * k - 1)]
  BY <1>3 DEF Steps, StepErrors
<1>. QED BY <1>2, <1>4, <1>5

-----------------------------------------------------------------------------
(***************************************************************************)
(* The inductive invariant.                                                *)
(***************************************************************************)

Verdict == FatalStepIndex(Steps, termination = "answer")

EpisodeTypeOK ==
  /\ episode \in Episode
  /\ episode.fatal <= Len(episode.steps)

(***************************************************************************)
(* The episode as the conversion leaves it, and as it is returned.         *)
(***************************************************************************)
Unscored ==
  /\ pc = "done"
  /\ episode.error = "none" /\ episode.steps = Steps
  /\ episode.fatal = NoFatalStep /\ episode.reward = "zero" /\ ~episode.masked
  /\ episode.termination_reason = TerminationReason(termination)

Scored ==
  /\ pc = "done"
  /\ episode.error = "none" /\ episode.steps = Steps
  /\ episode.fatal = Verdict
  /\ episode.masked <=> Verdict = 0
  /\ episode.masked => episode.reward = "zero" /\ episode.termination_reason = "UNKNOWN"
  /\ ~episode.masked => episode.termination_reason = TerminationReason(termination)

InPhase ==
  /\ phase \in {"agent", "reward", "judge", "returned", "raised"}
  /\ phase = "agent" => episode = NoEpisode
  /\ phase \in {"reward", "judge"} => Unscored
  /\ phase = "judge" => Verdict # 0
  /\ phase = "returned" => episode = ErrorEpisode \/ Scored

WorkflowInv == IInv /\ Parity /\ EpisodeTypeOK /\ InPhase

-----------------------------------------------------------------------------

(* The episodes that do not depend on the conversation are well formed. *)
LEMMA FixedEpisodes ==
  /\ NoEpisode \in Episode /\ NoEpisode.fatal <= Len(NoEpisode.steps)
  /\ ErrorEpisode \in Episode /\ ErrorEpisode.fatal <= Len(ErrorEpisode.steps)
  /\ ErrorEpisode.error = "text" /\ ErrorEpisode.masked /\ ErrorEpisode.reward = "zero"
  /\ ErrorEpisode.termination_reason = "ERROR" /\ ErrorEpisode.steps = <<>>
  /\ ErrorEpisode.fatal = NoFatalStep
<1>1. <<>> \in Seq(BOOLEAN) /\ Len(<<>>) = 0
  OBVIOUS
<1>2. NoEpisode \in Episode /\ NoEpisode.fatal <= Len(NoEpisode.steps)
  BY <1>1 DEF NoEpisode, Episode, NoFatalStep
<1>3. NoEpisode.steps = <<>> /\ NoEpisode.fatal = NoFatalStep /\ NoEpisode.reward = "zero"
  BY DEF NoEpisode
<1>. HIDE DEF NoEpisode
<1>4. ErrorEpisode \in Episode
  BY <1>2 DEF ErrorEpisode, Episode
<1>5. /\ ErrorEpisode.error = "text" /\ ErrorEpisode.masked
      /\ ErrorEpisode.termination_reason = "ERROR" /\ ErrorEpisode.reward = "zero"
      /\ ErrorEpisode.steps = <<>> /\ ErrorEpisode.fatal = NoFatalStep
  BY <1>2, <1>3 DEF ErrorEpisode, Episode
<1>. QED BY <1>1, <1>2, <1>4, <1>5 DEF NoFatalStep

(* A rollout that has not begun satisfies the invariant. *)
LEMMA WorkflowInitInv == WorkflowInit => WorkflowInv
<1>. SUFFICES ASSUME WorkflowInit PROVE WorkflowInv
  OBVIOUS
<1>1. IInv
  BY InitInv DEF WorkflowInit
<1>2. Parity
  BY DEF WorkflowInit, Init, Parity, OddAssistants
<1>3. EpisodeTypeOK /\ InPhase
  BY FixedEpisodes DEF WorkflowInit, EpisodeTypeOK, InPhase
<1>. QED BY <1>1, <1>2, <1>3 DEF WorkflowInv

(***************************************************************************)
(* Steps of the workflow leave the agent alone.                            *)
(***************************************************************************)
LEMMA AgentKept ==
  ASSUME WorkflowInv, UNCHANGED agentVars
  PROVE  /\ IInv' /\ Parity'
         /\ Steps' = Steps /\ Verdict' = Verdict /\ Answered' = Answered
         /\ UNCHANGED <<pc, termination, messages>>
<1>1. IInv'
  BY StepInv DEF WorkflowInv
<1>. QED BY <1>1 DEF WorkflowInv, agentVars, Parity, Steps, Verdict, Answered

(* The verdict of the scan is a step of the episode, or none. *)
LEMMA VerdictType ==
  ASSUME WorkflowInv
  PROVE  /\ Steps \in Seq(BOOLEAN)
         /\ Verdict \in {NoFatalStep} \cup 0 .. Len(Steps)
<1>1. Steps \in Seq(BOOLEAN)
  BY StepFacts DEF WorkflowInv
<1>2. CASE Steps = <<>>
  BY <1>1, <1>2 DEF Verdict, FatalStepIndex
<1>3. CASE Steps # <<>>
  BY <1>1, <1>3, FatalStepFacts DEF Verdict
<1>. QED BY <1>1, <1>2, <1>3

(***************************************************************************)
(* An unscored episode, whichever way it was made, is scored in the same   *)
(* way.                                                                    *)
(***************************************************************************)
IsUnscored(e) ==
  /\ e \in Episode
  /\ e.error = "none" /\ e.steps = Steps
  /\ e.fatal = NoFatalStep /\ e.reward = "zero" /\ ~e.masked
  /\ e.termination_reason = TerminationReason(termination)

(* Scoring masks an episode as a whole or leaves it to the judge. *)
LEMMA ScoreStep ==
  ASSUME WorkflowInv, pc = "done", UNCHANGED agentVars, NEW e, IsUnscored(e), Score(e)
  PROVE  WorkflowInv'
<1>1. /\ IInv' /\ Parity' /\ Steps' = Steps /\ Verdict' = Verdict
      /\ UNCHANGED <<pc, termination>>
  BY AgentKept
<1>2. Steps \in Seq(BOOLEAN) /\ Len(Steps) \in Nat
  BY VerdictType
<1>3. Fatal(e) = Verdict
  BY DEF IsUnscored, Fatal, Verdict
<1>4. CASE Fatal(e) = 0 /\ episode' = MaskWhole(e) /\ phase' = "returned"
  <2>1. e \in Episode /\ e.steps = Steps
    BY DEF IsUnscored
  <2>2. /\ MaskWhole(e) \in Episode
        /\ MaskWhole(e).fatal = 0 /\ MaskWhole(e).steps = Steps
    BY <2>1 DEF MaskWhole, Episode
  <2>3. EpisodeTypeOK'
    BY <1>2, <1>4, <2>2 DEF EpisodeTypeOK
  <2>4. Scored'
    BY <1>1, <1>3, <1>4 DEF Scored, IsUnscored, MaskWhole, Episode
  <2>. QED BY <1>1, <1>4, <2>3, <2>4 DEF WorkflowInv, InPhase
<1>5. CASE Fatal(e) # 0 /\ episode' = e /\ phase' = "judge"
  <2>1. EpisodeTypeOK'
    BY <1>2, <1>5 DEF EpisodeTypeOK, IsUnscored, NoFatalStep
  <2>2. Unscored'
    BY <1>1, <1>5 DEF Unscored, IsUnscored
  <2>. QED BY <1>1, <1>3, <1>5, <2>1, <2>2 DEF WorkflowInv, InPhase
<1>. QED BY <1>4, <1>5 DEF Score

(* The conversion leaves the episode unscored, or scores a blank answer. *)
LEMMA ConvertStep ==
  ASSUME WorkflowInv, Convert
  PROVE  WorkflowInv'
<1>1. pc = "done" /\ UNCHANGED agentVars
  BY DEF Convert
<1>2. PICK correct \in BOOLEAN :
        \/ episode' = Converted(correct) /\ phase' = "reward"
        \/ Score(Converted(correct))
  BY DEF Convert
<1>3. IsUnscored(Converted(correct))
  <2>1. Steps \in Seq(BOOLEAN)
    BY VerdictType
  <2>. QED BY <2>1 DEF IsUnscored, Converted, NoEpisode, Episode, TerminationReason, NoFatalStep, Steps
<1>4. CASE Score(Converted(correct))
  BY <1>1, <1>3, <1>4, ScoreStep
<1>5. CASE episode' = Converted(correct) /\ phase' = "reward"
  <2>1. IInv' /\ Parity' /\ Steps' = Steps /\ UNCHANGED <<pc, termination>>
    BY <1>1, AgentKept
  <2>2. Len(Steps) \in Nat
    BY VerdictType
  <2>3. EpisodeTypeOK' /\ Unscored'
    BY <1>1, <1>3, <1>5, <2>1, <2>2 DEF IsUnscored, EpisodeTypeOK, Unscored, NoFatalStep
  <2>. QED BY <1>5, <2>1, <2>3 DEF WorkflowInv, InPhase
<1>. QED BY <1>2, <1>4, <1>5

(* A verdict of the reward function, or none: the episode is scored. *)
LEMMA RewardReturnsStep ==
  ASSUME WorkflowInv, RewardReturns
  PROVE  WorkflowInv'
<1>1. Unscored /\ episode \in Episode /\ UNCHANGED agentVars
  BY DEF RewardReturns, WorkflowInv, InPhase, EpisodeTypeOK
<1>2. PICK correct \in BOOLEAN : Score([episode EXCEPT !.is_correct = correct])
  BY DEF RewardReturns
<1>3. IsUnscored([episode EXCEPT !.is_correct = correct])
  BY <1>1 DEF IsUnscored, Unscored, Episode
<1>. QED BY <1>1, <1>2, <1>3, ScoreStep DEF Unscored

(* The return of the judge fixes the reward and the fatal step. *)
LEMMA JudgeReturnsStep ==
  ASSUME WorkflowInv, JudgeReturns
  PROVE  WorkflowInv'
<1>1. Unscored /\ Verdict # 0 /\ episode \in Episode /\ UNCHANGED agentVars
  BY DEF JudgeReturns, WorkflowInv, InPhase, EpisodeTypeOK
<1>2. IInv' /\ Parity' /\ Steps' = Steps /\ Verdict' = Verdict /\ UNCHANGED <<pc, termination>>
  BY <1>1, AgentKept
<1>3. Fatal(episode) = Verdict
  BY <1>1 DEF Unscored, Fatal, Verdict
<1>4. PICK reward \in {"zero", "positive"} :
        episode' = [[episode EXCEPT !.fatal = Verdict] EXCEPT !.reward = reward]
  BY <1>3 DEF JudgeReturns
<1>5. Verdict \in {NoFatalStep} \cup Nat /\ Verdict <= Len(Steps)
  <2>1. Len(Steps) \in Nat
    BY VerdictType
  <2>. QED BY <2>1, VerdictType DEF NoFatalStep
<1>6. EpisodeTypeOK' /\ Scored'
  BY <1>1, <1>2, <1>4, <1>5 DEF EpisodeTypeOK, Scored, Unscored, Episode
<1>. QED BY <1>2, <1>6 DEF JudgeReturns, WorkflowInv, InPhase

(***************************************************************************)
(* The invariant is inductive.                                             *)
(***************************************************************************)
LEMMA WorkflowStepInv == WorkflowInv /\ [WorkflowNext]_vars => WorkflowInv'
<1>. SUFFICES ASSUME WorkflowInv, [WorkflowNext]_vars PROVE WorkflowInv'
  OBVIOUS
<1>1. CASE AgentRuns
  <2>1. IInv'
    BY <1>1, StepInv DEF AgentRuns, Next, WorkflowInv
  <2>2. Parity'
    BY <1>1, ParityStep DEF AgentRuns, WorkflowInv
  <2>. QED BY <1>1, <2>1, <2>2 DEF AgentRuns, WorkflowInv, EpisodeTypeOK, InPhase
<1>2. CASE RunFails
  <2>1. IInv' /\ Parity'
    BY <1>2, AgentKept DEF RunFails
  <2>. QED BY <1>2, <2>1, FixedEpisodes DEF RunFails, WorkflowInv, EpisodeTypeOK, InPhase
<1>3. CASE Timeout
  <2>1. IInv' /\ Parity'
    BY <1>3, AgentKept DEF Timeout
  <2>. QED BY <1>3, <2>1 DEF Timeout, WorkflowInv, EpisodeTypeOK, InPhase
<1>4. CASE UNCHANGED vars
  <2>1. /\ IInv' /\ Parity' /\ Steps' = Steps /\ Verdict' = Verdict
        /\ UNCHANGED <<pc, termination>>
    BY <1>4, AgentKept DEF vars
  <2>. QED BY <1>4, <2>1 DEF vars, WorkflowInv, EpisodeTypeOK, InPhase, Unscored, Scored
<1>. QED BY <1>1, <1>2, <1>3, <1>4, ConvertStep, RewardReturnsStep, JudgeReturnsStep DEF WorkflowNext

-----------------------------------------------------------------------------
(***************************************************************************)
(* The properties.                                                         *)
(***************************************************************************)

(***************************************************************************)
(* Every rollout keeps the inductive invariant.                            *)
(***************************************************************************)
THEOREM RolloutInductive == WorkflowSpec => []WorkflowInv
BY WorkflowInitInv, WorkflowStepInv, PTL DEF WorkflowSpec

(***************************************************************************)
(* Every variable of the rollout keeps its type, and the fatal step of an  *)
(* episode is at most one past its steps.                                  *)
(***************************************************************************)
THEOREM RolloutTypeOK == WorkflowSpec => []WorkflowTypeOK
<1>1. WorkflowInv => WorkflowTypeOK
  BY DEF WorkflowInv, IInv, EpisodeTypeOK, InPhase, WorkflowTypeOK
<1>. QED BY <1>1, RolloutInductive, PTL

(***************************************************************************)
(* What is known of an episode that was returned whole.                    *)
(***************************************************************************)
LEMMA WholeFacts ==
  ASSUME WorkflowInv, Whole
  PROVE  /\ IInv /\ Parity /\ Scored /\ episode \in Episode
         /\ episode.steps \in Seq(BOOLEAN) /\ Len(episode.steps) \in Nat
         /\ episode.steps = Steps /\ Len(Steps) = Answered
<1>1. Scored
  BY FixedEpisodes DEF WorkflowInv, InPhase, Whole
<1>. QED BY <1>1, StepFacts DEF WorkflowInv, Scored, EpisodeTypeOK

(***************************************************************************)
(* A step of the episode is a round, and its verdict is that of its own    *)
(* reply and its own tool call, for every conversation the agent can have. *)
(***************************************************************************)
THEOREM RolloutStepsMatchRounds == WorkflowSpec => []StepsMatchRounds
<1>1. ASSUME WorkflowInv, Whole
      PROVE  /\ Len(episode.steps) = Answered
             /\ \A k \in 1 .. Len(episode.steps) :
                  episode.steps[k] <=>
                    \/ messages[2 * k - 1].step_error
                    \/ 2 * k <= Len(messages) /\ HasErrorMarker(messages[2 * k].failure)
  <2>1. /\ Parity /\ Answered \in Nat /\ episode.steps = Steps /\ Len(Steps) = Answered
        /\ Len(messages) \in {2 * Answered - 1, 2 * Answered}
        /\ \A k \in 1 .. Answered : Steps[k] = IsStepError(messages, 2 * k - 1)
    BY <1>1, WholeFacts, StepFacts
  <2>2. messages \in Seq(Message)
    BY <1>1 DEF WorkflowInv, IInv, TypeOK
  <2>3. ASSUME NEW k \in 1 .. Answered
        PROVE  HasErrorMarker(Observation(messages, 2 * k - 1)) <=>
                 2 * k <= Len(messages) /\ HasErrorMarker(messages[2 * k].failure)
    <3>1. CASE 2 * k <= Len(messages)
      <4>1. 2 * k \in 1 .. Len(messages) /\ (2 * k) % 2 # 1 /\ 2 * k - 1 + 1 = 2 * k
        BY <2>1, <2>2, <3>1
      <4>2. messages[2 * k].role = "user"
        <5>1. messages[2 * k].role # "assistant"
          BY <2>1, <4>1 DEF Parity, OddAssistants
        <5>2. messages[2 * k] \in Message
          BY <2>2, <4>1
        <5>. QED BY <5>1, <5>2 DEF Message
      <4>. QED BY <3>1, <4>1, <4>2 DEF Observation, HasErrorMarker
    <3>2. CASE ~(2 * k <= Len(messages))
      <4>1. ~(2 * k - 1 + 1 <= Len(messages))
        BY <2>1, <2>2, <3>2
      <4>. QED BY <3>2, <4>1 DEF Observation, HasErrorMarker
    <3>. QED BY <3>1, <3>2
  <2>. QED BY <2>1, <2>3 DEF IsStepError
<1>2. WorkflowInv => StepsMatchRounds
  BY <1>1 DEF StepsMatchRounds, Answered
<1>. QED BY <1>2, RolloutInductive, PTL

(***************************************************************************)
(* When the agent gives up on a cascade, the workflow finds it or an       *)
(* earlier one, as long as the agent's limit is not below the threshold.   *)
(***************************************************************************)
THEOREM RolloutCascadeIsFatal == WorkflowSpec => []CascadeIsFatal
<1>1. ASSUME WorkflowInv, Whole, termination = "consecutive_step_errors"
      PROVE  episode.fatal \in 0 .. Len(episode.steps) - Threshold
  <2>. DEFINE n == Answered
              i == n - Threshold
  <2>1. /\ IInv /\ n \in Nat /\ Len(messages) \in {2 * n - 1, 2 * n}
        /\ Steps \in Seq(BOOLEAN) /\ Len(Steps) = n
        /\ \A k \in 1 .. n : Steps[k] = IsStepError(messages, 2 * k - 1)
        /\ Parity /\ episode.fatal = Verdict /\ episode.steps = Steps
    BY <1>1, WholeFacts, StepFacts DEF Scored
  <2>2. EndsWithBadSteps(messages, Len(messages), BadStepLimit)
    BY <1>1, <2>1 DEF IInv, CascadeStops
  <2>3. /\ Threshold \in Nat \ {0} /\ BadStepLimit \in Nat /\ BadStepLimit >= Threshold
        /\ messages \in Seq(Message)
    BY <2>1, ThresholdAssumption, BadStepLimitAssumption, LimitsAssumption DEF IInv, TypeOK
  <2>4. i \in 0 .. Len(Steps)
    BY <2>1, <2>2, <2>3 DEF EndsWithBadSteps
  <2>5. ASSUME NEW k \in i + 1 .. i + Threshold
        PROVE  Steps[k]
    <3>1. k \in 1 .. n /\ 2 * k - 1 \in 1 .. Len(messages)
      BY <2>1, <2>3, <2>4
    <3>2. 2 * k - 1 > Len(messages) - 2 * BadStepLimit /\ (2 * k - 1) % 2 = 1
      BY <2>1, <2>3, <3>1
    <3>3. messages[2 * k - 1].role = "assistant"
      BY <2>1, <3>1, <3>2 DEF Parity, OddAssistants
    <3>4. messages[2 * k - 1].step_error
      BY <2>2, <3>1, <3>2, <3>3 DEF EndsWithBadSteps
    <3>. QED BY <2>1, <3>1, <3>4 DEF IsStepError
  <2>6. i \in Cascades(Steps)
    BY <2>1, <2>3, <2>4, <2>5 DEF Cascades, IsCascade
  <2>7. Steps # <<>>
    BY <2>1, <2>3, <2>4
  <2>8. Verdict \in 0 .. Len(Steps) /\ Verdict <= i
    <3>. HIDE DEF i
    <3>. QED BY <2>1, <2>6, <2>7, FatalStepFacts DEF Verdict
  <2>. QED BY <2>1, <2>3, <2>8
<1>2. WorkflowInv => CascadeIsFatal
  BY <1>1 DEF CascadeIsFatal
<1>. QED BY <1>2, RolloutInductive, PTL

(***************************************************************************)
(* Only an answered trajectory goes without a fatal step, and one that     *)
(* ended with an answer keeps some step and loses some if it is cut.       *)
(***************************************************************************)
THEOREM RolloutUnfinishedIsFatal == WorkflowSpec => []UnfinishedIsFatal
<1>1. ASSUME WorkflowInv, Whole
      PROVE  UnfinishedIsFatal
  <2>1. /\ Scored /\ episode.steps = Steps /\ Steps \in Seq(BOOLEAN) /\ Len(Steps) \in Nat
    BY <1>1, WholeFacts
  <2>2. CASE Steps = <<>>
    <3>1. Verdict = 0 /\ episode.masked
      BY <2>1, <2>2 DEF Verdict, FatalStepIndex, Scored
    <3>. QED BY <2>1, <3>1 DEF Scored, UnfinishedIsFatal, NoFatalStep
  <2>3. CASE Steps # <<>>
    <3>1. /\ Verdict = NoFatalStep => termination = "answer"
          /\ Verdict = Len(Steps) => termination # "answer"
          /\ Verdict \in {NoFatalStep} \cup 0 .. Len(Steps)
      BY <2>1, <2>3, FatalStepFacts DEF Verdict
    <3>2. /\ episode.fatal = Verdict
          /\ Verdict # 0 => episode.termination_reason = TerminationReason(termination)
          /\ Verdict = 0 => episode.termination_reason = "UNKNOWN"
      BY <2>1 DEF Scored
    <3>3. TerminationReason(termination) = "ENV_DONE" <=> termination = "answer"
      BY DEF TerminationReason
    <3>4. TerminationReason(termination) \in {"ENV_DONE", "UNKNOWN"}
      BY DEF TerminationReason
    <3>. QED BY <2>1, <3>1, <3>2, <3>3, <3>4 DEF UnfinishedIsFatal, NoFatalStep
  <2>. QED BY <2>2, <2>3
<1>2. WorkflowInv => UnfinishedIsFatal
  BY <1>1 DEF UnfinishedIsFatal
<1>. QED BY <1>2, RolloutInductive, PTL

(***************************************************************************)
(* What is kept holds no cascade, and does not end with an error when it   *)
(* was cut.                                                                *)
(***************************************************************************)
THEOREM RolloutKeptPrefixIsClean == WorkflowSpec => []KeptPrefixIsClean
<1>1. ASSUME WorkflowInv, Whole
      PROVE  KeptPrefixIsClean
  <2>1. /\ episode.fatal = Verdict /\ episode.steps = Steps
        /\ Steps \in Seq(BOOLEAN) /\ Len(Steps) \in Nat
    BY <1>1, WholeFacts DEF Scored
  <2>2. CASE Steps = <<>>
    <3>1. Verdict = 0
      BY <2>2 DEF Verdict, FatalStepIndex
    <3>. QED BY <2>1, <2>2, <3>1, ThresholdAssumption DEF KeptPrefixIsClean, KeptSteps, NoFatalStep
  <2>3. CASE Steps # <<>>
    <3>1. /\ Verdict \in {NoFatalStep} \cup 0 .. Len(Steps)
          /\ Verdict = NoFatalStep => Cascades(Steps) = {}
          /\ Verdict \in 0 .. Len(Steps) - 1 => Verdict \in Cascades(Steps)
          /\ \A i \in Cascades(Steps) : Verdict <= i
      BY <2>1, <2>3, FatalStepFacts DEF Verdict
    <3>2. \A i \in 0 .. Len(Steps) : IsCascade(Steps, i) => i \in Cascades(Steps)
      BY DEF Cascades
    <3>3. ASSUME NEW i \in 0 .. KeptSteps(episode) - Threshold
          PROVE  ~ IsCascade(Steps, i)
      BY <2>1, <3>1, <3>2, ThresholdAssumption DEF KeptSteps, NoFatalStep
    <3>4. ASSUME Verdict \in 1 .. Len(Steps) - 1
          PROVE  ~ Steps[Verdict]
      <4>1. IsCascade(Steps, Verdict) /\ Verdict \in Nat
        BY <2>1, <3>1, <3>4 DEF Cascades
      <4>2. ~ IsCascade(Steps, Verdict - 1)
        BY <2>1, <3>1, <3>2, <3>4
      <4>. QED BY <2>1, <3>4, <4>1, <4>2, ThresholdAssumption DEF IsCascade
    <3>. QED BY <2>1, <3>3, <3>4 DEF KeptPrefixIsClean
  <2>. QED BY <2>2, <2>3
<1>2. WorkflowInv => KeptPrefixIsClean
  BY <1>1 DEF KeptPrefixIsClean
<1>. QED BY <1>2, RolloutInductive, PTL

(***************************************************************************)
(* An episode is masked exactly when nothing of it is kept, and then it    *)
(* earns nothing.                                                          *)
(***************************************************************************)
THEOREM RolloutMaskedEarnsNothing == WorkflowSpec => []MaskedEarnsNothing
<1>1. ASSUME WorkflowInv, phase = "returned"
      PROVE  MaskedEarnsNothing
  <2>1. CASE episode = ErrorEpisode
    <3>1. Len(<<>>) = 0
      OBVIOUS
    <3>. QED BY <2>1, <3>1, FixedEpisodes DEF MaskedEarnsNothing, KeptSteps
  <2>2. CASE Scored
    <3>1. Steps \in Seq(BOOLEAN) /\ Len(Steps) \in Nat /\ Verdict \in {NoFatalStep} \cup 0 .. Len(Steps)
      BY <1>1, VerdictType
    <3>2. Steps = <<>> => Verdict = 0
      BY DEF Verdict, FatalStepIndex
    <3>3. KeptSteps(episode) = 0 <=> Verdict = 0
      BY <2>2, <3>1, <3>2 DEF KeptSteps, Scored, NoFatalStep
    <3>. QED BY <2>2, <3>3 DEF MaskedEarnsNothing, Scored
  <2>. QED BY <1>1, <2>1, <2>2 DEF WorkflowInv, InPhase
<1>2. WorkflowInv => MaskedEarnsNothing
  BY <1>1 DEF MaskedEarnsNothing
<1>. QED BY <1>2, RolloutInductive, PTL

(***************************************************************************)
(* Within the rollout the agent behaves as on its own, so that what is     *)
(* proved of the agent holds of the rollout.                               *)
(***************************************************************************)
THEOREM RolloutRunsAgent == WorkflowSpec => Spec
<1>1. WorkflowInit => Init
  BY DEF WorkflowInit
<1>2. [WorkflowNext]_vars => [Next]_agentVars
  BY DEF WorkflowNext, vars, AgentRuns, Next, Convert, RewardReturns, JudgeReturns, RunFails, Timeout
<1>. QED BY <1>1, <1>2, PTL DEF WorkflowSpec, Spec

(***************************************************************************)
(* The rollout comes back once, with one of its outcomes, and nothing of   *)
(* it changes afterwards: the safety half of its contract with the engine. *)
(***************************************************************************)
THEOREM RolloutKeepsContract == WorkflowSpec => Rollout!Safety
<1>1. WorkflowInit => Rollout!ContractInit
  BY DEF WorkflowInit, Rollout!ContractInit, Rollout!Running, Outcome
<1>2. ASSUME WorkflowInv, WorkflowInv', [WorkflowNext]_vars
      PROVE  [Rollout!ComeBack]_Outcome
  <2>. SUFFICES ASSUME Outcome' # Outcome
                PROVE  Outcome = "running" /\ Outcome' \in {"episode", "error_text", "raise"}
    BY DEF Rollout!ComeBack, Rollout!Running
  <2>1. Outcome' \in {"running", "episode", "error_text", "raise"}
    BY DEF Outcome
  <2>2. phase \in {"agent", "reward", "judge"}
    <3>1. phase \in {"agent", "reward", "judge", "returned", "raised"}
      BY <1>2 DEF WorkflowInv, InPhase
    <3>2. phase \notin {"returned", "raised"}
      BY <1>2 DEF WorkflowNext, vars, AgentRuns, Convert, RewardReturns, JudgeReturns,
                  RunFails, Timeout, Outcome
    <3>. QED BY <3>1, <3>2
  <2>3. Outcome = "running"
    BY <2>2 DEF Outcome
  <2>. QED BY <2>1, <2>3
<1>. QED BY <1>1, <1>2, RolloutInductive, PTL DEF WorkflowSpec, Rollout!Safety

=============================================================================
