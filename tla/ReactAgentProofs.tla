-------------------------- MODULE ReactAgentProofs --------------------------
(***************************************************************************)
(* Proofs about the agent loop, for every budget, every limit on bad steps *)
(* and every set of replies and tool results.                              *)
(***************************************************************************)
EXTENDS ReactAgent, TLAPS

(***************************************************************************)
(* What a suspended run knows: the budget is not overdrawn, no reason has  *)
(* been given yet, and the counter describes the conversation up to the    *)
(* last complete step (before the pending assistant message in a tool).    *)
(***************************************************************************)
Suspended ==
  /\ pc # "done" =>
       /\ termination = "none"
       /\ consecutive_bad_steps < BadStepLimit
  /\ pc = "call_server" =>
       /\ num_llm_calls_available > 0
       /\ Len(messages) = 2 * round
       /\ EndsWithBadSteps(messages, Len(messages), consecutive_bad_steps)
  /\ pc = "tool" =>
       /\ round > 0
       /\ Len(messages) = 2 * round - 1
       /\ EndsWithBadSteps(messages, Len(messages) - 1, consecutive_bad_steps)

IInv == TypeOK /\ Alternation /\ CascadeStops /\ BudgetAccounting /\ Suspended

(***************************************************************************)
(* A new run satisfies the inductive invariant.                            *)
(***************************************************************************)
LEMMA InitInv == Init => IInv
<1> SUFFICES ASSUME Init PROVE IInv
  OBVIOUS
<1>a. messages \in Seq(Message)
  BY DEF Init
<1>b. content \in Reply
  BY DEF Init, NoReply, Reply
<1>1. TypeOK
  BY MaxLLMCallsAssumption, BadStepLimitAssumption, <1>a, <1>b DEF Init, TypeOK, Predictions, Sources
<1>2. Alternation /\ BudgetAccounting
  BY MaxLLMCallsAssumption DEF Init, Alternation, BudgetAccounting
<1>3. EndsWithBadSteps(<<>>, 0, 0)
  BY DEF EndsWithBadSteps
<1>4. CascadeStops /\ Suspended
  BY MaxLLMCallsAssumption, BadStepLimitAssumption, <1>3 DEF Init, CascadeStops, Suspended
<1> QED
  BY <1>1, <1>2, <1>4 DEF IInv

(***************************************************************************)
(* How a run ends: the reason given is one the counters bear out.          *)
(***************************************************************************)
Ended(reason, text, bad, available) ==
  /\ reason \in Terminations \ {"error"}
  /\ text \in Predictions
  /\ reason = "consecutive_step_errors" => bad = BadStepLimit
  /\ reason \in {"answer_not_found_after", "exceed_available_llm_calls"} => available = 0

(***************************************************************************)
(* Concluding a run ends it.                                               *)
(***************************************************************************)
LEMMA ConcludeEnds ==
  ASSUME NEW msgs, Conclude(msgs), NEW bad, NEW available, available = 0 \/ LastMessage(msgs).tag
  PROVE  pc' = "done" /\ Ended(termination', prediction', bad, available)
BY DEF Conclude, Finish, Ended, Terminations, Predictions, Sources, SourceOf

(***************************************************************************)
(* The end of a round ends the run, or resumes it below the limits.        *)
(***************************************************************************)
LEMMA EndRoundEnds ==
  ASSUME NEW msgs, NEW bad \in 0 .. BadStepLimit, NEW available \in Nat, NEW reply \in Reply,
         EndRound(msgs, bad, available, reply)
  PROVE  \/ pc' = "done" /\ Ended(termination', prediction', bad, available)
         \/ /\ pc' = "call_server" /\ UNCHANGED <<termination, prediction>>
            /\ bad < BadStepLimit /\ available > 0
<1>0. reply.tag \in BOOLEAN
  BY DEF Reply
<1>1. CASE bad >= BadStepLimit
  BY <1>0, <1>1, BadStepLimitAssumption DEF EndRound, Finish, Ended, Terminations, Predictions
<1>2. CASE bad < BadStepLimit /\ available = 0 /\ ~reply.tag
  BY <1>0, <1>2, BadStepLimitAssumption DEF EndRound, Finish, Ended, Terminations, Predictions
<1>3. CASE bad < BadStepLimit /\ available = 0 /\ reply.tag
  <2>1. Conclude(msgs)
    BY <1>0, <1>3, BadStepLimitAssumption DEF EndRound
  <2> QED
    BY <1>3, <2>1, ConcludeEnds
<1>4. CASE bad < BadStepLimit /\ available > 0
  BY <1>0, <1>4, BadStepLimitAssumption DEF EndRound
<1> QED
  BY <1>0, <1>1, <1>2, <1>3, <1>4, BadStepLimitAssumption DEF EndRound

(***************************************************************************)
(* Messages the loop writes are messages.                                  *)
(***************************************************************************)
LEMMA MessageTypes ==
  /\ FormatHint \in Message
  /\ \A result \in ToolResults : ToolResponse(result) \in Message
  /\ \A e, t \in BOOLEAN : Assistant(e, t) \in Message
<1>1. FormatHint \in Message
  BY DEF FormatHint, Message, ToolFailures
<1>2. ASSUME NEW result \in ToolResults PROVE ToolResponse(result) \in Message
  BY <1>2, ToolResultsAssumption DEF ToolResponse, Message, ToolResult
<1>3. ASSUME NEW e \in BOOLEAN, NEW t \in BOOLEAN PROVE Assistant(e, t) \in Message
  BY <1>3 DEF Assistant, Message, ToolFailures
<1> QED
  BY <1>1, <1>2, <1>3

(***************************************************************************)
(* A step that closes a round with a bad step lengthens the run of bad     *)
(* steps by one; a good step empties it.                                   *)
(***************************************************************************)
LEMMA RoundClosed ==
  ASSUME NEW old, NEW new, NEW r \in Nat, NEW bad \in Nat, NEW e \in BOOLEAN,
         EndsWithBadSteps(old, 2 * r, bad),
         \A k \in 1 .. 2 * r : new[k] = old[k],
         new[2 * r + 1].role = "assistant",
         new[2 * r + 1].step_error <=> e,
         new[2 * r + 2].role = "user"
  PROVE  EndsWithBadSteps(new, 2 * r + 2, CountBad(bad, e))
<1> DEFINE n == 2 * r + 2
<1>1. CASE e
  <2>1. CountBad(bad, e) = bad + 1 /\ 2 * (bad + 1) <= n
    BY <1>1 DEF CountBad, EndsWithBadSteps
  <2>2. ASSUME NEW k \in 1 .. n, k > n - 2 * (bad + 1), new[k].role = "assistant"
        PROVE  new[k].step_error
    <3>1. CASE k <= 2 * r
      <4>1. k \in 1 .. 2 * r /\ k > 2 * r - 2 * bad
        BY <2>2, <3>1
      <4> QED
        BY <2>2, <4>1 DEF EndsWithBadSteps
    <3>2. CASE k = 2 * r + 1 \/ k = 2 * r + 2
      BY <1>1, <2>2, <3>2
    <3> QED
      BY <2>2, <3>1, <3>2
  <2>3. ASSUME n > 2 * (bad + 1)
        PROVE  ~ IsBadStep(new[n - 2 * (bad + 1) - 1])
    <3>1. n - 2 * (bad + 1) - 1 = 2 * r - 2 * bad - 1
      OBVIOUS
    <3>2. 2 * r - 2 * bad - 1 \in 1 .. 2 * r /\ 2 * r > 2 * bad
      BY <2>3
    <3>3. ~ IsBadStep(old[2 * r - 2 * bad - 1])
      BY <3>2 DEF EndsWithBadSteps
    <3> QED
      BY <3>1, <3>2, <3>3
  <2> QED
    BY <2>1, <2>2, <2>3 DEF EndsWithBadSteps
<1>2. CASE ~e
  <2>1. CountBad(bad, e) = 0
    BY <1>2 DEF CountBad
  <2>2. n - 2 * 0 - 1 = 2 * r + 1
    OBVIOUS
  <2>3. ~ IsBadStep(new[n - 2 * 0 - 1])
    BY <1>2, <2>2 DEF IsBadStep
  <2>4. n \in Nat /\ 2 * 0 <= n
    OBVIOUS
  <2> QED
    BY <2>1, <2>3, <2>4 DEF EndsWithBadSteps
<1> QED
  BY <1>1, <1>2

(***************************************************************************)
(* A failed model call leaves the conversation as it was.                  *)
(***************************************************************************)
LEMMA CallServerFailsInv == IInv /\ CallServerFails => IInv'
<1> SUFFICES ASSUME IInv, CallServerFails PROVE IInv'
  OBVIOUS
<1> USE MaxLLMCallsAssumption, BadStepLimitAssumption DEF IInv, CallServerFails, StartRound, Finish
<1>1. TypeOK'
  <2>1. /\ num_llm_calls_available' \in 0 .. MaxLLMCalls /\ round' \in 0 .. MaxLLMCalls
    BY DEF TypeOK, Suspended, BudgetAccounting
  <2> QED
    BY <2>1 DEF TypeOK, Terminations, Predictions
<1>2. Alternation'
  BY DEF Alternation
<1>3. BudgetAccounting'
  BY DEF BudgetAccounting, TypeOK, Suspended
<1>4. CascadeStops' /\ Suspended'
  BY DEF CascadeStops, Suspended
<1> QED
  BY <1>1, <1>2, <1>3, <1>4

(***************************************************************************)
(* What appending one message to the conversation leaves as it was.        *)
(***************************************************************************)
LEMMA AppendMessage ==
  ASSUME NEW msgs \in Seq(Message), NEW m \in Message
  PROVE  /\ Append(msgs, m) \in Seq(Message)
         /\ Len(Append(msgs, m)) = Len(msgs) + 1
         /\ \A k \in 1 .. Len(msgs) : Append(msgs, m)[k] = msgs[k]
         /\ Append(msgs, m)[Len(msgs) + 1] = m
OBVIOUS

(***************************************************************************)
(* Alternation survives a message of the other role.                       *)
(***************************************************************************)
Alternating(msgs) ==
  /\ msgs # <<>> => msgs[1].role = "assistant"
  /\ \A k \in 1 .. Len(msgs) - 1 : msgs[k].role # msgs[k + 1].role

(* A message of the other role may follow. *)
LEMMA AppendAlternates ==
  ASSUME NEW msgs \in Seq(Message), NEW m \in Message, Alternating(msgs),
         IF msgs = <<>> THEN m.role = "assistant" ELSE msgs[Len(msgs)].role # m.role
  PROVE  Alternating(Append(msgs, m))
<1> DEFINE new == Append(msgs, m)
<1>0. /\ new \in Seq(Message) /\ Len(new) = Len(msgs) + 1
      /\ \A k \in 1 .. Len(msgs) : new[k] = msgs[k]
      /\ new[Len(msgs) + 1] = m
  BY AppendMessage
<1> HIDE DEF new
<1>1. new # <<>> => new[1].role = "assistant"
  <2>1. CASE msgs = <<>>
    BY <1>0, <2>1
  <2>2. CASE msgs # <<>>
    BY <1>0, <2>2 DEF Alternating
  <2> QED
    BY <2>1, <2>2
<1>2. ASSUME NEW k \in 1 .. Len(new) - 1 PROVE new[k].role # new[k + 1].role
  <2>1. CASE k < Len(msgs)
    BY <1>0, <1>2, <2>1 DEF Alternating
  <2>2. CASE k = Len(msgs)
    BY <1>0, <1>2, <2>2
  <2> QED
    BY <1>0, <1>2, <2>1, <2>2
<1>3. Alternating(new)
  BY <1>1, <1>2 DEF Alternating
<1> QED
  BY <1>3 DEF new

(***************************************************************************)
(* A reply that asks for a tool opens a round that the tool will close.    *)
(***************************************************************************)
LEMMA RequestToolInv ==
  ASSUME IInv, NEW reply \in Replies, RequestTool(reply)
  PROVE  IInv'
<1> DEFINE m == Assistant(FALSE, reply.tag)
<1> USE MaxLLMCallsAssumption, BadStepLimitAssumption
<1>0. /\ reply \in Reply /\ m \in Message /\ m.role = "assistant"
  <2>1. reply \in Reply /\ reply.tag \in BOOLEAN
    BY RepliesAssumption DEF Reply
  <2> QED
    BY <2>1, MessageTypes DEF Assistant
<1> HIDE DEF m
<1>1. /\ messages \in Seq(Message) /\ Len(messages) = 2 * round /\ round \in Nat
      /\ messages' = Append(messages, m)
  BY DEF IInv, TypeOK, Suspended, RequestTool, StartRound, m
<1>a. /\ messages' \in Seq(Message) /\ Len(messages') = 2 * round + 1
      /\ \A k \in 1 .. Len(messages) : messages'[k] = messages[k]
      /\ messages'[Len(messages')] = m
  BY <1>0, <1>1, AppendMessage
<1>2. TypeOK'
  <2>1. num_llm_calls_available' \in 0 .. MaxLLMCalls /\ round' \in 0 .. MaxLLMCalls
    BY DEF IInv, TypeOK, Suspended, BudgetAccounting, RequestTool, StartRound
  <2> QED
    BY <1>0, <1>a, <2>1 DEF IInv, TypeOK, RequestTool
<1>3. Alternation'
  <2>1. Alternating(messages)
    BY DEF IInv, Alternation, Alternating
  <2>2. messages # <<>> => messages[Len(messages)].role = "user"
    BY DEF IInv, Alternation, RequestTool, StartRound, LastMessage
  <2>3. Alternating(messages')
    BY <1>0, <1>1, <2>1, <2>2, AppendAlternates
  <2>4. messages' # <<>> /\ pc' = "tool"
    <3>1. Len(messages') # 0
      BY <1>1, <1>a
    <3> QED
      BY <3>1 DEF RequestTool
  <2> QED
    BY <1>0, <1>a, <2>3, <2>4 DEF Alternation, Alternating, LastMessage
<1>4. BudgetAccounting'
  BY <1>1, <1>a DEF IInv, BudgetAccounting, TypeOK, Suspended, RequestTool, StartRound
<1>5. EndsWithBadSteps(messages', Len(messages') - 1, consecutive_bad_steps)
  <2>1. EndsWithBadSteps(messages, Len(messages), consecutive_bad_steps)
    BY DEF IInv, Suspended, RequestTool, StartRound
  <2>2. /\ Len(messages') - 1 = Len(messages) /\ Len(messages) \in Nat
        /\ consecutive_bad_steps \in Nat
    BY <1>1, <1>a DEF IInv, TypeOK
  <2>3. ASSUME Len(messages) > 2 * consecutive_bad_steps
        PROVE  Len(messages) - 2 * consecutive_bad_steps - 1 \in 1 .. Len(messages)
    BY <1>1, <2>2, <2>3
  <2>4. EndsWithBadSteps(messages', Len(messages), consecutive_bad_steps)
    BY <1>a, <2>1, <2>2, <2>3 DEF EndsWithBadSteps
  <2> QED
    BY <2>2, <2>4
<1>6. /\ pc' = "tool" /\ termination' = "none" /\ round' > 0
      /\ Len(messages') = 2 * round' - 1
      /\ consecutive_bad_steps' = consecutive_bad_steps
      /\ consecutive_bad_steps < BadStepLimit
  BY <1>1, <1>a DEF IInv, Suspended, RequestTool, StartRound
<1>7. CascadeStops' /\ Suspended'
  BY <1>5, <1>6 DEF CascadeStops, Suspended
<1> QED
  BY <1>2, <1>3, <1>4, <1>7 DEF IInv

(***************************************************************************)
(* A round that a user message closes preserves the invariant, whether it  *)
(* ends the run or not.                                                    *)
(***************************************************************************)
LEMMA ClosedRoundInv ==
  ASSUME termination = "none", prediction \in Predictions,
         messages' \in Seq(Message), Alternating(messages'),
         round' \in 1 .. MaxLLMCalls, Len(messages') = 2 * round',
         messages'[Len(messages')].role = "user",
         num_llm_calls_available' \in Nat,
         round' + num_llm_calls_available' = MaxLLMCalls,
         consecutive_bad_steps' \in 0 .. BadStepLimit,
         EndsWithBadSteps(messages', Len(messages'), consecutive_bad_steps'),
         content' \in Reply,
         NEW reply \in Reply,
         EndRound(messages', consecutive_bad_steps', num_llm_calls_available', reply)
  PROVE  IInv'
<1> USE MaxLLMCallsAssumption, BadStepLimitAssumption
<1>1. \/ /\ pc' = "done"
         /\ Ended(termination', prediction', consecutive_bad_steps', num_llm_calls_available')
      \/ /\ pc' = "call_server" /\ UNCHANGED <<termination, prediction>>
         /\ consecutive_bad_steps' < BadStepLimit /\ num_llm_calls_available' > 0
  BY EndRoundEnds
<1>2. termination' \in (Terminations \ {"error"}) \cup {"none"}
  BY <1>1 DEF Ended
<1>3. TypeOK'
  <2>1. num_llm_calls_available' \in 0 .. MaxLLMCalls /\ round' \in 0 .. MaxLLMCalls
    <3>1. \A a, b, max \in Nat : a + b = max => a \in 0 .. max /\ b \in 0 .. max
      OBVIOUS
    <3>2. MaxLLMCalls \in Nat /\ round' \in Nat
      OBVIOUS
    <3> QED
      BY <3>1, <3>2
  <2>2. pc' \in {"call_server", "tool", "done"} /\ prediction' \in Predictions
    BY <1>1 DEF Ended
  <2> QED
    BY <1>2, <2>1, <2>2 DEF TypeOK
<1>4. Alternation'
  BY <1>1 DEF Alternation, Alternating, LastMessage
<1>5. BudgetAccounting'
  <2>1. termination' # "error"
    BY <1>2
  <2>2. termination' \in {"answer_not_found_after", "exceed_available_llm_calls"} =>
          num_llm_calls_available' = 0
    BY <1>1 DEF Ended
  <2> QED
    BY <2>1, <2>2 DEF BudgetAccounting
<1>6. CascadeStops'
  <2>1. termination' = "consecutive_step_errors" => consecutive_bad_steps' = BadStepLimit
    BY <1>1 DEF Ended
  <2> QED
    BY <1>1, <2>1 DEF CascadeStops
<1>7. Suspended'
  BY <1>1 DEF Suspended
<1> QED
  BY <1>3, <1>4, <1>5, <1>6, <1>7 DEF IInv

(***************************************************************************)
(* A tool that returns closes its round.                                   *)
(***************************************************************************)
LEMMA ToolReturnsInv ==
  ASSUME IInv, NEW result \in ToolResults, ToolReturns(result)
  PROVE  IInv'
<1> USE MaxLLMCallsAssumption, BadStepLimitAssumption
<1> DEFINE e == result.failure = "reported"
           flagged == FlagLast(messages, e)
           m == ToolResponse(result)
<1>1. /\ messages \in Seq(Message) /\ round \in 1 .. MaxLLMCalls
      /\ Len(messages) = 2 * round - 1
      /\ termination = "none" /\ prediction \in Predictions /\ content \in Reply
      /\ consecutive_bad_steps \in 0 .. BadStepLimit - 1
      /\ EndsWithBadSteps(messages, Len(messages) - 1, consecutive_bad_steps)
  BY DEF IInv, TypeOK, Suspended, ToolReturns
<1>2. /\ Len(messages) \in Nat \ {0} /\ messages[Len(messages)] \in Message
      /\ messages[Len(messages)].role = "assistant" /\ Alternating(messages)
  BY <1>1 DEF IInv, Alternation, Alternating, LastMessage, ToolReturns
<1>3. /\ flagged \in Seq(Message) /\ Len(flagged) = Len(messages)
      /\ \A k \in 1 .. Len(messages) - 1 : flagged[k] = messages[k]
      /\ flagged[Len(messages)].role = "assistant"
      /\ flagged[Len(messages)].step_error <=> e
  <2>1. [messages[Len(messages)] EXCEPT !.step_error = e] \in Message
    BY <1>2 DEF Message
  <2> QED
    BY <1>1, <1>2, <2>1 DEF Message, FlagLast
<1>4. m \in Message /\ m.role = "user"
  BY MessageTypes DEF ToolResponse
<1>5. Alternating(flagged)
  <2>1. \A k \in 1 .. Len(messages) : flagged[k].role = messages[k].role
    BY <1>2, <1>3
  <2> QED
    BY <1>2, <1>3, <2>1 DEF Alternating
<1> HIDE DEF e, flagged, m
<1>6. /\ messages' = Append(flagged, m)
      /\ consecutive_bad_steps' = CountBad(consecutive_bad_steps, e)
      /\ EndRound(messages', consecutive_bad_steps', num_llm_calls_available', content)
      /\ UNCHANGED <<num_llm_calls_available, round, content>>
  BY DEF ToolReturns, e, flagged, m
<1>7. /\ messages' \in Seq(Message) /\ Len(messages') = Len(messages) + 1
      /\ \A k \in 1 .. Len(messages) : messages'[k] = flagged[k]
      /\ messages'[Len(messages')] = m
  BY <1>3, <1>4, <1>6, AppendMessage
<1>8. Alternating(messages')
  <2>1. flagged # <<>>
    BY <1>2, <1>3
  <2> QED
    BY <1>2, <1>3, <1>4, <1>5, <1>6, <2>1, AppendAlternates
<1>9. EndsWithBadSteps(messages', Len(messages'), consecutive_bad_steps')
  <2> DEFINE r == round - 1
  <2>1. /\ r \in Nat /\ 2 * r = Len(messages) - 1 /\ Len(messages') = 2 * r + 2
        /\ Len(messages) = 2 * r + 1
    BY <1>1, <1>7
  <2> HIDE DEF r
  <2>2. \A k \in 1 .. 2 * r : messages'[k] = messages[k]
    BY <1>3, <1>7, <2>1
  <2>3. EndsWithBadSteps(messages, 2 * r, consecutive_bad_steps)
    BY <1>1, <2>1
  <2>4. /\ messages'[2 * r + 1].role = "assistant"
        /\ messages'[2 * r + 1].step_error <=> e
        /\ messages'[2 * r + 2].role = "user"
    <3>1. messages'[2 * r + 1] = flagged[Len(messages)] /\ messages'[2 * r + 2] = m
      BY <1>2, <1>7, <2>1
    <3> QED
      BY <1>3, <1>4, <3>1
  <2>5. e \in BOOLEAN /\ consecutive_bad_steps \in Nat
    BY <1>1 DEF e
  <2>6. EndsWithBadSteps(messages', 2 * r + 2, CountBad(consecutive_bad_steps, e))
    BY <2>1, <2>2, <2>3, <2>4, <2>5, RoundClosed
  <2> QED
    BY <1>6, <2>1, <2>6
<1>10. consecutive_bad_steps' \in 0 .. BadStepLimit
  BY <1>1, <1>6 DEF CountBad
<1>11. /\ round' \in 1 .. MaxLLMCalls /\ Len(messages') = 2 * round'
       /\ num_llm_calls_available' \in Nat
       /\ round' + num_llm_calls_available' = MaxLLMCalls
  BY <1>1, <1>6, <1>7 DEF IInv, TypeOK, BudgetAccounting
<1> QED
  BY <1>1, <1>4, <1>6, <1>7, <1>8, <1>9, <1>10, <1>11, ClosedRoundInv

(***************************************************************************)
(* A reply in no known format is answered with the hint, which closes the  *)
(* round.                                                                  *)
(***************************************************************************)
LEMMA InvalidFormatInv ==
  ASSUME IInv, NEW reply \in Replies, InvalidFormat(reply)
  PROVE  IInv'
<1> USE MaxLLMCallsAssumption, BadStepLimitAssumption
<1> DEFINE a == Assistant(TRUE, reply.tag)
           m == FormatHint
           spoken == Append(messages, a)
<1>0. reply \in Reply /\ reply.tag \in BOOLEAN
  BY RepliesAssumption DEF Reply
<1>1. /\ messages \in Seq(Message) /\ round \in 0 .. MaxLLMCalls
      /\ Len(messages) = 2 * round
      /\ num_llm_calls_available \in Nat \ {0}
      /\ termination = "none" /\ prediction \in Predictions
      /\ consecutive_bad_steps \in 0 .. BadStepLimit - 1
      /\ EndsWithBadSteps(messages, Len(messages), consecutive_bad_steps)
  BY DEF IInv, TypeOK, Suspended, InvalidFormat, StartRound
<1>2. /\ a \in Message /\ a.role = "assistant" /\ a.step_error
      /\ m \in Message /\ m.role = "user"
  BY <1>0, MessageTypes DEF Assistant, FormatHint
<1>3. messages' = Append(spoken, m)
  BY DEF InvalidFormat
<1> HIDE DEF a, m
<1>4. /\ spoken \in Seq(Message) /\ Len(spoken) = Len(messages) + 1
      /\ \A k \in 1 .. Len(messages) : spoken[k] = messages[k]
      /\ spoken[Len(messages) + 1] = a
  BY <1>1, <1>2, AppendMessage
<1>5. Alternating(spoken)
  <2>1. Alternating(messages)
    BY DEF IInv, Alternation, Alternating
  <2>2. messages # <<>> => messages[Len(messages)].role = "user"
    BY DEF IInv, Alternation, InvalidFormat, StartRound, LastMessage
  <2> QED
    BY <1>1, <1>2, <2>1, <2>2, AppendAlternates
<1> HIDE DEF spoken
<1>6. /\ messages' \in Seq(Message) /\ Len(messages') = Len(spoken) + 1
      /\ \A k \in 1 .. Len(spoken) : messages'[k] = spoken[k]
      /\ messages'[Len(messages')] = m
  BY <1>2, <1>3, <1>4, AppendMessage
<1>7. Alternating(messages')
  <2>1. spoken # <<>> /\ spoken[Len(spoken)] = a
    BY <1>1, <1>4
  <2> QED
    BY <1>2, <1>3, <1>4, <1>5, <2>1, AppendAlternates
<1>8. /\ consecutive_bad_steps' = CountBad(consecutive_bad_steps, TRUE)
      /\ EndRound(messages', consecutive_bad_steps', num_llm_calls_available', reply)
      /\ content' \in Reply
  BY <1>0 DEF InvalidFormat
<1>9. EndsWithBadSteps(messages', Len(messages'), consecutive_bad_steps')
  <2>1. \A k \in 1 .. 2 * round : messages'[k] = messages[k]
    BY <1>1, <1>4, <1>6
  <2>2. /\ messages'[2 * round + 1].role = "assistant"
        /\ messages'[2 * round + 1].step_error
        /\ messages'[2 * round + 2].role = "user" /\ Len(messages') = 2 * round + 2
    <3>1. Len(messages') = 2 * round + 2
      BY <1>1, <1>4, <1>6
    <3>2. messages'[2 * round + 1] = a
      BY <1>1, <1>4, <1>6
    <3>3. messages'[2 * round + 2] = m
      BY <1>6, <3>1
    <3>. QED BY <1>2, <3>1, <3>2, <3>3
  <2>3. round \in Nat /\ consecutive_bad_steps \in Nat
    BY <1>1
  <2>4. EndsWithBadSteps(messages, 2 * round, consecutive_bad_steps)
    BY <1>1
  <2> QED
    BY <1>8, <2>1, <2>2, <2>3, <2>4, RoundClosed
<1>10. consecutive_bad_steps' \in 0 .. BadStepLimit
  BY <1>1, <1>8 DEF CountBad
<1>11. /\ round' \in 1 .. MaxLLMCalls /\ Len(messages') = 2 * round'
       /\ num_llm_calls_available' \in Nat
       /\ round' + num_llm_calls_available' = MaxLLMCalls
  <2>1. /\ round' = round + 1 /\ num_llm_calls_available' = num_llm_calls_available - 1
        /\ round + num_llm_calls_available = MaxLLMCalls
    BY DEF IInv, BudgetAccounting, InvalidFormat, StartRound
  <2>2. Len(messages') = 2 * round'
    BY <1>1, <1>4, <1>6, <2>1
  <2> QED
    BY <1>1, <2>1, <2>2
<1> QED
  BY <1>0, <1>1, <1>2, <1>6, <1>7, <1>8, <1>9, <1>10, <1>11, ClosedRoundInv

(***************************************************************************)
(* A reply that ends the run inside its round: a final answer or a         *)
(* degenerate one.                                                         *)
(***************************************************************************)
LEMMA LastReplyInv ==
  ASSUME IInv, NEW reply \in Replies, Answer(reply) \/ Degenerate(reply)
  PROVE  IInv'
<1> USE MaxLLMCallsAssumption, BadStepLimitAssumption
<1>0. reply \in Reply /\ reply.tag \in BOOLEAN /\ (reply.response => reply.tag)
  BY RepliesAssumption DEF Reply
<1>1. /\ messages \in Seq(Message) /\ round \in 0 .. MaxLLMCalls
      /\ Len(messages) = 2 * round
      /\ num_llm_calls_available \in Nat \ {0}
      /\ round + num_llm_calls_available = MaxLLMCalls
      /\ round' = round + 1 /\ num_llm_calls_available' = num_llm_calls_available - 1
  <2>1. StartRound
    BY DEF Answer, Degenerate
  <2> QED
    BY <2>1 DEF IInv, TypeOK, Suspended, BudgetAccounting, StartRound
<1>2. PICK e \in BOOLEAN : messages' = Append(messages, Assistant(e, reply.tag))
  BY DEF Answer, Degenerate
<1> DEFINE a == Assistant(e, reply.tag)
<1>3. a \in Message /\ a.role = "assistant" /\ (a.tag <=> reply.tag)
  BY <1>0, MessageTypes DEF Assistant
<1> HIDE DEF a
<1>4. /\ messages' \in Seq(Message) /\ Len(messages') = Len(messages) + 1
      /\ messages'[Len(messages')] = a
  BY <1>1, <1>2, <1>3, AppendMessage DEF a
<1>5. Alternating(messages')
  <2>1. Alternating(messages)
    BY DEF IInv, Alternation, Alternating
  <2>2. messages # <<>> => messages[Len(messages)].role = "user"
    BY DEF IInv, Alternation, Answer, Degenerate, StartRound, LastMessage
  <2> QED
    BY <1>1, <1>2, <1>3, <2>1, <2>2, AppendAlternates DEF a
<1>6. /\ pc' = "done" /\ termination' \in {"answer", "repetition_detected"}
      /\ prediction' \in Predictions
  <2>1. CASE Answer(reply)
    <3>1. LastMessage(messages').tag
      BY <1>0, <1>3, <1>4, <2>1 DEF Answer, LastMessage
    <3> QED
      BY <2>1, <3>1 DEF Answer, Conclude, Finish, SourceOf, Predictions, Sources
  <2>2. CASE Degenerate(reply)
    BY <2>2 DEF Degenerate, Finish, Predictions
  <2> QED
    BY <2>1, <2>2
<1>7. content' \in Reply /\ consecutive_bad_steps' \in 0 .. BadStepLimit
  <2>1. /\ content' = reply
        /\ consecutive_bad_steps' = 0 \/ consecutive_bad_steps' = consecutive_bad_steps
    BY DEF Answer, Degenerate
  <2> QED
    BY <1>0, <2>1 DEF IInv, TypeOK
<1>8. TypeOK'
  <2>1. num_llm_calls_available' \in 0 .. MaxLLMCalls /\ round' \in 0 .. MaxLLMCalls
    BY <1>1
  <2> QED
    BY <1>4, <1>6, <1>7, <2>1 DEF TypeOK, Terminations
<1>9. Alternation'
  BY <1>5, <1>6 DEF Alternation, Alternating
<1>10. BudgetAccounting'
  BY <1>1, <1>4, <1>6 DEF BudgetAccounting
<1>11. CascadeStops' /\ Suspended'
  BY <1>6 DEF CascadeStops, Suspended
<1> QED
  BY <1>8, <1>9, <1>10, <1>11 DEF IInv

(***************************************************************************)
(* The invariant is inductive.                                             *)
(***************************************************************************)
LEMMA StepInv == IInv /\ [Next]_agentVars => IInv'
<1> SUFFICES ASSUME IInv, [Next]_agentVars PROVE IInv'
  OBVIOUS
<1>1. CASE CallServerFails
  BY <1>1, CallServerFailsInv
<1>2. CASE \E reply \in Replies : RequestTool(reply)
  BY <1>2, RequestToolInv
<1>3. CASE \E reply \in Replies : Answer(reply) \/ Degenerate(reply)
  BY <1>3, LastReplyInv
<1>4. CASE \E reply \in Replies : InvalidFormat(reply)
  BY <1>4, InvalidFormatInv
<1>5. CASE \E result \in ToolResults : ToolReturns(result)
  BY <1>5, ToolReturnsInv
<1>6. CASE UNCHANGED agentVars
  BY <1>6 DEF agentVars, IInv, TypeOK, Alternation, CascadeStops, BudgetAccounting, Suspended
<1> QED
  BY <1>1, <1>2, <1>3, <1>4, <1>5, <1>6 DEF Next, AgentStep

(***************************************************************************)
(* Every run of the agent keeps the inductive invariant, for every budget, *)
(* limit, set of replies and set of tool results.                          *)
(***************************************************************************)
THEOREM AgentInductive == Spec => []IInv
BY InitInv, StepInv, PTL DEF Spec

(***************************************************************************)
(* Every variable of the agent loop stays within its type; in particular   *)
(* the budget of model calls is never overdrawn.                           *)
(***************************************************************************)
THEOREM AgentTypeOK == Spec => []TypeOK
<1>1. IInv => TypeOK
  BY DEF IInv
<1> QED
  BY <1>1, AgentInductive, PTL

(***************************************************************************)
(* The agent stops after exactly BadStepLimit consecutive bad steps, never *)
(* earlier and never later.                                                *)
(***************************************************************************)
THEOREM AgentCascadeStops == Spec => []CascadeStops
<1>1. IInv => CascadeStops
  BY DEF IInv
<1> QED
  BY <1>1, AgentInductive, PTL

(***************************************************************************)
(* The conversation alternates between the model and the loop.             *)
(***************************************************************************)
THEOREM AgentAlternation == Spec => []Alternation
<1>1. IInv => Alternation
  BY DEF IInv
<1> QED
  BY <1>1, AgentInductive, PTL

(***************************************************************************)
(* Rounds, model calls and messages add up.                                *)
(***************************************************************************)
THEOREM AgentBudget == Spec => []BudgetAccounting
<1>1. IInv => BudgetAccounting
  BY DEF IInv
<1> QED
  BY <1>1, AgentInductive, PTL

(***************************************************************************)
(* The assistant message that waits for its tool is not flagged yet.       *)
(***************************************************************************)
Unflagged == pc = "tool" => ~ LastMessage(messages).step_error

(* Only a request for a tool starts the wait, with an unflagged message. *)
LEMMA UnflaggedStep ==
  ASSUME IInv, AgentStep
  PROVE  Unflagged'
<1>1. messages \in Seq(Message)
  BY DEF IInv, TypeOK
<1>2. ASSUME NEW reply \in Replies, RequestTool(reply)
      PROVE  Unflagged'
  <2>. DEFINE m == Assistant(FALSE, reply.tag)
  <2>1. m \in Message
    BY RepliesAssumption, MessageTypes DEF Reply
  <2>2. messages' = Append(messages, m) /\ ~ m.step_error
    BY <1>2 DEF RequestTool, Assistant
  <2>. HIDE DEF m
  <2>3. Len(Append(messages, m)) = Len(messages) + 1
    BY <1>1, <2>1, AppendMessage
  <2>4. Append(messages, m)[Len(messages) + 1] = m
    BY <1>1, <2>1, AppendMessage
  <2>5. messages'[Len(messages')] = m
    BY <2>2, <2>3, <2>4
  <2>. QED BY <2>2, <2>5 DEF Unflagged, LastMessage
<1>3. ASSUME NEW msgs, NEW bad, NEW available, NEW reply, EndRound(msgs, bad, available, reply)
      PROVE  pc' # "tool"
  BY <1>3 DEF EndRound, Conclude, Finish
<1>4. ASSUME NEW reply \in Replies, InvalidFormat(reply)
      PROVE  pc' # "tool"
  BY <1>3, <1>4 DEF InvalidFormat
<1>5. ASSUME NEW result \in ToolResults, ToolReturns(result)
      PROVE  pc' # "tool"
  BY <1>3, <1>5 DEF ToolReturns
<1>6. ASSUME NEW reply \in Replies, Answer(reply) \/ Degenerate(reply)
      PROVE  pc' # "tool"
  BY <1>6 DEF Answer, Degenerate, Conclude, Finish
<1>7. ASSUME CallServerFails
      PROVE  pc' # "tool"
  BY <1>7 DEF CallServerFails, Finish
<1>. QED BY <1>2, <1>4, <1>5, <1>6, <1>7 DEF AgentStep, Unflagged

(***************************************************************************)
(* No step of the agent revises what was said, but for the error flag of   *)
(* the message that waits for its tool.                                    *)
(***************************************************************************)
THEOREM AgentConversationGrows == Spec => ConversationGrows
<1>. DEFINE Grows ==
       /\ Len(messages') >= Len(messages)
       /\ \A k \in 1 .. Len(messages) :
            \/ messages'[k] = messages[k]
            \/ /\ pc = "tool" /\ k = Len(messages)
               /\ messages'[k] = [messages[k] EXCEPT !.step_error = TRUE]
<1>1. ASSUME IInv, Unflagged, AgentStep
      PROVE  Grows
  <2>1. messages \in Seq(Message) /\ Len(messages) \in Nat
    BY <1>1 DEF IInv, TypeOK
  <2>2. CASE CallServerFails
    BY <2>1, <2>2 DEF CallServerFails
  <2>3. ASSUME NEW reply \in Replies, NEW e \in BOOLEAN
        PROVE  Assistant(e, reply.tag) \in Message
    BY RepliesAssumption, MessageTypes DEF Reply
  <2>4. ASSUME NEW reply \in Replies, NEW e \in BOOLEAN,
               messages' = Append(messages, Assistant(e, reply.tag))
        PROVE  Grows
    BY <2>1, <2>3, <2>4, AppendMessage
  <2>5. ASSUME NEW reply \in Replies, RequestTool(reply) \/ Answer(reply) \/ Degenerate(reply)
        PROVE  Grows
    BY <2>4, <2>5 DEF RequestTool, Answer, Degenerate
  <2>6. ASSUME NEW reply \in Replies, InvalidFormat(reply)
        PROVE  Grows
    <3>. DEFINE said == Append(messages, Assistant(TRUE, reply.tag))
    <3>1. messages' = Append(said, FormatHint)
      BY <2>6 DEF InvalidFormat
    <3>2. /\ said \in Seq(Message) /\ Len(said) = Len(messages) + 1
          /\ \A k \in 1 .. Len(messages) : said[k] = messages[k]
      BY <2>1, <2>3, AppendMessage
    <3>. HIDE DEF said
    <3>3. /\ Len(messages') = Len(said) + 1
          /\ \A k \in 1 .. Len(said) : messages'[k] = said[k]
      BY <3>1, <3>2, MessageTypes, AppendMessage
    <3>. QED BY <2>1, <3>2, <3>3
  <2>7. ASSUME NEW result \in ToolResults, ToolReturns(result)
        PROVE  Grows
    <3>. DEFINE e == result.failure = "reported"
                n == Len(messages)
                flagged == FlagLast(messages, e)
    <3>1. pc = "tool" /\ n \in Nat \ {0} /\ messages[n] \in Message /\ ~ messages[n].step_error
      BY <1>1, <2>1, <2>7, MaxLLMCallsAssumption
         DEF ToolReturns, IInv, Suspended, TypeOK, Unflagged, LastMessage
    <3>2. [messages[n] EXCEPT !.step_error = e] \in Message
      BY <3>1 DEF Message
    <3>3. e \/ [messages[n] EXCEPT !.step_error = e] = messages[n]
      BY <3>1 DEF Message
    <3>4. /\ flagged \in Seq(Message) /\ Len(flagged) = n
          /\ flagged[n] = [messages[n] EXCEPT !.step_error = e]
          /\ \A k \in 1 .. n - 1 : flagged[k] = messages[k]
      BY <2>1, <3>1, <3>2 DEF FlagLast
    <3>5. messages' = Append(flagged, ToolResponse(result))
      BY <2>7 DEF ToolReturns
    <3>6. /\ Len(messages') = n + 1
          /\ \A k \in 1 .. n : messages'[k] = flagged[k]
      <4>. HIDE DEF flagged
      <4>. QED BY <3>4, <3>5, MessageTypes, AppendMessage
    <3>7. messages'[n] = messages[n] \/ messages'[n] = [messages[n] EXCEPT !.step_error = TRUE]
      <4>1. messages'[n] = [messages[n] EXCEPT !.step_error = e]
        <5>. HIDE DEF flagged, e, n
        <5>. QED BY <3>1, <3>4, <3>6
      <4>2. CASE e
        <5>1. e = TRUE
          BY <4>2
        <5>. QED BY <4>1, <5>1
      <4>3. CASE ~ e
        BY <3>3, <4>1, <4>3
      <4>. QED BY <4>2, <4>3
    <3>8. ASSUME NEW k \in 1 .. n - 1
          PROVE  messages'[k] = messages[k]
      <4>. HIDE DEF flagged, n
      <4>. QED BY <3>1, <3>4, <3>6, <3>8
    <3>9. Len(messages') >= Len(messages)
      <4>1. n + 1 >= n
        BY <3>1
      <4>. QED BY <3>6, <4>1
    <3>10. ASSUME NEW k \in 1 .. Len(messages)
           PROVE  \/ messages'[k] = messages[k]
                  \/ /\ pc = "tool" /\ k = Len(messages)
                     /\ messages'[k] = [messages[k] EXCEPT !.step_error = TRUE]
      <4>1. k = n \/ k \in 1 .. n - 1
        BY <2>1
      <4>2. CASE k = n
        <5>. HIDE DEF flagged, e
        <5>. QED BY <3>1, <3>7, <4>2
      <4>. QED BY <3>8, <4>1, <4>2
    <3>. QED BY <3>9, <3>10
  <2>. QED BY <1>1, <2>2, <2>5, <2>6, <2>7 DEF AgentStep
<1>2. IInv /\ Unflagged /\ [Next]_agentVars => Unflagged' /\ [Grows]_agentVars
  BY <1>1, UnflaggedStep DEF Next, agentVars, Unflagged
<1>3. Init => Unflagged
  BY DEF Init, Unflagged
<1>. QED BY <1>2, <1>3, AgentInductive, PTL DEF Spec, ConversationGrows

=============================================================================
