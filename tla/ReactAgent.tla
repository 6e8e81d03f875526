----------------------------- MODULE ReactAgent -----------------------------
(***************************************************************************)
(* The reasoning loop of MultiTurnReactAgent._run                          *)
(* (vision_deepresearch_async_workflow/deepresearch_agent.py).             *)
(*                                                                         *)
(* A round asks the model for a reply, classifies it by the tags it holds, *)
(* runs at most one tool, and appends an assistant message and the user    *)
(* message that answers it.  The loop stops on a final answer, on an       *)
(* exhausted budget of model calls, on a degenerate reply, on too many     *)
(* consecutive bad steps, or when the model server fails.                  *)
(*                                                                         *)
(* Text is abstracted to what the loop and its callers test for.  The      *)
(* system prompt and the question, two messages that never change, are     *)
(* left out of messages.                                                   *)
(*                                                                         *)
(* A definition named after another with a suffix that says what is wrong  *)
(* with it (FlagFirst, StartRoundUncounted, ...) is a plausible bug in that*)
(* code; nothing uses it but the sensitivity runs of PROJECT.json, which   *)
(* substitute it to see a property fail.                                   *)
(***************************************************************************)
EXTENDS Integers, Sequences

CONSTANTS
  MaxLLMCalls,   \* self.max_llm_calls, the model calls one run may make
  BadStepLimit,  \* consecutive bad steps that end the run (3 in the code)
  Replies,       \* what the model may answer
  ToolResults    \* what a tool call may come back with

(***************************************************************************)
(* How a tool call ended, as its observation shows it:                     *)
(*   "none"     it worked;                                                 *)
(*   "reported" the agent itself flags the step (tool_error): the JSON     *)
(*              does not parse, or the Python interpreter failed;          *)
(*   "marked"   the tool failed and returned a text with one of the error  *)
(*              markers the workflow searches observations for;            *)
(*   "silent"   the tool raised, does not exist or is not callable, which  *)
(*              custom_call_tool turns into a text without any marker.     *)
(***************************************************************************)
ToolFailures == {"none", "reported", "marked", "silent"}

(***************************************************************************)
(* A reply: does it hold a closed <tool_call>, a closed <response>, an     *)
(* opening <response> or <answer> tag anywhere (tag), and is it both       *)
(* repetitive and overlong (degenerate).                                   *)
(***************************************************************************)
Reply ==
  [tool_call : BOOLEAN, response : BOOLEAN, tag : BOOLEAN, degenerate : BOOLEAN]

ToolResult == [failure : ToolFailures, tag : BOOLEAN]

ASSUME MaxLLMCallsAssumption == MaxLLMCalls \in Nat \ {0}
ASSUME BadStepLimitAssumption == BadStepLimit \in Nat \ {0}
ASSUME RepliesAssumption ==
  Replies \subseteq {r \in Reply : r.response => r.tag}
ASSUME ToolResultsAssumption == ToolResults \subseteq ToolResult

VARIABLES
  pc,                       \* the await the run is suspended at, or "done"
  num_llm_calls_available,
  round,
  messages,
  consecutive_bad_steps,
  content,                  \* the reply of the current round
  termination,
  prediction                \* where the text of the prediction comes from

agentVars == <<pc, num_llm_calls_available, round, messages,
               consecutive_bad_steps, content, termination, prediction>>

NoReply ==
  [tool_call |-> FALSE, response |-> FALSE, tag |-> FALSE, degenerate |-> FALSE]

Assistant(step_error, tag) ==
  [role |-> "assistant", step_error |-> step_error, failure |-> "none", tag |-> tag]

ToolResponse(result) ==
  [role |-> "user", step_error |-> FALSE, failure |-> result.failure, tag |-> result.tag]

(***************************************************************************)
(* "Error: Invalid content format. Content must contain <tool_call> or     *)
(* <response> tags. Let's try again.": the hint itself holds <response>.   *)
(***************************************************************************)
FormatHint ==
  [role |-> "user", step_error |-> FALSE, failure |-> "format", tag |-> TRUE]

Message == [role : {"assistant", "user"}, step_error : BOOLEAN,
            failure : ToolFailures \cup {"format"}, tag : BOOLEAN]

Terminations == {"answer", "error", "consecutive_step_errors",
                 "repetition_detected", "answer_not_found_after",
                 "exceed_available_llm_calls"}

Sources == {"model", "tool_output", "format_hint"}

Predictions == Sources \cup {"none", "blank", "placeholder"}

LastMessage(msgs) == msgs[Len(msgs)]

SourceOf(message) ==
  IF message.role = "assistant" THEN "model"
  ELSE IF message.failure = "format" THEN "format_hint" ELSE "tool_output"

-----------------------------------------------------------------------------

Init ==
  /\ pc = "call_server"
  /\ num_llm_calls_available = MaxLLMCalls
  /\ round = 0
  /\ messages = <<>>
  /\ consecutive_bad_steps = 0
  /\ content = NoReply
  /\ termination = "none"
  /\ prediction = "none"

Finish(reason, text) ==
  /\ pc' = "done"
  /\ termination' = reason
  /\ prediction' = text

StartRoundUncounted ==
  /\ pc = "call_server"
  /\ round' = round
  /\ num_llm_calls_available' = num_llm_calls_available - 1

StartRound ==
  /\ pc = "call_server"
  /\ round' = round + 1
  /\ num_llm_calls_available' = num_llm_calls_available - 1

(***************************************************************************)
(* After the loop: the prediction is cut out of the last message, whoever  *)
(* wrote it.  The text between the tags may be blank, but what follows     *)
(* <response> in the format hint is not.                                   *)
(***************************************************************************)
Conclude(msgs) ==
  LET last == LastMessage(msgs)
  IN  \/ /\ last.tag
         /\ \E text \in {SourceOf(last), "blank"} :
              /\ SourceOf(last) = "format_hint" => text = "format_hint"
              /\ Finish("answer", text)
      \/ /\ ~last.tag
         /\ Finish("exceed_available_llm_calls", "placeholder")

(***************************************************************************)
(* The end of a round that did not answer, given the messages, the count   *)
(* of bad steps, the budget left and the reply as the round leaves them.   *)
(***************************************************************************)
EndRound(msgs, bad, available, reply) ==
  \/ /\ bad >= BadStepLimit
     /\ Finish("consecutive_step_errors", "placeholder")
  \/ /\ bad < BadStepLimit
     /\ available = 0
     /\ ~reply.tag
     /\ Finish("answer_not_found_after", "placeholder")
  \/ /\ bad < BadStepLimit
     /\ available = 0
     /\ reply.tag
     /\ Conclude(msgs)
  \/ /\ bad < BadStepLimit
     /\ available > 0
     /\ pc' = "call_server"
     /\ UNCHANGED <<termination, prediction>>

(***************************************************************************)
(* call_server raises.                                                     *)
(***************************************************************************)
CallServerFails ==
  /\ StartRound
  /\ Finish("error", "placeholder")
  /\ UNCHANGED <<messages, consecutive_bad_steps, content>>

(***************************************************************************)
(* A reply with a tool call; the run is then suspended in the tool.  A     *)
(* tool call wins over a final answer in the same reply.                   *)
(***************************************************************************)
RequestTool(reply) ==
  /\ reply.tool_call
  /\ StartRound
  /\ messages' = Append(messages, Assistant(FALSE, reply.tag))
  /\ content' = reply
  /\ pc' = "tool"
  /\ UNCHANGED <<consecutive_bad_steps, termination, prediction>>

CountBadWithoutReset(bad, step_error) == IF step_error THEN bad + 1 ELSE bad
CountBad(bad, step_error) == IF step_error THEN bad + 1 ELSE 0

FlagFirst(msgs, tool_error) == [msgs EXCEPT ![1].step_error = tool_error]
FlagLast(msgs, tool_error) == [msgs EXCEPT ![Len(msgs)].step_error = tool_error]

ToolReturns(result) ==
  LET tool_error == result.failure = "reported"
  IN  /\ pc = "tool"
      /\ messages' = Append(FlagLast(messages, tool_error), ToolResponse(result))
      /\ consecutive_bad_steps' = CountBad(consecutive_bad_steps, tool_error)
      /\ EndRound(messages', consecutive_bad_steps', num_llm_calls_available, content)
      /\ UNCHANGED <<num_llm_calls_available, round, content>>

(***************************************************************************)
(* A reply with a final answer: break out of the loop.                     *)
(***************************************************************************)
Answer(reply) ==
  /\ ~reply.tool_call
  /\ reply.response
  /\ StartRound
  /\ messages' = Append(messages, Assistant(FALSE, reply.tag))
  /\ consecutive_bad_steps' = 0
  /\ content' = reply
  /\ Conclude(messages')

(***************************************************************************)
(* A repetitive and overlong reply with neither: give up.                  *)
(***************************************************************************)
Degenerate(reply) ==
  /\ ~reply.tool_call /\ ~reply.response
  /\ reply.degenerate
  /\ StartRound
  /\ messages' = Append(messages, Assistant(TRUE, reply.tag))
  /\ content' = reply
  /\ Finish("repetition_detected", "placeholder")
  /\ UNCHANGED consecutive_bad_steps

(***************************************************************************)
(* Any other reply: tell the model about the format and go on.             *)
(***************************************************************************)
InvalidFormatWithoutHint(reply) ==
  /\ ~reply.tool_call /\ ~reply.response
  /\ ~reply.degenerate
  /\ StartRound
  /\ messages' = Append(messages, Assistant(TRUE, reply.tag))
  /\ consecutive_bad_steps' = CountBad(consecutive_bad_steps, TRUE)
  /\ content' = reply
  /\ EndRound(messages', consecutive_bad_steps', num_llm_calls_available', reply)

InvalidFormat(reply) ==
  /\ ~reply.tool_call /\ ~reply.response
  /\ ~reply.degenerate
  /\ StartRound
  /\ messages' = Append(Append(messages, Assistant(TRUE, reply.tag)), FormatHint)
  /\ consecutive_bad_steps' = CountBad(consecutive_bad_steps, TRUE)
  /\ content' = reply
  /\ EndRound(messages', consecutive_bad_steps', num_llm_calls_available', reply)

AgentStep ==
  \/ CallServerFails
  \/ \E reply \in Replies :
       RequestTool(reply) \/ Answer(reply) \/ Degenerate(reply) \/ InvalidFormat(reply)
  \/ \E result \in ToolResults : ToolReturns(result)

Next == AgentStep

Spec == Init /\ [][Next]_agentVars

(***************************************************************************)
(* Every await of the loop returns or raises: the HTTP calls and the tools *)
(* carry timeouts.                                                         *)
(***************************************************************************)
FairSpec == Spec /\ WF_agentVars(Next)

-----------------------------------------------------------------------------
(***************************************************************************)
(* Properties                                                              *)
(***************************************************************************)

TypeOK ==
  /\ pc \in {"call_server", "tool", "done"}
  /\ num_llm_calls_available \in 0 .. MaxLLMCalls
  /\ round \in 0 .. MaxLLMCalls
  /\ messages \in Seq(Message)
  /\ consecutive_bad_steps \in 0 .. BadStepLimit
  /\ content \in Reply
  /\ termination \in Terminations \cup {"none"}
  /\ prediction \in Predictions

IsBadStep(message) == message.role = "assistant" /\ message.step_error

(***************************************************************************)
(* The first n of the messages end with exactly bad consecutive bad steps. *)
(***************************************************************************)
EndsWithBadSteps(msgs, n, bad) ==
  /\ 2 * bad <= n
  /\ \A k \in 1 .. n :
       k > n - 2 * bad => (msgs[k].role = "assistant" => msgs[k].step_error)
  /\ n > 2 * bad => ~ IsBadStep(msgs[n - 2 * bad - 1])

(***************************************************************************)
(* Assistant and user messages strictly alternate, the model speaks first, *)
(* and is only asked again after a user message.  The conversion to        *)
(* training steps pairs each assistant message with the next message, and  *)
(* the response mask has one block of tokens per step: both are wrong as   *)
(* soon as two messages of one role are adjacent.                          *)
(***************************************************************************)
Alternation ==
  /\ messages # <<>> => messages[1].role = "assistant"
  /\ \A k \in 1 .. Len(messages) - 1 : messages[k].role # messages[k + 1].role
  /\ pc = "call_server" /\ messages # <<>> => LastMessage(messages).role = "user"
  /\ pc = "tool" => messages # <<>> /\ LastMessage(messages).role = "assistant"

(***************************************************************************)
(* The counter is the length of the run of bad steps the conversation ends *)
(* with, so that the loop never asks the model again after BadStepLimit    *)
(* consecutive bad steps, and gives up for that reason only when the last  *)
(* BadStepLimit steps are bad.                                             *)
(***************************************************************************)
CascadeStops ==
  /\ pc = "call_server" =>
       /\ consecutive_bad_steps < BadStepLimit
       /\ EndsWithBadSteps(messages, Len(messages), consecutive_bad_steps)
  /\ termination = "consecutive_step_errors" =>
       EndsWithBadSteps(messages, Len(messages), BadStepLimit)

(***************************************************************************)
(* The budget is accounted for: every round spends one call and adds one   *)
(* assistant message, except a last round whose call failed; the reasons   *)
(* that blame the budget are given only when it is spent.                  *)
(***************************************************************************)
BudgetAccounting ==
  /\ round + num_llm_calls_available = MaxLLMCalls
  /\ LET steps == IF termination = "error" THEN round - 1 ELSE round
     IN  Len(messages) \in {2 * steps - 1, 2 * steps}
  /\ termination \in {"answer_not_found_after", "exceed_available_llm_calls"} =>
       num_llm_calls_available = 0

(***************************************************************************)
(* What was said is never revised: a step only extends the conversation,   *)
(* and may change no earlier message but the error flag of the assistant   *)
(* message that is waiting for its tool.                                   *)
(***************************************************************************)
ConversationGrows ==
  [][ /\ Len(messages') >= Len(messages)
      /\ \A k \in 1 .. Len(messages) :
           \/ messages'[k] = messages[k]
           \/ /\ pc = "tool" /\ k = Len(messages)
              /\ messages'[k] = [messages[k] EXCEPT !.step_error = TRUE]
    ]_agentVars

(***************************************************************************)
(* The system prompt asks for the final answer inside <response></response>*)
(* and the workflow takes termination "answer" for a trajectory that       *)
(* terminated with an answer: a run that ends so has a prediction the      *)
(* model wrote.                                                            *)
(***************************************************************************)
AnswerIsTheModels ==
  termination = "answer" => prediction \in {"model", "blank"}

=============================================================================
