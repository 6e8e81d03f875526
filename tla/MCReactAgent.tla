---------------------------- MODULE MCReactAgent ----------------------------
(* Small instances of the agent loop. *)
EXTENDS ReactAgent

MCReply(tool_call, response, tag, degenerate) ==
  [tool_call |-> tool_call, response |-> response, tag |-> tag,
   degenerate |-> degenerate]

(* Each branch of the loop, with and without a stray tag where it matters. *)
MCReplies ==
  { MCReply(TRUE,  FALSE, FALSE, FALSE),   \* tool call
    MCReply(TRUE,  TRUE,  TRUE,  FALSE),   \* tool call and final answer
    MCReply(FALSE, TRUE,  TRUE,  FALSE),   \* final answer
    MCReply(FALSE, FALSE, FALSE, TRUE),    \* degenerate
    MCReply(FALSE, FALSE, FALSE, FALSE),   \* neither
    MCReply(FALSE, FALSE, TRUE,  FALSE) }  \* a tag that is never closed

MCToolResults == [failure : ToolFailures, tag : {FALSE}]
                   \cup {[failure |-> "none", tag |-> TRUE]}

=============================================================================
