---------------------------- MODULE TokenMasking ----------------------------
(***************************************************************************)
(* Fatal-aware token masking of one trajectory, from the verdicts on its   *)
(* steps to the tokens it is trained on.  DeepResearchWorkflow.run scans   *)
(* the steps (FatalScan) and leaves the index in the episode;              *)
(* transform_results_for_verl (rllm/engine/agent_workflow_engine.py)       *)
(* tokenizes the conversation of the last step and cuts the response mask  *)
(* at that index (StepMask).  The two sides count different things: one    *)
(* the steps, the other the blocks of assistant tokens.                    *)
(*                                                                         *)
(* This is the mode of the launch scripts, one row per trajectory.         *)
(***************************************************************************)
EXTENDS FatalScan, StepMask

VARIABLE stage    \* "scan", "mask" (in _apply_fatal_step_mask), "row"

maskingVars == <<scanVars, maskVars, stage>>

-----------------------------------------------------------------------------

(***************************************************************************)
(* tokenize_and_mask_cumulative: a block of 1 for each assistant message   *)
(* from the first on, a block of 0 for each other message; messages        *)
(* alternate (ReactAgent!Alternation).  The conversation of the last step  *)
(* ends with its own message.                                              *)
(***************************************************************************)
IsResponse(tokens, n_steps) ==
  /\ tokens # <<>> /\ tokens[1] = 1 /\ tokens[Len(tokens)] = 1
  /\ Cardinality(BlocksUpTo(tokens, Len(tokens))) = n_steps

MaskingInit ==
  /\ Init
  /\ response_mask = <<>>
  /\ mask = <<>>
  /\ fatal_step_index = 0
  /\ t = 0
  /\ step = 0
  /\ prev_val = 0
  /\ returned = FALSE
  /\ stage = "scan"

Scan ==
  /\ stage = "scan"
  /\ Next
  /\ UNCHANGED <<maskVars, stage>>

(* An episode without steps gives no row. *)
Tokenize ==
  /\ stage = "scan"
  /\ result # Pending
  /\ \E tokens \in Masks : IsResponse(tokens, Len(errors)) /\ response_mask' = tokens
  /\ UNCHANGED <<scanVars, t, step, prev_val, returned>>

(* The index taken for a number of steps counted from one. *)
CutFatalOneLate ==
  /\ Tokenize
  /\ Len(errors) > 1
  /\ result # NoFatalStep
  /\ mask' = response_mask'
  /\ fatal_step_index' = result + 1
  /\ stage' = "mask"

CutFatal ==
  /\ Tokenize
  /\ Len(errors) > 1
  /\ result # NoFatalStep
  /\ mask' = response_mask'
  /\ fatal_step_index' = result
  /\ stage' = "mask"

KeepSound ==
  /\ Tokenize
  /\ Len(errors) > 1
  /\ result = NoFatalStep
  /\ mask' = response_mask'
  /\ UNCHANGED fatal_step_index
  /\ stage' = "row"

(***************************************************************************)
(* A trajectory of one step is masked as a whole or not at all.            *)
(***************************************************************************)
SingleStep ==
  /\ Tokenize
  /\ Len(errors) = 1
  /\ mask' = IF result = 0 THEN [p \in DOMAIN response_mask' |-> 0] ELSE response_mask'
  /\ UNCHANGED fatal_step_index
  /\ stage' = "row"

CutTokens ==
  /\ stage = "mask"
  /\ MaskNext
  /\ stage' = IF returned' THEN "row" ELSE "mask"
  /\ UNCHANGED scanVars

MaskingNext == Scan \/ CutFatal \/ KeepSound \/ SingleStep \/ CutTokens

MaskingSpec == MaskingInit /\ [][MaskingNext]_maskingVars

-----------------------------------------------------------------------------

(* There is no response mask before the conversation is tokenized. *)
MaskingTypeOK ==
  /\ TypeOK
  /\ stage # "scan" => MaskTypeOK
  /\ stage \in {"scan", "mask", "row"}

(***************************************************************************)
(* A token is trained on exactly when a step of the model wrote it before  *)
(* the first of any Threshold consecutive errors: nothing written in or    *)
(* after a cascade is learned, and nothing written before one is lost,     *)
(* however the trajectory ended.  Nothing here refers to the index the two *)
(* sides exchange.                                                         *)
(***************************************************************************)
StepOfToken(p) == Cardinality(BlocksUpTo(response_mask, p))

LearnsBeforeCascade ==
  stage = "row" =>
    \A p \in DOMAIN mask :
      mask[p] = 1 <=> /\ response_mask[p] = 1
                      /\ \A i \in Cascades(errors) : StepOfToken(p) <= i

=============================================================================
