------------------------------ MODULE StepMask ------------------------------
(***************************************************************************)
(* _apply_fatal_step_mask (rllm/engine/agent_workflow_engine.py): zero the *)
(* tokens of every assistant step from fatal_step_index on in a cumulative *)
(* response mask.  The mask is a sequence of blocks of 1 (an assistant     *)
(* message) and of 0 (a user message); the pass counts blocks of 1.        *)
(***************************************************************************)
EXTENDS Integers, Sequences, FiniteSets

CONSTANTS Masks   \* the response masks to treat

ASSUME MasksAssumption == Masks \subseteq Seq({0, 1})

VARIABLES
  response_mask,     \* the argument
  fatal_step_index,
  mask,              \* response_mask.clone(), being treated
  t,                 \* tokens looked at so far
  step,              \* blocks of 1 that have ended so far
  prev_val,
  returned

maskVars == <<response_mask, fatal_step_index, mask, t, step, prev_val, returned>>

-----------------------------------------------------------------------------

(* The position is the first of a block of 1. *)
StartsBlock(tokens, p) == tokens[p] = 1 /\ (p = 1 \/ tokens[p - 1] = 0)

(* The blocks of 1 that start at or before a position. *)
BlocksUpTo(tokens, p) == {q \in 1 .. p : StartsBlock(tokens, q)}

(***************************************************************************)
(* The function, without the pass: a token of 1 survives when it belongs   *)
(* to one of the first n blocks.                                           *)
(***************************************************************************)
KeepBlocks(tokens, n) ==
  [p \in DOMAIN tokens |->
     IF Cardinality(BlocksUpTo(tokens, p)) <= n THEN tokens[p] ELSE 0]

-----------------------------------------------------------------------------

MaskInit ==
  /\ response_mask \in Masks
  /\ fatal_step_index \in 0 .. Len(response_mask) + 1
  /\ mask = response_mask
  /\ t = 0
  /\ step = 0
  /\ prev_val = 0
  /\ returned = FALSE

ZeroBlockFrom(tokens, p) == [tokens EXCEPT ![p] = 0]
CutFrom(tokens, p) == SubSeq(tokens, 1, p - 1)
ZeroFrom(tokens, p) == [q \in DOMAIN tokens |-> IF q < p THEN tokens[q] ELSE 0]

(***************************************************************************)
(* One iteration of the loop over the tokens.  The index t of the code is  *)
(* t + 1 here.                                                             *)
(***************************************************************************)
LookAtToken ==
  LET val == mask[t + 1]
  IN  /\ ~returned
      /\ t < Len(mask)
      /\ IF val = 1 /\ prev_val = 0 /\ step >= fatal_step_index
           THEN /\ mask' = ZeroFrom(mask, t + 1)
                /\ returned' = TRUE
                /\ UNCHANGED <<t, step, prev_val>>
           ELSE /\ step' = IF val = 0 /\ prev_val = 1 THEN step + 1 ELSE step
                /\ prev_val' = val
                /\ t' = t + 1
                /\ UNCHANGED <<mask, returned>>
      /\ UNCHANGED <<response_mask, fatal_step_index>>

Return ==
  /\ ~returned
  /\ t = Len(mask)
  /\ returned' = TRUE
  /\ UNCHANGED <<response_mask, fatal_step_index, mask, t, step, prev_val>>

MaskNext == LookAtToken \/ Return

MaskSpec == MaskInit /\ [][MaskNext]_maskVars

-----------------------------------------------------------------------------

MaskTypeOK ==
  /\ response_mask \in Masks
  /\ fatal_step_index \in Nat
  /\ mask \in Seq({0, 1}) /\ Len(mask) = Len(response_mask)
  /\ t \in 0 .. Len(mask)
  /\ step \in 0 .. t
  /\ prev_val \in {0, 1}
  /\ returned \in BOOLEAN

(***************************************************************************)
(* The pass keeps the tokens of the steps before fatal_step_index, all of  *)
(* them, and no token of a later step.                                     *)
(***************************************************************************)
MaskIsCorrect == returned => mask = KeepBlocks(response_mask, fatal_step_index)

=============================================================================
