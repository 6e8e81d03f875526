----------------------------- MODULE FatalSteps -----------------------------
(***************************************************************************)
(* What _find_fatal_step_index computes (vision_deepresearch_async_        *)
(* workflow/deepresearch_workflow.py): from the error verdicts of the      *)
(* steps of a trajectory, the 0-based index of the first step whose tokens *)
(* are masked, or None.  FatalScan models the pass that computes it.       *)
(***************************************************************************)
EXTENDS Integers, Sequences, FiniteSetsExt

CONSTANT Threshold      \* _CONSECUTIVE_ERROR_THRESHOLD (3 in the code)

ASSUME ThresholdAssumption == Threshold \in Nat \ {0}

NoFatalStep == -1

(* Threshold consecutive errors, the first of them at 0-based index i. *)
IsCascade(verdicts, i) ==
  /\ i + Threshold <= Len(verdicts)
  /\ \A k \in i + 1 .. i + Threshold : verdicts[k]

Cascades(verdicts) == {i \in 0 .. Len(verdicts) : IsCascade(verdicts, i)}

FirstCascade(verdicts) == Min(Cascades(verdicts))

(* Only a cascade is fatal, however the trajectory ended. *)
FatalStepIndexOfCascades(verdicts, has_answer) ==
  IF verdicts = <<>> THEN 0
  ELSE IF Cascades(verdicts) # {} THEN FirstCascade(verdicts) ELSE NoFatalStep

(* The step that completes the cascade, not the one that starts it. *)
FatalStepIndexOfLastError(verdicts, has_answer) ==
  IF verdicts = <<>> THEN 0
  ELSE IF Cascades(verdicts) # {} THEN FirstCascade(verdicts) + Threshold - 1
       ELSE IF has_answer THEN NoFatalStep ELSE Len(verdicts)

(* Counted from one. *)
FatalStepIndexFromOne(verdicts, has_answer) ==
  IF Cascades(verdicts) # {} THEN FirstCascade(verdicts) + 1
  ELSE IF has_answer THEN NoFatalStep ELSE Len(verdicts) + 1

FatalStepIndex(verdicts, has_answer) ==
  IF verdicts = <<>> THEN 0
  ELSE IF Cascades(verdicts) # {} THEN FirstCascade(verdicts)
       ELSE IF has_answer THEN NoFatalStep ELSE Len(verdicts)

=============================================================================
