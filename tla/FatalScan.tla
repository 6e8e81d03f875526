------------------------------ MODULE FatalScan ------------------------------
(***************************************************************************)
(* _find_fatal_step_index (vision_deepresearch_async_workflow/             *)
(* deepresearch_workflow.py): one pass over the steps of a trajectory that *)
(* looks for the first cascade of Threshold consecutive step errors.  Its  *)
(* result is the 0-based index of the first step whose tokens are masked,  *)
(* or None.                                                                *)
(*                                                                         *)
(* The pass is a state machine here; FatalStepIndex says what it computes. *)
(***************************************************************************)
EXTENDS FatalSteps

CONSTANT Trajectories    \* the sequences of _is_step_error verdicts to scan

ASSUME TrajectoriesAssumption == Trajectories \subseteq Seq(BOOLEAN)

VARIABLES
  errors,              \* the verdicts, one per step
  answered,            \* termination == "answer"
  idx,                 \* steps looked at so far
  consecutive_errors,
  result               \* a fatal step index, NoFatalStep or Pending

scanVars == <<errors, answered, idx, consecutive_errors, result>>

Pending == -2

-----------------------------------------------------------------------------

Init ==
  /\ errors \in Trajectories
  /\ answered \in BOOLEAN
  /\ idx = 0
  /\ consecutive_errors = 0
  /\ result = IF errors = <<>> THEN 0 ELSE Pending

CountWithoutReset(count, error) == IF error THEN count + 1 ELSE count
Count(count, error) == IF error THEN count + 1 ELSE 0

(***************************************************************************)
(* One iteration of the loop over the steps.                               *)
(***************************************************************************)
LookAtStep ==
  /\ result = Pending
  /\ idx < Len(errors)
  /\ consecutive_errors' = Count(consecutive_errors, errors[idx + 1])
  /\ IF consecutive_errors' >= Threshold
       THEN result' = idx - Threshold + 1 /\ UNCHANGED idx
       ELSE idx' = idx + 1 /\ UNCHANGED result
  /\ UNCHANGED <<errors, answered>>

(***************************************************************************)
(* No cascade: an answer is no fatality; anything else is fatal after the  *)
(* last step.                                                              *)
(***************************************************************************)
EndOfSteps ==
  /\ result = Pending
  /\ idx = Len(errors)
  /\ result' = IF answered THEN NoFatalStep ELSE Len(errors)
  /\ UNCHANGED <<errors, answered, idx, consecutive_errors>>

Next == LookAtStep \/ EndOfSteps

Spec == Init /\ [][Next]_scanVars

-----------------------------------------------------------------------------

TypeOK ==
  /\ errors \in Trajectories
  /\ answered \in BOOLEAN
  /\ idx \in 0 .. Len(errors)
  /\ consecutive_errors \in 0 .. Threshold
  /\ result \in {Pending, NoFatalStep} \cup 0 .. Len(errors)

(***************************************************************************)
(* The pass computes FatalStepIndex: it finds the first cascade and no     *)
(* other, takes a recovered error for no fatality, and tells an answered   *)
(* trajectory from one that just stops.                                    *)
(***************************************************************************)
ScanIsCorrect == result # Pending => result = FatalStepIndex(errors, answered)

(***************************************************************************)
(* What is kept in front of the fatal step holds no cascade, and a kept    *)
(* prefix that was cut short by a cascade does not end with an error.      *)
(***************************************************************************)
PrefixIsClean ==
  result > 0 =>
    /\ \A i \in 0 .. result - 1 : i + Threshold <= result => ~ IsCascade(errors, i)
    /\ result < Len(errors) => ~ errors[result]

=============================================================================
