-------------------------- MODULE MCWorkflowTrainer --------------------------
(* Small instances of the training step. *)
EXTENDS WorkflowTrainer

MCKind(steps, fatal, termination_reason, is_correct, reward) ==
  [steps |-> steps, fatal |-> fatal, termination_reason |-> termination_reason,
   is_correct |-> is_correct, reward |-> reward]

MCDropped    == MCKind(0, NoFatalStep, "ERROR", FALSE, 0)
MCSolved     == MCKind(2, NoFatalStep, "ENV_DONE", TRUE, 1)
MCFailed     == MCKind(1, NoFatalStep, "ENV_DONE", FALSE, 0)
MCUnfinished == MCKind(2, 2, "UNKNOWN", FALSE, 0)
MCRecovered  == MCKind(5, 1, "ENV_DONE", TRUE, 1)     \* a cascade, then an answer
MCCascade    == MCKind(4, 1, "UNKNOWN", FALSE, 0)
MCHopeless   == MCKind(3, 0, "UNKNOWN", TRUE, 0)      \* a cascade from the start

MCOption(m, r) == [mode |-> m, rejection_sample |-> r]

(* rejection sampling with the mode of the launch scripts; the others without *)
MCOptions == {MCOption(m, FALSE) : m \in {"none", "per_step", "broadcast"}}
               \cup {MCOption("none", TRUE)}
MCLaunched == {MCOption("none", FALSE)}

MCAllKinds == {MCDropped, MCSolved, MCFailed, MCUnfinished, MCRecovered, MCCascade,
               MCHopeless}
MCSampledKinds == {MCDropped, MCSolved, MCFailed, MCUnfinished}
MCWholeKinds == [r \in BOOLEAN |-> {MCSolved, MCFailed}]

MCKinds == [r \in BOOLEAN |-> IF r THEN MCSampledKinds ELSE MCAllKinds]

=============================================================================
