--------------------------- MODULE MCTokenMasking ---------------------------
(* Every trajectory of at most MaxSteps steps, every response mask of at   *)
(* most MaxTokens tokens.                                                  *)
EXTENDS TokenMasking

MaxSteps == 5
MaxTokens == 11

MCTrajectories == UNION {[1 .. n -> BOOLEAN] : n \in 0 .. MaxSteps}

MCMasks == UNION {[1 .. n -> {0, 1}] : n \in 0 .. MaxTokens}

=============================================================================
