------------------------- MODULE TokenMaskingProofs -------------------------
(***************************************************************************)
(* The composition of the scan and the cut is right for every trajectory,  *)
(* every response mask and every threshold: the proofs of the two parts    *)
(* meet in the index they exchange.                                        *)
(***************************************************************************)
EXTENDS TokenMasking, PositionsProofs

-----------------------------------------------------------------------------
(***************************************************************************)
(* The scan for the fatal step, for every trajectory, however long.        *)
(***************************************************************************)

(***************************************************************************)
(* While the scan runs, the counter is the length of the run of errors     *)
(* that ends at idx, and no cascade lies within the first idx steps.       *)
(***************************************************************************)
Scanning ==
  result = Pending =>
    /\ errors # <<>>
    /\ consecutive_errors < Threshold
    /\ consecutive_errors <= idx
    /\ \A k \in idx - consecutive_errors + 1 .. idx : errors[k]
    /\ consecutive_errors < idx => ~ errors[idx - consecutive_errors]
    /\ \A i \in 0 .. Len(errors) : IsCascade(errors, i) => i + Threshold > idx

ScanInv == TypeOK /\ Scanning /\ ScanIsCorrect /\ PrefixIsClean

(***************************************************************************)
(* The first cascade is the fatal step.                                    *)
(***************************************************************************)
LEMMA FirstCascadeIsFatal ==
  ASSUME NEW verdicts \in Seq(BOOLEAN), verdicts # <<>>, NEW has_answer,
         NEW i \in 0 .. Len(verdicts), IsCascade(verdicts, i),
         \A j \in 0 .. Len(verdicts) : IsCascade(verdicts, j) => i <= j
  PROVE  FatalStepIndex(verdicts, has_answer) = i
<1>1. i \in Cascades(verdicts) /\ Cascades(verdicts) # {}
  BY DEF Cascades
<1>2. Cascades(verdicts) \in SUBSET Nat
  BY DEF Cascades
<1>3. FirstCascade(verdicts) \in Cascades(verdicts) /\ FirstCascade(verdicts) <= i
  BY <1>1, <1>2, MinIsLeast DEF FirstCascade
<1>4. i <= FirstCascade(verdicts)
  BY <1>3 DEF Cascades
<1>5. FirstCascade(verdicts) = i
  BY <1>2, <1>3, <1>4
<1> QED
  BY <1>1, <1>5 DEF FatalStepIndex

(***************************************************************************)
(* A scan that starts satisfies the invariant.                             *)
(***************************************************************************)
LEMMA ScanInitInv == Init => ScanInv
<1> SUFFICES ASSUME Init PROVE ScanInv
  OBVIOUS
<1> USE ThresholdAssumption, TrajectoriesAssumption
<1>1. errors \in Seq(BOOLEAN) /\ Len(errors) \in Nat
  BY DEF Init
<1>2. TypeOK
  BY <1>1 DEF Init, TypeOK, Pending, NoFatalStep
<1>3. Scanning
  BY <1>1 DEF Init, Scanning, IsCascade, Pending
<1>4. ScanIsCorrect
  BY DEF Init, ScanIsCorrect, FatalStepIndex, Pending
<1> QED
  BY <1>2, <1>3, <1>4 DEF ScanInv, Init, PrefixIsClean, Pending

(***************************************************************************)
(* An iteration that finds a cascade returns the first one.                *)
(***************************************************************************)
LEMMA FoundInv ==
  ASSUME ScanInv, LookAtStep, consecutive_errors' >= Threshold
  PROVE  ScanInv'
<1> USE ThresholdAssumption, TrajectoriesAssumption
<1> DEFINE i == idx - Threshold + 1
<1>1. /\ errors \in Seq(BOOLEAN) /\ Len(errors) \in Nat /\ idx \in 0 .. Len(errors) - 1
      /\ errors # <<>> /\ UNCHANGED <<errors, answered, idx>> /\ result' = i
      /\ consecutive_errors \in 0 .. Threshold - 1 /\ consecutive_errors <= idx
  BY DEF ScanInv, TypeOK, Scanning, LookAtStep
<1>2. errors[idx + 1] /\ consecutive_errors' = consecutive_errors + 1
      /\ consecutive_errors' = Threshold
  BY <1>1 DEF LookAtStep, Count
<1>3. i \in 0 .. Len(errors) /\ i = idx - consecutive_errors
  BY <1>1, <1>2
<1> HIDE DEF i
<1>4. IsCascade(errors, i)
  <2>1. i + Threshold = idx + 1
    BY <1>1, <1>2, <1>3
  <2>2. ASSUME NEW k \in i + 1 .. i + Threshold PROVE errors[k]
    <3>1. CASE k = idx + 1
      BY <1>2, <3>1
    <3>2. CASE k \in idx - consecutive_errors + 1 .. idx
      BY <3>2 DEF ScanInv, Scanning, LookAtStep
    <3> QED
      BY <1>1, <1>3, <2>1, <3>1, <3>2
  <2> QED
    BY <1>1, <2>1, <2>2 DEF IsCascade
<1>5. ASSUME NEW j \in 0 .. Len(errors), IsCascade(errors, j)
      PROVE  i <= j
  <2>1. j + Threshold > idx
    BY <1>5 DEF ScanInv, Scanning, LookAtStep
  <2> QED
    BY <1>1, <1>2, <1>3, <2>1
<1>6. FatalStepIndex(errors, answered) = i
  BY <1>1, <1>3, <1>4, <1>5, FirstCascadeIsFatal
<1>7. TypeOK'
  BY <1>1, <1>2, <1>3 DEF ScanInv, TypeOK
<1>8. result' # Pending
  BY <1>1, <1>3 DEF Pending
<1>9. PrefixIsClean'
  <2>1. ASSUME i > 0 PROVE ~ errors[i]
    BY <1>1, <1>3, <2>1 DEF ScanInv, Scanning, LookAtStep
  <2>2. ASSUME NEW j \in 0 .. i - 1 PROVE ~ IsCascade(errors, j)
    BY <1>1, <1>3, <1>5, <2>2
  <2> QED
    BY <1>1, <2>1, <2>2 DEF PrefixIsClean
<1> QED
  BY <1>1, <1>6, <1>7, <1>8, <1>9 DEF ScanInv, Scanning, ScanIsCorrect

(***************************************************************************)
(* An iteration that finds none keeps the counter exact.                   *)
(***************************************************************************)
LEMMA GoOnInv ==
  ASSUME ScanInv, LookAtStep, ~ (consecutive_errors' >= Threshold)
  PROVE  ScanInv'
<1> USE ThresholdAssumption, TrajectoriesAssumption
<1>1. /\ errors \in Seq(BOOLEAN) /\ Len(errors) \in Nat /\ idx \in 0 .. Len(errors) - 1
      /\ errors # <<>> /\ UNCHANGED <<errors, answered, result>> /\ idx' = idx + 1
      /\ result = Pending
      /\ consecutive_errors \in 0 .. Threshold - 1 /\ consecutive_errors <= idx
  BY DEF ScanInv, TypeOK, Scanning, LookAtStep
<1>2. /\ errors[idx + 1] \in BOOLEAN
      /\ consecutive_errors' = IF errors[idx + 1] THEN consecutive_errors + 1 ELSE 0
  BY <1>1 DEF LookAtStep, Count
<1>3. consecutive_errors' \in 0 .. Threshold - 1 /\ consecutive_errors' <= idx'
  BY <1>1, <1>2
<1>4. TypeOK'
  BY <1>1, <1>3 DEF ScanInv, TypeOK
<1>5. ASSUME NEW k \in idx' - consecutive_errors' + 1 .. idx' PROVE errors[k]
  <2>1. CASE errors[idx + 1] /\ k <= idx
    <3>1. k \in idx - consecutive_errors + 1 .. idx
      BY <1>1, <1>2, <2>1
    <3> QED
      BY <1>1, <3>1 DEF ScanInv, Scanning
  <2>2. CASE errors[idx + 1] /\ k = idx + 1
    BY <2>2
  <2> QED
    BY <1>1, <1>2, <2>1, <2>2
<1>6. ASSUME consecutive_errors' < idx' PROVE ~ errors[idx' - consecutive_errors']
  <2>1. CASE errors[idx + 1]
    <3>1. idx' - consecutive_errors' = idx - consecutive_errors /\ consecutive_errors < idx
      BY <1>1, <1>2, <1>6, <2>1
    <3> QED
      BY <1>1, <3>1 DEF ScanInv, Scanning
  <2>2. CASE ~ errors[idx + 1]
    BY <1>1, <1>2, <2>2
  <2> QED
    BY <1>2, <2>1, <2>2
<1>7. ASSUME NEW i \in 0 .. Len(errors), IsCascade(errors, i)
      PROVE  i + Threshold > idx'
  <2>1. i + Threshold > idx
    BY <1>1, <1>7 DEF ScanInv, Scanning
  <2>2. SUFFICES ASSUME i + Threshold = idx + 1 PROVE FALSE
    BY <1>1, <2>1
  <2>3. CASE errors[idx + 1]
    <3> DEFINE k == idx - consecutive_errors
    <3>1. consecutive_errors + 1 < Threshold /\ consecutive_errors < idx
      BY <1>1, <1>2, <1>3, <2>2, <2>3
    <3>2. k \in i + 1 .. i + Threshold
      BY <1>1, <2>2, <3>1
    <3>3. ~ errors[k]
      BY <1>1, <3>1 DEF ScanInv, Scanning
    <3> QED
      BY <1>7, <3>2, <3>3 DEF IsCascade
  <2>4. CASE ~ errors[idx + 1]
    <3>1. idx + 1 \in i + 1 .. i + Threshold
      BY <1>1, <2>2
    <3> QED
      BY <1>7, <2>4, <3>1 DEF IsCascade
  <2> QED
    BY <2>3, <2>4
<1>8. Scanning'
  <2>1. errors' = errors
    BY <1>1
  <2>2. consecutive_errors' < Threshold /\ errors' # <<>>
    BY <1>1, <1>3
  <2>3. \A k \in idx' - consecutive_errors' + 1 .. idx' : errors'[k]
    BY <1>5, <2>1
  <2>4. consecutive_errors' < idx' => ~ errors'[idx' - consecutive_errors']
    BY <1>6, <2>1
  <2>5. \A i \in 0 .. Len(errors') : IsCascade(errors', i) => i + Threshold > idx'
    BY <1>7, <2>1
  <2> QED
    BY <1>3, <2>2, <2>3, <2>4, <2>5 DEF Scanning
<1> QED
  BY <1>1, <1>4, <1>8 DEF ScanInv, ScanIsCorrect, PrefixIsClean, Pending

(***************************************************************************)
(* At the end of the steps there is no cascade.                            *)
(***************************************************************************)
LEMMA EndInv ==
  ASSUME ScanInv, EndOfSteps
  PROVE  ScanInv'
<1> USE ThresholdAssumption, TrajectoriesAssumption
<1>1. /\ errors \in Seq(BOOLEAN) /\ Len(errors) \in Nat /\ idx = Len(errors)
      /\ errors # <<>> /\ UNCHANGED <<errors, answered, idx, consecutive_errors>>
      /\ result' = IF answered THEN NoFatalStep ELSE Len(errors)
      /\ answered \in BOOLEAN
  BY DEF ScanInv, TypeOK, Scanning, EndOfSteps
<1>2. Cascades(errors) = {}
  <2>1. ASSUME NEW i \in 0 .. Len(errors), IsCascade(errors, i) PROVE FALSE
    <3>1. i + Threshold > Len(errors)
      BY <1>1, <2>1 DEF ScanInv, Scanning, EndOfSteps
    <3> QED
      BY <1>1, <2>1, <3>1 DEF IsCascade
  <2> QED
    BY <2>1 DEF Cascades
<1>3. FatalStepIndex(errors, answered) = result'
  BY <1>1, <1>2 DEF FatalStepIndex
<1>4. TypeOK' /\ result' # Pending
  BY <1>1 DEF ScanInv, TypeOK, NoFatalStep, Pending
<1>5. PrefixIsClean'
  BY <1>1, <1>2 DEF PrefixIsClean, Cascades, NoFatalStep
<1> QED
  BY <1>1, <1>3, <1>4, <1>5 DEF ScanInv, Scanning, ScanIsCorrect

(***************************************************************************)
(* The invariant is inductive.                                             *)
(***************************************************************************)
LEMMA ScanNextInv == ScanInv /\ [Next]_scanVars => ScanInv'
<1> SUFFICES ASSUME ScanInv, [Next]_scanVars PROVE ScanInv'
  OBVIOUS
<1>1. CASE LookAtStep
  BY <1>1, FoundInv, GoOnInv
<1>2. CASE EndOfSteps
  BY <1>2, EndInv
<1>3. CASE UNCHANGED scanVars
  BY <1>3 DEF scanVars, ScanInv, TypeOK, Scanning, ScanIsCorrect, PrefixIsClean
<1> QED
  BY <1>1, <1>2, <1>3 DEF Next

(***************************************************************************)
(* Every scan keeps the inductive invariant.                               *)
(***************************************************************************)
LEMMA FatalScanInductive == Spec => []ScanInv
BY ScanInitInv, ScanNextInv, PTL DEF Spec

(***************************************************************************)
(* The scan computes FatalStepIndex for every trajectory and threshold.    *)
(***************************************************************************)
THEOREM FatalScanCorrect == Spec => []ScanIsCorrect
<1>1. ScanInv => ScanIsCorrect
  BY DEF ScanInv
<1> QED
  BY FatalScanInductive, <1>1, PTL

(***************************************************************************)
(* What is kept in front of the fatal step holds no cascade, and does not  *)
(* end with an error when a cascade cut it short.                          *)
(***************************************************************************)
THEOREM FatalScanPrefix == Spec => []PrefixIsClean
<1>1. ScanInv => PrefixIsClean
  BY DEF ScanInv
<1> QED
  BY FatalScanInductive, <1>1, PTL

-----------------------------------------------------------------------------
(***************************************************************************)
(* The fatal-step mask, for every response mask, however long, and every   *)
(* index.                                                                  *)
(***************************************************************************)

Blocks(p) == Cardinality(BlocksUpTo(response_mask, p))

(***************************************************************************)
(* Until it returns, the pass has changed nothing, it has seen at most     *)
(* fatal_step_index blocks, and step counts those of them that have ended. *)
(***************************************************************************)
Walking ==
  ~returned =>
    /\ mask = response_mask
    /\ prev_val = (IF t = 0 THEN 0 ELSE mask[t])
    /\ Blocks(t) = step + prev_val
    /\ Blocks(t) <= fatal_step_index

PassInv == MaskTypeOK /\ Walking /\ MaskIsCorrect

(***************************************************************************)
(* The blocks seen grow by one where a block starts.                       *)
(***************************************************************************)
LEMMA BlocksGrow ==
  ASSUME NEW tokens, NEW p \in Nat
  PROVE  /\ IsFiniteSet(BlocksUpTo(tokens, p))
         /\ Cardinality(BlocksUpTo(tokens, p)) \in Nat
         /\ Cardinality(BlocksUpTo(tokens, p + 1)) =
              Cardinality(BlocksUpTo(tokens, p))
                + (IF StartsBlock(tokens, p + 1) THEN 1 ELSE 0)
<1>1. IsFiniteSet(BlocksUpTo(tokens, p))
  <2>1. IsFiniteSet(1 .. p) /\ BlocksUpTo(tokens, p) \in SUBSET (1 .. p)
    BY FS_Interval DEF BlocksUpTo
  <2> QED
    BY <2>1, FS_Subset
<1>2. Cardinality(BlocksUpTo(tokens, p)) \in Nat
  BY <1>1, FS_CardinalityType
<1>3. CASE StartsBlock(tokens, p + 1)
  <2>1. BlocksUpTo(tokens, p + 1) = BlocksUpTo(tokens, p) \cup {p + 1}
    BY <1>3 DEF BlocksUpTo
  <2>2. p + 1 \notin BlocksUpTo(tokens, p)
    BY DEF BlocksUpTo
  <2> QED
    BY <1>1, <1>2, <1>3, <2>1, <2>2, FS_AddElement
<1>4. CASE ~ StartsBlock(tokens, p + 1)
  <2>1. BlocksUpTo(tokens, p + 1) = BlocksUpTo(tokens, p)
    BY <1>4 DEF BlocksUpTo
  <2> QED
    BY <1>1, <1>2, <1>4, <2>1
<1> QED
  BY <1>1, <1>2, <1>3, <1>4

(***************************************************************************)
(* No more blocks have started at an earlier position.                     *)
(***************************************************************************)
LEMMA BlocksMonotone ==
  ASSUME NEW tokens, NEW p \in Nat, NEW q \in Nat, p <= q
  PROVE  Cardinality(BlocksUpTo(tokens, p)) <= Cardinality(BlocksUpTo(tokens, q))
<1>1. IsFiniteSet(BlocksUpTo(tokens, q))
  BY BlocksGrow
<1>2. BlocksUpTo(tokens, p) \in SUBSET BlocksUpTo(tokens, q)
  BY DEF BlocksUpTo
<1> QED
  BY <1>1, <1>2, FS_Subset

(***************************************************************************)
(* The pass starts with nothing seen.                                      *)
(***************************************************************************)
LEMMA PassInitInv == MaskInit => PassInv
<1> SUFFICES ASSUME MaskInit PROVE PassInv
  OBVIOUS
<1>1. response_mask \in Seq({0, 1}) /\ Len(response_mask) \in Nat
  BY MasksAssumption DEF MaskInit
<1>2. MaskTypeOK
  <2>1. /\ mask = response_mask /\ t = 0 /\ step = 0 /\ prev_val = 0 /\ returned = FALSE
        /\ fatal_step_index \in 0 .. Len(response_mask) + 1
        /\ response_mask \in Masks
    BY DEF MaskInit
  <2>2. fatal_step_index \in Nat
    BY <1>1, <2>1
  <2>3. mask \in Seq({0, 1}) /\ Len(mask) = Len(response_mask)
    BY <1>1, <2>1
  <2>4. t \in 0 .. Len(mask) /\ step \in 0 .. t /\ prev_val \in {0, 1}
    BY <1>1, <2>1
  <2>5. returned \in BOOLEAN
    BY <2>1
  <2> QED
    BY <2>1, <2>2, <2>3, <2>4, <2>5 DEF MaskTypeOK
<1>3. Blocks(0) = 0
  <2>1. BlocksUpTo(response_mask, 0) = {}
    BY DEF BlocksUpTo
  <2> QED
    BY <2>1, FS_EmptySet DEF Blocks
<1>4. Walking
  BY <1>1, <1>3 DEF MaskInit, Walking
<1> QED
  BY <1>2, <1>4 DEF MaskInit, PassInv, MaskIsCorrect

(***************************************************************************)
(* What one iteration reads.                                               *)
(***************************************************************************)
LEMMA TokenFacts ==
  ASSUME PassInv, ~returned, t < Len(mask)
  PROVE  /\ mask = response_mask /\ mask \in Seq({0, 1}) /\ Len(mask) \in Nat
         /\ t \in 0 .. Len(mask) - 1 /\ mask[t + 1] \in {0, 1}
         /\ step \in Nat /\ prev_val \in {0, 1} /\ fatal_step_index \in Nat
         /\ Blocks(t) = step + prev_val /\ Blocks(t) <= fatal_step_index
         /\ StartsBlock(response_mask, t + 1) <=> (mask[t + 1] = 1 /\ prev_val = 0)
         /\ Blocks(t + 1) = Blocks(t) + (IF StartsBlock(response_mask, t + 1) THEN 1 ELSE 0)
<1>1. /\ mask = response_mask /\ mask \in Seq({0, 1}) /\ Len(mask) \in Nat
      /\ t \in 0 .. Len(mask) - 1 /\ mask[t + 1] \in {0, 1}
      /\ step \in Nat /\ prev_val \in {0, 1} /\ fatal_step_index \in Nat
      /\ Blocks(t) = step + prev_val /\ Blocks(t) <= fatal_step_index
      /\ prev_val = (IF t = 0 THEN 0 ELSE mask[t])
  BY DEF PassInv, MaskTypeOK, Walking
<1>2. StartsBlock(response_mask, t + 1) <=> (mask[t + 1] = 1 /\ prev_val = 0)
  <2>1. t + 1 = 1 <=> t = 0
    BY <1>1
  <2>2. t + 1 - 1 = t
    BY <1>1
  <2>3. t # 0 => mask[t] \in {0, 1}
    BY <1>1
  <2> QED
    BY <1>1, <2>1, <2>2, <2>3 DEF StartsBlock
<1>3. Blocks(t + 1) = Blocks(t) + (IF StartsBlock(response_mask, t + 1) THEN 1 ELSE 0)
  <2>1. t \in Nat
    BY <1>1
  <2>2. Cardinality(BlocksUpTo(response_mask, t + 1)) =
          Cardinality(BlocksUpTo(response_mask, t))
            + (IF StartsBlock(response_mask, t + 1) THEN 1 ELSE 0)
    BY <2>1, BlocksGrow
  <2> QED
    BY <2>2 DEF Blocks
<1> QED
  BY <1>1, <1>2, <1>3

(***************************************************************************)
(* The iteration that zeroes the rest of the mask leaves exactly the       *)
(* blocks before the fatal one.                                            *)
(***************************************************************************)
LEMMA ZeroInv ==
  ASSUME PassInv, LookAtToken, mask[t + 1] = 1, prev_val = 0, step >= fatal_step_index
  PROVE  PassInv'
<1>1. /\ ~returned /\ t < Len(mask) /\ returned'
      /\ mask' = ZeroFrom(mask, t + 1)
      /\ UNCHANGED <<response_mask, fatal_step_index, t, step, prev_val>>
  BY DEF LookAtToken
<1>2. /\ mask = response_mask /\ mask \in Seq({0, 1}) /\ Len(mask) \in Nat
      /\ t \in 0 .. Len(mask) - 1 /\ fatal_step_index \in Nat /\ step \in Nat
      /\ Blocks(t) = fatal_step_index /\ Blocks(t + 1) = fatal_step_index + 1
  BY <1>1, TokenFacts
<1>3. mask' \in Seq({0, 1}) /\ Len(mask') = Len(mask)
  BY <1>1, <1>2 DEF ZeroFrom
<1>4. ASSUME NEW p \in 1 .. Len(mask)
      PROVE  (Cardinality(BlocksUpTo(response_mask, p)) <= fatal_step_index) <=> p < t + 1
  <2>1. CASE p < t + 1
    <3>1. Cardinality(BlocksUpTo(response_mask, p)) <= Blocks(t)
      BY <1>2, <2>1, BlocksMonotone DEF Blocks
    <3> QED
      BY <1>2, <2>1, <3>1
  <2>2. CASE ~ (p < t + 1)
    <3>1. Blocks(t + 1) <= Cardinality(BlocksUpTo(response_mask, p))
      BY <1>2, <2>2, BlocksMonotone DEF Blocks
    <3>2. Cardinality(BlocksUpTo(response_mask, p)) \in Nat
      BY BlocksGrow
    <3> QED
      BY <1>2, <2>2, <3>1, <3>2
  <2> QED
    BY <2>1, <2>2
<1>5. mask' = KeepBlocks(response_mask, fatal_step_index)
  <2>1. DOMAIN mask = 1 .. Len(mask)
    BY <1>2
  <2> QED
    BY <1>1, <1>2, <1>4, <2>1 DEF ZeroFrom, KeepBlocks
<1> QED
  BY <1>1, <1>2, <1>3, <1>5 DEF PassInv, MaskTypeOK, Walking, MaskIsCorrect

(***************************************************************************)
(* Any other iteration counts on.                                          *)
(***************************************************************************)
LEMMA CountInv ==
  ASSUME PassInv, LookAtToken, ~ (mask[t + 1] = 1 /\ prev_val = 0 /\ step >= fatal_step_index)
  PROVE  PassInv'
<1>1. /\ ~returned /\ t < Len(mask) /\ ~returned' /\ returned' \in BOOLEAN
      /\ step' = IF mask[t + 1] = 0 /\ prev_val = 1 THEN step + 1 ELSE step
      /\ prev_val' = mask[t + 1] /\ t' = t + 1
      /\ UNCHANGED <<response_mask, fatal_step_index, mask>>
  BY DEF LookAtToken, PassInv, MaskTypeOK
<1>2. /\ mask = response_mask /\ mask \in Seq({0, 1}) /\ Len(mask) \in Nat
      /\ t \in 0 .. Len(mask) - 1 /\ mask[t + 1] \in {0, 1}
      /\ step \in Nat /\ prev_val \in {0, 1} /\ fatal_step_index \in Nat
      /\ Blocks(t) = step + prev_val /\ Blocks(t) <= fatal_step_index
      /\ StartsBlock(response_mask, t + 1) <=> (mask[t + 1] = 1 /\ prev_val = 0)
      /\ Blocks(t + 1) = Blocks(t) + (IF StartsBlock(response_mask, t + 1) THEN 1 ELSE 0)
  BY <1>1, TokenFacts
<1>3. Blocks(t + 1) = step' + prev_val' /\ Blocks(t + 1) <= fatal_step_index
  BY <1>1, <1>2
<1>4. MaskTypeOK'
  BY <1>1, <1>2 DEF PassInv, MaskTypeOK
<1>5. Blocks(t)' = Blocks(t + 1)
  BY <1>1 DEF Blocks
<1>6. prev_val' = (IF t' = 0 THEN 0 ELSE mask'[t'])
  BY <1>1, <1>2
<1>7. Walking'
  BY <1>1, <1>2, <1>3, <1>5, <1>6 DEF Walking
<1> QED
  BY <1>1, <1>4, <1>7 DEF PassInv, MaskIsCorrect

(***************************************************************************)
(* At the end of the mask every block is among the first ones.             *)
(***************************************************************************)
LEMMA ReturnInv ==
  ASSUME PassInv, Return
  PROVE  PassInv'
<1>1. /\ ~returned /\ returned' /\ returned' \in BOOLEAN /\ t = Len(mask)
      /\ UNCHANGED <<response_mask, fatal_step_index, mask, t, step, prev_val>>
  BY DEF Return
<1>2. /\ mask = response_mask /\ mask \in Seq({0, 1}) /\ Len(mask) \in Nat
      /\ Blocks(Len(mask)) <= fatal_step_index /\ fatal_step_index \in Nat
  BY <1>1 DEF PassInv, MaskTypeOK, Walking
<1>3. ASSUME NEW p \in 1 .. Len(mask)
      PROVE  Cardinality(BlocksUpTo(response_mask, p)) <= fatal_step_index
  <2>1. /\ Cardinality(BlocksUpTo(response_mask, p)) <= Blocks(Len(mask))
        /\ Cardinality(BlocksUpTo(response_mask, p)) \in Nat /\ Blocks(Len(mask)) \in Nat
    BY <1>2, BlocksMonotone, BlocksGrow DEF Blocks
  <2> QED
    BY <1>2, <2>1
<1>4. mask = KeepBlocks(response_mask, fatal_step_index)
  <2>1. mask = [p \in 1 .. Len(mask) |-> mask[p]] /\ DOMAIN mask = 1 .. Len(mask)
    BY <1>2
  <2> QED
    BY <1>2, <1>3, <2>1 DEF KeepBlocks
<1> QED
  BY <1>1, <1>4 DEF PassInv, MaskTypeOK, Walking, MaskIsCorrect

(***************************************************************************)
(* The invariant is inductive.                                             *)
(***************************************************************************)
LEMMA PassNextInv == PassInv /\ [MaskNext]_maskVars => PassInv'
<1> SUFFICES ASSUME PassInv, [MaskNext]_maskVars PROVE PassInv'
  OBVIOUS
<1>1. CASE LookAtToken
  BY <1>1, ZeroInv, CountInv
<1>2. CASE Return
  BY <1>2, ReturnInv
<1>3. CASE UNCHANGED maskVars
  BY <1>3 DEF maskVars, PassInv, MaskTypeOK, Walking, MaskIsCorrect, Blocks
<1> QED
  BY <1>1, <1>2, <1>3 DEF MaskNext

(***************************************************************************)
(* The pass keeps the tokens of the steps before the fatal one, and no     *)
(* others, for every response mask.                                        *)
(***************************************************************************)
THEOREM StepMaskCorrect == MaskSpec => []MaskIsCorrect
<1>1. PassInv => MaskIsCorrect
  BY DEF PassInv
<1> QED
  BY PassInitInv, PassNextInv, <1>1, PTL DEF MaskSpec

-----------------------------------------------------------------------------
(***************************************************************************)
(* The two together.                                                       *)
(***************************************************************************)

(***************************************************************************)
(* The scan keeps its invariant for good.  Once the conversation is        *)
(* tokenized, the scan has ended and the response mask has a block for     *)
(* each step; while it is cut, the pass keeps its own invariant with the   *)
(* index that was found.  The row holds the blocks in front of that index. *)
(***************************************************************************)
Untouched == t = 0 /\ step = 0 /\ prev_val = 0 /\ returned = FALSE

Tokenized ==
  /\ errors # <<>> /\ result # Pending
  /\ response_mask \in Masks
  /\ IsResponse(response_mask, Len(errors))

Kept == IF result = NoFatalStep THEN response_mask ELSE KeepBlocks(response_mask, result)

MaskingInv ==
  /\ ScanInv
  /\ stage \in {"scan", "mask", "row"}
  /\ stage = "scan" => Untouched
  /\ stage # "scan" => Tokenized
  /\ stage = "scan" => fatal_step_index = 0
  /\ stage # "scan" => MaskTypeOK /\ MaskIsCorrect
  /\ stage = "mask" => PassInv /\ fatal_step_index = result
  /\ stage = "row" => mask = Kept

-----------------------------------------------------------------------------

(* A trajectory not yet looked at satisfies the invariant. *)
LEMMA MaskingInitInv == MaskingInit => MaskingInv
<1>. SUFFICES ASSUME MaskingInit PROVE MaskingInv
  OBVIOUS
<1>1. ScanInv
  BY ScanInitInv DEF MaskingInit
<1>. QED BY <1>1 DEF MaskingInit, MaskingInv, Untouched

(* The scan leaves the mask alone. *)
LEMMA ScanStep ==
  ASSUME MaskingInv, Scan
  PROVE  MaskingInv'
<1>1. ScanInv'
  BY ScanNextInv DEF MaskingInv, Scan
<1>. QED BY <1>1 DEF MaskingInv, Scan, Untouched, maskVars

(***************************************************************************)
(* What tokenizing establishes.                                            *)
(***************************************************************************)
LEMMA TokenizeFacts ==
  ASSUME MaskingInv, stage = "scan", Tokenize, Len(errors) >= 1
  PROVE  /\ ScanInv' /\ Tokenized' /\ Untouched'
         /\ response_mask' \in Seq({0, 1})
         /\ Len(response_mask') \in Nat \ {0}
         /\ response_mask'[1] = 1
         /\ UNCHANGED result
<1>1. UNCHANGED scanVars /\ UNCHANGED <<t, step, prev_val, returned>>
  BY DEF Tokenize
<1>2. ScanInv'
  BY <1>1 DEF MaskingInv, ScanInv, scanVars, TypeOK, Scanning, ScanIsCorrect, PrefixIsClean
<1>3. PICK tokens \in Masks : IsResponse(tokens, Len(errors)) /\ response_mask' = tokens
  BY DEF Tokenize
<1>4. response_mask' \in Seq({0, 1}) /\ response_mask' # <<>> /\ response_mask'[1] = 1
  BY <1>3, MasksAssumption DEF IsResponse
<1>5. errors # <<>>
  OBVIOUS
<1>6. Tokenized'
  BY <1>1, <1>3, <1>5 DEF Tokenized, Tokenize, scanVars, Pending
<1>. QED BY <1>1, <1>2, <1>4, <1>6 DEF Untouched, MaskingInv, scanVars

(***************************************************************************)
(* A mask of the response's length that is not treated by the pass has the *)
(* types of one that is.                                                   *)
(***************************************************************************)
LEMMA UntouchedMask ==
  ASSUME Tokenized', Untouched', response_mask' \in Seq({0, 1}),
         mask' \in Seq({0, 1}), Len(mask') = Len(response_mask'), fatal_step_index' \in Nat
  PROVE  MaskTypeOK' /\ MaskIsCorrect'
<1>1. t' = 0 /\ step' = 0 /\ prev_val' = 0 /\ returned' = FALSE
  BY DEF Untouched
<1>2. Len(mask') \in Nat
  OBVIOUS
<1>3. t' \in 0 .. Len(mask') /\ step' \in 0 .. t' /\ prev_val' \in {0, 1}
  BY <1>1, <1>2
<1>. QED BY <1>1, <1>3 DEF MaskTypeOK, MaskIsCorrect, Tokenized

(***************************************************************************)
(* A cut starts like the pass on its own.                                  *)
(***************************************************************************)
LEMMA CutFatalStep ==
  ASSUME MaskingInv, CutFatal
  PROVE  MaskingInv'
<1>1. stage = "scan" /\ Len(errors) >= 1 /\ result # NoFatalStep /\ result # Pending
  BY DEF CutFatal, Tokenize
<1>2. /\ ScanInv' /\ Tokenized' /\ Untouched'
      /\ response_mask' \in Seq({0, 1}) /\ Len(response_mask') \in Nat
      /\ UNCHANGED result
  BY <1>1, TokenizeFacts DEF CutFatal
<1>3. result \in 0 .. Len(errors) /\ Len(errors) \in Nat
  BY <1>1, TrajectoriesAssumption DEF MaskingInv, ScanInv, TypeOK
<1>4. response_mask' \in Masks /\ mask' = response_mask' /\ fatal_step_index' = result
  BY <1>2 DEF CutFatal, Tokenized
<1>5. MaskTypeOK'
  <2>1. t' = 0 /\ step' = 0 /\ prev_val' = 0 /\ returned' = FALSE
    BY <1>2 DEF Untouched
  <2>2. mask' \in Seq({0, 1}) /\ Len(mask') = Len(response_mask') /\ Len(mask') \in Nat
    BY <1>2, <1>4
  <2>3. fatal_step_index' \in Nat
    BY <1>3, <1>4
  <2>4. t' \in 0 .. Len(mask') /\ step' \in 0 .. t' /\ prev_val' \in {0, 1}
    BY <2>1, <2>2
  <2>. QED BY <1>4, <2>1, <2>2, <2>3, <2>4 DEF MaskTypeOK
<1>6. Walking' /\ MaskIsCorrect'
  <2>1. BlocksUpTo(response_mask', 0) = {}
    BY DEF BlocksUpTo
  <2>2. Blocks(0)' = 0
    BY <2>1, FS_EmptySet DEF Blocks
  <2>. QED BY <1>2, <1>3, <1>4, <2>2 DEF Walking, MaskIsCorrect, Untouched
<1>. QED BY <1>2, <1>4, <1>5, <1>6 DEF CutFatal, MaskingInv, PassInv

(* A trajectory without a fatal step keeps its mask. *)
LEMMA KeepSoundStep ==
  ASSUME MaskingInv, KeepSound
  PROVE  MaskingInv'
<1>1. stage = "scan" /\ Len(errors) >= 1 /\ result = NoFatalStep
  BY DEF KeepSound, Tokenize, MaskingInv
<1>2. ScanInv' /\ Tokenized' /\ UNCHANGED result
  BY <1>1, TokenizeFacts DEF KeepSound
<1>3. MaskTypeOK' /\ MaskIsCorrect'
  <2>1. /\ response_mask' \in Seq({0, 1}) /\ Untouched' /\ mask' = response_mask'
        /\ fatal_step_index' \in Nat
    BY <1>1, TokenizeFacts DEF KeepSound, MaskingInv
  <2>. QED BY <1>2, <2>1, UntouchedMask
<1>. QED BY <1>1, <1>2, <1>3 DEF KeepSound, MaskingInv, Kept

(***************************************************************************)
(* The only step is the first block: the first step is fatal, and nothing  *)
(* is kept, or the index is past it, and everything is.                    *)
(***************************************************************************)
LEMMA SingleStepStep ==
  ASSUME MaskingInv, SingleStep
  PROVE  MaskingInv'
<1>1. stage = "scan" /\ Len(errors) = 1 /\ result # Pending
  BY DEF SingleStep, Tokenize
<1>2. /\ ScanInv' /\ Tokenized' /\ response_mask' \in Seq({0, 1})
      /\ Len(response_mask') \in Nat \ {0} /\ response_mask'[1] = 1
      /\ UNCHANGED result
  BY <1>1, TokenizeFacts DEF SingleStep
<1>3. result \in {NoFatalStep, 0, 1}
  BY <1>1 DEF MaskingInv, ScanInv, TypeOK
<1>4. Cardinality(BlocksUpTo(response_mask', Len(response_mask'))) = 1
  BY <1>1, <1>2 DEF Tokenized, IsResponse, SingleStep, Tokenize, scanVars
<1>5. ASSUME NEW p \in DOMAIN response_mask'
      PROVE  Cardinality(BlocksUpTo(response_mask', p)) = 1
  <2>1. p \in Nat /\ 1 <= p /\ p <= Len(response_mask')
    BY <1>2
  <2>2. BlocksUpTo(response_mask', 1) = {1}
    BY <1>2 DEF BlocksUpTo, StartsBlock
  <2>3. Cardinality(BlocksUpTo(response_mask', 1)) = 1
    BY <2>2, FS_Singleton
  <2>4. /\ Cardinality(BlocksUpTo(response_mask', 1)) <= Cardinality(BlocksUpTo(response_mask', p))
        /\ Cardinality(BlocksUpTo(response_mask', p))
             <= Cardinality(BlocksUpTo(response_mask', Len(response_mask')))
    BY <1>2, <2>1, BlocksMonotone
  <2>5. Cardinality(BlocksUpTo(response_mask', p)) \in Nat
    BY <2>1, BlocksGrow
  <2>. QED BY <1>4, <2>3, <2>4, <2>5
<1>6. response_mask' = [p \in DOMAIN response_mask' |-> response_mask'[p]]
  BY <1>2
<1>7. mask' = Kept'
  <2>1. CASE result = NoFatalStep
    BY <1>2, <2>1 DEF SingleStep, Kept, NoFatalStep
  <2>2. CASE result = 0
    BY <1>2, <1>5, <2>2 DEF SingleStep, Kept, NoFatalStep, KeepBlocks
  <2>3. CASE result = 1
    BY <1>2, <1>5, <1>6, <2>3 DEF SingleStep, Kept, NoFatalStep, KeepBlocks
  <2>. QED BY <1>3, <2>1, <2>2, <2>3
<1>8. MaskTypeOK' /\ MaskIsCorrect'
  <2>1. Untouched' /\ fatal_step_index' \in Nat
    BY <1>1, TokenizeFacts DEF SingleStep, MaskingInv
  <2>2. [p \in DOMAIN response_mask' |-> 0] \in Seq({0, 1})
        /\ Len([p \in DOMAIN response_mask' |-> 0]) = Len(response_mask')
    BY <1>2
  <2>3. mask' \in Seq({0, 1}) /\ Len(mask') = Len(response_mask')
    BY <1>2, <2>2 DEF SingleStep
  <2>. QED BY <1>2, <2>1, <2>3, UntouchedMask
<1>. QED BY <1>2, <1>7, <1>8 DEF SingleStep, MaskingInv

(* The cut keeps the blocks in front of the fatal step. *)
LEMMA CutTokensStep ==
  ASSUME MaskingInv, CutTokens
  PROVE  MaskingInv'
<1>1. stage = "mask" /\ PassInv /\ fatal_step_index = result /\ Tokenized
  BY DEF CutTokens, MaskingInv
<1>2. PassInv'
  BY <1>1, PassNextInv DEF CutTokens
<1>3. UNCHANGED <<response_mask, fatal_step_index>> /\ UNCHANGED scanVars
  BY DEF CutTokens, MaskNext, LookAtToken, Return
<1>4. ScanInv'
  BY <1>3 DEF MaskingInv, ScanInv, scanVars, TypeOK, Scanning, ScanIsCorrect, PrefixIsClean
<1>5. Tokenized' /\ fatal_step_index' = result'
  BY <1>1, <1>3 DEF Tokenized, scanVars
<1>6. returned' => mask' = Kept'
  <2>1. result # NoFatalStep
    BY <1>1 DEF PassInv, MaskTypeOK, NoFatalStep
  <2>. QED BY <1>2, <1>5, <1>3, <2>1 DEF PassInv, MaskIsCorrect, Kept, scanVars
<1>7. MaskTypeOK' /\ MaskIsCorrect'
  BY <1>2 DEF PassInv
<1>. QED BY <1>2, <1>4, <1>5, <1>6, <1>7 DEF CutTokens, MaskingInv

(***************************************************************************)
(* The row learns what precedes every cascade.                             *)
(***************************************************************************)
LEMMA KeptIsRight ==
  ASSUME MaskingInv
  PROVE  LearnsBeforeCascade
<1>. SUFFICES ASSUME stage = "row", NEW p \in DOMAIN mask
              PROVE  mask[p] = 1 <=> /\ response_mask[p] = 1
                                     /\ \A i \in Cascades(errors) : StepOfToken(p) <= i
  BY DEF LearnsBeforeCascade
<1>1. /\ mask = Kept /\ Tokenized /\ errors # <<>>
      /\ result = FatalStepIndex(errors, answered)
      /\ response_mask \in Seq({0, 1})
      /\ errors \in Seq(BOOLEAN) /\ Len(errors) \in Nat
  BY MasksAssumption, TrajectoriesAssumption
     DEF MaskingInv, Tokenized, ScanInv, ScanIsCorrect, TypeOK
<1>2. /\ p \in DOMAIN response_mask /\ p \in Nat /\ p <= Len(response_mask)
      /\ response_mask[p] \in {0, 1}
  BY <1>1 DEF Kept, KeepBlocks
<1>3. StepOfToken(p) \in Nat /\ StepOfToken(p) <= Len(errors)
  <2>1. Cardinality(BlocksUpTo(response_mask, p)) \in Nat
    BY <1>2, BlocksGrow
  <2>2. Cardinality(BlocksUpTo(response_mask, p))
          <= Cardinality(BlocksUpTo(response_mask, Len(response_mask)))
    BY <1>1, <1>2, BlocksMonotone
  <2>. QED BY <1>1, <2>1, <2>2 DEF StepOfToken, Tokenized, IsResponse
<1>4. CASE Cascades(errors) = {}
  <2>1. result = NoFatalStep \/ result = Len(errors)
    BY <1>1, <1>4 DEF FatalStepIndex
  <2>. QED BY <1>1, <1>2, <1>3, <1>4, <2>1 DEF Kept, KeepBlocks, StepOfToken
<1>5. CASE Cascades(errors) # {}
  <2>1. result \in Cascades(errors) /\ \A i \in Cascades(errors) : result <= i
    <3>1. Cascades(errors) \in SUBSET Nat
      BY <1>1 DEF Cascades
    <3>. QED BY <1>1, <1>5, <3>1, MinIsLeast DEF FatalStepIndex, FirstCascade
  <2>2. result \in Nat /\ \A i \in Cascades(errors) : i \in Nat
    BY <2>1, <1>1 DEF Cascades
  <2>3. mask[p] = IF StepOfToken(p) <= result THEN response_mask[p] ELSE 0
    BY <1>1, <1>2, <2>2 DEF Kept, KeepBlocks, StepOfToken, NoFatalStep
  <2>. QED BY <1>2, <1>3, <2>1, <2>2, <2>3
<1>. QED BY <1>4, <1>5

(***************************************************************************)
(* The invariant of the composition is inductive.                          *)
(***************************************************************************)
LEMMA MaskingInductive == MaskingSpec => []MaskingInv
<1>1. MaskingInv /\ [MaskingNext]_maskingVars => MaskingInv'
  <2>. SUFFICES ASSUME MaskingInv, [MaskingNext]_maskingVars PROVE MaskingInv'
    OBVIOUS
  <2>1. CASE UNCHANGED maskingVars
    BY <2>1 DEF maskingVars, scanVars, maskVars, MaskingInv, Untouched, Tokenized, Kept,
                ScanInv, TypeOK, Scanning, ScanIsCorrect, PrefixIsClean,
                PassInv, MaskTypeOK, Walking, MaskIsCorrect, Blocks
  <2>. QED BY <2>1, ScanStep, CutFatalStep, KeepSoundStep, SingleStepStep, CutTokensStep
           DEF MaskingNext
<1>. QED BY <1>1, MaskingInitInv, PTL DEF MaskingSpec

(***************************************************************************)
(* A token is trained on exactly when the model wrote it before the first  *)
(* cascade, for every trajectory, every response mask with a block for     *)
(* each of its steps, and every threshold.                                 *)
(***************************************************************************)
THEOREM MaskingLearnsBeforeCascade == MaskingSpec => []LearnsBeforeCascade
<1>. QED BY MaskingInductive, KeptIsRight, PTL

(***************************************************************************)
(* Every variable of the composition keeps its type; the mask keeps the    *)
(* length of the response mask.                                            *)
(***************************************************************************)
THEOREM MaskingTypes == MaskingSpec => []MaskingTypeOK
<1>1. MaskingInv => MaskingTypeOK
  BY DEF MaskingInv, MaskingTypeOK, ScanInv
<1>. QED BY <1>1, MaskingInductive, PTL

(***************************************************************************)
(* The scan and the cut are as right in the composition as on their own.   *)
(***************************************************************************)
THEOREM MaskingPartsAreCorrect == MaskingSpec => [](ScanIsCorrect /\ MaskIsCorrect)
<1>1. MaskingInv => ScanIsCorrect /\ MaskIsCorrect
  BY DEF MaskingInv, ScanInv, Untouched, MaskIsCorrect
<1>. QED BY <1>1, MaskingInductive, PTL

=============================================================================
