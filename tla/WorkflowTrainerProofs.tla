------------------------ MODULE WorkflowTrainerProofs ------------------------
(***************************************************************************)
(* The rows between the rollouts and the update, for every number of       *)
(* tasks, rollouts and workers, every kind of episode and every mode.      *)
(*                                                                         *)
(* Every row stays what its episode made it: an invariant of the rows of a *)
(* batch, one by one, which selecting, padding, scoring and broadcasting   *)
(* keep.                                                                   *)
(***************************************************************************)
EXTENDS WorkflowTrainer, PositionsProofs

-----------------------------------------------------------------------------
(***************************************************************************)
(* Joining and flattening                                                  *)
(***************************************************************************)

(***************************************************************************)
(* Two sequences joined hold the members of the one, then the other's.     *)
(***************************************************************************)
Joined(w, p, q, X) ==
  /\ Len(p) \in Nat /\ Len(q) \in Nat
  /\ w \in Seq(X) /\ Len(w) = Len(p) + Len(q) /\ DOMAIN w = 1 .. Len(p) + Len(q)
  /\ \A i \in 1 .. Len(p) : i \in DOMAIN w /\ i \in DOMAIN p /\ w[i] = p[i]
  /\ \A k \in 1 .. Len(q) : Len(p) + k \in DOMAIN w /\ k \in DOMAIN q /\ w[Len(p) + k] = q[k]
  /\ \A i \in DOMAIN w :
       \/ i \in 1 .. Len(p)
       \/ i - Len(p) \in 1 .. Len(q) /\ w[i] = q[i - Len(p)]

(* Joining is what Joined says. *)
LEMMA JoinFacts ==
  ASSUME NEW X, NEW p \in Seq(X), NEW q \in Seq(X)
  PROVE  Joined(p \o q, p, q, X)
<1>1. Len(p) \in Nat /\ Len(q) \in Nat
  OBVIOUS
<1>2. p \o q \in Seq(X) /\ Len(p \o q) = Len(p) + Len(q)
  OBVIOUS
<1>3. \A i \in 1 .. Len(p) + Len(q) : (p \o q)[i] = IF i <= Len(p) THEN p[i] ELSE q[i - Len(p)]
  OBVIOUS
<1>4. \A i \in 1 .. Len(p) : (p \o q)[i] = p[i]
  BY <1>1, <1>3
<1>5. ASSUME NEW k \in 1 .. Len(q)
      PROVE  Len(p) + k \in 1 .. Len(p) + Len(q) /\ (p \o q)[Len(p) + k] = q[k]
  <2>1. /\ Len(p) + k \in 1 .. Len(p) + Len(q) /\ ~ (Len(p) + k <= Len(p))
        /\ Len(p) + k - Len(p) = k
    BY <1>1
  <2>. QED BY <1>3, <2>1
<1>6. ASSUME NEW i \in 1 .. Len(p) + Len(q), i \notin 1 .. Len(p)
      PROVE  i - Len(p) \in 1 .. Len(q) /\ (p \o q)[i] = q[i - Len(p)]
  <2>1. i - Len(p) \in 1 .. Len(q) /\ ~ (i <= Len(p))
    BY <1>1, <1>6
  <2>. QED BY <1>3, <2>1
<1>7. DOMAIN (p \o q) = 1 .. Len(p) + Len(q) /\ DOMAIN p = 1 .. Len(p) /\ DOMAIN q = 1 .. Len(q)
  OBVIOUS
<1>8. \A i \in 1 .. Len(p) : i \in 1 .. Len(p) + Len(q)
  BY <1>1
<1>. QED BY <1>1, <1>2, <1>4, <1>5, <1>6, <1>7, <1>8 DEF Joined

(***************************************************************************)
(* The recursion of FlattenSeq has a solution, which is what it returns.   *)
(***************************************************************************)
LEMMA FlattenRecursion ==
  ASSUME NEW a, NEW n \in Nat \ {0}
  PROVE  \E f : f = [i \in 1 .. n |-> IF i = 1 THEN a[i] ELSE f[i - 1] \o a[i]]
<1> DEFINE Solves(f, m) == f = [i \in 1 .. m |-> IF i = 1 THEN a[i] ELSE f[i - 1] \o a[i]]
           S == {m \in 1 .. n : ~ \E f : Solves(f, m)}
<1> HIDE DEF Solves
<1>. SUFFICES ASSUME S # {} PROVE FALSE
  <2>1. n \in 1 .. n
    OBVIOUS
  <2>. QED BY <2>1 DEF Solves
<1>1. S \in SUBSET Nat
  OBVIOUS
<1>2. PICK m \in S : \A j \in S : m <= j
  <2> HIDE DEF S
  <2>. QED BY <1>1, LeastNatural
<1>3. m \in 1 .. n
  OBVIOUS
<1>4. CASE m = 1
  <2> DEFINE f == [i \in 1 .. 1 |-> a[i]]
  <2>1. Solves(f, 1)
    BY DEF Solves
  <2>. QED BY <1>4, <2>1
<1>5. CASE m # 1
  <2>1. m - 1 \in 1 .. n /\ m - 1 \notin S
    BY <1>2, <1>3, <1>5
  <2>2. PICK g : Solves(g, m - 1)
    BY <2>1
  <2> DEFINE f == [i \in 1 .. m |-> IF i = m THEN g[m - 1] \o a[m] ELSE g[i]]
  <2>3. \A i \in 1 .. m - 1 : g[i] = IF i = 1 THEN a[i] ELSE g[i - 1] \o a[i]
    BY <2>2 DEF Solves
  <2>4. ASSUME NEW i \in 1 .. m
        PROVE  f[i] = IF i = 1 THEN a[i] ELSE f[i - 1] \o a[i]
    <3>1. CASE i = m
      <4>1. m - 1 \in 1 .. m /\ m - 1 # m
        BY <1>3, <1>5
      <4>. QED BY <1>5, <3>1, <4>1
    <3>2. CASE i # m
      <4>1. i \in 1 .. m - 1 /\ (i # 1 => i - 1 \in 1 .. m /\ i - 1 # m)
        BY <1>3, <3>2
      <4>. QED BY <2>3, <3>2, <4>1
    <3>. QED BY <3>1, <3>2
  <2>5. Solves(f, m)
    <3>1. f = [i \in 1 .. m |-> f[i]]
      OBVIOUS
    <3> HIDE DEF f
    <3>. QED BY <2>4, <3>1 DEF Solves
  <2>. QED BY <2>5
<1>. QED BY <1>4, <1>5

(***************************************************************************)
(* Where the sequences begin in the whole, by their lengths.               *)
(***************************************************************************)
LEMMA OffsetsExist ==
  ASSUME NEW n \in Nat \ {0}, NEW l \in [1 .. n -> Nat]
  PROVE  \E D \in [0 .. n -> Nat] : D[0] = 0 /\ \A i \in 1 .. n : D[i] = D[i - 1] + l[i]
<1> DEFINE Adds(D, m) == /\ D \in [0 .. m -> Nat] /\ D[0] = 0
                         /\ \A i \in 1 .. m : D[i] = D[i - 1] + l[i]
           S == {m \in 0 .. n : ~ \E D : Adds(D, m)}
<1> HIDE DEF Adds
<1>. SUFFICES ASSUME S # {} PROVE FALSE
  <2>1. n \in 0 .. n
    OBVIOUS
  <2>. QED BY <2>1 DEF Adds
<1>1. S \in SUBSET Nat
  OBVIOUS
<1>2. PICK m \in S : \A j \in S : m <= j
  <2> HIDE DEF S
  <2>. QED BY <1>1, LeastNatural
<1>3. m \in 0 .. n
  OBVIOUS
<1>4. CASE m = 0
  <2> DEFINE D == [i \in 0 .. 0 |-> 0]
  <2>1. Adds(D, 0)
    BY DEF Adds
  <2>. QED BY <1>4, <2>1
<1>5. CASE m # 0
  <2>1. m - 1 \in 0 .. n /\ m - 1 \notin S
    BY <1>2, <1>3, <1>5
  <2>2. PICK g : Adds(g, m - 1)
    BY <2>1
  <2> DEFINE D == [i \in 0 .. m |-> IF i = m THEN g[m - 1] + l[m] ELSE g[i]]
  <2>3. /\ g \in [0 .. m - 1 -> Nat] /\ g[0] = 0
        /\ \A i \in 1 .. m - 1 : g[i] = g[i - 1] + l[i]
    BY <2>2 DEF Adds
  <2>4. m \in 1 .. n /\ l[m] \in Nat /\ g[m - 1] \in Nat
    BY <1>3, <1>5, <2>3
  <2>5. D \in [0 .. m -> Nat] /\ D[0] = 0
    BY <1>3, <1>5, <2>3, <2>4
  <2>6. ASSUME NEW i \in 1 .. m PROVE D[i] = D[i - 1] + l[i]
    <3>1. i - 1 \in 0 .. m /\ i - 1 # m /\ i \in 0 .. m
      BY <1>3
    <3>2. i # m => i \in 1 .. m - 1
      BY <1>3
    <3>. QED BY <2>3, <3>1, <3>2
  <2> HIDE DEF D
  <2>7. Adds(D, m)
    BY <2>5, <2>6 DEF Adds
  <2>. QED BY <2>7
<1>. QED BY <1>4, <1>5

(***************************************************************************)
(* The k-th member of the i-th sequence comes k places after its offset,   *)
(* and every place of the whole is such a one.                             *)
(***************************************************************************)
Offsets(D, X, a, n) ==
  /\ n \in Nat \ {0} /\ a \in [1 .. n -> Seq(X)]
  /\ D \in [0 .. n -> Nat] /\ D[0] = 0 /\ \A i \in 1 .. n : D[i] = D[i - 1] + Len(a[i])

Whole(flat, D, X, a, n) ==
  /\ flat \in Seq(X) /\ Len(flat) = D[n]
  /\ \A i \in 1 .. n : \A k \in 1 .. Len(a[i]) :
       D[i - 1] + k \in 1 .. D[n] /\ flat[D[i - 1] + k] = a[i][k]
  /\ \A r \in 1 .. D[n] : \E i \in 1 .. n : \E k \in 1 .. Len(a[i]) : r = D[i - 1] + k

(* Flattening puts every member in its place. *)
LEMMA FlattenPlaces ==
  ASSUME NEW X, NEW n, NEW a, NEW D, Offsets(D, X, a, n)
  PROVE  Whole(FlattenSeq(a), D, X, a, n)
<1>0. /\ n \in Nat \ {0} /\ a \in [1 .. n -> Seq(X)]
      /\ D \in [0 .. n -> Nat] /\ D[0] = 0 /\ \A i \in 1 .. n : D[i] = D[i - 1] + Len(a[i])
  BY DEF Offsets
<1>1. Len(a) = n
  BY <1>0
<1> DEFINE f == CHOOSE f : f = [i \in 1 .. n |-> IF i = 1 THEN a[i] ELSE f[i - 1] \o a[i]]
<1>2. FlattenSeq(a) = f[n]
  BY <1>0, <1>1 DEF FlattenSeq
<1>3. f = [i \in 1 .. n |-> IF i = 1 THEN a[i] ELSE f[i - 1] \o a[i]]
  BY <1>0, FlattenRecursion
<1> HIDE DEF f
<1>4. \A i \in 1 .. n : f[i] = IF i = 1 THEN a[i] ELSE f[i - 1] \o a[i]
  BY <1>3
<1>5. \A i \in 1 .. n : a[i] \in Seq(X) /\ Len(a[i]) \in Nat
  BY <1>0
<1> DEFINE Placed(m) ==
             /\ f[m] \in Seq(X) /\ Len(f[m]) = D[m]
             /\ \A i \in 1 .. m : \A k \in 1 .. Len(a[i]) :
                  D[i - 1] + k \in 1 .. D[m] /\ f[m][D[i - 1] + k] = a[i][k]
             /\ \A r \in 1 .. D[m] : \E i \in 1 .. m : \E k \in 1 .. Len(a[i]) : r = D[i - 1] + k
           S == {m \in 1 .. n : ~ Placed(m)}
<1> HIDE DEF Placed
<1>6. ASSUME S # {} PROVE FALSE
  <2>1. S \in SUBSET Nat
    OBVIOUS
  <2>2. PICK m \in S : \A j \in S : m <= j
    <3> HIDE DEF S
    <3>. QED BY <1>6, <2>1, LeastNatural
  <2>3. m \in 1 .. n /\ ~ Placed(m) /\ m \in Nat /\ m >= 1
    BY <1>0
  <2>4. CASE m = 1
    <3>1. f[1] = a[1] /\ D[1] = Len(a[1]) /\ a[1] \in Seq(X) /\ Len(a[1]) \in Nat
      BY <1>0, <1>4, <1>5, <2>3, <2>4
    <3>2. \A i \in 1 .. 1 : i = 1 /\ D[i - 1] = 0
      BY <1>0
    <3>. QED BY <2>3, <2>4, <3>1, <3>2 DEF Placed
  <2>5. CASE m # 1
    <3>1. m - 1 \in 1 .. n /\ m - 1 \notin S
      BY <1>0, <2>2, <2>3, <2>5
    <3>2. Placed(m - 1)
      BY <3>1
    <3> DEFINE p == f[m - 1]
    <3>3. /\ p \in Seq(X) /\ Len(p) = D[m - 1]
          /\ \A i \in 1 .. m - 1 : \A k \in 1 .. Len(a[i]) :
               D[i - 1] + k \in 1 .. D[m - 1] /\ p[D[i - 1] + k] = a[i][k]
          /\ \A r \in 1 .. D[m - 1] :
               \E i \in 1 .. m - 1 : \E k \in 1 .. Len(a[i]) : r = D[i - 1] + k
      BY <3>2 DEF Placed
    <3> HIDE DEF p
    <3>4. f[m] = p \o a[m]
      BY <1>4, <2>3, <2>5 DEF p
    <3>5. a[m] \in Seq(X) /\ Len(a[m]) \in Nat /\ D[m - 1] \in Nat /\ D[m] = D[m - 1] + Len(a[m])
      BY <1>0, <1>5, <2>3
    <3>6. /\ f[m] \in Seq(X) /\ Len(f[m]) = D[m]
          /\ \A r \in 1 .. D[m - 1] : f[m][r] = p[r]
          /\ \A k \in 1 .. Len(a[m]) : f[m][D[m - 1] + k] = a[m][k]
      <4> DEFINE q == a[m]
      <4>1. p \in Seq(X) /\ q \in Seq(X) /\ f[m] = p \o q
        BY <3>3, <3>4, <3>5
      <4> HIDE DEF q
      <4>2. /\ p \o q \in Seq(X) /\ Len(p \o q) = Len(p) + Len(q)
            /\ \A r \in 1 .. Len(p) : (p \o q)[r] = p[r]
            /\ \A k \in 1 .. Len(q) : (p \o q)[Len(p) + k] = q[k]
        BY <4>1, JoinFacts DEF Joined
      <4>. QED BY <3>3, <3>5, <4>1, <4>2 DEF q
    <3>7. ASSUME NEW i \in 1 .. m, NEW k \in 1 .. Len(a[i])
          PROVE  D[i - 1] + k \in 1 .. D[m] /\ f[m][D[i - 1] + k] = a[i][k]
      <4>1. CASE i = m
        <5>1. k \in 1 .. Len(a[m]) /\ D[m - 1] + k \in 1 .. D[m - 1] + Len(a[m])
          BY <3>5, <4>1
        <5>. QED BY <3>5, <3>6, <4>1, <5>1
      <4>2. CASE i # m
        <5>1. i \in 1 .. m - 1
          BY <1>0, <2>3, <4>2
        <5>2. D[i - 1] + k \in 1 .. D[m - 1] /\ p[D[i - 1] + k] = a[i][k]
          BY <3>3, <5>1
        <5>3. \A r \in 1 .. D[m - 1] : r \in 1 .. D[m]
          BY <3>5
        <5>. QED BY <3>6, <5>2, <5>3
      <4>. QED BY <4>1, <4>2
    <3>8. ASSUME NEW r \in 1 .. D[m]
          PROVE  \E i \in 1 .. m : \E k \in 1 .. Len(a[i]) : r = D[i - 1] + k
      <4>1. CASE r <= D[m - 1]
        <5>1. r \in 1 .. D[m - 1]
          BY <3>5, <4>1
        <5>2. PICK i \in 1 .. m - 1 : \E k \in 1 .. Len(a[i]) : r = D[i - 1] + k
          BY <3>3, <5>1
        <5>3. i \in 1 .. m
          BY <1>0, <2>3
        <5>. QED BY <5>2, <5>3
      <4>2. CASE ~ (r <= D[m - 1])
        <5>1. r - D[m - 1] \in 1 .. Len(a[m]) /\ r = D[m - 1] + (r - D[m - 1]) /\ m \in 1 .. m
          BY <2>3, <3>5, <4>2
        <5>. QED BY <5>1
      <4>. QED BY <4>1, <4>2
    <3>9. Placed(m)
      BY <3>6, <3>7, <3>8 DEF Placed
    <3>. QED BY <2>3, <3>9
  <2>. QED BY <2>4, <2>5
<1>7. Placed(n)
  <2>1. n \in 1 .. n
    BY <1>0
  <2>2. n \notin S
    <3> HIDE DEF S
    <3>. QED BY <1>6
  <2>. QED BY <2>1, <2>2
<1>. QED BY <1>2, <1>7 DEF Placed, Whole

(***************************************************************************)
(* What is missing to the next multiple makes a multiple.                  *)
(***************************************************************************)
LEMMA PadDivides ==
  ASSUME NEW n \in Nat, NEW w \in Nat \ {0}
  PROVE  (w - (n % w)) % w \in Nat /\ (n + ((w - (n % w)) % w)) % w = 0
<1>1. n = (w * (n \div w)) + (n % w) /\ n % w \in 0 .. w - 1 /\ n \div w \in Int
  OBVIOUS
<1>2. CASE n % w = 0
  <2>1. w % w = 0
    OBVIOUS
  <2>. QED BY <1>2, <2>1
<1>3. CASE n % w # 0
  <2>1. (w - (n % w)) % w = w - (n % w)
    BY <1>1, <1>3
  <2> DEFINE q == (n \div w) + 1
  <2>2. n + (w - (n % w)) = w * q
    BY <1>1
  <2>3. (w * q) % w = 0
    <3>1. q \in Int
      BY <1>1
    <3> HIDE DEF q
    <3>. QED BY <3>1
  <2>. QED BY <1>1, <2>1, <2>2, <2>3
<1>. QED BY <1>2, <1>3

(***************************************************************************)
(* The place of a row among t * r belongs to one of the t tasks.           *)
(***************************************************************************)
LEMMA DivBelow ==
  ASSUME NEW t \in Nat \ {0}, NEW r \in Nat \ {0}, NEW i \in 1 .. t * r
  PROVE  (i - 1) \div r \in 0 .. t - 1
<1> DEFINE q == (i - 1) \div r
<1>0. t * r \in Nat /\ i \in Nat /\ i - 1 \in Nat /\ i - 1 < t * r
  OBVIOUS
<1>1. i - 1 = (r * q) + ((i - 1) % r) /\ (i - 1) % r \in 0 .. r - 1 /\ q \in Nat
  BY <1>0
<1> HIDE DEF q
<1>2. ASSUME q >= t PROVE FALSE
  <2>1. r * q >= r * t
    BY <1>1, <1>2
  <2>. QED BY <1>0, <1>1, <2>1
<1>. QED BY <1>1, <1>2 DEF q

-----------------------------------------------------------------------------
(***************************************************************************)
(* The rows                                                                *)
(***************************************************************************)

Slots == 1 .. Tasks * RolloutN

History == Seq([Slots -> EpisodeKinds[rejection_sample]])

Advantages == {"none", "positive", "negative", "zero", "nan"}

RowRecords ==
  [task : Nat \X Nat, episode : Nat \X Nat, trajectory : Nat \X Nat, step : Nat, step_num : Nat,
   is_last_step : BOOLEAN, tokens : SUBSET ((Nat \X Nat) \X Nat),
   is_fatal : BOOLEAN, is_valid : BOOLEAN, is_pad_step : BOOLEAN,
   is_correct : BOOLEAN, reward : {0, 1}, advantage : Advantages]

RowSteps(row, e) == IF mode = "none" THEN 0 .. e.steps - 1 ELSE {row.step}

EpisodeIn(past, id) == past[id[1] + 1][id[2]]

(***************************************************************************)
(* A row holds the tokens that are kept of its steps, has the task of its  *)
(* rollout and, unless it is padding, the flags of its episode.            *)
(***************************************************************************)
Fine(row, past) ==
  LET id == row.episode
      e  == EpisodeIn(past, id)
  IN  /\ id[1] \in 0 .. Len(past) - 1 /\ id[2] \in Slots
      /\ row.task = TaskIds(id[1])[id[2]]
      /\ row.is_correct = e.is_correct
      /\ row.step < e.steps
      /\ mode = "none" => row.step = 0
      /\ row.tokens = {<<id, k>> : k \in RowSteps(row, e) \cap LearnableSteps(e)}
      /\ row.is_pad_step => ~ row.is_valid /\ ~ row.is_last_step
      /\ ~ row.is_pad_step => /\ row.is_fatal <=> e.fatal # NoFatalStep
                              /\ row.is_valid <=> IsValid(e)

FineRows(past) == {row \in RowRecords : Fine(row, past)}

(***************************************************************************)
(* Of two rows that are not padding no step is the same.                   *)
(***************************************************************************)
Spread(rows) ==
  \A r, s \in DOMAIN rows :
    r # s /\ ~ rows[r].is_pad_step /\ ~ rows[s].is_pad_step
      => rows[r].episode # rows[s].episode \/ rows[r].step # rows[s].step

HasStep(rows, id, e, k) ==
  \E r \in DOMAIN rows : /\ ~ rows[r].is_pad_step /\ rows[r].episode = id
                         /\ k \in RowSteps(rows[r], e)

Unpadded(rows) == \A r \in DOMAIN rows : ~ rows[r].is_pad_step

(***************************************************************************)
(* The sizes, and the kinds of episodes.                                   *)
(***************************************************************************)
LEMMA SizeFacts ==
  /\ Tasks \in Nat \ {0} /\ RolloutN \in Nat \ {0} /\ WorldSize \in Nat \ {0}
  /\ TrainBatchSize \in Nat \ {0} /\ TotalTrainingSteps \in Nat \ {0} /\ GenerationLimit \in Nat \ {0}
  /\ Tasks * RolloutN \in Nat \ {0}
<1>1. /\ Tasks \in Nat \ {0} /\ RolloutN \in Nat \ {0} /\ WorldSize \in Nat \ {0}
      /\ TrainBatchSize \in Nat \ {0} /\ TotalTrainingSteps \in Nat \ {0}
      /\ GenerationLimit \in Nat \ {0}
  BY SizesAssumption
<1>2. \A x, y \in Nat \ {0} : x * y \in Nat \ {0}
  OBVIOUS
<1>. QED BY <1>1, <1>2

(* The task of a place of the batch. *)
LEMMA TaskIdFacts ==
  ASSUME NEW g \in Nat, NEW i \in Slots
  PROVE  /\ TaskIds(g)[i] = <<g, (i - 1) \div RolloutN>>
         /\ (i - 1) \div RolloutN \in 0 .. Tasks - 1
         /\ TaskIds(g)[i] \in Nat \X Nat
<1>1. TaskIds(g)[i] = <<g, (i - 1) \div RolloutN>>
  BY DEF TaskIds, Slots
<1>2. (i - 1) \div RolloutN \in 0 .. Tasks - 1
  BY SizeFacts, DivBelow DEF Slots
<1>3. \A q \in 0 .. Tasks - 1 : q \in Nat
  OBVIOUS
<1>. QED BY <1>1, <1>2, <1>3

(* What the assumption on the kinds of episodes gives. *)
LEMMA KindFacts ==
  ASSUME rejection_sample \in BOOLEAN, NEW e \in EpisodeKinds[rejection_sample]
  PROVE  /\ IsEpisode(e)
         /\ LearnableSteps(e) \in SUBSET Nat
         /\ IsValid(e) \in BOOLEAN
<1>1. IsEpisode(e)
  BY KindsAssumption
<1>2. e.steps \in Nat
  BY <1>1 DEF IsEpisode
<1>3. LearnableSteps(e) \in SUBSET Nat
  BY <1>2 DEF LearnableSteps
<1>. QED BY <1>1, <1>3 DEF IsValid

(***************************************************************************)
(* One row of an episode, as it is made.                                   *)
(***************************************************************************)
Making(past, g, i, e, step, n, steps) ==
  /\ rejection_sample \in BOOLEAN /\ past \in History
  /\ g \in 0 .. Len(past) - 1 /\ i \in Slots /\ e = past[g + 1][i]
  /\ step \in Nat /\ n \in Nat /\ step < e.steps /\ (mode = "none" => step = 0)
  /\ steps = IF mode = "none" THEN 0 .. e.steps - 1 ELSE {step}

MadeOf(row, past, g, i, e, step, steps) ==
  /\ row \in FineRows(past) /\ ~ row.is_pad_step
  /\ row.episode = <<g, i>> /\ row.step = step /\ row.task = TaskIds(g)[i]
  /\ RowSteps(row, e) = steps

(* A rollout of the history came back as one of the kinds. *)
LEMMA EpisodeOfKind ==
  ASSUME NEW past \in History, NEW g \in 0 .. Len(past) - 1, NEW i \in Slots
  PROVE  past[g + 1][i] \in EpisodeKinds[rejection_sample] /\ g \in Nat /\ g + 1 \in 1 .. Len(past)
<1>1. Len(past) \in Nat /\ g \in Nat /\ g + 1 \in 1 .. Len(past)
  BY DEF History
<1>2. past[g + 1] \in [Slots -> EpisodeKinds[rejection_sample]]
  BY <1>1 DEF History
<1>. QED BY <1>1, <1>2

(* A row as it is made is fine. *)
LEMMA RowFacts ==
  ASSUME NEW past, NEW g, NEW i, NEW e, NEW step, NEW n, NEW steps,
         Making(past, g, i, e, step, n, steps)
  PROVE  MadeOf(Row(e, <<g, i>>, TaskIds(g)[i], step, n, steps), past, g, i, e, step, steps)
<1>1. /\ rejection_sample \in BOOLEAN /\ past \in History
      /\ g \in 0 .. Len(past) - 1 /\ i \in Slots /\ e = past[g + 1][i]
      /\ step \in Nat /\ n \in Nat /\ step < e.steps /\ (mode = "none" => step = 0)
      /\ steps = IF mode = "none" THEN 0 .. e.steps - 1 ELSE {step}
  BY DEF Making
<1>2. e \in EpisodeKinds[rejection_sample] /\ g \in Nat
  BY <1>1, EpisodeOfKind
<1>3. /\ e.is_correct \in BOOLEAN /\ e.reward \in {0, 1} /\ LearnableSteps(e) \in SUBSET Nat
  BY <1>1, <1>2, KindFacts DEF IsEpisode
<1>4. i \in Nat /\ TaskIds(g)[i] \in Nat \X Nat /\ <<g, i>> \in Nat \X Nat
  BY <1>1, <1>2, TaskIdFacts DEF Slots
<1> DEFINE id     == <<g, i>>
           task   == TaskIds(g)[i]
           tokens == {<<id, k>> : k \in steps \cap LearnableSteps(e)}
           last   == step = n - 1
           fatal  == e.fatal # NoFatalStep
           valid  == IsValid(e)
           row    == Row(e, <<g, i>>, TaskIds(g)[i], step, n, steps)
<1>5. last \in BOOLEAN /\ fatal \in BOOLEAN /\ valid \in BOOLEAN
  BY DEF IsValid
<1>6. tokens \in SUBSET ((Nat \X Nat) \X Nat)
  BY <1>3, <1>4
<1>7. row = [task |-> task, episode |-> id, trajectory |-> task, step |-> step, step_num |-> n,
             is_last_step |-> last, tokens |-> tokens,
             is_fatal |-> fatal, is_valid |-> valid, is_pad_step |-> FALSE,
             is_correct |-> e.is_correct, reward |-> e.reward, advantage |-> "none"]
  BY DEF Row
<1>8. id \in Nat \X Nat /\ task \in Nat \X Nat
  BY <1>4
<1>9. id[1] = g /\ id[2] = i
  OBVIOUS
<1> HIDE DEF task, tokens, last, fatal, valid, row, id
<1>10. row \in RowRecords
  <2>1. "none" \in Advantages /\ FALSE \in BOOLEAN
    BY DEF Advantages
  <2>. QED BY <1>1, <1>3, <1>5, <1>6, <1>7, <1>8, <2>1 DEF RowRecords
<1>11. /\ row.is_pad_step = FALSE /\ row.episode = id /\ row.step = step /\ row.task = task
       /\ row.is_correct = e.is_correct /\ row.tokens = tokens
       /\ row.is_fatal = fatal /\ row.is_valid = valid
  BY <1>7
<1>12. RowSteps(row, e) = steps
  BY <1>1, <1>11 DEF RowSteps
<1>13. EpisodeIn(past, row.episode) = e
  BY <1>1, <1>9, <1>11 DEF EpisodeIn
<1>14. /\ row.is_fatal <=> e.fatal # NoFatalStep
       /\ row.is_valid <=> IsValid(e)
  BY <1>11 DEF fatal, valid
<1>15. row.task = TaskIds(row.episode[1])[row.episode[2]]
  BY <1>9, <1>11 DEF task
<1>16. row.tokens = {<<row.episode, k>> : k \in RowSteps(row, e) \cap LearnableSteps(e)}
  BY <1>11, <1>12 DEF tokens
<1>17. Fine(row, past)
  BY <1>1, <1>9, <1>11, <1>13, <1>14, <1>15, <1>16 DEF Fine
<1>18. row.episode = <<g, i>> /\ row.task = TaskIds(g)[i]
  BY <1>11 DEF id, task
<1>19. MadeOf(row, past, g, i, e, step, steps)
  BY <1>10, <1>11, <1>12, <1>17, <1>18 DEF FineRows, MadeOf
<1>. QED BY <1>19 DEF row

(***************************************************************************)
(* The rows of an episode: every step is on one of them, and they differ   *)
(* in their steps.                                                         *)
(***************************************************************************)
RowsOfEpisode(rows, past, g, i, e) ==
  /\ rows \in Seq(FineRows(past))
  /\ \A k \in 1 .. Len(rows) :
       /\ rows[k] \in FineRows(past) /\ ~ rows[k].is_pad_step
       /\ rows[k].episode = <<g, i>> /\ rows[k].step = k - 1 /\ rows[k].task = TaskIds(g)[i]
  /\ \A s \in 0 .. e.steps - 1 : \E k \in 1 .. Len(rows) : s \in RowSteps(rows[k], e)

(* The rows of an episode are fine, and hold its steps. *)
LEMMA EpisodeRowsFacts ==
  ASSUME rejection_sample \in BOOLEAN, NEW past \in History,
         NEW g \in 0 .. Len(past) - 1, NEW i \in Slots, NEW e, e = past[g + 1][i]
  PROVE  RowsOfEpisode(EpisodeRows(e, <<g, i>>, TaskIds(g)[i], mode # "none"), past, g, i, e)
<1> DEFINE rows == EpisodeRows(e, <<g, i>>, TaskIds(g)[i], mode # "none")
<1>1. e.steps \in Nat
  BY EpisodeOfKind, KindFacts DEF IsEpisode
<1>2. CASE e.steps = 0
  <2>1. rows = <<>>
    BY <1>2 DEF EpisodeRows
  <2> HIDE DEF rows
  <2>2. rows \in Seq(FineRows(past)) /\ Len(rows) = 0 /\ 1 .. 0 = {} /\ 0 .. e.steps - 1 = {}
    BY <1>2, <2>1
  <2>3. RowsOfEpisode(rows, past, g, i, e)
    BY <2>2 DEF RowsOfEpisode
  <2>. QED BY <2>3 DEF rows
<1>3. CASE e.steps # 0 /\ mode = "none"
  <2> DEFINE row == Row(e, <<g, i>>, TaskIds(g)[i], 0, 1, 0 .. e.steps - 1)
  <2>1. rows = <<row>>
    BY <1>3 DEF EpisodeRows
  <2>2. Making(past, g, i, e, 0, 1, 0 .. e.steps - 1)
    BY <1>1, <1>3 DEF Making
  <2>3. MadeOf(row, past, g, i, e, 0, 0 .. e.steps - 1)
    BY <2>2, RowFacts
  <2> HIDE DEF row, rows
  <2>4. /\ row \in FineRows(past) /\ ~ row.is_pad_step
        /\ row.episode = <<g, i>> /\ row.step = 0 /\ row.task = TaskIds(g)[i]
        /\ RowSteps(row, e) = 0 .. e.steps - 1
    BY <2>3 DEF MadeOf
  <2>5. Len(rows) = 1 /\ rows[1] = row /\ \A k \in 1 .. 1 : k = 1
    BY <2>1
  <2>6. rows \in Seq(FineRows(past))
    BY <2>1, <2>4
  <2>7. 1 - 1 = 0 /\ 1 \in 1 .. 1
    OBVIOUS
  <2>8. RowsOfEpisode(rows, past, g, i, e)
    BY <2>4, <2>5, <2>6, <2>7 DEF RowsOfEpisode
  <2>. QED BY <2>8 DEF rows
<1>4. CASE e.steps # 0 /\ mode # "none"
  <2> DEFINE row(k) == Row(e, <<g, i>>, TaskIds(g)[i], k - 1, e.steps, {k - 1})
  <2>1. rows = [k \in 1 .. e.steps |-> row(k)]
    BY <1>4 DEF EpisodeRows
  <2>2. ASSUME NEW k \in 1 .. e.steps
        PROVE  /\ row(k) \in FineRows(past) /\ ~ row(k).is_pad_step
               /\ row(k).episode = <<g, i>> /\ row(k).step = k - 1 /\ row(k).task = TaskIds(g)[i]
               /\ RowSteps(row(k), e) = {k - 1}
    <3>1. k - 1 \in Nat /\ k - 1 < e.steps
      BY <1>1
    <3>2. Making(past, g, i, e, k - 1, e.steps, {k - 1})
      BY <1>1, <1>4, <3>1 DEF Making
    <3>3. MadeOf(row(k), past, g, i, e, k - 1, {k - 1})
      BY <3>2, RowFacts
    <3>. QED BY <3>3 DEF MadeOf
  <2> HIDE DEF row, rows
  <2>3. rows \in [1 .. e.steps -> FineRows(past)]
    BY <2>1, <2>2
  <2>4. rows \in Seq(FineRows(past)) /\ Len(rows) = e.steps
    BY <1>1, <2>3
  <2>5. \A k \in 1 .. e.steps : rows[k] = row(k)
    BY <2>1
  <2>6. ASSUME NEW s \in 0 .. e.steps - 1
        PROVE  \E k \in 1 .. Len(rows) : s \in RowSteps(rows[k], e)
    <3>1. s + 1 \in 1 .. e.steps /\ s + 1 - 1 = s
      BY <1>1
    <3>2. RowSteps(rows[s + 1], e) = {s}
      BY <2>2, <2>5, <3>1
    <3>. QED BY <2>4, <3>1, <3>2
  <2>7. RowsOfEpisode(rows, past, g, i, e)
    BY <2>2, <2>4, <2>5, <2>6 DEF RowsOfEpisode
  <2>. QED BY <2>7 DEF rows
<1>. QED BY <1>2, <1>3, <1>4

(***************************************************************************)
(* The rows of a generation: those of its episodes one after another, each *)
(* beside the entry of the batch that it was made for.                     *)
(***************************************************************************)
Parts(past, g) ==
  [i \in DOMAIN past[g + 1] |->
     EpisodeRows(past[g + 1][i], <<g, i>>, TaskIds(g)[i], mode # "none")]

Fresh(rows, past, g) ==
  /\ rows \in Seq(FineRows(past)) /\ Unpadded(rows) /\ Spread(rows)
  /\ \A r \in DOMAIN rows : rows[r].episode[1] = g
  /\ \A i \in Slots : \A k \in 0 .. past[g + 1][i].steps - 1 :
       HasStep(rows, <<g, i>>, past[g + 1][i], k)

(* Giving a row the task it has changes nothing. *)
LEMMA SameTask ==
  ASSUME NEW row \in RowRecords
  PROVE  [row EXCEPT !.task = row.task] = row
BY DEF RowRecords

(* Joining the batch by position gives every row its own task: the counts of *)
(* the dropped episodes keep the places. *)
LEMMA JoinBatchFacts ==
  ASSUME rejection_sample \in BOOLEAN, NEW past \in History, NEW g \in 0 .. Len(past) - 1
  PROVE  Fresh(JoinBatch(Parts(past, g), TaskIds(g)), past, g)
<1> DEFINE n     == Tasks * RolloutN
           parts == Parts(past, g)
           rows  == JoinBatch(parts, TaskIds(g))
<1>1. n \in Nat \ {0} /\ Slots = 1 .. n
  BY SizeFacts DEF Slots
<1>2. DOMAIN past[g + 1] = Slots
  <2>1. g + 1 \in 1 .. Len(past)
    BY EpisodeOfKind, <1>1
  <2>. QED BY <2>1 DEF History
<1>3. ASSUME NEW i \in 1 .. n PROVE RowsOfEpisode(parts[i], past, g, i, past[g + 1][i])
  BY <1>1, <1>2, EpisodeRowsFacts DEF Parts
<1>4. DOMAIN parts = 1 .. n
  BY <1>1, <1>2 DEF Parts
<1>5. parts \in [1 .. n -> Seq(FineRows(past))]
  <2>1. parts = [i \in 1 .. n |-> parts[i]]
    BY <1>1, <1>2 DEF Parts
  <2> HIDE DEF parts
  <2>. QED BY <1>3, <2>1 DEF RowsOfEpisode
<1> HIDE DEF parts
<1>6. \A i \in 1 .. n : Len(parts[i]) \in Nat
  BY <1>5
<1>7. PICK D \in [0 .. n -> Nat] : D[0] = 0 /\ \A i \in 1 .. n : D[i] = D[i - 1] + Len(parts[i])
  <2> DEFINE l == [i \in 1 .. n |-> Len(parts[i])]
  <2>1. l \in [1 .. n -> Nat]
    BY <1>6
  <2>2. \A i \in 1 .. n : l[i] = Len(parts[i])
    OBVIOUS
  <2> HIDE DEF l, n
  <2>3. PICK D \in [0 .. n -> Nat] : D[0] = 0 /\ \A i \in 1 .. n : D[i] = D[i - 1] + l[i]
    BY <1>1, <2>1, OffsetsExist
  <2>. QED BY <2>2, <2>3
<1> DEFINE columns == [i \in 1 .. n |-> [k \in 1 .. Len(parts[i]) |-> TaskIds(g)[i]]]
           flat    == FlattenSeq(parts)
           column  == FlattenSeq(columns)
<1>8. /\ columns \in [1 .. n -> Seq(Nat \X Nat)]
      /\ \A i \in 1 .. n : Len(columns[i]) = Len(parts[i])
      /\ \A i \in 1 .. n : \A k \in 1 .. Len(parts[i]) : columns[i][k] = TaskIds(g)[i]
  <2>1. ASSUME NEW i \in 1 .. n
        PROVE  /\ [k \in 1 .. Len(parts[i]) |-> TaskIds(g)[i]] \in Seq(Nat \X Nat)
               /\ Len([k \in 1 .. Len(parts[i]) |-> TaskIds(g)[i]]) = Len(parts[i])
    <3>1. TaskIds(g)[i] \in Nat \X Nat
      BY <1>1, EpisodeOfKind, TaskIdFacts
    <3>. QED BY <1>6, <3>1
  <2>. QED BY <2>1
<1>9. rows = [r \in DOMAIN flat |-> [flat[r] EXCEPT !.task = column[r]]]
  BY <1>4 DEF JoinBatch, RepeatCounts
<1>10. /\ flat \in Seq(FineRows(past)) /\ Len(flat) = D[n]
       /\ \A i \in 1 .. n : \A k \in 1 .. Len(parts[i]) :
            D[i - 1] + k \in 1 .. D[n] /\ flat[D[i - 1] + k] = parts[i][k]
       /\ \A r \in 1 .. D[n] : \E i \in 1 .. n : \E k \in 1 .. Len(parts[i]) : r = D[i - 1] + k
  <2> HIDE DEF n
  <2>1. Offsets(D, FineRows(past), parts, n)
    BY <1>1, <1>5, <1>7 DEF Offsets
  <2>2. Whole(flat, D, FineRows(past), parts, n)
    BY <2>1, FlattenPlaces
  <2>. QED BY <2>2 DEF Whole
<1>11. \A i \in 1 .. n : \A k \in 1 .. Len(parts[i]) : column[D[i - 1] + k] = TaskIds(g)[i]
  <2> HIDE DEF n, columns
  <2>1. \A i \in 1 .. n : D[i] = D[i - 1] + Len(columns[i])
    BY <1>7, <1>8
  <2>2. Offsets(D, Nat \X Nat, columns, n)
    BY <1>1, <1>7, <1>8, <2>1 DEF Offsets
  <2>3. Whole(column, D, Nat \X Nat, columns, n)
    BY <2>2, FlattenPlaces
  <2>. QED BY <1>8, <2>3 DEF Whole
<1> HIDE DEF n, columns, flat, column, rows
<1>12. DOMAIN flat = 1 .. D[n] /\ D[n] \in Nat
  BY <1>1, <1>7, <1>10
<1>13. ASSUME NEW i \in 1 .. n, NEW k \in 1 .. Len(parts[i])
       PROVE  rows[D[i - 1] + k] = parts[i][k]
  <2>1. /\ parts[i][k] \in FineRows(past) /\ parts[i][k].task = TaskIds(g)[i]
    BY <1>3 DEF RowsOfEpisode
  <2>2. parts[i][k] \in RowRecords
    BY <2>1 DEF FineRows
  <2>3. /\ D[i - 1] + k \in DOMAIN flat /\ flat[D[i - 1] + k] = parts[i][k]
        /\ column[D[i - 1] + k] = parts[i][k].task
    BY <1>10, <1>11, <1>12, <2>1
  <2>4. rows[D[i - 1] + k] = [parts[i][k] EXCEPT !.task = parts[i][k].task]
    BY <1>9, <2>3
  <2>. QED BY <2>2, <2>4, SameTask
<1>14. ASSUME NEW r \in 1 .. D[n]
       PROVE  \E i \in 1 .. n : \E k \in 1 .. Len(parts[i]) :
                /\ r = D[i - 1] + k /\ rows[r] = parts[i][k]
                /\ rows[r] \in FineRows(past) /\ ~ rows[r].is_pad_step
                /\ rows[r].episode = <<g, i>> /\ rows[r].step = k - 1
  <2>0. PICK i \in 1 .. n : \E k \in 1 .. Len(parts[i]) : r = D[i - 1] + k
    BY <1>10
  <2>1. PICK k \in 1 .. Len(parts[i]) : r = D[i - 1] + k
    BY <2>0
  <2>2. rows[r] = parts[i][k]
    BY <1>13, <2>1
  <2>3. /\ parts[i][k] \in FineRows(past) /\ ~ parts[i][k].is_pad_step
        /\ parts[i][k].episode = <<g, i>> /\ parts[i][k].step = k - 1
    BY <1>3 DEF RowsOfEpisode
  <2>. QED BY <2>1, <2>2, <2>3
<1>15. DOMAIN rows = 1 .. D[n]
  BY <1>9, <1>12
<1>16. rows \in Seq(FineRows(past))
  <2>1. rows = [r \in 1 .. D[n] |-> rows[r]]
    BY <1>9, <1>15
  <2>2. rows \in [1 .. D[n] -> FineRows(past)]
    BY <1>14, <2>1
  <2>. QED BY <1>12, <2>2
<1>17. Unpadded(rows) /\ \A r \in DOMAIN rows : rows[r].episode[1] = g
  BY <1>14, <1>15 DEF Unpadded
<1>18. Spread(rows)
  <2>. SUFFICES ASSUME NEW r \in 1 .. D[n], NEW s \in 1 .. D[n], r # s,
                       rows[r].episode = rows[s].episode, rows[r].step = rows[s].step
                PROVE  FALSE
    BY <1>15 DEF Spread
  <2>0. PICK i \in 1 .. n : \E k \in 1 .. Len(parts[i]) :
          r = D[i - 1] + k /\ rows[r].episode = <<g, i>> /\ rows[r].step = k - 1
    BY <1>14
  <2>1. PICK k \in 1 .. Len(parts[i]) :
          r = D[i - 1] + k /\ rows[r].episode = <<g, i>> /\ rows[r].step = k - 1
    BY <2>0
  <2>6. PICK j \in 1 .. n : \E m \in 1 .. Len(parts[j]) :
          s = D[j - 1] + m /\ rows[s].episode = <<g, j>> /\ rows[s].step = m - 1
    BY <1>14
  <2>2. PICK m \in 1 .. Len(parts[j]) :
          s = D[j - 1] + m /\ rows[s].episode = <<g, j>> /\ rows[s].step = m - 1
    BY <2>6
  <2>3. i = j
    BY <2>1, <2>2
  <2>4. k \in Int /\ m \in Int
    BY <1>6
  <2>5. k = m
    BY <2>1, <2>2, <2>4
  <2>. QED BY <2>1, <2>2, <2>3, <2>5
<1>19. ASSUME NEW i \in Slots, NEW s \in 0 .. past[g + 1][i].steps - 1
       PROVE  HasStep(rows, <<g, i>>, past[g + 1][i], s)
  <2>1. i \in 1 .. n
    BY <1>1
  <2>2. PICK k \in 1 .. Len(parts[i]) : s \in RowSteps(parts[i][k], past[g + 1][i])
    BY <1>3, <2>1 DEF RowsOfEpisode
  <2>3. /\ D[i - 1] + k \in DOMAIN rows /\ rows[D[i - 1] + k] = parts[i][k]
        /\ ~ parts[i][k].is_pad_step /\ parts[i][k].episode = <<g, i>>
    BY <1>3, <1>10, <1>13, <1>15, <2>1 DEF RowsOfEpisode
  <2>. QED BY <2>2, <2>3 DEF HasStep
<1>20. Fresh(rows, past, g)
  BY <1>16, <1>17, <1>18, <1>19 DEF Fresh
<1>. QED BY <1>20 DEF rows, parts

-----------------------------------------------------------------------------
(***************************************************************************)
(* What the trainer does to rows                                           *)
(***************************************************************************)

(***************************************************************************)
(* The same row, its advantage aside.                                      *)
(***************************************************************************)
Same(x, y) ==
  /\ x.episode = y.episode /\ x.step = y.step /\ x.task = y.task /\ x.tokens = y.tokens
  /\ x.is_correct = y.is_correct /\ x.is_pad_step = y.is_pad_step
  /\ x.is_last_step = y.is_last_step /\ x.is_valid = y.is_valid /\ x.is_fatal = y.is_fatal

Picked(out, rows, S, past) ==
  /\ out \in Seq(FineRows(past)) /\ Len(out) = Cardinality(S) /\ IsFiniteSet(S)
  /\ \A n \in DOMAIN out : \E r \in S : out[n] = rows[r]
  /\ \A r \in S : \E n \in DOMAIN out : out[n] = rows[r]
  /\ Spread(rows) => Spread(out)

(***************************************************************************)
(* Selecting rows by position keeps them and their difference.             *)
(***************************************************************************)
LEMMA SelectFacts ==
  ASSUME NEW past, NEW rows \in Seq(FineRows(past)), NEW S \in SUBSET (DOMAIN rows)
  PROVE  Picked(At(rows, S), rows, S, past)
<1> DEFINE out == At(rows, S)
           X   == FineRows(past)
<1>1. /\ IsFiniteSet(S) /\ Cardinality(S) \in Nat
      /\ out \in Seq(X)
      /\ Len(out) = Cardinality(S)
      /\ DOMAIN out = 1 .. Cardinality(S)
      /\ \A n \in DOMAIN out : Nth(S, n) \in S /\ out[n] = rows[Nth(S, n)]
      /\ \A i \in S : \E n \in DOMAIN out : Nth(S, n) = i
      /\ \A m, n \in DOMAIN out : Nth(S, m) = Nth(S, n) => m = n
  <2> HIDE DEF X
  <2>1. rows \in Seq(X)
    BY DEF X
  <2>. QED BY <2>1, AtFacts
<1> HIDE DEF out
<1>2. Spread(rows) => Spread(out)
  <2>1. \A n \in DOMAIN out : Nth(S, n) \in DOMAIN rows
    BY <1>1
  <2>. QED BY <1>1, <2>1 DEF Spread
<1>3. \A r \in S : \E n \in DOMAIN out : out[n] = rows[r]
  BY <1>1
<1>4. Picked(out, rows, S, past)
  BY <1>1, <1>2, <1>3 DEF Picked
<1>. QED BY <1>4 DEF out

(***************************************************************************)
(* A row keeps what it is when it is given an advantage.                   *)
(***************************************************************************)
LEMMA AdvantageKeepsRow ==
  ASSUME NEW past, NEW row \in FineRows(past), NEW a \in Advantages
  PROVE  /\ [row EXCEPT !.advantage = a] \in FineRows(past)
         /\ Same([row EXCEPT !.advantage = a], row)
         /\ [row EXCEPT !.advantage = a].advantage = a
<1> DEFINE new == [row EXCEPT !.advantage = a]
<1>1. row \in RowRecords /\ Fine(row, past)
  BY DEF FineRows
<1>2. new \in RowRecords /\ new.advantage = a
  BY <1>1 DEF RowRecords
<1>3. Same(new, row)
  BY <1>1 DEF Same, RowRecords
<1> HIDE DEF new
<1>4. Fine(new, past)
  BY <1>1, <1>3 DEF Fine, Same, RowSteps
<1>5. new \in FineRows(past)
  BY <1>2, <1>4 DEF FineRows
<1>. QED BY <1>2, <1>3, <1>5 DEF new

(***************************************************************************)
(* A padding row is one of the episode it copies.                          *)
(***************************************************************************)
LEMMA PaddingKeepsRow ==
  ASSUME NEW past, NEW row \in FineRows(past)
  PROVE  /\ Padding(row) \in FineRows(past) /\ Padding(row).is_pad_step
         /\ Padding(row).episode = row.episode /\ Padding(row).task = row.task
         /\ Padding(row).is_correct = row.is_correct /\ Padding(row).advantage = row.advantage
<1> DEFINE new == Padding(row)
<1>1. row \in RowRecords /\ Fine(row, past)
  BY DEF FineRows
<1>2. new \in RowRecords
  BY <1>1 DEF RowRecords, Padding
<1>3. /\ new.episode = row.episode /\ new.task = row.task /\ new.step = row.step
      /\ new.tokens = row.tokens /\ new.is_correct = row.is_correct /\ new.advantage = row.advantage
      /\ new.is_pad_step = TRUE /\ new.is_valid = FALSE /\ new.is_last_step = FALSE
  BY <1>1 DEF RowRecords, Padding
<1> HIDE DEF new
<1>4. Fine(new, past)
  BY <1>1, <1>3 DEF Fine, RowSteps
<1>5. new \in FineRows(past)
  BY <1>2, <1>4 DEF FineRows
<1>. QED BY <1>3, <1>5 DEF new

(***************************************************************************)
(* Rows that differ among themselves and from each other differ together.  *)
(***************************************************************************)
Apart(x, y) == x.is_pad_step \/ y.is_pad_step \/ x.episode # y.episode \/ x.step # y.step

(* Rows apart in two batches, and across them, are apart in both together. *)
LEMMA SpreadJoins ==
  ASSUME NEW X, NEW p \in Seq(X), NEW q \in Seq(X), Spread(p), Spread(q),
         \A r \in DOMAIN p : \A s \in DOMAIN q : Apart(p[r], q[s])
  PROVE  Spread(p \o q)
<1> DEFINE w == p \o q
<1>1. /\ Len(p) \in Nat /\ Len(q) \in Nat
      /\ DOMAIN w = 1 .. Len(p) + Len(q)
      /\ \A i \in 1 .. Len(p) : w[i] = p[i]
      /\ \A i \in 1 .. Len(p) + Len(q) :
              \/ i \in 1 .. Len(p)
              \/ i - Len(p) \in 1 .. Len(q) /\ w[i] = q[i - Len(p)]
  <2>1. Joined(w, p, q, X)
    BY JoinFacts
  <2>. QED BY <2>1 DEF Joined
<1>2. DOMAIN p = 1 .. Len(p) /\ DOMAIN q = 1 .. Len(q)
  OBVIOUS
<1> HIDE DEF w
<1>3. ASSUME NEW r \in DOMAIN w, NEW s \in DOMAIN w, r # s
      PROVE  Apart(w[r], w[s])
  <2>1. CASE r \in 1 .. Len(p) /\ s \in 1 .. Len(p)
    BY <1>1, <1>2, <1>3, <2>1 DEF Spread, Apart
  <2>2. CASE r \in 1 .. Len(p) /\ s \notin 1 .. Len(p)
    BY <1>1, <1>2, <2>2
  <2>3. CASE r \notin 1 .. Len(p) /\ s \in 1 .. Len(p)
    <3>1. Apart(w[s], w[r])
      BY <1>1, <1>2, <2>3
    <3>. QED BY <3>1 DEF Apart
  <2>4. CASE r \notin 1 .. Len(p) /\ s \notin 1 .. Len(p)
    <3>1. /\ r - Len(p) \in DOMAIN q /\ w[r] = q[r - Len(p)]
          /\ s - Len(p) \in DOMAIN q /\ w[s] = q[s - Len(p)]
      BY <1>1, <1>2, <2>4
    <3>2. r - Len(p) # s - Len(p)
      BY <1>1, <1>3
    <3>. QED BY <3>1, <3>2 DEF Spread, Apart
  <2>. QED BY <2>1, <2>2, <2>3, <2>4
<1>4. Spread(w)
  BY <1>3 DEF Spread, Apart
<1>. QED BY <1>4 DEF w

(***************************************************************************)
(* Padding a batch makes its size divide, keeps its rows, and adds rows    *)
(* that copy them.                                                         *)
(***************************************************************************)
Copies(x, y) ==
  /\ x.episode = y.episode /\ x.task = y.task
  /\ x.is_correct = y.is_correct /\ x.advantage = y.advantage

Padded(out, rows, past) ==
  /\ out \in Seq(FineRows(past)) /\ Len(out) % WorldSize = 0
  /\ \A r \in DOMAIN rows : ~ rows[r].is_pad_step => \E n \in DOMAIN out : out[n] = rows[r]
  /\ \A n \in DOMAIN out : ~ out[n].is_pad_step => \E r \in DOMAIN rows : out[n] = rows[r]
  /\ \A n \in DOMAIN out : \E r \in DOMAIN rows : ~ rows[r].is_pad_step /\ Copies(out[n], rows[r])
  /\ Spread(rows) => Spread(out)

(* Padding is what Padded says. *)
LEMMA PadFacts ==
  ASSUME NEW past, NEW rows \in Seq(FineRows(past))
  PROVE  Padded(PadToWorldSize(rows), rows, past)
<1> DEFINE S    == {r \in DOMAIN rows : ~ rows[r].is_pad_step}
           kept == RemovePadding(rows)
           out  == PadToWorldSize(rows)
<1>1. Picked(kept, rows, S, past)
  <2>1. S \in SUBSET (DOMAIN rows) /\ kept = At(rows, S)
    BY DEF RemovePadding
  <2> HIDE DEF S, kept
  <2>2. Picked(At(rows, S), rows, S, past)
    BY <2>1, SelectFacts
  <2>. QED BY <2>1, <2>2
<1>2. /\ kept \in Seq(FineRows(past)) /\ Len(kept) \in Nat /\ DOMAIN kept = 1 .. Len(kept)
      /\ \A n \in DOMAIN kept : \E r \in DOMAIN rows : ~ rows[r].is_pad_step /\ kept[n] = rows[r]
      /\ \A r \in DOMAIN rows : ~ rows[r].is_pad_step => \E n \in DOMAIN kept : kept[n] = rows[r]
      /\ Spread(rows) => Spread(kept)
  <2> HIDE DEF kept
  <2>1. kept \in Seq(FineRows(past))
    BY <1>1 DEF Picked
  <2>2. Len(kept) \in Nat /\ DOMAIN kept = 1 .. Len(kept)
    BY <2>1
  <2>. QED BY <1>1, <2>1, <2>2 DEF Picked
<1>3. out = IF kept = <<>> THEN <<>>
            ELSE kept \o [i \in 1 .. PadSize(kept) |-> Padding(kept[((i - 1) % Len(kept)) + 1])]
  BY DEF PadToWorldSize
<1> HIDE DEF S, kept, out
<1>4. CASE kept = <<>>
  <2>1. out = <<>> /\ \A r \in DOMAIN rows : rows[r].is_pad_step
    BY <1>2, <1>3, <1>4
  <2>2. out \in Seq(FineRows(past)) /\ Len(out) = 0 /\ DOMAIN out = {}
    BY <2>1
  <2>3. 0 % WorldSize = 0
    BY SizeFacts
  <2>4. Padded(out, rows, past)
    BY <2>1, <2>2, <2>3 DEF Padded, Spread
  <2>. QED BY <2>4 DEF out
<1>5. CASE kept # <<>>
  <2> DEFINE m   == PadSize(kept)
             pad == [i \in 1 .. m |-> Padding(kept[((i - 1) % Len(kept)) + 1])]
  <2>1. m \in Nat /\ (Len(kept) + m) % WorldSize = 0
    BY <1>2, SizeFacts, PadDivides DEF PadSize
  <2>2. Len(kept) \in Nat \ {0}
    BY <1>2, <1>5
  <2> HIDE DEF m
  <2>3. ASSUME NEW i \in 1 .. m PROVE ((i - 1) % Len(kept)) + 1 \in DOMAIN kept
    <3>1. (i - 1) % Len(kept) \in 0 .. Len(kept) - 1
      BY <2>1, <2>2
    <3>. QED BY <1>2, <2>2, <3>1
  <2>4. ASSUME NEW i \in 1 .. m
        PROVE  /\ pad[i] \in FineRows(past) /\ pad[i].is_pad_step
               /\ \E n \in DOMAIN kept : Copies(pad[i], kept[n])
    <3> DEFINE n == ((i - 1) % Len(kept)) + 1
    <3>1. n \in DOMAIN kept /\ kept[n] \in FineRows(past) /\ pad[i] = Padding(kept[n])
      BY <1>2, <2>3
    <3> HIDE DEF n, pad
    <3>. QED BY <3>1, PaddingKeepsRow DEF Copies
  <2>5. DOMAIN pad = 1 .. m
    OBVIOUS
  <2>6. pad \in [1 .. m -> FineRows(past)]
    <3>1. pad = [i \in 1 .. m |-> pad[i]]
      OBVIOUS
    <3> HIDE DEF pad
    <3>. QED BY <2>4, <3>1
  <2> HIDE DEF pad
  <2>7. pad \in Seq(FineRows(past)) /\ Len(pad) = m
    BY <2>1, <2>6
  <2>8. out = kept \o pad
    BY <1>3, <1>5 DEF pad, m
  <2>9. Joined(out, kept, pad, FineRows(past))
    BY <1>2, <2>7, <2>8, JoinFacts
  <2>10. Spread(rows) => Spread(out)
    <3>1. \A r \in DOMAIN kept : \A s \in DOMAIN pad : Apart(kept[r], pad[s])
      BY <2>4, <2>5 DEF Apart
    <3>2. Spread(pad)
      BY <2>4, <2>5 DEF Spread
    <3>. QED BY <1>2, <2>7, <2>8, <3>1, <3>2, SpreadJoins
  <2>11. /\ out \in Seq(FineRows(past)) /\ Len(out) = Len(kept) + m
         /\ \A i \in 1 .. Len(kept) : i \in DOMAIN out /\ i \in DOMAIN kept /\ out[i] = kept[i]
         /\ \A i \in DOMAIN out :
              \/ i \in 1 .. Len(kept)
              \/ i - Len(kept) \in 1 .. m /\ out[i] = pad[i - Len(kept)]
    BY <2>7, <2>9 DEF Joined
  <2>12. \A r \in DOMAIN rows : ~ rows[r].is_pad_step => \E n \in DOMAIN out : out[n] = rows[r]
    BY <1>2, <2>11
  <2>13. ASSUME NEW n \in DOMAIN out
         PROVE  /\ ~ out[n].is_pad_step => \E r \in DOMAIN rows : out[n] = rows[r]
                /\ \E r \in DOMAIN rows : ~ rows[r].is_pad_step /\ Copies(out[n], rows[r])
    <3>1. CASE n \in 1 .. Len(kept)
      <4>1. PICK r \in DOMAIN rows : ~ rows[r].is_pad_step /\ kept[n] = rows[r]
        BY <1>2, <3>1
      <4>2. out[n] = rows[r]
        BY <2>11, <3>1, <4>1
      <4>. QED BY <4>1, <4>2 DEF Copies
    <3>2. CASE n \notin 1 .. Len(kept)
      <4>1. n - Len(kept) \in 1 .. m /\ out[n] = pad[n - Len(kept)]
        BY <2>11, <3>2
      <4>2. PICK k \in DOMAIN kept : Copies(out[n], kept[k])
        BY <2>4, <4>1
      <4>3. PICK r \in DOMAIN rows : ~ rows[r].is_pad_step /\ kept[k] = rows[r]
        BY <1>2
      <4>. QED BY <2>4, <4>1, <4>2, <4>3
    <3>. QED BY <3>1, <3>2
  <2>14. Padded(out, rows, past)
    BY <2>1, <2>10, <2>11, <2>12, <2>13 DEF Padded
  <2>. QED BY <2>14 DEF out
<1>. QED BY <1>4, <1>5

(***************************************************************************)
(* Scoring and clamping change advantages only, and leave no fatal row     *)
(* with a negative one.                                                    *)
(***************************************************************************)
Scored(out, rows, past) ==
  /\ out \in Seq(FineRows(past)) /\ DOMAIN out = DOMAIN rows
  /\ \A n \in DOMAIN out :
       Same(out[n], rows[n]) /\ (out[n].is_fatal => out[n].advantage # "negative")

(* Scoring and clamping are what Scored says. *)
LEMMA ScoreFacts ==
  ASSUME NEW past, NEW rows \in Seq(FineRows(past))
  PROVE  Scored(Clamp(WithAdvantages(rows)), rows, past)
<1> DEFINE with == WithAdvantages(rows)
           out  == Clamp(with)
<1>1. \A r \in DOMAIN rows : rows[r] \in FineRows(past)
  OBVIOUS
<1>2. ASSUME NEW r \in DOMAIN rows
      PROVE  with[r] \in FineRows(past) /\ Same(with[r], rows[r])
  <2>1. Advantage(rows, r) \in Advantages
    BY DEF Advantage, Advantages
  <2>2. with[r] = [rows[r] EXCEPT !.advantage = Advantage(rows, r)]
    BY DEF WithAdvantages
  <2> HIDE DEF with
  <2>. QED BY <1>1, <2>1, <2>2, AdvantageKeepsRow
<1>3. DOMAIN with = DOMAIN rows
  BY DEF WithAdvantages
<1> HIDE DEF with
<1>4. ASSUME NEW r \in DOMAIN rows
      PROVE  /\ out[r] \in FineRows(past) /\ Same(out[r], rows[r])
             /\ out[r].is_fatal => out[r].advantage # "negative"
  <2>1. with[r] \in FineRows(past) /\ Same(with[r], rows[r])
    BY <1>2
  <2>2. out[r] = IF with[r].is_fatal /\ with[r].advantage = "negative"
                   THEN [with[r] EXCEPT !.advantage = "zero"] ELSE with[r]
    BY <1>3 DEF Clamp
  <2> HIDE DEF out
  <2>3. CASE with[r].is_fatal /\ with[r].advantage = "negative"
    <3>1. "zero" \in Advantages
      BY DEF Advantages
    <3>2. /\ out[r] \in FineRows(past) /\ Same(out[r], with[r]) /\ out[r].advantage = "zero"
      BY <2>1, <2>2, <2>3, <3>1, AdvantageKeepsRow
    <3>. QED BY <2>1, <3>2 DEF Same
  <2>4. CASE ~ (with[r].is_fatal /\ with[r].advantage = "negative")
    BY <2>1, <2>2, <2>4
  <2>. QED BY <2>3, <2>4
<1>5. out = [r \in DOMAIN rows |-> out[r]]
  BY <1>3 DEF Clamp
<1> HIDE DEF out
<1>6. out \in Seq(FineRows(past))
  <2>1. DOMAIN rows = 1 .. Len(rows) /\ Len(rows) \in Nat
    OBVIOUS
  <2>2. out \in [1 .. Len(rows) -> FineRows(past)]
    BY <1>4, <1>5, <2>1
  <2>. QED BY <2>1, <2>2
<1>7. DOMAIN out = DOMAIN rows
  BY <1>5
<1>8. Scored(out, rows, past)
  BY <1>4, <1>6, <1>7 DEF Scored
<1>. QED BY <1>8 DEF out, with

(***************************************************************************)
(* Rounding broadcast mode's rows down leaves some of them out.            *)
(***************************************************************************)
Thinned(out, rows, past) ==
  /\ out \in Seq(FineRows(past))
  /\ \A n \in DOMAIN out : \E r \in DOMAIN rows : out[n] = rows[r]
  /\ Spread(rows) => Spread(out)

(* The beginning of a sequence. *)
LEMMA SubSeqFacts ==
  ASSUME NEW X, NEW p \in Seq(X), NEW m \in Nat, m <= Len(p)
  PROVE  /\ SubSeq(p, 1, m) \in Seq(X) /\ DOMAIN SubSeq(p, 1, m) = 1 .. m
         /\ \A i \in 1 .. m : i \in DOMAIN p /\ SubSeq(p, 1, m)[i] = p[i]
<1>1. Len(p) \in Nat /\ DOMAIN p = 1 .. Len(p)
  OBVIOUS
<1>2. \A i \in 1 .. m : i \in DOMAIN p /\ p[i] \in X
  BY <1>1
<1>3. SubSeq(p, 1, m) = [i \in 1 .. m |-> p[i]]
  OBVIOUS
<1>4. SubSeq(p, 1, m) \in [1 .. m -> X]
  BY <1>2, <1>3
<1>5. SubSeq(p, 1, m) \in Seq(X)
  BY <1>4
<1>. QED BY <1>2, <1>3, <1>5

(* Rounding down is what Thinned says. *)
LEMMA RoundDownFacts ==
  ASSUME NEW past, NEW rows \in Seq(FineRows(past))
  PROVE  Thinned(RoundDown(rows), rows, past)
<1> DEFINE L      == {r \in DOMAIN rows : rows[r].is_last_step}
           O      == {r \in DOMAIN rows : ~ rows[r].is_last_step}
           last   == LastSteps(rows)
           m      == (Len(last) \div WorldSize) * WorldSize
           kept   == SubSeq(last, 1, m)
           others == OtherSteps(rows)
           Q      == {r \in DOMAIN others :
                        \E k \in DOMAIN kept : kept[k].trajectory = others[r].trajectory}
           rest   == At(others, Q)
<1>1. Picked(last, rows, L, past) /\ Picked(others, rows, O, past)
  <2>1. /\ L \in SUBSET (DOMAIN rows) /\ last = At(rows, L)
        /\ O \in SUBSET (DOMAIN rows) /\ others = At(rows, O)
    BY DEF LastSteps, OtherSteps
  <2> HIDE DEF L, O, last, others
  <2>2. Picked(At(rows, L), rows, L, past) /\ Picked(At(rows, O), rows, O, past)
    BY <2>1, SelectFacts
  <2>. QED BY <2>1, <2>2
<1>2. RoundDown(rows) = kept \o rest
  BY DEF RoundDown
<1> HIDE DEF last, others
<1>3. /\ last \in Seq(FineRows(past)) /\ others \in Seq(FineRows(past))
      /\ Spread(rows) => Spread(last) /\ Spread(others)
      /\ \A n \in DOMAIN last : \E r \in DOMAIN rows : rows[r].is_last_step /\ last[n] = rows[r]
      /\ \A n \in DOMAIN others : \E r \in DOMAIN rows : ~ rows[r].is_last_step /\ others[n] = rows[r]
  BY <1>1 DEF Picked
<1>4. m \in Nat /\ m <= Len(last)
  <2>1. Len(last) \in Nat
    BY <1>3
  <2>2. \A n \in Nat, w \in Nat \ {0} : (n \div w) * w \in Nat /\ (n \div w) * w <= n
    <3>. SUFFICES ASSUME NEW n \in Nat, NEW w \in Nat \ {0}
                  PROVE  (n \div w) * w \in Nat /\ (n \div w) * w <= n
      OBVIOUS
    <3>1. n = (w * (n \div w)) + (n % w) /\ n % w \in 0 .. w - 1 /\ n \div w \in Nat
      OBVIOUS
    <3>. QED BY <3>1
  <2>. QED BY <2>1, <2>2, SizeFacts
<1> HIDE DEF m
<1>5. /\ kept \in Seq(FineRows(past)) /\ DOMAIN kept = 1 .. m
      /\ \A i \in 1 .. m : i \in DOMAIN last /\ kept[i] = last[i]
  BY <1>3, <1>4, SubSeqFacts
<1> HIDE DEF kept
<1>6. Picked(rest, others, Q, past)
  <2>1. Q \in SUBSET (DOMAIN others)
    OBVIOUS
  <2> HIDE DEF Q
  <2>. QED BY <1>3, <2>1, SelectFacts
<1> HIDE DEF rest, Q, L, O
<1>7. /\ rest \in Seq(FineRows(past)) /\ (Spread(others) => Spread(rest))
      /\ \A n \in DOMAIN rest : \E r \in DOMAIN rows : ~ rows[r].is_last_step /\ rest[n] = rows[r]
  <2>1. Q \subseteq DOMAIN others
    BY DEF Q
  <2>2. \A n \in DOMAIN rest : \E r \in DOMAIN others : rest[n] = others[r]
    BY <1>6, <2>1 DEF Picked
  <2>. QED BY <1>3, <1>6, <2>2 DEF Picked
<1>8. \A n \in DOMAIN kept : \E r \in DOMAIN rows : rows[r].is_last_step /\ kept[n] = rows[r]
  BY <1>3, <1>5
<1>9. ASSUME Spread(rows) PROVE Spread(kept \o rest)
  <2>1. Spread(kept)
    BY <1>3, <1>5, <1>9 DEF Spread
  <2>2. Spread(rest)
    BY <1>3, <1>7, <1>9
  <2>3. \A r \in DOMAIN kept : \A s \in DOMAIN rest : Apart(kept[r], rest[s])
    BY <1>7, <1>8, <1>9 DEF Spread, Apart
  <2>. QED BY <1>5, <1>7, <2>1, <2>2, <2>3, SpreadJoins
<1>10. Joined(kept \o rest, kept, rest, FineRows(past))
  BY <1>5, <1>7, JoinFacts
<1> DEFINE out == kept \o rest
<1> HIDE DEF out
<1>11. ASSUME NEW n \in DOMAIN out PROVE \E r \in DOMAIN rows : out[n] = rows[r]
  <2>1. \/ n \in 1 .. Len(kept)
        \/ n - Len(kept) \in 1 .. Len(rest) /\ out[n] = rest[n - Len(kept)]
    BY <1>10 DEF Joined, out
  <2>2. DOMAIN rest = 1 .. Len(rest) /\ DOMAIN kept = 1 .. Len(kept)
    BY <1>5, <1>7
  <2>3. n \in 1 .. Len(kept) => out[n] = kept[n]
    BY <1>10 DEF Joined, out
  <2>. QED BY <1>7, <1>8, <2>1, <2>2, <2>3
<1>12. Thinned(out, rows, past)
  BY <1>9, <1>10, <1>11 DEF Thinned, Joined, out
<1>. QED BY <1>2, <1>12 DEF out

-----------------------------------------------------------------------------
(***************************************************************************)
(* The invariant                                                           *)
(***************************************************************************)

(***************************************************************************)
(* Every step, or every step that is kept, of the rollouts that came back  *)
(* is on a row; under sampling, of those whose task is there.              *)
(***************************************************************************)
Covers(rows, past) ==
  \A g \in 0 .. Len(past) - 1 : \A i \in Slots :
    (rejection_sample => TaskIds(g)[i] \in TasksOf(rows))
      => \A k \in 0 .. past[g + 1][i].steps - 1 : HasStep(rows, <<g, i>>, past[g + 1][i], k)

CoversKept(rows, past) ==
  \A g \in 0 .. Len(past) - 1 : \A i \in Slots :
    (rejection_sample => TaskIds(g)[i] \in TasksOf(rows))
      => \A k \in Kept(past[g + 1][i]) : HasStep(rows, <<g, i>>, past[g + 1][i], k)

AllPartial(rows) == \A t \in TasksOf(rows) : IsPartial(rows, t)

Gentle(rows, past) ==
  \A r \in DOMAIN rows :
    EpisodeIn(past, rows[r].episode).fatal # NoFatalStep => rows[r].advantage # "negative"

(***************************************************************************)
(* What the batch is in each phase.                                        *)
(***************************************************************************)
Sound(p, rows, past, partial) ==
  /\ past \in History
  /\ rows \in Seq(FineRows(past)) /\ Spread(rows)
  /\ p = "generate" /\ ~ rejection_sample => rows = <<>> /\ past = <<>>
  /\ p = "generate" /\ rejection_sample =>
       /\ Unpadded(rows) /\ AllPartial(rows) /\ Covers(rows, past)
       /\ partial = Cardinality(TasksOf(rows)) /\ partial < TrainBatchSize
  /\ p = "log_prob" =>
       /\ Len(rows) % WorldSize = 0
       /\ mode # "broadcast" =>
            /\ Covers(rows, past)
            /\ rejection_sample =>
                 Cardinality(TasksOf(rows)) = TrainBatchSize /\ AllPartial(rows)
  /\ p = "update" =>
       /\ Len(rows) % WorldSize = 0 /\ ~ (\A r \in DOMAIN rows : rows[r].is_pad_step)
       /\ Gentle(rows, past)
       /\ mode # "broadcast" => CoversKept(rows, past)

IInv ==
  /\ [mode |-> mode, rejection_sample |-> rejection_sample] \in Options
  /\ phase \in {"generate", "log_prob", "update", "done", "crashed"}
  /\ global_steps \in 1 .. TotalTrainingSteps + 1
  /\ phase \in {"generate", "log_prob", "update"} =>
       global_steps < TotalTrainingSteps \/ global_steps = 1
  /\ generation \in 0 .. GenerationLimit /\ Len(generated) = generation
  /\ solve_partial \in 0 .. generation * Tasks
  /\ cause \in {"none", "no_rows", "empty_stack", "no_last_step"}
  /\ Sound(phase, batch, generated, solve_partial)

(***************************************************************************)
(* The options do not change: a sound batch is one after a step as before. *)
(***************************************************************************)
LEMMA SoundBeforeAndAfter ==
  ASSUME mode' = mode, rejection_sample' = rejection_sample
  PROVE  \A p, rows, past, partial :
           Sound(p, rows, past, partial)' <=> Sound(p, rows, past, partial)
BY DEF Sound, History, FineRows, Fine, RowSteps, Covers, CoversKept, HasStep, Gentle

(***************************************************************************)
(* A new generation leaves the rows of the earlier ones what they are.     *)
(***************************************************************************)
Grown(new, past, episodes) ==
  /\ new \in History /\ Len(new) = Len(past) + 1 /\ new[Len(past) + 1] = episodes
  /\ \A g \in 0 .. Len(past) - 1 : g \in 0 .. Len(new) - 1 /\ new[g + 1] = past[g + 1]
  /\ \A row \in FineRows(past) : row \in FineRows(new)

(* Appending a generation is what Grown says. *)
LEMMA HistoryGrows ==
  ASSUME NEW past \in History, NEW episodes \in [Slots -> EpisodeKinds[rejection_sample]]
  PROVE  Grown(Append(past, episodes), past, episodes)
<1> DEFINE new == Append(past, episodes)
           X   == [Slots -> EpisodeKinds[rejection_sample]]
<1>1. /\ new \in Seq(X) /\ Len(past) \in Nat /\ Len(new) = Len(past) + 1
      /\ new[Len(past) + 1] = episodes
      /\ \A g \in 1 .. Len(past) : new[g] = past[g]
  <2>1. past \in Seq(X) /\ episodes \in X
    BY DEF History
  <2> HIDE DEF X
  <2>. QED BY <2>1
<1> HIDE DEF new
<1>2. \A g \in 0 .. Len(past) - 1 : g + 1 \in 1 .. Len(past) /\ g \in 0 .. Len(new) - 1
  BY <1>1
<1>3. ASSUME NEW row \in FineRows(past) PROVE row \in FineRows(new)
  <2>1. row \in RowRecords /\ Fine(row, past) /\ row.episode[1] \in 0 .. Len(past) - 1
    BY DEF FineRows, Fine
  <2>2. EpisodeIn(new, row.episode) = EpisodeIn(past, row.episode)
    BY <1>1, <1>2, <2>1 DEF EpisodeIn
  <2>3. Fine(row, new)
    BY <1>2, <2>1, <2>2 DEF Fine
  <2>. QED BY <2>1, <2>3 DEF FineRows
<1>4. Grown(new, past, episodes)
  BY <1>1, <1>2, <1>3 DEF Grown, History
<1>. QED BY <1>4 DEF new

(***************************************************************************)
(* The batch the workers get is padded; only broadcast mode leaves rows    *)
(* out of it.                                                              *)
(***************************************************************************)
MadeWhole(out, rows, past) ==
  /\ out \in Seq(FineRows(past)) /\ Len(out) % WorldSize = 0
  /\ Spread(rows) => Spread(out)
  /\ mode # "broadcast" => Padded(out, rows, past)

(* MakeWhole is what MadeWhole says, in every mode. *)
LEMMA MakeWholeFacts ==
  ASSUME NEW past, NEW rows \in Seq(FineRows(past))
  PROVE  MadeWhole(MakeWhole(rows), rows, past)
<1>1. CASE mode = "broadcast"
  <2> DEFINE down == RoundDown(rows)
             out  == PadToWorldSize(down)
  <2>1. Thinned(down, rows, past)
    BY RoundDownFacts
  <2> HIDE DEF down
  <2>2. down \in Seq(FineRows(past)) /\ (Spread(rows) => Spread(down))
    BY <2>1 DEF Thinned
  <2>3. Padded(out, down, past)
    BY <2>2, PadFacts
  <2>4. MakeWhole(rows) = out
    BY <1>1 DEF MakeWhole, down
  <2> HIDE DEF out
  <2>. QED BY <1>1, <2>2, <2>3, <2>4 DEF Padded, MadeWhole
<1>2. CASE mode # "broadcast"
  <2> DEFINE out == PadToWorldSize(rows)
  <2>1. Padded(out, rows, past)
    BY PadFacts
  <2>2. MakeWhole(rows) = out
    BY <1>2 DEF MakeWhole
  <2> HIDE DEF out
  <2>. QED BY <2>1, <2>2 DEF Padded, MadeWhole
<1>. QED BY <1>1, <1>2

-----------------------------------------------------------------------------
(***************************************************************************)
(* Tasks                                                                   *)
(***************************************************************************)

LEMMA RowTask ==
  ASSUME NEW past, NEW row \in FineRows(past)
  PROVE  /\ row.episode[1] \in 0 .. Len(past) - 1 /\ row.episode[1] \in Nat
         /\ row.episode[2] \in Slots
         /\ row.task = TaskIds(row.episode[1])[row.episode[2]]
         /\ row.task[1] = row.episode[1] /\ row.task[2] \in 0 .. Tasks - 1
         /\ row.task = <<row.task[1], row.task[2]>>
<1>1. Fine(row, past)
  BY DEF FineRows
<1>2. /\ row.episode[1] \in 0 .. Len(past) - 1 /\ row.episode[2] \in Slots
      /\ row.task = TaskIds(row.episode[1])[row.episode[2]]
  BY <1>1 DEF Fine
<1>3. row.episode[1] \in Nat
  BY <1>2
<1> DEFINE g == row.episode[1]
           i == row.episode[2]
           q == (i - 1) \div RolloutN
<1>4. TaskIds(g)[i] = <<g, q>> /\ q \in 0 .. Tasks - 1
  BY <1>2, <1>3, TaskIdFacts
<1> HIDE DEF q
<1>. QED BY <1>2, <1>3, <1>4

(* A batch holds finitely many tasks. *)
LEMMA TasksAreFinite ==
  ASSUME NEW X, NEW rows \in Seq(X)
  PROVE  IsFiniteSet(TasksOf(rows)) /\ Cardinality(TasksOf(rows)) \in Nat
<1> DEFINE f == [r \in DOMAIN rows |-> rows[r].task]
<1>1. f \in Surjection(DOMAIN rows, TasksOf(rows))
  BY DEF Surjection, TasksOf
<1>2. IsFiniteSet(DOMAIN rows)
  <2>1. DOMAIN rows = 1 .. Len(rows) /\ Len(rows) \in Nat
    OBVIOUS
  <2>. QED BY <2>1, FS_Interval
<1> HIDE DEF f
<1>. QED BY <1>1, <1>2, FS_Surjection, FS_CardinalityType

(***************************************************************************)
(* One generation holds no more tasks than are drawn.                      *)
(***************************************************************************)
LEMMA TasksOfGeneration ==
  ASSUME NEW past, NEW g, NEW rows, Fresh(rows, past, g)
  PROVE  /\ \A t \in TasksOf(rows) : t[1] = g
         /\ \A T \in SUBSET TasksOf(rows) :
              IsFiniteSet(T) /\ Cardinality(T) \in Nat /\ Cardinality(T) <= Tasks
<1>1. /\ rows \in Seq(FineRows(past)) /\ \A r \in DOMAIN rows : rows[r].episode[1] = g
  BY DEF Fresh
<1>2. \A r \in DOMAIN rows : rows[r] \in FineRows(past)
  BY <1>1
<1>3. ASSUME NEW r \in DOMAIN rows
      PROVE  rows[r].task = <<g, rows[r].task[2]>> /\ rows[r].task[2] \in 0 .. Tasks - 1
  BY <1>1, <1>2, RowTask
<1> DEFINE A == 0 .. Tasks - 1
           B == {<<g, q>> : q \in A}
           f == [q \in A |-> <<g, q>>]
<1>4. TasksOf(rows) \subseteq B
  BY <1>3 DEF TasksOf
<1>5. IsFiniteSet(A) /\ Cardinality(A) = Tasks
  BY SizeFacts, FS_Interval
<1>6. f \in Surjection(A, B)
  BY DEF Surjection
<1> HIDE DEF f
<1>7. IsFiniteSet(B) /\ Cardinality(B) <= Tasks
  BY <1>5, <1>6, FS_Surjection
<1>8. \A t \in B : t[1] = g
  OBVIOUS
<1> HIDE DEF B
<1>9. ASSUME NEW T \in SUBSET TasksOf(rows)
      PROVE  IsFiniteSet(T) /\ Cardinality(T) \in Nat /\ Cardinality(T) <= Tasks
  <2>1. T \in SUBSET B
    BY <1>4
  <2>2. IsFiniteSet(T) /\ Cardinality(T) <= Cardinality(B)
    BY <1>7, <2>1, FS_Subset
  <2>3. Cardinality(T) \in Nat /\ Cardinality(B) \in Nat
    BY <1>7, <2>2, FS_CardinalityType
  <2>. QED BY <1>7, <2>2, <2>3, SizeFacts
<1>. QED BY <1>4, <1>8, <1>9

(***************************************************************************)
(* A task is partly solved in two batches with the same outcomes for it.   *)
(***************************************************************************)
LEMMA SameOutcomes ==
  ASSUME NEW rows, NEW out, NEW t,
         \A n \in DOMAIN out : out[n].task = t =>
           \E r \in DOMAIN rows : rows[r].task = t /\ rows[r].is_correct = out[n].is_correct,
         \A r \in DOMAIN rows : rows[r].task = t =>
           \E n \in DOMAIN out : out[n].task = t /\ rows[r].is_correct = out[n].is_correct
  PROVE  IsPartial(out, t) <=> IsPartial(rows, t)
<1> DEFINE U == {rows[r].is_correct : r \in RowsOfTask(rows, t)}
           V == {out[n].is_correct : n \in RowsOfTask(out, t)}
<1>1. U = V
  BY DEF RowsOfTask
<1>2. (IsPartial(out, t) <=> V = {TRUE, FALSE}) /\ (IsPartial(rows, t) <=> U = {TRUE, FALSE})
  BY DEF IsPartial
<1> HIDE DEF U, V
<1>. QED BY <1>1, <1>2

(***************************************************************************)
(* Gathering: the tasks of a new generation that some rollouts solved and  *)
(* others did not join the batch, whole.                                   *)
(***************************************************************************)
Gathering(rows, past, partial) ==
  /\ past \in History /\ rows \in Seq(FineRows(past)) /\ Spread(rows)
  /\ Unpadded(rows) /\ AllPartial(rows) /\ Covers(rows, past)
  /\ partial = Cardinality(TasksOf(rows))

Partial(rows) == {t \in TasksOf(rows) : IsPartial(rows, t)}

Chosen(out, rows, past, T) ==
  /\ out \in Seq(FineRows(past)) /\ TasksOf(out) = T
  /\ Spread(rows) => Spread(out)
  /\ Unpadded(rows) => Unpadded(out)
  /\ \A t \in T : IsPartial(out, t) <=> IsPartial(rows, t)
  /\ \A r \in DOMAIN rows : rows[r].task \in T => \E n \in DOMAIN out : out[n] = rows[r]
  /\ \A n \in DOMAIN out : \E r \in DOMAIN rows : out[n] = rows[r] /\ rows[r].task \in T

(* Choosing the rows of some tasks is what Chosen says. *)
LEMMA ChooseFacts ==
  ASSUME NEW past, NEW rows \in Seq(FineRows(past)), NEW T \in SUBSET TasksOf(rows)
  PROVE  Chosen(At(rows, {r \in DOMAIN rows : rows[r].task \in T}), rows, past, T)
<1> DEFINE S   == {r \in DOMAIN rows : rows[r].task \in T}
           out == At(rows, S)
<1>1. Picked(out, rows, S, past)
  <2>1. S \in SUBSET (DOMAIN rows)
    OBVIOUS
  <2> HIDE DEF S
  <2>. QED BY <2>1, SelectFacts
<1> HIDE DEF out
<1>2. /\ out \in Seq(FineRows(past)) /\ (Spread(rows) => Spread(out))
      /\ \A n \in DOMAIN out : \E r \in DOMAIN rows : out[n] = rows[r] /\ rows[r].task \in T
      /\ \A r \in DOMAIN rows : rows[r].task \in T => \E n \in DOMAIN out : out[n] = rows[r]
  BY <1>1 DEF Picked
<1> HIDE DEF S
<1>3. TasksOf(out) = T
  BY <1>2 DEF TasksOf
<1>4. Unpadded(rows) => Unpadded(out)
  BY <1>2 DEF Unpadded
<1>5. ASSUME NEW t \in T PROVE IsPartial(out, t) <=> IsPartial(rows, t)
  <2>1. \A n \in DOMAIN out : out[n].task = t =>
          \E r \in DOMAIN rows : rows[r].task = t /\ rows[r].is_correct = out[n].is_correct
    BY <1>2
  <2>2. \A r \in DOMAIN rows : rows[r].task = t =>
          \E n \in DOMAIN out : out[n].task = t /\ rows[r].is_correct = out[n].is_correct
    BY <1>2, <1>5
  <2>. QED BY <2>1, <2>2, SameOutcomes
<1>6. Chosen(out, rows, past, T)
  BY <1>2, <1>3, <1>4, <1>5 DEF Chosen
<1>. QED BY <1>6 DEF out, S

(***************************************************************************)
(* The rows of a chosen task are all chosen, so its rollouts keep their    *)
(* steps.                                                                  *)
(***************************************************************************)
LEMMA ChosenKeepSteps ==
  ASSUME NEW past, NEW rows, NEW T, NEW out, Chosen(out, rows, past, T),
         NEW g, NEW i, NEW e, NEW k, HasStep(rows, <<g, i>>, e, k),
         rows \in Seq(FineRows(past)), TaskIds(g)[i] \in T
  PROVE  HasStep(out, <<g, i>>, e, k)
<1>1. PICK r \in DOMAIN rows : /\ ~ rows[r].is_pad_step /\ rows[r].episode = <<g, i>>
                               /\ k \in RowSteps(rows[r], e)
  BY DEF HasStep
<1>2. rows[r] \in FineRows(past)
  OBVIOUS
<1>3. rows[r].task = TaskIds(rows[r].episode[1])[rows[r].episode[2]]
  BY <1>2, RowTask
<1>4. rows[r].task \in T
  BY <1>1, <1>3
<1>5. PICK n \in DOMAIN out : out[n] = rows[r]
  BY <1>4 DEF Chosen
<1>. QED BY <1>1, <1>5 DEF HasStep

(* Gathering goes on over a generation, and its count with it. *)
LEMMA GatherFacts ==
  ASSUME rejection_sample = TRUE, NEW past, NEW partial, Gathering(batch, past, partial),
         NEW episodes, NEW new, Grown(new, past, episodes),
         NEW rows, Fresh(rows, new, Len(past))
  PROVE  Gathering(Gather(rows), new, partial + Cardinality(Partial(rows)))
<1> DEFINE P   == Partial(rows)
           S   == {r \in DOMAIN rows : IsPartial(rows, rows[r].task)}
           sel == At(rows, S)
           out == Gather(rows)
           g   == Len(past)
<1>0. /\ past \in History /\ batch \in Seq(FineRows(past)) /\ Spread(batch)
      /\ Unpadded(batch) /\ AllPartial(batch) /\ Covers(batch, past)
      /\ partial = Cardinality(TasksOf(batch)) /\ g \in Nat
  BY DEF Gathering, History
<1>1. Chosen(sel, rows, new, P)
  <2>1. S = {r \in DOMAIN rows : rows[r].task \in P}
    BY DEF Partial, TasksOf
  <2>2. P \in SUBSET TasksOf(rows) /\ rows \in Seq(FineRows(new))
    BY DEF Partial, Fresh
  <2> HIDE DEF P, S
  <2>. QED BY <2>1, <2>2, ChooseFacts
<1>2. out = batch \o sel
  BY DEF Gather
<1> HIDE DEF S, sel, out, P
<1>3. /\ rows \in Seq(FineRows(new)) /\ Unpadded(rows) /\ Spread(rows)
      /\ \A i \in Slots : \A k \in 0 .. new[g + 1][i].steps - 1 :
           HasStep(rows, <<g, i>>, new[g + 1][i], k)
  BY DEF Fresh
<1>4. /\ sel \in Seq(FineRows(new)) /\ TasksOf(sel) = P /\ Spread(sel) /\ Unpadded(sel)
      /\ \A t \in P : IsPartial(sel, t) <=> IsPartial(rows, t)
  BY <1>1, <1>3 DEF Chosen
<1>5. batch \in Seq(FineRows(new)) /\ \A r \in DOMAIN batch : batch[r] \in FineRows(past)
  <2> DEFINE X == FineRows(past)
             Y == FineRows(new)
  <2>1. \A x \in X : x \in Y
    BY DEF Grown
  <2>2. batch \in Seq(X)
    BY <1>0
  <2> HIDE DEF X, Y
  <2>3. batch \in Seq(Y)
    BY <2>1, <2>2
  <2>. QED BY <2>2, <2>3 DEF X, Y
<1>6. \A r \in DOMAIN batch : batch[r].episode[1] \in 0 .. g - 1 /\ batch[r].task[1] \in 0 .. g - 1
  BY <1>5, RowTask
<1>7. \A t \in TasksOf(batch) : t[1] \in 0 .. g - 1
  BY <1>6 DEF TasksOf
<1>8. \A t \in P : t \in TasksOf(rows) /\ t[1] = g /\ IsPartial(rows, t)
  BY TasksOfGeneration DEF P, Partial
<1>9. Joined(out, batch, sel, FineRows(new))
  BY <1>2, <1>4, <1>5, JoinFacts
<1>10. /\ out \in Seq(FineRows(new))
       /\ \A r \in DOMAIN batch : r \in DOMAIN out /\ out[r] = batch[r]
       /\ \A r \in DOMAIN sel : Len(batch) + r \in DOMAIN out /\ out[Len(batch) + r] = sel[r]
       /\ \A n \in DOMAIN out : \/ \E r \in DOMAIN batch : out[n] = batch[r]
                                \/ \E r \in DOMAIN sel : out[n] = sel[r]
  <2>1. DOMAIN batch = 1 .. Len(batch) /\ DOMAIN sel = 1 .. Len(sel)
    BY <1>4, <1>5
  <2>2. \A n \in DOMAIN out : \/ n \in DOMAIN batch /\ out[n] = batch[n]
                              \/ n - Len(batch) \in DOMAIN sel /\ out[n] = sel[n - Len(batch)]
    BY <1>9, <2>1 DEF Joined
  <2>. QED BY <1>9, <2>1, <2>2 DEF Joined
<1>11. \A r \in DOMAIN sel : sel[r].task \in P /\ sel[r].episode[1] = g
  <2>1. \A r \in DOMAIN sel : sel[r] \in FineRows(new) /\ sel[r].task \in P
    BY <1>4 DEF TasksOf
  <2>. QED BY <2>1, <1>8, RowTask
<1>12. Spread(out)
  <2>1. \A r \in DOMAIN batch : \A s \in DOMAIN sel : Apart(batch[r], sel[s])
    BY <1>0, <1>6, <1>11 DEF Apart
  <2>. QED BY <1>0, <1>2, <1>4, <1>5, <2>1, SpreadJoins
<1>13. Unpadded(out)
  BY <1>0, <1>4, <1>10 DEF Unpadded
<1>14. TasksOf(out) = TasksOf(batch) \cup P
  <2>1. \A n \in DOMAIN out : out[n].task \in TasksOf(batch) \cup TasksOf(sel)
    BY <1>10 DEF TasksOf
  <2>2. \A r \in DOMAIN batch : batch[r].task \in TasksOf(out)
    BY <1>10 DEF TasksOf
  <2>3. \A r \in DOMAIN sel : sel[r].task \in TasksOf(out)
    BY <1>10 DEF TasksOf
  <2>4. /\ TasksOf(out) \subseteq TasksOf(batch) \cup TasksOf(sel)
        /\ TasksOf(batch) \subseteq TasksOf(out) /\ TasksOf(sel) \subseteq TasksOf(out)
    BY <2>1, <2>2, <2>3 DEF TasksOf
  <2>. QED BY <1>4, <2>4
<1>15. partial + Cardinality(P) = Cardinality(TasksOf(out))
  <2>1. IsFiniteSet(TasksOf(batch)) /\ Cardinality(TasksOf(batch)) \in Nat
    BY <1>0, TasksAreFinite
  <2>2. IsFiniteSet(P) /\ Cardinality(P) \in Nat
    BY <1>8, TasksOfGeneration
  <2>3. TasksOf(batch) \cap P = {}
    BY <1>0, <1>7, <1>8
  <2>4. Cardinality(TasksOf(batch) \cap P) = 0
    BY <2>3, FS_EmptySet
  <2> DEFINE A == TasksOf(batch)
  <2>5. Cardinality(A \cup P) = Cardinality(A) + Cardinality(P) - Cardinality(A \cap P)
    <3> HIDE DEF A
    <3>. QED BY <2>1, <2>2, FS_Union DEF A
  <2>. QED BY <1>0, <1>14, <2>1, <2>2, <2>4, <2>5
<1>16. AllPartial(out)
  <2>1. ASSUME NEW t \in TasksOf(batch) PROVE IsPartial(out, t)
    <3>1. t[1] # g
      BY <1>0, <1>7, <2>1
    <3>2. \A r \in DOMAIN sel : sel[r].task # t
      BY <1>8, <1>11, <3>1
    <3>3. \A n \in DOMAIN out : out[n].task = t =>
            \E r \in DOMAIN batch : batch[r].task = t /\ batch[r].is_correct = out[n].is_correct
      BY <1>10, <3>2
    <3>4. \A r \in DOMAIN batch : batch[r].task = t =>
            \E n \in DOMAIN out : out[n].task = t /\ batch[r].is_correct = out[n].is_correct
      BY <1>10
    <3>5. IsPartial(batch, t)
      BY <1>0 DEF AllPartial
    <3>. QED BY <3>3, <3>4, <3>5, SameOutcomes
  <2>2. ASSUME NEW t \in P PROVE IsPartial(out, t)
    <3>1. \A r \in DOMAIN batch : batch[r].task # t
      BY <1>0, <1>6, <1>8
    <3>2. \A n \in DOMAIN out : out[n].task = t =>
            \E r \in DOMAIN sel : sel[r].task = t /\ sel[r].is_correct = out[n].is_correct
      BY <1>10, <3>1
    <3>3. \A r \in DOMAIN sel : sel[r].task = t =>
            \E n \in DOMAIN out : out[n].task = t /\ sel[r].is_correct = out[n].is_correct
      BY <1>10
    <3>4. IsPartial(sel, t)
      BY <1>4, <1>8
    <3>. QED BY <3>2, <3>3, <3>4, SameOutcomes
  <2>. QED BY <1>14, <2>1, <2>2 DEF AllPartial
<1>17. Covers(out, new)
  <2>. SUFFICES ASSUME NEW h \in 0 .. Len(new) - 1, NEW i \in Slots,
                       TaskIds(h)[i] \in TasksOf(out),
                       NEW k \in 0 .. new[h + 1][i].steps - 1
                PROVE  HasStep(out, <<h, i>>, new[h + 1][i], k)
    BY DEF Covers
  <2>0. h \in Nat /\ (h = g \/ h \in 0 .. g - 1)
    BY <1>0 DEF Grown
  <2>1. TaskIds(h)[i][1] = h
    BY <2>0, TaskIdFacts
  <2>2. CASE h = g
    <3>1. TaskIds(g)[i] \in P
      BY <1>0, <1>7, <1>14, <2>1, <2>2
    <3>2. HasStep(rows, <<g, i>>, new[g + 1][i], k)
      BY <1>3, <2>2
    <3>3. HasStep(sel, <<g, i>>, new[g + 1][i], k)
      BY <1>1, <1>3, <3>1, <3>2, ChosenKeepSteps
    <3>. QED BY <1>10, <2>2, <3>3 DEF HasStep
  <2>3. CASE h \in 0 .. g - 1
    <3>1. TaskIds(h)[i] \in TasksOf(batch) /\ new[h + 1] = past[h + 1]
      BY <1>0, <1>8, <1>14, <2>1, <2>3 DEF Grown
    <3>2. HasStep(batch, <<h, i>>, past[h + 1][i], k)
      BY <1>0, <2>3, <3>1 DEF Covers
    <3>. QED BY <1>10, <3>1, <3>2 DEF HasStep
  <2>. QED BY <2>0, <2>2, <2>3
<1>18. new \in History
  BY DEF Grown
<1>19. Gathering(out, new, partial + Cardinality(P))
  BY <1>10, <1>12, <1>13, <1>15, <1>16, <1>17, <1>18 DEF Gathering
<1>. QED BY <1>19 DEF out, P

(***************************************************************************)
(* Padding adds no task, no outcome and no step.                           *)
(***************************************************************************)
LEMMA PaddedKeepsTasks ==
  ASSUME NEW past, NEW rows, NEW out, Padded(out, rows, past), Unpadded(rows)
  PROVE  /\ TasksOf(out) = TasksOf(rows)
         /\ \A t : IsPartial(out, t) <=> IsPartial(rows, t)
         /\ \A id, e, k : HasStep(rows, id, e, k) => HasStep(out, id, e, k)
<1>1. /\ \A r \in DOMAIN rows : \E n \in DOMAIN out : out[n] = rows[r]
      /\ \A n \in DOMAIN out : \E r \in DOMAIN rows : Copies(out[n], rows[r])
  BY DEF Padded, Unpadded
<1>2. TasksOf(out) = TasksOf(rows)
  BY <1>1 DEF TasksOf, Copies
<1>3. ASSUME NEW t PROVE IsPartial(out, t) <=> IsPartial(rows, t)
  <2>1. \A n \in DOMAIN out : out[n].task = t =>
          \E r \in DOMAIN rows : rows[r].task = t /\ rows[r].is_correct = out[n].is_correct
    BY <1>1 DEF Copies
  <2>2. \A r \in DOMAIN rows : rows[r].task = t =>
          \E n \in DOMAIN out : out[n].task = t /\ rows[r].is_correct = out[n].is_correct
    BY <1>1
  <2>. QED BY <2>1, <2>2, SameOutcomes
<1>4. \A id, e, k : HasStep(rows, id, e, k) => HasStep(out, id, e, k)
  BY <1>1 DEF HasStep
<1>. QED BY <1>2, <1>3, <1>4

(***************************************************************************)
(* The batch handed to the workers is sound.                               *)
(***************************************************************************)
Ready(rows, past) ==
  /\ past \in History /\ rows \in Seq(FineRows(past)) /\ Spread(rows)
  /\ Unpadded(rows) /\ Covers(rows, past)
  /\ rejection_sample => Cardinality(TasksOf(rows)) = TrainBatchSize /\ AllPartial(rows)

(* Rows that are ready are sound once they are padded. *)
LEMMA WorkersGetSoundBatch ==
  ASSUME NEW rows, NEW past, NEW partial, Ready(rows, past)
  PROVE  Sound("log_prob", MakeWhole(rows), past, partial)
<1> DEFINE out == MakeWhole(rows)
<1>1. /\ past \in History /\ rows \in Seq(FineRows(past)) /\ Spread(rows)
      /\ Unpadded(rows) /\ Covers(rows, past)
      /\ rejection_sample => Cardinality(TasksOf(rows)) = TrainBatchSize /\ AllPartial(rows)
  BY DEF Ready
<1>2. MadeWhole(out, rows, past)
  BY <1>1, MakeWholeFacts
<1> HIDE DEF out
<1>3. /\ out \in Seq(FineRows(past)) /\ Len(out) % WorldSize = 0 /\ Spread(out)
      /\ mode # "broadcast" => Padded(out, rows, past)
  BY <1>1, <1>2 DEF MadeWhole
<1>4. ASSUME mode # "broadcast"
      PROVE  /\ Covers(out, past)
             /\ rejection_sample =>
                  Cardinality(TasksOf(out)) = TrainBatchSize /\ AllPartial(out)
  <2>1. /\ TasksOf(out) = TasksOf(rows)
        /\ \A t : IsPartial(out, t) <=> IsPartial(rows, t)
        /\ \A id, e, k : HasStep(rows, id, e, k) => HasStep(out, id, e, k)
    BY <1>1, <1>3, <1>4, PaddedKeepsTasks
  <2>2. Covers(out, past)
    BY <1>1, <2>1 DEF Covers
  <2>. QED BY <1>1, <2>1, <2>2 DEF AllPartial
<1>5. Sound("log_prob", out, past, partial)
  BY <1>1, <1>3, <1>4 DEF Sound
<1>. QED BY <1>5 DEF out

(***************************************************************************)
(* The first generation without sampling, and a choice of gathered tasks.  *)
(***************************************************************************)
LEMMA FreshIsReady ==
  ASSUME rejection_sample = FALSE, NEW new \in History, Len(new) = 1,
         NEW rows, Fresh(rows, new, 0)
  PROVE  Ready(rows, new)
<1>1. /\ rows \in Seq(FineRows(new)) /\ Unpadded(rows) /\ Spread(rows)
      /\ \A i \in Slots : \A k \in 0 .. new[0 + 1][i].steps - 1 :
           HasStep(rows, <<0, i>>, new[0 + 1][i], k)
  BY DEF Fresh
<1>2. \A g \in 0 .. Len(new) - 1 : g = 0
  OBVIOUS
<1>3. Covers(rows, new)
  BY <1>1, <1>2 DEF Covers
<1>. QED BY <1>1, <1>3 DEF Ready

(* The rows of the chosen tasks are ready. *)
LEMMA ChosenIsReady ==
  ASSUME NEW new, NEW partial, NEW rows, Gathering(rows, new, partial),
         NEW selected \in kSubset(TrainBatchSize, TasksOf(rows)), rejection_sample = TRUE
  PROVE  Ready(At(rows, {r \in DOMAIN rows : rows[r].task \in selected}), new)
<1> DEFINE out == At(rows, {r \in DOMAIN rows : rows[r].task \in selected})
<1>1. selected \in SUBSET TasksOf(rows) /\ Cardinality(selected) = TrainBatchSize
  BY DEF kSubset
<1>2. /\ new \in History /\ rows \in Seq(FineRows(new)) /\ Spread(rows)
      /\ Unpadded(rows) /\ AllPartial(rows) /\ Covers(rows, new)
  BY DEF Gathering
<1>3. Chosen(out, rows, new, selected)
  BY <1>1, <1>2, ChooseFacts
<1> HIDE DEF out
<1>4. /\ out \in Seq(FineRows(new)) /\ Spread(out) /\ Unpadded(out) /\ TasksOf(out) = selected
      /\ AllPartial(out)
  BY <1>1, <1>2, <1>3 DEF Chosen, AllPartial
<1>5. Covers(out, new)
  <2>. SUFFICES ASSUME NEW g \in 0 .. Len(new) - 1, NEW i \in Slots,
                       TaskIds(g)[i] \in selected,
                       NEW k \in 0 .. new[g + 1][i].steps - 1
                PROVE  HasStep(out, <<g, i>>, new[g + 1][i], k)
    BY <1>4 DEF Covers
  <2>1. HasStep(rows, <<g, i>>, new[g + 1][i], k)
    BY <1>1, <1>2 DEF Covers
  <2>. QED BY <1>2, <1>3, <2>1, ChosenKeepSteps
<1>6. Ready(out, new)
  BY <1>1, <1>2, <1>4, <1>5 DEF Ready
<1>. QED BY <1>6 DEF out

-----------------------------------------------------------------------------
(***************************************************************************)
(* The update                                                              *)
(***************************************************************************)

(***************************************************************************)
(* An episode with steps to keep is valid, and those are what is learnt.   *)
(***************************************************************************)
LEMMA KeptIsValid ==
  ASSUME NEW e, IsEpisode(e), NEW k \in Kept(e)
  PROVE  IsValid(e) /\ k \in LearnableSteps(e) /\ k \in 0 .. e.steps - 1
<1>1. /\ e.steps \in Nat /\ e.fatal \in {NoFatalStep} \cup 0 .. e.steps
      /\ e.termination_reason = "ERROR" => e.steps = 0
      /\ e.termination_reason = "UNKNOWN" => e.fatal # NoFatalStep
  BY DEF IsEpisode
<1>2. k \in 0 .. e.steps - 1 /\ (k < e.fatal \/ e.fatal = NoFatalStep)
  BY DEF Kept
<1>3. k \in LearnableSteps(e)
  BY <1>2 DEF LearnableSteps
<1>4. CASE e.fatal = NoFatalStep
  <2>1. e.steps # 0
    BY <1>1, <1>2
  <2>2. e.termination_reason # "ERROR" /\ e.termination_reason # "UNKNOWN"
    BY <1>1, <1>4, <2>1
  <2>3. IsValid(e)
    BY <2>2 DEF IsValid
  <2>. QED BY <1>2, <1>3, <2>3
<1>5. CASE e.fatal # NoFatalStep
  <2>1. e.fatal > 0
    BY <1>1, <1>2, <1>5 DEF NoFatalStep
  <2>. QED BY <1>2, <1>3, <2>1 DEF IsValid
<1>. QED BY <1>2, <1>3, <1>4, <1>5

(***************************************************************************)
(* The flags of a row against its episode.                                 *)
(***************************************************************************)
LEMMA FlagFacts ==
  ASSUME NEW past, NEW row \in FineRows(past), NEW e, e = EpisodeIn(past, row.episode)
  PROVE  /\ row.is_valid => ~ row.is_pad_step
         /\ ~ row.is_pad_step /\ e.fatal # NoFatalStep => row.is_fatal
         /\ ~ row.is_pad_step /\ row.is_fatal => e.fatal # NoFatalStep
         /\ ~ row.is_pad_step /\ IsValid(e) => row.is_valid
         /\ row.is_last_step => ~ row.is_pad_step
<1>1. Fine(row, past)
  BY DEF FineRows
<1>2. /\ row.is_pad_step => ~ row.is_valid /\ ~ row.is_last_step
      /\ ~ row.is_pad_step => /\ row.is_fatal <=> e.fatal # NoFatalStep
                              /\ row.is_valid <=> IsValid(e)
  BY <1>1 DEF Fine
<1>. QED BY <1>2

(***************************************************************************)
(* What compute_advantage leaves goes to the update when it is not empty.  *)
(***************************************************************************)
Weighed(rows, past) ==
  /\ past \in History /\ rows \in Seq(FineRows(past)) /\ Spread(rows)
  /\ \A r \in DOMAIN rows :
       ~ rows[r].is_pad_step /\ rows[r].is_fatal => rows[r].advantage # "negative"
  /\ mode # "broadcast" => Covers(rows, past)

(* Weighed rows are sound once they are filtered and padded. *)
LEMMA UpdateGetsSoundBatch ==
  ASSUME rejection_sample \in BOOLEAN, NEW rows, NEW past, NEW partial, Weighed(rows, past),
         FilterValid(rows) # <<>>
  PROVE  Sound("update", PadToWorldSize(FilterValid(rows)), past, partial)
<1> DEFINE S     == {r \in DOMAIN rows : rows[r].is_valid}
           valid == FilterValid(rows)
           out   == PadToWorldSize(valid)
<1>1. /\ past \in History /\ rows \in Seq(FineRows(past)) /\ Spread(rows)
      /\ \A r \in DOMAIN rows :
           ~ rows[r].is_pad_step /\ rows[r].is_fatal => rows[r].advantage # "negative"
      /\ mode # "broadcast" => Covers(rows, past)
  BY DEF Weighed
<1>2. Picked(valid, rows, S, past)
  <2>1. S \in SUBSET (DOMAIN rows) /\ valid = At(rows, S)
    BY DEF FilterValid
  <2> HIDE DEF S, valid
  <2>. QED BY <1>1, <2>1, SelectFacts
<1>3. valid # <<>>
  OBVIOUS
<1> HIDE DEF valid
<1>4. \A r \in DOMAIN rows : /\ rows[r] \in FineRows(past)
                             /\ rows[r].is_valid => ~ rows[r].is_pad_step
  <2>1. \A r \in DOMAIN rows : rows[r] \in FineRows(past)
    BY <1>1
  <2>. QED BY <2>1, FlagFacts
<1>5. /\ valid \in Seq(FineRows(past)) /\ Spread(valid)
      /\ \A n \in DOMAIN valid : \E r \in DOMAIN rows : rows[r].is_valid /\ valid[n] = rows[r]
      /\ \A r \in DOMAIN rows : rows[r].is_valid => \E n \in DOMAIN valid : valid[n] = rows[r]
  BY <1>1, <1>2 DEF Picked
<1>6. Unpadded(valid)
  <2>. SUFFICES ASSUME NEW n \in DOMAIN valid PROVE ~ valid[n].is_pad_step
    BY DEF Unpadded
  <2>1. PICK r \in DOMAIN rows : rows[r].is_valid /\ valid[n] = rows[r]
    BY <1>5
  <2>. QED BY <1>4, <2>1
<1>7. Padded(out, valid, past)
  BY <1>5, PadFacts
<1> HIDE DEF out
<1>8. /\ out \in Seq(FineRows(past)) /\ Len(out) % WorldSize = 0 /\ Spread(out)
      /\ \A r \in DOMAIN valid : \E n \in DOMAIN out : out[n] = valid[r]
      /\ \A n \in DOMAIN out : \E r \in DOMAIN valid : Copies(out[n], valid[r])
  BY <1>5, <1>6, <1>7 DEF Padded, Unpadded
<1>9. ~ (\A n \in DOMAIN out : out[n].is_pad_step)
  <2>1. 1 \in DOMAIN valid
    BY <1>3, <1>5
  <2>. QED BY <1>6, <1>8, <2>1 DEF Unpadded
<1>10. Gentle(out, past)
  <2>. SUFFICES ASSUME NEW n \in DOMAIN out,
                       EpisodeIn(past, out[n].episode).fatal # NoFatalStep
                PROVE  out[n].advantage # "negative"
    BY DEF Gentle
  <2>1. PICK m \in DOMAIN valid : Copies(out[n], valid[m])
    BY <1>8
  <2>2. PICK r \in DOMAIN rows : rows[r].is_valid /\ valid[m] = rows[r]
    BY <1>5
  <2>3. ~ rows[r].is_pad_step /\ rows[r] \in FineRows(past)
    BY <1>4, <2>2
  <2>4. rows[r].episode = out[n].episode /\ rows[r].advantage = out[n].advantage
    BY <2>1, <2>2 DEF Copies
  <2>5. rows[r].is_fatal
    BY <2>3, <2>4, FlagFacts
  <2>. QED BY <1>1, <2>3, <2>4, <2>5
<1>11. /\ TasksOf(out) = TasksOf(valid)
       /\ \A id, e, k : HasStep(valid, id, e, k) => HasStep(out, id, e, k)
  BY <1>6, <1>7, PaddedKeepsTasks
<1>12. ASSUME mode # "broadcast" PROVE CoversKept(out, past)
  <2>. SUFFICES ASSUME NEW g \in 0 .. Len(past) - 1, NEW i \in Slots,
                       rejection_sample => TaskIds(g)[i] \in TasksOf(out),
                       NEW k \in Kept(past[g + 1][i])
                PROVE  HasStep(out, <<g, i>>, past[g + 1][i], k)
    BY DEF CoversKept
  <2> DEFINE e == past[g + 1][i]
  <2>1. IsEpisode(e)
    BY <1>1, EpisodeOfKind, KindFacts
  <2>2. IsValid(e) /\ k \in 0 .. e.steps - 1
    BY <2>1, KeptIsValid
  <2>3. TasksOf(valid) \subseteq TasksOf(rows)
    BY <1>5 DEF TasksOf
  <2>4. HasStep(rows, <<g, i>>, e, k)
    BY <1>1, <1>11, <1>12, <2>2, <2>3 DEF Covers
  <2> HIDE DEF e
  <2>5. PICK r \in DOMAIN rows : /\ ~ rows[r].is_pad_step /\ rows[r].episode = <<g, i>>
                                 /\ k \in RowSteps(rows[r], e)
    BY <2>4 DEF HasStep
  <2>6. EpisodeIn(past, rows[r].episode) = e
    BY <2>5 DEF EpisodeIn, e
  <2>7. rows[r].is_valid
    BY <1>4, <2>2, <2>5, <2>6, FlagFacts
  <2>8. HasStep(valid, <<g, i>>, e, k)
    BY <1>5, <2>5, <2>7 DEF HasStep
  <2>. QED BY <1>11, <2>8 DEF e
<1>13. Sound("update", out, past, partial)
  BY <1>1, <1>8, <1>9, <1>10, <1>12 DEF Sound
<1>. QED BY <1>13 DEF out, valid

(***************************************************************************)
(* Without broadcasting every row that is not padding is scored.           *)
(***************************************************************************)
LEMMA ScoredIsWeighed ==
  ASSUME NEW past \in History, NEW rows \in Seq(FineRows(past)), Spread(rows),
         Covers(rows, past), mode # "broadcast"
  PROVE  Weighed(Clamp(WithAdvantages(RemovePadding(rows))), past)
<1> DEFINE S    == {r \in DOMAIN rows : ~ rows[r].is_pad_step}
           real == RemovePadding(rows)
           out  == Clamp(WithAdvantages(real))
<1>1. Picked(real, rows, S, past)
  <2>1. S \in SUBSET (DOMAIN rows) /\ real = At(rows, S)
    BY DEF RemovePadding
  <2> HIDE DEF S, real
  <2>. QED BY <2>1, SelectFacts
<1> HIDE DEF real
<1>2. /\ real \in Seq(FineRows(past)) /\ Spread(real)
      /\ \A n \in DOMAIN real : \E r \in DOMAIN rows : real[n] = rows[r]
      /\ \A r \in DOMAIN rows : ~ rows[r].is_pad_step => \E n \in DOMAIN real : real[n] = rows[r]
  BY <1>1 DEF Picked
<1>3. Scored(out, real, past)
  BY <1>2, ScoreFacts
<1> HIDE DEF out, S
<1>4. /\ out \in Seq(FineRows(past)) /\ DOMAIN out = DOMAIN real
      /\ \A n \in DOMAIN out :
           Same(out[n], real[n]) /\ (out[n].is_fatal => out[n].advantage # "negative")
  BY <1>3 DEF Scored
<1>5. Spread(out)
  <2>1. \A n \in DOMAIN out : Same(out[n], real[n]) /\ n \in DOMAIN real
    BY <1>4
  <2>2. Spread(real)
    BY <1>2
  <2>. QED BY <2>1, <2>2 DEF Spread, Same
<1>6. Covers(out, past)
  <2>1. TasksOf(out) \subseteq TasksOf(rows)
    BY <1>2, <1>4 DEF TasksOf, Same
  <2>2. ASSUME NEW id, NEW e, NEW k, HasStep(rows, id, e, k) PROVE HasStep(out, id, e, k)
    <3>1. PICK r \in DOMAIN rows : /\ ~ rows[r].is_pad_step /\ rows[r].episode = id
                                   /\ k \in RowSteps(rows[r], e)
      BY <2>2 DEF HasStep
    <3>2. PICK n \in DOMAIN real : real[n] = rows[r]
      BY <1>2, <3>1
    <3>3. n \in DOMAIN out /\ Same(out[n], rows[r])
      BY <1>4, <3>2
    <3>4. ~ out[n].is_pad_step /\ out[n].episode = id /\ k \in RowSteps(out[n], e)
      BY <3>1, <3>3 DEF Same, RowSteps
    <3>. QED BY <3>3, <3>4 DEF HasStep
  <2>. QED BY <2>1, <2>2 DEF Covers
<1>7. Weighed(out, past)
  BY <1>4, <1>5, <1>6 DEF Weighed
<1>. QED BY <1>7 DEF out, real

(***************************************************************************)
(* Broadcasting gives the other steps of an episode the advantage of its   *)
(* last one: neither is negative when the episode is fatal.                *)
(***************************************************************************)
LEMMA BroadcastIsWeighed ==
  ASSUME NEW past \in History, NEW rows \in Seq(FineRows(past)), Spread(rows),
         mode = "broadcast", NEW last, last = Clamp(WithAdvantages(LastSteps(rows))),
         NEW others, others = OtherSteps(rows),
         \A o \in DOMAIN others : HasLastStep(last, others[o])
  PROVE  Weighed(last \o Broadcast(last, others), past)
<1> DEFINE L     == {r \in DOMAIN rows : rows[r].is_last_step}
           O     == {r \in DOMAIN rows : ~ rows[r].is_last_step}
           steps == LastSteps(rows)
           cast  == Broadcast(last, others)
<1>1. Picked(steps, rows, L, past) /\ Picked(others, rows, O, past)
  <2>1. /\ L \in SUBSET (DOMAIN rows) /\ steps = At(rows, L)
        /\ O \in SUBSET (DOMAIN rows) /\ others = At(rows, O)
    BY DEF LastSteps, OtherSteps
  <2> HIDE DEF L, O, steps
  <2>2. Picked(At(rows, L), rows, L, past) /\ Picked(At(rows, O), rows, O, past)
    BY <2>1, SelectFacts
  <2>. QED BY <2>1, <2>2
<1> HIDE DEF steps
<1>2. /\ steps \in Seq(FineRows(past)) /\ Spread(steps)
      /\ \A n \in DOMAIN steps : \E r \in DOMAIN rows : rows[r].is_last_step /\ steps[n] = rows[r]
  BY <1>1 DEF Picked
<1>3. /\ others \in Seq(FineRows(past)) /\ Spread(others)
      /\ \A n \in DOMAIN others :
           \E r \in DOMAIN rows : ~ rows[r].is_last_step /\ others[n] = rows[r]
  BY <1>1 DEF Picked
<1> HIDE DEF L, O
<1>4. Scored(last, steps, past)
  BY <1>2, ScoreFacts DEF steps
<1>5. /\ last \in Seq(FineRows(past)) /\ DOMAIN last = DOMAIN steps
      /\ \A n \in DOMAIN last :
           Same(last[n], steps[n]) /\ (last[n].is_fatal => last[n].advantage # "negative")
  BY <1>4 DEF Scored
<1>6. Spread(last)
  BY <1>2, <1>5 DEF Spread, Same
<1>7. ASSUME NEW n \in DOMAIN last
      PROVE  /\ last[n] \in FineRows(past) /\ last[n].is_last_step /\ ~ last[n].is_pad_step
             /\ last[n].advantage \in Advantages
  <2>1. last[n] \in FineRows(past) /\ Same(last[n], steps[n])
    BY <1>5
  <2>2. PICK r \in DOMAIN rows : rows[r].is_last_step /\ steps[n] = rows[r]
    BY <1>2, <1>5
  <2>3. last[n].is_last_step
    BY <2>1, <2>2 DEF Same
  <2>4. last[n] \in RowRecords
    BY <2>1 DEF FineRows
  <2>. QED BY <2>1, <2>3, <2>4, FlagFacts DEF RowRecords
<1>8. DOMAIN cast = DOMAIN others
  BY DEF Broadcast
<1>9. ASSUME NEW o \in DOMAIN others
      PROVE  /\ cast[o] \in FineRows(past) /\ Same(cast[o], others[o])
             /\ ~ cast[o].is_pad_step /\ cast[o].is_fatal => cast[o].advantage # "negative"
  <2> DEFINE c      == CHOOSE r \in DOMAIN last : last[r].episode = others[o].episode
             source == last[c]
             adv    == IF source.tokens = {} THEN "nan"
                       ELSE IF others[o].tokens = {} THEN "zero" ELSE source.advantage
  <2>1. \E r \in DOMAIN last : last[r].episode = others[o].episode
    BY DEF HasLastStep
  <2>2. c \in DOMAIN last /\ last[c].episode = others[o].episode
    BY <2>1
  <2>3. cast[o] = [others[o] EXCEPT !.advantage = adv]
    BY DEF Broadcast
  <2> HIDE DEF c, cast
  <2>4. adv \in Advantages
    BY <1>7, <2>2 DEF Advantages
  <2>5. others[o] \in FineRows(past)
    BY <1>3
  <2> HIDE DEF adv
  <2>6. /\ cast[o] \in FineRows(past) /\ Same(cast[o], others[o]) /\ cast[o].advantage = adv
    BY <2>3, <2>4, <2>5, AdvantageKeepsRow
  <2>7. ASSUME ~ cast[o].is_pad_step, cast[o].is_fatal PROVE adv # "negative"
    <3> DEFINE e == EpisodeIn(past, last[c].episode)
    <3>1. e = EpisodeIn(past, cast[o].episode)
      BY <2>2, <2>6 DEF Same
    <3>2. e.fatal # NoFatalStep
      BY <2>6, <2>7, <3>1, FlagFacts
    <3>3. last[c].is_fatal
      BY <1>7, <2>2, <3>2, FlagFacts
    <3>4. last[c].advantage # "negative"
      BY <1>5, <2>2, <3>3
    <3>. QED BY <3>4 DEF adv
  <2>. QED BY <2>6, <2>7
<1>10. cast \in Seq(FineRows(past))
  <2>1. DOMAIN others = 1 .. Len(others) /\ Len(others) \in Nat
    BY <1>3
  <2>2. cast = [o \in 1 .. Len(others) |-> cast[o]]
    BY <2>1 DEF Broadcast
  <2> HIDE DEF cast
  <2>3. cast \in [1 .. Len(others) -> FineRows(past)]
    BY <1>9, <2>1, <2>2
  <2>. QED BY <2>1, <2>3
<1> HIDE DEF cast
<1>11. Spread(cast)
  BY <1>3, <1>8, <1>9 DEF Spread, Same
<1>12. ASSUME NEW n \in DOMAIN last, NEW o \in DOMAIN cast PROVE Apart(last[n], cast[o])
  <2>1. PICK r \in DOMAIN rows : rows[r].is_last_step /\ steps[n] = rows[r]
    BY <1>2, <1>5
  <2>2. PICK s \in DOMAIN rows : ~ rows[s].is_last_step /\ others[o] = rows[s]
    BY <1>3, <1>8
  <2>3. r # s
    BY <2>1, <2>2
  <2>4. Apart(rows[r], rows[s])
    BY <2>3 DEF Spread, Apart
  <2>5. Same(last[n], rows[r]) /\ Same(cast[o], rows[s])
    BY <1>5, <1>8, <1>9, <2>1, <2>2
  <2>. QED BY <2>4, <2>5 DEF Apart, Same
<1>13. Spread(last \o cast)
  BY <1>5, <1>6, <1>10, <1>11, <1>12, SpreadJoins
<1> DEFINE out == last \o cast
<1>14. Joined(out, last, cast, FineRows(past))
  BY <1>5, <1>10, JoinFacts
<1> HIDE DEF out
<1>15. ASSUME NEW n \in DOMAIN out, ~ out[n].is_pad_step, out[n].is_fatal
       PROVE  out[n].advantage # "negative"
  <2>1. DOMAIN last = 1 .. Len(last) /\ DOMAIN cast = 1 .. Len(cast)
    BY <1>5, <1>10
  <2>2. \/ n \in DOMAIN last /\ out[n] = last[n]
        \/ n - Len(last) \in DOMAIN cast /\ out[n] = cast[n - Len(last)]
    BY <1>14, <2>1 DEF Joined
  <2>3. CASE n \in DOMAIN last /\ out[n] = last[n]
    BY <1>5, <1>15, <2>3
  <2>4. CASE n - Len(last) \in DOMAIN cast /\ out[n] = cast[n - Len(last)]
    BY <1>8, <1>9, <1>15, <2>4
  <2>. QED BY <2>2, <2>3, <2>4
<1>16. Weighed(out, past)
  BY <1>13, <1>14, <1>15 DEF Weighed, Joined, out
<1>. QED BY <1>16 DEF out, cast

-----------------------------------------------------------------------------
(***************************************************************************)
(* The steps                                                               *)
(***************************************************************************)

LEMMA SoundAfterStep ==
  ASSUME mode' = mode, rejection_sample' = rejection_sample,
         Sound(phase', batch', generated', solve_partial')
  PROVE  Sound(phase, batch, generated, solve_partial)'
BY SoundBeforeAndAfter

(* What the assumption on the options gives. *)
LEMMA OptionFacts ==
  ASSUME [mode |-> mode, rejection_sample |-> rejection_sample] \in Options
  PROVE  mode \in {"none", "per_step", "broadcast"} /\ rejection_sample \in BOOLEAN
BY OptionsAssumption

(***************************************************************************)
(* Nothing gathered yet is sound.                                          *)
(***************************************************************************)
LEMMA NothingIsSound ==
  ASSUME NEW p \in {"generate", "done"}
  PROVE  Sound(p, <<>>, <<>>, 0)
<1>1. <<>> \in History /\ <<>> \in Seq(FineRows(<<>>)) /\ DOMAIN <<>> = {} /\ Len(<<>>) = 0
  BY DEF History
<1>2. TasksOf(<<>>) = {}
  BY <1>1 DEF TasksOf
<1>3. Cardinality(TasksOf(<<>>)) = 0
  BY <1>2, FS_EmptySet
<1>4. Spread(<<>>) /\ Unpadded(<<>>) /\ AllPartial(<<>>)
  BY <1>1, <1>2 DEF Spread, Unpadded, AllPartial
<1>5. Covers(<<>>, <<>>)
  <2>1. 0 .. Len(<<>>) - 1 = {}
    BY <1>1
  <2>. QED BY <2>1 DEF Covers
<1>6. 0 < TrainBatchSize
  BY SizeFacts
<1>. QED BY <1>1, <1>3, <1>4, <1>5, <1>6 DEF Sound

(* The invariant holds at the start. *)
LEMMA InitIInv ==
  ASSUME Init
  PROVE  IInv
<1>1. PICK o \in Options : mode = o.mode /\ rejection_sample = o.rejection_sample
  BY DEF Init
<1>2. o \in [mode : {"none", "per_step", "broadcast"}, rejection_sample : BOOLEAN]
  BY OptionsAssumption
<1>3. o = [mode |-> mode, rejection_sample |-> rejection_sample]
  BY <1>1, <1>2
<1>4. [mode |-> mode, rejection_sample |-> rejection_sample] \in Options
  BY <1>3
<1>5. /\ phase = "generate" /\ global_steps = 1 /\ generation = 0 /\ batch = <<>>
      /\ solve_partial = 0 /\ cause = "none" /\ generated = <<>>
  BY DEF Init
<1>6. Sound(phase, batch, generated, solve_partial)
  BY <1>5, NothingIsSound
<1>7. Len(generated) = generation /\ 0 \in 0 .. 0 * Tasks
  BY <1>5, SizeFacts
<1>8. global_steps \in 1 .. TotalTrainingSteps + 1 /\ generation \in 0 .. GenerationLimit
  BY <1>5, SizeFacts
<1>9. solve_partial \in 0 .. generation * Tasks
  BY <1>5, <1>7
<1>. QED BY <1>4, <1>5, <1>6, <1>7, <1>8, <1>9 DEF IInv

(***************************************************************************)
(* The counters of the step are reset after an update.                     *)
(***************************************************************************)
LEMMA NextStepIInv ==
  ASSUME IInv, NextStep, UNCHANGED <<options, cause>>, phase \in {"log_prob", "update"}
  PROVE  IInv'
<1>1. /\ [mode |-> mode, rejection_sample |-> rejection_sample] \in Options
      /\ global_steps \in 1 .. TotalTrainingSteps + 1
      /\ global_steps < TotalTrainingSteps \/ global_steps = 1
      /\ cause \in {"none", "no_rows", "empty_stack", "no_last_step"}
  BY DEF IInv
<1>2. /\ mode' = mode /\ rejection_sample' = rejection_sample /\ cause' = cause
      /\ global_steps' = global_steps + 1
      /\ phase' = IF global_steps + 1 >= TotalTrainingSteps THEN "done" ELSE "generate"
      /\ batch' = <<>> /\ solve_partial' = 0 /\ generation' = 0 /\ generated' = <<>>
  BY DEF NextStep, options
<1>3. phase' \in {"generate", "done"}
  BY <1>2
<1>4. Sound(phase', batch', generated', solve_partial')
  BY <1>2, <1>3, NothingIsSound
<1>5. Sound(phase, batch, generated, solve_partial)'
  BY <1>2, <1>4, SoundAfterStep
<1>6. /\ global_steps' \in 1 .. TotalTrainingSteps + 1
      /\ phase' = "generate" => global_steps' < TotalTrainingSteps
  BY <1>1, <1>2, SizeFacts
<1>7. /\ generation' \in 0 .. GenerationLimit /\ Len(generated') = generation'
      /\ solve_partial' \in 0 .. generation' * Tasks
  BY <1>2, SizeFacts
<1>8. [mode |-> mode, rejection_sample |-> rejection_sample]' \in Options
  BY <1>1, <1>2
<1>. QED BY <1>1, <1>2, <1>3, <1>5, <1>6, <1>7, <1>8 DEF IInv

(***************************************************************************)
(* A generation: its rows are fresh, and its tasks are counted.            *)
(***************************************************************************)
LEMMA GenerateIInv ==
  ASSUME IInv, Generate
  PROVE  IInv'
<1>1. /\ [mode |-> mode, rejection_sample |-> rejection_sample] \in Options
      /\ global_steps \in 1 .. TotalTrainingSteps + 1
      /\ phase \in {"generate", "log_prob", "update"} =>
           global_steps < TotalTrainingSteps \/ global_steps = 1
      /\ generation \in 0 .. GenerationLimit /\ Len(generated) = generation
      /\ solve_partial \in 0 .. generation * Tasks
      /\ cause \in {"none", "no_rows", "empty_stack", "no_last_step"}
      /\ Sound(phase, batch, generated, solve_partial)
  BY DEF IInv
<1>2. /\ phase = "generate" /\ generation < GenerationLimit /\ generation' = generation + 1
      /\ mode' = mode /\ rejection_sample' = rejection_sample /\ global_steps' = global_steps
  BY DEF Generate, options
<1>3. PICK episodes \in [1 .. Tasks * RolloutN -> EpisodeKinds[rejection_sample]] :
       LET task_ids == TaskIds(generation)
           rows == JoinBatch([i \in DOMAIN episodes |->
                                EpisodeRows(episodes[i], <<generation, i>>, task_ids[i],
                                            mode # "none")],
                             task_ids)
       IN  /\ generated' = Append(generated, episodes)
           /\ solve_partial' = solve_partial
                + Cardinality({t \in TasksOf(rows) : IsPartial(rows, t)})
           /\ \/ rows = <<>> /\ Crash("no_rows")
              \/ rows # <<>> /\ ~rejection_sample /\ ToWorkers(rows)
              \/ /\ rows # <<>> /\ rejection_sample
                 /\ SampleTasks(Gather(rows), solve_partial')
  BY DEF Generate
<1> DEFINE rows == JoinBatch([i \in DOMAIN episodes |->
                                EpisodeRows(episodes[i], <<generation, i>>,
                                            TaskIds(generation)[i], mode # "none")],
                             TaskIds(generation))
           new == Append(generated, episodes)
           sum == solve_partial + Cardinality(Partial(rows))
<1>4. /\ generated' = new /\ solve_partial' = sum
      /\ \/ Crash("no_rows")
         \/ ~rejection_sample /\ ToWorkers(rows)
         \/ rejection_sample /\ SampleTasks(Gather(rows), solve_partial')
  BY <1>3 DEF Partial
<1>5. rejection_sample \in BOOLEAN
  BY <1>1, OptionFacts
<1>6. /\ generated \in History /\ batch \in Seq(FineRows(generated)) /\ Spread(batch)
      /\ ~ rejection_sample => batch = <<>> /\ generated = <<>>
      /\ rejection_sample => Gathering(batch, generated, solve_partial)
  BY <1>1, <1>2 DEF Sound, Gathering
<1>7. Grown(new, generated, episodes)
  BY <1>6, HistoryGrows DEF Slots
<1>8. new \in History /\ Len(new) = generation + 1 /\ new[generation + 1] = episodes
  BY <1>1, <1>7 DEF Grown
<1> HIDE DEF new
<1>9. Fresh(rows, new, generation)
  <2>1. generation \in 0 .. Len(new) - 1
    BY <1>1, <1>8
  <2>2. rows = JoinBatch(Parts(new, generation), TaskIds(generation))
    BY <1>8 DEF Parts
  <2> HIDE DEF rows
  <2>. QED BY <1>5, <1>8, <2>1, <2>2, JoinBatchFacts
<1> HIDE DEF rows
<1>10. sum \in 0 .. generation' * Tasks
  <2>1. Partial(rows) \in SUBSET TasksOf(rows)
    BY DEF Partial
  <2>2. Cardinality(Partial(rows)) \in Nat /\ Cardinality(Partial(rows)) <= Tasks
    BY <1>9, <2>1, TasksOfGeneration
  <2> DEFINE c == Cardinality(Partial(rows))
  <2>3. generation \in Nat /\ Tasks \in Nat
    BY <1>1, SizeFacts
  <2>4. (generation + 1) * Tasks = (generation * Tasks) + Tasks /\ generation * Tasks \in Nat
    BY <2>3
  <2> HIDE DEF c
  <2>5. solve_partial + c \in 0 .. (generation + 1) * Tasks
    <3> DEFINE p == generation * Tasks
               q == (generation + 1) * Tasks
    <3>1. p \in Nat /\ q = p + Tasks /\ solve_partial \in 0 .. p
      BY <1>1, <2>4
    <3> HIDE DEF p, q
    <3>2. solve_partial + c \in 0 .. q
      BY <2>2, <2>3, <3>1 DEF c
    <3>. QED BY <3>2 DEF q
  <2>. QED BY <1>2, <2>5 DEF c
<1> HIDE DEF sum
<1>11. ASSUME Crash("no_rows")
       PROVE  /\ phase' = "crashed" /\ cause' = "no_rows"
              /\ Sound(phase', batch', new, sum)
  <2>1. phase' = "crashed" /\ cause' = "no_rows" /\ batch' = batch
    BY <1>11 DEF Crash
  <2>2. batch \in Seq(FineRows(new))
    <3> DEFINE X == FineRows(generated)
               Y == FineRows(new)
    <3>1. \A x \in X : x \in Y
      BY <1>7 DEF Grown
    <3>2. batch \in Seq(X)
      BY <1>6
    <3> HIDE DEF X, Y
    <3>3. batch \in Seq(Y)
      BY <3>1, <3>2
    <3>. QED BY <3>3 DEF Y
  <2>3. Sound("crashed", batch, new, sum)
    BY <1>6, <1>8, <2>2 DEF Sound
  <2>. QED BY <2>1, <2>3
<1>12. ASSUME ~ rejection_sample, ToWorkers(rows)
       PROVE  /\ phase' = "log_prob" /\ cause' = cause
              /\ Sound(phase', batch', new, sum)
  <2>1. phase' = "log_prob" /\ batch' = MakeWhole(rows) /\ cause' = cause
    BY <1>12 DEF ToWorkers
  <2>2. generation = 0
    BY <1>1, <1>6, <1>12
  <2>3. Ready(rows, new)
    <3>1. rejection_sample = FALSE
      BY <1>5, <1>12
    <3>2. Len(new) = 1 /\ Fresh(rows, new, 0)
      BY <1>8, <1>9, <2>2
    <3>. QED BY <1>8, <3>1, <3>2, FreshIsReady
  <2>4. Sound("log_prob", MakeWhole(rows), new, sum)
    BY <2>3, WorkersGetSoundBatch
  <2>. QED BY <2>1, <2>4
<1>13. ASSUME rejection_sample, SampleTasks(Gather(rows), solve_partial')
       PROVE  /\ phase' \in {"generate", "log_prob"} /\ cause' = cause
              /\ Sound(phase', batch', new, sum)
  <2> DEFINE gathered == Gather(rows)
  <2>1. Gathering(gathered, new, sum)
    <3>1. rejection_sample = TRUE /\ generation = Len(generated)
      BY <1>1, <1>5, <1>13
    <3>. QED BY <1>6, <1>7, <1>9, <1>13, <3>1, GatherFacts DEF sum
  <2>2. \/ sum < TrainBatchSize /\ phase' = "generate" /\ batch' = gathered /\ cause' = cause
        \/ \E selected \in kSubset(TrainBatchSize, TasksOf(gathered)) :
             ToWorkers(At(gathered, {r \in DOMAIN gathered : gathered[r].task \in selected}))
    BY <1>4, <1>13 DEF SampleTasks
  <2> HIDE DEF gathered
  <2>3. CASE sum < TrainBatchSize /\ phase' = "generate" /\ batch' = gathered /\ cause' = cause
    <3>1. Sound("generate", gathered, new, sum)
      BY <1>13, <2>1, <2>3 DEF Gathering, Sound
    <3>. QED BY <2>3, <3>1
  <2>4. ASSUME NEW selected \in kSubset(TrainBatchSize, TasksOf(gathered)),
               ToWorkers(At(gathered, {r \in DOMAIN gathered : gathered[r].task \in selected}))
        PROVE  /\ phase' = "log_prob" /\ cause' = cause
               /\ Sound(phase', batch', new, sum)
    <3> DEFINE out == At(gathered, {r \in DOMAIN gathered : gathered[r].task \in selected})
    <3>1. rejection_sample = TRUE
      BY <1>5, <1>13
    <3>2. Ready(out, new)
      BY <2>1, <3>1, ChosenIsReady
    <3> HIDE DEF out
    <3>3. phase' = "log_prob" /\ batch' = MakeWhole(out) /\ cause' = cause
      BY <2>4 DEF ToWorkers, out
    <3>4. Sound("log_prob", MakeWhole(out), new, sum)
      BY <3>2, WorkersGetSoundBatch
    <3>. QED BY <3>3, <3>4
  <2>. QED BY <2>2, <2>3, <2>4
<1>14. /\ phase' \in {"generate", "log_prob", "crashed"} /\ cause' \in {cause, "no_rows"}
       /\ Sound(phase', batch', generated', solve_partial')
  BY <1>4, <1>11, <1>12, <1>13
<1>15. Sound(phase, batch, generated, solve_partial)'
  BY <1>2, <1>14, SoundAfterStep
<1>16. generation' \in 0 .. GenerationLimit /\ Len(generated') = generation'
  BY <1>1, <1>2, <1>4, <1>8, SizeFacts
<1>17. solve_partial' \in 0 .. generation' * Tasks
  BY <1>4, <1>10
<1>18. [mode |-> mode, rejection_sample |-> rejection_sample]' \in Options
  BY <1>1, <1>2
<1>19. /\ phase' \in {"generate", "log_prob", "update", "done", "crashed"}
       /\ cause' \in {"none", "no_rows", "empty_stack", "no_last_step"}
       /\ global_steps' \in 1 .. TotalTrainingSteps + 1
       /\ global_steps' < TotalTrainingSteps \/ global_steps' = 1
  BY <1>1, <1>2, <1>14
<1>. QED BY <1>15, <1>16, <1>17, <1>18, <1>19 DEF IInv

(***************************************************************************)
(* What the workers' probabilities are followed by: the update, or the     *)
(* next step when nothing is left to learn.                                *)
(***************************************************************************)
LEMMA ToUpdateIInv ==
  ASSUME IInv, phase = "log_prob", UNCHANGED options,
         NEW rows, Weighed(rows, generated), ToUpdate(rows)
  PROVE  IInv'
<1>1. CASE FilterValid(rows) = <<>>
  <2>1. NextStep /\ UNCHANGED cause
    BY <1>1 DEF ToUpdate
  <2>. QED BY <2>1, NextStepIInv
<1>2. CASE FilterValid(rows) # <<>>
  <2>1. /\ phase' = "update" /\ batch' = PadToWorldSize(FilterValid(rows))
        /\ UNCHANGED <<global_steps, generation, generated, solve_partial, cause>>
    BY <1>2 DEF ToUpdate
  <2>2. mode' = mode /\ rejection_sample' = rejection_sample
    BY DEF options
  <2>3. rejection_sample \in BOOLEAN
    BY OptionFacts DEF IInv
  <2>4. Sound("update", PadToWorldSize(FilterValid(rows)), generated, solve_partial)
    BY <1>2, <2>3, UpdateGetsSoundBatch
  <2>5. Sound(phase', batch', generated', solve_partial')
    BY <2>1, <2>4
  <2>6. Sound(phase, batch, generated, solve_partial)'
    BY <2>2, <2>5, SoundAfterStep
  <2>. QED BY <2>1, <2>2, <2>6 DEF IInv
<1>. QED BY <1>1, <1>2

(* Advantages are computed, or broadcasting crashes. *)
LEMMA ComputeAdvantagesIInv ==
  ASSUME IInv, ComputeAdvantages
  PROVE  IInv'
<1>1. phase = "log_prob" /\ UNCHANGED options
  BY DEF ComputeAdvantages
<1>2. /\ generated \in History /\ batch \in Seq(FineRows(generated)) /\ Spread(batch)
      /\ mode # "broadcast" => Covers(batch, generated)
  BY <1>1 DEF IInv, Sound
<1>3. CASE mode # "broadcast"
  <2>1. ToUpdate(Clamp(WithAdvantages(RemovePadding(batch))))
    BY <1>3 DEF ComputeAdvantages
  <2>2. Weighed(Clamp(WithAdvantages(RemovePadding(batch))), generated)
    BY <1>2, <1>3, ScoredIsWeighed
  <2>. QED BY <1>1, <2>1, <2>2, ToUpdateIInv
<1>4. CASE mode = "broadcast"
  <2> DEFINE last   == Clamp(WithAdvantages(LastSteps(batch)))
             others == OtherSteps(batch)
  <2>1. \/ \E why \in {"empty_stack", "no_last_step"} :
             Crash(why) /\ UNCHANGED <<global_steps, generation, generated, solve_partial>>
        \/ /\ \A o \in DOMAIN others : HasLastStep(last, others[o])
           /\ ToUpdate(last \o Broadcast(last, others))
    BY <1>4 DEF ComputeAdvantages
  <2> HIDE DEF last, others
  <2>2. ASSUME NEW why \in {"empty_stack", "no_last_step"}, Crash(why),
               UNCHANGED <<global_steps, generation, generated, solve_partial>>
        PROVE  IInv'
    <3>1. phase' = "crashed" /\ cause' = why /\ batch' = batch
      BY <2>2 DEF Crash
    <3>2. mode' = mode /\ rejection_sample' = rejection_sample
      BY <1>1 DEF options
    <3>3. Sound("crashed", batch, generated, solve_partial)
      BY <1>2 DEF Sound
    <3>4. Sound(phase', batch', generated', solve_partial')
      BY <2>2, <3>1, <3>3
    <3>5. Sound(phase, batch, generated, solve_partial)'
      BY <3>2, <3>4, SoundAfterStep
    <3>. QED BY <2>2, <3>1, <3>2, <3>5 DEF IInv
  <2>3. ASSUME \A o \in DOMAIN others : HasLastStep(last, others[o]),
               ToUpdate(last \o Broadcast(last, others))
        PROVE  IInv'
    <3>1. Weighed(last \o Broadcast(last, others), generated)
      BY <1>2, <1>4, <2>3, BroadcastIsWeighed DEF last, others
    <3>. QED BY <1>1, <2>3, <3>1, ToUpdateIInv
  <2>. QED BY <2>1, <2>2, <2>3
<1>. QED BY <1>3, <1>4

(* The update ends the step. *)
LEMMA UpdateActorIInv ==
  ASSUME IInv, UpdateActor
  PROVE  IInv'
<1>1. NextStep /\ UNCHANGED <<options, cause>> /\ phase \in {"log_prob", "update"}
  BY DEF UpdateActor
<1>. QED BY <1>1, NextStepIInv

(* A step that changes nothing keeps the invariant. *)
LEMMA StutterIInv ==
  ASSUME IInv, UNCHANGED vars
  PROVE  IInv'
<1>1. /\ mode' = mode /\ rejection_sample' = rejection_sample /\ phase' = phase
      /\ global_steps' = global_steps /\ generation' = generation /\ batch' = batch
      /\ solve_partial' = solve_partial /\ cause' = cause /\ generated' = generated
  BY DEF vars, options
<1>2. Sound(phase', batch', generated', solve_partial')
  BY <1>1 DEF IInv
<1>3. Sound(phase, batch, generated, solve_partial)'
  BY <1>1, <1>2, SoundAfterStep
<1>. QED BY <1>1, <1>3 DEF IInv

-----------------------------------------------------------------------------
(***************************************************************************)
(* What the invariant says                                                 *)
(***************************************************************************)

LEMMA BatchRows ==
  ASSUME IInv, NEW r \in DOMAIN batch
  PROVE  /\ batch[r] \in FineRows(generated) /\ batch[r] \in RowRecords /\ Fine(batch[r], generated)
         /\ EpisodeOf(batch[r].episode) = EpisodeIn(generated, batch[r].episode)
         /\ IsEpisode(EpisodeIn(generated, batch[r].episode))
<1>1. batch \in Seq(FineRows(generated)) /\ generated \in History
  BY DEF IInv, Sound
<1>2. batch[r] \in FineRows(generated)
  BY <1>1
<1>3. batch[r] \in RowRecords /\ Fine(batch[r], generated)
  BY <1>2 DEF FineRows
<1>4. EpisodeOf(batch[r].episode) = EpisodeIn(generated, batch[r].episode)
  BY DEF EpisodeOf, EpisodeIn
<1>5. rejection_sample \in BOOLEAN
  BY OptionFacts DEF IInv
<1>6. batch[r].episode[1] \in 0 .. Len(generated) - 1 /\ batch[r].episode[2] \in Slots
  BY <1>3 DEF Fine
<1>7. EpisodeIn(generated, batch[r].episode) \in EpisodeKinds[rejection_sample]
  BY <1>1, <1>6, EpisodeOfKind DEF EpisodeIn
<1>8. IsEpisode(EpisodeIn(generated, batch[r].episode))
  BY <1>5, <1>7, KindFacts
<1>. QED BY <1>2, <1>3, <1>4, <1>8

(* Types, from the invariant. *)
LEMMA IInvTypes ==
  ASSUME IInv
  PROVE  TypeOK
<1>1. ASSUME NEW r \in DOMAIN batch
      PROVE  /\ batch[r].advantage \in {"none", "positive", "negative", "zero", "nan"}
             /\ batch[r].tokens \subseteq {batch[r].episode} \X Nat
  <2> DEFINE e == EpisodeIn(generated, batch[r].episode)
  <2>1. batch[r] \in RowRecords /\ Fine(batch[r], generated) /\ IsEpisode(e)
    BY BatchRows
  <2>2. LearnableSteps(e) \subseteq Nat
    BY <2>1 DEF LearnableSteps, IsEpisode
  <2>3. batch[r].tokens =
          {<<batch[r].episode, k>> : k \in RowSteps(batch[r], e) \cap LearnableSteps(e)}
    BY <2>1 DEF Fine
  <2>4. batch[r].advantage \in Advantages
    BY <2>1 DEF RowRecords
  <2> HIDE DEF e
  <2>. QED BY <2>2, <2>3, <2>4 DEF Advantages
<1>2. solve_partial \in 0 .. GenerationLimit * Tasks
  <2>1. /\ generation \in 0 .. GenerationLimit /\ solve_partial \in 0 .. generation * Tasks
        /\ GenerationLimit \in Nat /\ Tasks \in Nat
    BY SizeFacts DEF IInv
  <2>2. \A a, b, c \in Nat : a <= b => a * c <= b * c /\ a * c \in Nat /\ b * c \in Nat
    OBVIOUS
  <2>3. /\ generation * Tasks <= GenerationLimit * Tasks
        /\ generation * Tasks \in Nat /\ GenerationLimit * Tasks \in Nat
    BY <2>1, <2>2
  <2>. QED BY <2>1, <2>3
<1>. QED BY <1>1, <1>2 DEF IInv, TypeOK

(* Tasks of rows, from the invariant. *)
LEMMA IInvKeepsTasks ==
  ASSUME IInv
  PROVE  RowsKeepTheirTask
<1>1. \A r \in DOMAIN batch :
        batch[r].task = TaskIds(batch[r].episode[1])[batch[r].episode[2]]
  BY BatchRows DEF Fine
<1>. QED BY <1>1 DEF RowsKeepTheirTask

(* Sizes of batches, from the invariant. *)
LEMMA IInvShares ==
  ASSUME IInv
  PROVE  WorkersShareEvenly
<1>1. /\ phase \in {"log_prob", "update"} => Len(batch) % WorldSize = 0
      /\ phase = "update" => ~ (\A r \in DOMAIN batch : batch[r].is_pad_step)
  BY DEF IInv, Sound
<1>. QED BY <1>1 DEF WorkersShareEvenly, RealRows

(* Advantages of fatal trajectories, from the invariant. *)
LEMMA IInvIsGentle ==
  ASSUME IInv
  PROVE  FatalIsNotPushedDown
<1>1. phase = "update" => Gentle(batch, generated)
  BY DEF IInv, Sound
<1>. QED BY <1>1 DEF FatalIsNotPushedDown, Gentle, EpisodeOf, EpisodeIn

(* A generation has one rollout for every place of the batch. *)
LEMMA GenerationFacts ==
  ASSUME NEW past \in History, NEW g \in DOMAIN past
  PROVE  g \in 1 .. Len(past) /\ Len(past) \in Nat /\ DOMAIN past[g] = Slots
<1> DEFINE X == [Slots -> EpisodeKinds[rejection_sample]]
<1>1. past \in Seq(X)
  BY DEF History
<1>2. \A x \in X : DOMAIN x = Slots
  OBVIOUS
<1> HIDE DEF X
<1>. QED BY <1>1, <1>2

(* What is learnt, from the invariant: the kept steps of valid rows. *)
LEMMA IInvLearns ==
  ASSUME IInv
  PROVE  LearnsWhatIsKept
<1>. SUFFICES ASSUME phase = "update" PROVE LearnsWhatIsKept
  BY DEF LearnsWhatIsKept
<1>1. /\ generated \in History /\ Spread(batch)
      /\ mode # "broadcast" => CoversKept(batch, generated)
  BY DEF IInv, Sound
<1>2. ASSUME NEW r \in DOMAIN batch
      PROVE  batch[r].tokens =
               {<<batch[r].episode, k>> :
                  k \in RowSteps(batch[r], EpisodeIn(generated, batch[r].episode))
                          \cap LearnableSteps(EpisodeIn(generated, batch[r].episode))}
  BY BatchRows DEF Fine
<1>3. ASSUME NEW r \in RealRows, NEW s \in RealRows, r # s
      PROVE  batch[r].tokens \cap batch[s].tokens = {}
  <2>1. /\ r \in DOMAIN batch /\ s \in DOMAIN batch
        /\ ~ batch[r].is_pad_step /\ ~ batch[s].is_pad_step
    BY DEF RealRows
  <2>2. batch[r].episode # batch[s].episode \/ batch[r].step # batch[s].step
    BY <1>1, <1>3, <2>1 DEF Spread
  <2>. SUFFICES ASSUME NEW token \in batch[r].tokens, token \in batch[s].tokens
                PROVE  FALSE
    OBVIOUS
  <2> DEFINE e == EpisodeIn(generated, batch[r].episode)
             f == EpisodeIn(generated, batch[s].episode)
  <2>3. PICK j \in RowSteps(batch[r], e) : token = <<batch[r].episode, j>>
    BY <1>2, <2>1
  <2>4. PICK k \in RowSteps(batch[s], f) : token = <<batch[s].episode, k>>
    BY <1>2, <2>1
  <2> HIDE DEF e, f
  <2>5. j = k /\ batch[r].episode = batch[s].episode
    BY <2>3, <2>4
  <2>6. mode = "none" => batch[r].step = 0 /\ batch[s].step = 0
    BY <2>1, BatchRows DEF Fine
  <2>7. mode # "none" => j = batch[r].step /\ k = batch[s].step
    BY <2>3, <2>4 DEF RowSteps
  <2>. QED BY <2>2, <2>5, <2>6, <2>7
<1>4. ASSUME NEW token \in Learnt
      PROVE  token[2] \in Kept(EpisodeOf(token[1]))
  <2>1. PICK r \in RealRows : token \in batch[r].tokens
    BY DEF Learnt
  <2>2. r \in DOMAIN batch
    BY DEF RealRows
  <2> DEFINE e == EpisodeIn(generated, batch[r].episode)
  <2>3. PICK k \in LearnableSteps(e) : token = <<batch[r].episode, k>>
    BY <1>2, <2>1, <2>2
  <2>4. k \in Kept(e)
    BY DEF LearnableSteps, Kept
  <2>5. EpisodeOf(batch[r].episode) = e
    BY <2>2, BatchRows
  <2> HIDE DEF e
  <2>. QED BY <2>3, <2>4, <2>5
<1>5. ASSUME mode # "broadcast", NEW g \in DOMAIN generated, NEW i \in DOMAIN generated[g],
             rejection_sample => <<g - 1, (i - 1) \div RolloutN>> \in TasksOf(batch),
             NEW k \in Kept(generated[g][i])
      PROVE  <<(<<g - 1, i>>), k>> \in Learnt
  <2>1. g \in 1 .. Len(generated) /\ Len(generated) \in Nat /\ i \in Slots
    BY <1>1, GenerationFacts
  <2> DEFINE h == g - 1
             e == generated[g][i]
             id == <<g - 1, i>>
  <2>2. h \in 0 .. Len(generated) - 1 /\ h + 1 = g /\ h \in Nat
    BY <2>1
  <2>3. TaskIds(h)[i] = <<h, (i - 1) \div RolloutN>>
    BY <2>1, <2>2, TaskIdFacts
  <2>4. generated[h + 1][i] = e
    BY <2>2
  <2>5. HasStep(batch, id, e, k)
    <3> HIDE DEF h, e
    <3>1. id = <<h, i>> /\ (rejection_sample => TaskIds(h)[i] \in TasksOf(batch))
      BY <1>5, <2>3 DEF h
    <3>2. k \in Kept(generated[h + 1][i])
      BY <2>4 DEF e
    <3>3. HasStep(batch, <<h, i>>, generated[h + 1][i], k)
      BY <1>1, <1>5, <2>1, <2>2, <3>1, <3>2 DEF CoversKept
    <3>. QED BY <2>4, <3>1, <3>3
  <2>6. PICK r \in DOMAIN batch : /\ ~ batch[r].is_pad_step /\ batch[r].episode = id
                                  /\ k \in RowSteps(batch[r], e)
    BY <2>5 DEF HasStep
  <2>7. EpisodeIn(generated, batch[r].episode) = e
    BY <2>4, <2>6 DEF EpisodeIn
  <2>8. k \in LearnableSteps(e)
    BY DEF Kept, LearnableSteps
  <2>9. <<id, k>> \in batch[r].tokens
    <3> HIDE DEF e, id
    <3>. QED BY <1>2, <2>6, <2>7, <2>8
  <2>10. r \in RealRows
    BY <2>6 DEF RealRows
  <2> HIDE DEF e
  <2>. QED BY <2>9, <2>10 DEF Learnt
<1>. QED BY <1>3, <1>4, <1>5 DEF LearnsWhatIsKept

(* What sampling has gathered, from the invariant. *)
LEMMA IInvGathers ==
  ASSUME IInv
  PROVE  GatheredTasks
<1>. SUFFICES ASSUME rejection_sample, phase = "generate" PROVE GatheredTasks
  BY DEF GatheredTasks
<1>1. /\ generated \in History
      /\ Covers(batch, generated)
      /\ solve_partial = Cardinality(TasksOf(batch)) /\ solve_partial < TrainBatchSize
  BY DEF IInv, Sound
<1>2. ASSUME NEW g \in DOMAIN generated, NEW i \in DOMAIN generated[g],
             TaskIds(g - 1)[i] \in TasksOf(batch), generated[g][i].steps > 0
      PROVE  \E r \in DOMAIN batch : batch[r].episode = <<g - 1, i>>
  <2>1. g \in 1 .. Len(generated) /\ Len(generated) \in Nat /\ i \in Slots
    BY <1>1, GenerationFacts
  <2> DEFINE h == g - 1
  <2>2. h \in 0 .. Len(generated) - 1 /\ h + 1 = g
    BY <2>1
  <2>3. generated[h + 1][i].steps \in Nat
    <3>1. rejection_sample \in BOOLEAN
      BY OptionFacts DEF IInv
    <3>2. generated[h + 1][i] \in EpisodeKinds[rejection_sample]
      BY <1>1, <2>1, <2>2, EpisodeOfKind
    <3>. QED BY <3>1, <3>2, KindFacts DEF IsEpisode
  <2>4. 0 \in 0 .. generated[h + 1][i].steps - 1
    BY <1>2, <2>2, <2>3
  <2> HIDE DEF h
  <2>5. TaskIds(h)[i] \in TasksOf(batch)
    BY <1>2 DEF h
  <2>6. HasStep(batch, <<h, i>>, generated[h + 1][i], 0)
    BY <1>1, <2>1, <2>2, <2>4, <2>5 DEF Covers
  <2>. QED BY <2>6 DEF HasStep, h
<1>. QED BY <1>1, <1>2 DEF GatheredTasks

(* What sampling chose, from the invariant. *)
LEMMA IInvSamples ==
  ASSUME IInv
  PROVE  SampledTasks
BY DEF IInv, Sound, AllPartial, SampledTasks

-----------------------------------------------------------------------------
(***************************************************************************)
(* The theorems                                                            *)
(***************************************************************************)

(***************************************************************************)
(* The invariant holds in every state: between the rollouts and the update *)
(* every row stays what its episode made it.                               *)
(***************************************************************************)
THEOREM TrainerInductive == Spec => []IInv
<1>1. Init => IInv
  BY InitIInv
<1>2. IInv /\ [Next]_vars => IInv'
  <2>. SUFFICES ASSUME IInv, [Next]_vars PROVE IInv'
    OBVIOUS
  <2>1. CASE Generate
    BY <2>1, GenerateIInv
  <2>2. CASE ComputeAdvantages
    BY <2>2, ComputeAdvantagesIInv
  <2>3. CASE UpdateActor
    BY <2>3, UpdateActorIInv
  <2>4. CASE UNCHANGED vars
    BY <2>4, StutterIInv
  <2>. QED BY <2>1, <2>2, <2>3, <2>4 DEF Next
<1>. QED BY <1>1, <1>2, PTL DEF Spec

(***************************************************************************)
(* Every variable has its type: a step ends with its counters reset.       *)
(***************************************************************************)
THEOREM TrainerTypes == Spec => []TypeOK
<1>1. IInv => TypeOK
  BY IInvTypes
<1>. QED BY <1>1, TrainerInductive, PTL

(***************************************************************************)
(* A row belongs to the task its rollout was made for.                     *)
(***************************************************************************)
THEOREM RowsStayWithTheirTask == Spec => []RowsKeepTheirTask
<1>1. IInv => RowsKeepTheirTask
  BY IInvKeepsTasks
<1>. QED BY <1>1, TrainerInductive, PTL

(***************************************************************************)
(* Every batch divides among the workers, and no update is made on padding *)
(* alone.                                                                  *)
(***************************************************************************)
THEOREM BatchesDivide == Spec => []WorkersShareEvenly
<1>1. IInv => WorkersShareEvenly
  BY IInvShares
<1>. QED BY <1>1, TrainerInductive, PTL

(***************************************************************************)
(* The update learns the steps in front of the fatal one, each once, and   *)
(* without broadcasting all of them.                                       *)
(***************************************************************************)
THEOREM KeptStepsAreLearnt == Spec => []LearnsWhatIsKept
<1>1. IInv => LearnsWhatIsKept
  BY IInvLearns
<1>. QED BY <1>1, TrainerInductive, PTL

(***************************************************************************)
(* A fatal trajectory is never pushed down, in any mode, padding included. *)
(***************************************************************************)
THEOREM FatalStaysUp == Spec => []FatalIsNotPushedDown
<1>1. IInv => FatalIsNotPushedDown
  BY IInvIsGentle
<1>. QED BY <1>1, TrainerInductive, PTL

(***************************************************************************)
(* Rejection sampling counts the tasks it has gathered, and has all their  *)
(* rollouts.                                                               *)
(***************************************************************************)
THEOREM GatheringCounts == Spec => []GatheredTasks
<1>1. IInv => GatheredTasks
  BY IInvGathers
<1>. QED BY <1>1, TrainerInductive, PTL

(***************************************************************************)
(* A sampled step is made on TrainBatchSize tasks that some rollouts       *)
(* solved and others did not.                                              *)
(***************************************************************************)
THEOREM SampledStepsArePartial == Spec => []SampledTasks
<1>1. IInv => SampledTasks
  BY IInvSamples
<1>. QED BY <1>1, TrainerInductive, PTL

=============================================================================
