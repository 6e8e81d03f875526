------------------------- MODULE WorkflowEngineProofs -------------------------
(***************************************************************************)
(* Proofs about the engine's pool of workflows, for every batch, every     *)
(* pool size, every number of attempts and calls, and every outcome of the *)
(* rollouts.                                                               *)
(***************************************************************************)
EXTENDS WorkflowEngine, PositionsProofs

(***************************************************************************)
(* Sequences without repetition: the queue, the finished futures and the   *)
(* collected episodes are of this kind.                                    *)
(***************************************************************************)
Distinct(s) == \A i, j \in 1 .. Len(s) : s[i] = s[j] => i = j

Elements(s) == {s[i] : i \in 1 .. Len(s)}

(***************************************************************************)
(* A new element at the end keeps a sequence without repetition.           *)
(***************************************************************************)
LEMMA AppendDistinct ==
  ASSUME NEW S, NEW s \in Seq(S), NEW x \in S, Distinct(s), x \notin Elements(s)
  PROVE  /\ Append(s, x) \in Seq(S) /\ Distinct(Append(s, x))
         /\ Elements(Append(s, x)) = Elements(s) \cup {x}
         /\ Len(Append(s, x)) = Len(s) + 1
<1> DEFINE t == Append(s, x)
<1>1. /\ t \in Seq(S) /\ Len(t) = Len(s) + 1 /\ Len(s) \in Nat
      /\ \A i \in 1 .. Len(s) : t[i] = s[i]
      /\ t[Len(s) + 1] = x
  OBVIOUS
<1> HIDE DEF t
<1>2. ASSUME NEW i \in 1 .. Len(t) PROVE i \in 1 .. Len(s) \/ i = Len(s) + 1
  BY <1>1, <1>2
<1>3. Distinct(t)
  BY <1>1, <1>2 DEF Distinct, Elements
<1>4. Elements(t) = Elements(s) \cup {x}
  BY <1>1, <1>2 DEF Elements
<1> QED
  BY <1>1, <1>3, <1>4 DEF t

(***************************************************************************)
(* Taking the first element of a sequence without repetition removes it.   *)
(***************************************************************************)
LEMMA TailDistinct ==
  ASSUME NEW S, NEW s \in Seq(S), s # <<>>, Distinct(s)
  PROVE  /\ Tail(s) \in Seq(S) /\ Distinct(Tail(s))
         /\ Head(s) \in S /\ Head(s) \in Elements(s)
         /\ Elements(Tail(s)) = Elements(s) \ {Head(s)}
         /\ Len(Tail(s)) = Len(s) - 1
<1> DEFINE t == Tail(s)
<1>1. /\ t \in Seq(S) /\ Len(t) = Len(s) - 1 /\ Len(s) \in Nat \ {0}
      /\ \A i \in 1 .. Len(t) : t[i] = s[i + 1]
      /\ Head(s) = s[1] /\ Head(s) \in S
  OBVIOUS
<1> HIDE DEF t
<1>2. Distinct(t)
  BY <1>1 DEF Distinct
<1>3. ASSUME NEW i \in 1 .. Len(s), i # 1 PROVE i - 1 \in 1 .. Len(t) /\ t[i - 1] = s[i]
  BY <1>1, <1>3
<1>4. Elements(t) = Elements(s) \ {s[1]}
  <2>1. ASSUME NEW e \in Elements(t) PROVE e \in Elements(s) \ {s[1]}
    <3>1. PICK i \in 1 .. Len(t) : e = t[i]
      BY <2>1 DEF Elements
    <3>2. i + 1 \in 1 .. Len(s) /\ 1 \in 1 .. Len(s) /\ i + 1 # 1 /\ e = s[i + 1]
      BY <1>1, <3>1
    <3> QED
      BY <3>2 DEF Elements, Distinct
  <2>2. ASSUME NEW e \in Elements(s) \ {s[1]} PROVE e \in Elements(t)
    <3>1. PICK i \in 1 .. Len(s) : e = s[i]
      BY <2>2 DEF Elements
    <3>2. i # 1
      BY <2>2, <3>1
    <3> QED
      BY <1>3, <3>1, <3>2 DEF Elements
  <2> QED
    BY <2>1, <2>2
<1>5. Head(s) \in Elements(s)
  BY <1>1 DEF Elements
<1> QED
  BY <1>1, <1>2, <1>4, <1>5 DEF t

(***************************************************************************)
(* n different members of 1 .. n are all of them.                          *)
(***************************************************************************)
LEMMA DistinctCovers ==
  ASSUME NEW n \in Nat, NEW s \in Seq(1 .. n), Distinct(s), Len(s) = n
  PROVE  Elements(s) = 1 .. n
<1>1. s \in [1 .. n -> 1 .. n]
  OBVIOUS
<1>2. s \in Injection(1 .. n, 1 .. n)
  BY <1>1 DEF Distinct, Injection, IsInjective
<1>3. IsFiniteSet(1 .. n)
  BY FS_Interval
<1>4. s \in Surjection(1 .. n, 1 .. n)
  BY <1>2, <1>3, FS_Injection
<1>5. \A w \in 1 .. n : \E i \in 1 .. n : s[i] = w
  BY <1>4 DEF Surjection
<1> QED
  BY <1>1, <1>5 DEF Elements

-----------------------------------------------------------------------------

(***************************************************************************)
(* The queue holds each free workflow once.                                *)
(***************************************************************************)
Pool == Distinct(workflow_queue) /\ Exclusive

(***************************************************************************)
(* The first call makes the workflows; from then on they are all queued or *)
(* held.                                                                   *)
(***************************************************************************)
Counted ==
  /\ calls = 0 => call = "idle" /\ workflow_queue = <<>>
  /\ calls > 0 => Len(workflow_queue) + Cardinality(Holders) = PoolSize

(***************************************************************************)
(* A rollout is finished once: it waits in done, was collected, or was the *)
(* one whose exception ended the call.  Between calls none is under way.   *)
(***************************************************************************)
Book ==
  /\ Distinct(done) /\ Distinct(episodes)
  /\ \A r \in Elements(done) : r \notin Elements(episodes)
  /\ \A r \in Elements(done) : future[r] \in {"returned", "failed"}
  /\ \A r \in Elements(episodes) : future[r] = "returned"
  /\ call = "idle" => done = <<>> /\ \A r \in Rollouts : future[r] \notin {"get", "run"}

(***************************************************************************)
(* The rollout engine is awake, in the mode of the call, while a call is   *)
(* under way or has raised.                                                *)
(***************************************************************************)
Mode ==
  rollout_engine = [awake |-> call # "idle", validate |-> call # "idle" /\ is_validation]

IInv == TypeOK /\ Pool /\ Counted /\ Book /\ Mode

(***************************************************************************)
(* The rollouts are finitely many, and so are those that hold a workflow.  *)
(***************************************************************************)
LEMMA FiniteHolders ==
  /\ Len(TaskIds) \in Nat
  /\ IsFiniteSet(Holders) /\ Cardinality(Holders) \in Nat
<1>1. Len(TaskIds) \in Nat
  BY TaskIdsAssumption
<1>2. IsFiniteSet(Rollouts)
  BY <1>1, FS_Interval DEF Rollouts
<1>3. Holders \in SUBSET Rollouts
  BY DEF Holders
<1>4. IsFiniteSet(Holders)
  BY <1>2, <1>3, FS_Subset
<1> QED
  BY <1>1, <1>4, FS_CardinalityType

(***************************************************************************)
(* A new engine satisfies the inductive invariant.                         *)
(***************************************************************************)
LEMMA InitInv == Init => IInv
<1> SUFFICES ASSUME Init PROVE IInv
  OBVIOUS
<1>1. TypeOK
  <2>1. /\ calls \in 0 .. CallLimit /\ rollout_engine \in [awake : BOOLEAN, validate : BOOLEAN]
        /\ call \in {"idle", "collecting", "raised"} /\ is_validation \in BOOLEAN
    <3>1. calls \in 0 .. CallLimit
      BY LimitsAssumption DEF Init
    <3>2. call \in {"idle", "collecting", "raised"} /\ is_validation \in BOOLEAN
      BY DEF Init
    <3>3. rollout_engine \in [awake : BOOLEAN, validate : BOOLEAN]
      BY DEF Init
    <3> QED
      BY <3>1, <3>2, <3>3
  <2>2. /\ workflow_queue \in Seq(Workflows) /\ done \in Seq(Rollouts)
        /\ episodes \in Seq(Rollouts) /\ results \in Seq(Rollouts)
    BY DEF Init
  <2>3. retry_attempt \in [Rollouts -> 0 .. RetryLimit]
    BY LimitsAssumption DEF Init
  <2>4. /\ future \in [Rollouts -> Futures] /\ workflow \in [Rollouts -> Workflows \cup {NoWorkflow}]
        /\ outcome \in [Rollouts -> AllOutcomes \cup {"none"}]
    BY DEF Init, Futures
  <2> QED
    BY <2>1, <2>2, <2>3, <2>4 DEF TypeOK
<1>2. Holders = {} /\ Free = {}
  BY DEF Init, Holders, Free
<1>3. Pool
  BY <1>2 DEF Init, Pool, Exclusive, Distinct, Holders
<1>4. Counted
  BY DEF Init, Counted
<1>5. Book
  BY DEF Init, Book, Distinct, Elements
<1>6. Mode
  BY DEF Init, Mode
<1> QED
  BY <1>1, <1>3, <1>4, <1>5, <1>6 DEF IInv

(***************************************************************************)
(* Between calls no rollout holds a workflow.                              *)
(***************************************************************************)
LEMMA IdleHoldsNothing == IInv /\ call = "idle" => Holders = {}
BY DEF IInv, Pool, Exclusive, Book, Holders

(***************************************************************************)
(* The first call fills the pool, a later one finds it full.               *)
(***************************************************************************)
LEMMA ExecuteTasksInv ==
  ASSUME IInv, NEW validate \in BOOLEAN, ExecuteTasks(validate)
  PROVE  IInv'
<1> DEFINE queue == InitializePool(workflow_queue)
<1>1. Holders = {} /\ Holders' = {}
  BY IdleHoldsNothing DEF ExecuteTasks, Holders
<1>2. /\ queue \in Seq(Workflows) /\ Distinct(queue) /\ Len(queue) = PoolSize
  <2>1. CASE calls = 0
    <3>1. queue = [w \in 1 .. PoolSize |-> w]
      BY <2>1 DEF InitializePool, Workflows
    <3> QED
      BY <3>1, LimitsAssumption DEF Distinct, Workflows
  <2>2. CASE calls # 0
    <3>1. queue = workflow_queue /\ workflow_queue \in Seq(Workflows) /\ Distinct(workflow_queue)
      BY <2>2 DEF InitializePool, IInv, TypeOK, Pool
    <3>2. Len(workflow_queue) + Cardinality(Holders) = PoolSize
      BY <2>2 DEF IInv, Counted, TypeOK
    <3>3. Len(workflow_queue) \in Nat /\ Cardinality(Holders) = 0
      BY <1>1, <3>1, FS_EmptySet
    <3> QED
      BY <3>1, <3>2, <3>3, LimitsAssumption
  <2> QED
    BY <2>1, <2>2
<1>3. workflow_queue' = queue
  BY DEF ExecuteTasks
<1> HIDE DEF queue
<1>4. TypeOK'
  <2>1. /\ call' \in {"idle", "collecting", "raised"} /\ calls' \in 0 .. CallLimit
        /\ is_validation' \in BOOLEAN
    BY LimitsAssumption DEF ExecuteTasks, IInv, TypeOK
  <2>2. rollout_engine' \in [awake : BOOLEAN, validate : BOOLEAN]
    BY DEF ExecuteTasks, IInv, TypeOK
  <2>3. /\ future' \in [Rollouts -> Futures] /\ outcome' \in [Rollouts -> AllOutcomes \cup {"none"}]
        /\ retry_attempt' \in [Rollouts -> 0 .. RetryLimit]
    BY LimitsAssumption DEF ExecuteTasks, Futures
  <2>4. /\ episodes' \in Seq(Rollouts) /\ done' \in Seq(Rollouts) /\ results' \in Seq(Rollouts)
        /\ workflow' \in [Rollouts -> Workflows \cup {NoWorkflow}]
    BY DEF ExecuteTasks, IInv, TypeOK
  <2> QED
    BY <1>2, <1>3, <2>1, <2>2, <2>3, <2>4 DEF TypeOK
<1>5. Pool'
  <2>1. \A r \in Rollouts : future'[r] = "get"
    BY DEF ExecuteTasks
  <2> QED
    BY <1>1, <1>2, <1>3, <2>1 DEF Pool, Exclusive, Distinct
<1>6. Counted'
  <2>1. calls \in Nat /\ calls' = calls + 1
    BY DEF ExecuteTasks, IInv, TypeOK
  <2>2. Cardinality(Holders') = 0
    BY <1>1, FS_EmptySet
  <2> QED
    BY <1>2, <1>3, <2>1, <2>2, LimitsAssumption DEF Counted
<1>7. Book'
  BY DEF ExecuteTasks, IInv, Book, Distinct, Elements
<1>8. Mode'
  BY DEF ExecuteTasks, IInv, Mode, TypeOK
<1> QED
  BY <1>4, <1>5, <1>6, <1>7, <1>8 DEF IInv

(***************************************************************************)
(* A rollout gets a workflow that nobody holds, and it is queued no more.  *)
(***************************************************************************)
LEMMA GetWorkflowInv ==
  ASSUME IInv, NEW r \in Rollouts, GetWorkflow(r)
  PROVE  IInv'
<1> DEFINE w == Head(workflow_queue)
<1>1. /\ workflow_queue \in Seq(Workflows) /\ workflow_queue # <<>> /\ Distinct(workflow_queue)
      /\ workflow \in [Rollouts -> Workflows \cup {NoWorkflow}]
      /\ future \in [Rollouts -> Futures] /\ future[r] = "get"
  BY DEF IInv, TypeOK, Pool, GetWorkflow
<1>2. /\ workflow_queue' \in Seq(Workflows) /\ Distinct(workflow_queue')
      /\ w \in Workflows /\ w \in Elements(workflow_queue)
      /\ Elements(workflow_queue') = Elements(workflow_queue) \ {w}
      /\ Len(workflow_queue') = Len(workflow_queue) - 1
  BY <1>1, TailDistinct DEF GetWorkflow
<1>3. /\ workflow' = [workflow EXCEPT ![r] = w] /\ future' = [future EXCEPT ![r] = "run"]
      /\ w # NoWorkflow
  BY <1>2, NoWorkflowAssumption DEF GetWorkflow, Workflows
<1>4. Free = Elements(workflow_queue) /\ Free' = Elements(workflow_queue')
  BY <1>1, <1>2 DEF Free, Elements
<1> HIDE DEF w
<1>5. r \notin Holders /\ Holders' = Holders \cup {r}
  <2>1. r \notin Holders
    BY <1>1 DEF IInv, Pool, Exclusive
  <2> QED
    BY <1>1, <1>3, <2>1 DEF Holders
<1>6. TypeOK'
  <2>1. future' \in [Rollouts -> Futures] /\ workflow' \in [Rollouts -> Workflows \cup {NoWorkflow}]
    BY <1>1, <1>2, <1>3 DEF Futures
  <2>2. retry_attempt' \in [Rollouts -> 0 .. RetryLimit]
    BY LimitsAssumption DEF IInv, TypeOK, GetWorkflow
  <2> QED
    BY <1>2, <2>1, <2>2 DEF IInv, TypeOK, GetWorkflow, callVars
<1>7. Pool'
  <2>1. \A s \in Holders : workflow[s] # w
    BY <1>2, <1>4 DEF IInv, Pool, Exclusive
  <2>2. ASSUME NEW s \in Holders', NEW t \in Holders', s # t PROVE workflow'[s] # workflow'[t]
    BY <1>1, <1>3, <1>5, <2>1, <2>2 DEF IInv, Pool, Exclusive, Holders
  <2>3. ASSUME NEW s \in Holders' PROVE workflow'[s] \notin Free'
    BY <1>1, <1>2, <1>3, <1>4, <1>5, <2>3 DEF IInv, Pool, Exclusive, Holders
  <2>4. ASSUME NEW s \in Rollouts PROVE future'[s] = "run" <=> s \in Holders'
    BY <1>1, <1>3, <1>5, <2>4 DEF IInv, Pool, Exclusive
  <2> QED
    BY <1>2, <2>2, <2>3, <2>4 DEF Pool, Exclusive
<1>8. Counted'
  <2>1. Cardinality(Holders') = Cardinality(Holders) + 1
    BY <1>5, FiniteHolders, FS_AddElement
  <2>2. calls' = calls /\ calls > 0
    BY <1>1 DEF IInv, Counted, TypeOK, GetWorkflow, callVars
  <2>3. Len(workflow_queue) \in Nat
    BY <1>1
  <2> QED
    BY <1>2, <2>1, <2>2, <2>3, FiniteHolders DEF IInv, Counted
<1>9. Book'
  <2>1. r \notin Elements(done) /\ r \notin Elements(episodes)
    BY <1>1 DEF IInv, Book
  <2>2. call # "idle" /\ UNCHANGED <<call, done, episodes>>
    BY <1>1 DEF IInv, Book, GetWorkflow, callVars
  <2>3. Elements(done) \subseteq Rollouts /\ Elements(episodes) \subseteq Rollouts
    BY DEF IInv, TypeOK, Elements
  <2>4. \A s \in Rollouts : s # r => future'[s] = future[s]
    BY <1>1, <1>3
  <2>5. Elements(done') = Elements(done) /\ Elements(episodes') = Elements(episodes)
    BY <2>2
  <2>6. Distinct(done') /\ Distinct(episodes')
    BY <2>2 DEF IInv, Book
  <2> QED
    BY <2>1, <2>2, <2>3, <2>4, <2>5, <2>6 DEF IInv, Book
<1>10. Mode'
  BY DEF IInv, Mode, GetWorkflow, callVars
<1> QED
  BY <1>6, <1>7, <1>8, <1>9, <1>10 DEF IInv

(***************************************************************************)
(* A rollout that ends gives its workflow back and is finished.            *)
(***************************************************************************)
LEMMA EndInv ==
  ASSUME IInv, NEW r \in Rollouts, NEW how \in {"returned", "failed"},
         future[r] = "run", End(r, how),
         outcome' \in [Rollouts -> AllOutcomes \cup {"none"}],
         UNCHANGED <<callVars, episodes>>
  PROVE  IInv'
<1> DEFINE w == workflow[r]
<1>1. /\ workflow_queue \in Seq(Workflows) /\ Distinct(workflow_queue)
      /\ workflow \in [Rollouts -> Workflows \cup {NoWorkflow}]
      /\ future \in [Rollouts -> Futures] /\ done \in Seq(Rollouts)
      /\ Distinct(done)
  BY DEF IInv, TypeOK, Pool, Book
<1>2. r \in Holders /\ w \in Workflows
  BY <1>1 DEF IInv, Pool, Exclusive, Holders
<1>3. Free = Elements(workflow_queue)
  BY <1>1 DEF Free, Elements
<1>4. w \notin Elements(workflow_queue)
  BY <1>2, <1>3 DEF IInv, Pool, Exclusive
<1>5. /\ workflow_queue' \in Seq(Workflows) /\ Distinct(workflow_queue')
      /\ Elements(workflow_queue') = Elements(workflow_queue) \cup {w}
      /\ Len(workflow_queue') = Len(workflow_queue) + 1
  BY <1>1, <1>2, <1>4, AppendDistinct DEF End
<1>6. Free' = Elements(workflow_queue')
  BY <1>5 DEF Free, Elements
<1>7. r \notin Elements(done) /\ r \notin Elements(episodes)
  BY DEF IInv, Book
<1>8. /\ done' \in Seq(Rollouts) /\ Distinct(done') /\ Elements(done') = Elements(done) \cup {r}
  BY <1>1, <1>7, AppendDistinct DEF End
<1>9. /\ workflow' = [workflow EXCEPT ![r] = NoWorkflow] /\ future' = [future EXCEPT ![r] = how]
      /\ retry_attempt' = retry_attempt
  BY DEF End
<1>10. Holders' = Holders \ {r}
  BY <1>1, <1>9 DEF Holders
<1>11. TypeOK'
  <2>1. future' \in [Rollouts -> Futures] /\ workflow' \in [Rollouts -> Workflows \cup {NoWorkflow}]
    BY <1>1, <1>9 DEF Futures
  <2> QED
    BY <1>5, <1>8, <1>9, <2>1 DEF IInv, TypeOK, callVars
<1>12. Pool'
  <2>1. ASSUME NEW s \in Holders' PROVE s \in Holders /\ s # r /\ workflow'[s] = workflow[s]
    BY <1>1, <1>9, <1>10, <2>1 DEF Holders
  <2>2. ASSUME NEW s \in Holders', NEW t \in Holders', s # t PROVE workflow'[s] # workflow'[t]
    BY <2>1, <2>2 DEF IInv, Pool, Exclusive
  <2>3. ASSUME NEW s \in Holders' PROVE workflow'[s] \notin Free'
    BY <1>2, <1>3, <1>5, <1>6, <2>1, <2>3 DEF IInv, Pool, Exclusive
  <2>4. ASSUME NEW s \in Rollouts PROVE future'[s] = "run" <=> s \in Holders'
    BY <1>1, <1>9, <1>10, <2>4 DEF IInv, Pool, Exclusive
  <2> QED
    BY <1>5, <2>2, <2>3, <2>4 DEF Pool, Exclusive
<1>13. Counted'
  <2>1. Cardinality(Holders') = Cardinality(Holders) - 1
    BY <1>2, <1>10, FiniteHolders, FS_RemoveElement
  <2>2. calls' = calls /\ calls > 0
    BY DEF IInv, Counted, Book, TypeOK, callVars
  <2>3. Len(workflow_queue) \in Nat
    BY <1>1
  <2> QED
    BY <1>5, <2>1, <2>2, <2>3, FiniteHolders DEF IInv, Counted
<1>14. Book'
  <2>1. call # "idle" /\ UNCHANGED <<call, episodes>>
    BY DEF IInv, Book, callVars
  <2>2. Elements(done) \subseteq Rollouts /\ Elements(episodes) \subseteq Rollouts
    BY DEF IInv, TypeOK, Elements
  <2>3. /\ \A s \in Rollouts : s # r => future'[s] = future[s]
        /\ future'[r] = how
    BY <1>1, <1>9
  <2>4. Elements(episodes') = Elements(episodes) /\ Distinct(episodes')
    BY <2>1 DEF IInv, Book
  <2> QED
    BY <1>7, <1>8, <2>1, <2>2, <2>3, <2>4 DEF IInv, Book
<1>15. Mode'
  BY DEF IInv, Mode, callVars
<1> QED
  BY <1>11, <1>12, <1>13, <1>14, <1>15 DEF IInv

(***************************************************************************)
(* A retry keeps the workflow.                                             *)
(***************************************************************************)
LEMMA RetryInv ==
  ASSUME IInv, NEW r \in Rollouts, Retry(r), retry_attempt[r] < RetryLimit,
         outcome' \in [Rollouts -> AllOutcomes \cup {"none"}],
         UNCHANGED <<callVars, episodes>>
  PROVE  IInv'
<1>1. retry_attempt' \in [Rollouts -> 0 .. RetryLimit]
  BY LimitsAssumption DEF IInv, TypeOK, Retry
<1>2. UNCHANGED <<callVars, episodes, future, workflow, workflow_queue, done>>
  BY DEF Retry
<1>3. TypeOK'
  BY <1>1, <1>2 DEF IInv, TypeOK, callVars
<1>4. Pool' /\ Counted' /\ Book' /\ Mode'
  <2>1. Holders' = Holders /\ Free' = Free
    BY <1>2 DEF Holders, Free
  <2> QED
    BY <1>2, <2>1 DEF IInv, Pool, Exclusive, Counted, Book, Mode, callVars
<1> QED
  BY <1>3, <1>4 DEF IInv

(***************************************************************************)
(* However a rollout comes back, it ends or is retried.                    *)
(***************************************************************************)
LEMMA RolloutReturnsInv ==
  ASSUME IInv, NEW r \in Rollouts, NEW o \in Outcomes, RolloutReturns(r, o)
  PROVE  IInv'
<1>1. /\ outcome' \in [Rollouts -> AllOutcomes \cup {"none"}]
      /\ UNCHANGED <<callVars, episodes>>
      /\ future[r] = "run"
  BY OptionsAssumption DEF RolloutReturns, IInv, TypeOK
<1>2. CASE End(r, "returned")
  BY <1>1, <1>2, EndInv
<1>3. CASE End(r, "failed")
  BY <1>1, <1>3, EndInv
<1>4. CASE Retry(r) /\ retry_attempt[r] < RetryLimit
  BY <1>1, <1>4, RetryInv
<1> QED
  BY <1>2, <1>3, <1>4 DEF RolloutReturns

(***************************************************************************)
(* Collecting a finished rollout moves it from done to episodes, or ends   *)
(* the call.                                                               *)
(***************************************************************************)
LEMMA CollectInv == IInv /\ Collect => IInv'
<1> SUFFICES ASSUME IInv, Collect PROVE IInv'
  OBVIOUS
<1> DEFINE r == Head(done)
<1>1. /\ done \in Seq(Rollouts) /\ done # <<>> /\ Distinct(done)
      /\ episodes \in Seq(Rollouts) /\ Distinct(episodes)
  BY DEF IInv, TypeOK, Book, Collect
<1>2. /\ done' \in Seq(Rollouts) /\ Distinct(done') /\ r \in Rollouts /\ r \in Elements(done)
      /\ Elements(done') = Elements(done) \ {r}
  BY <1>1, TailDistinct DEF Collect
<1>3. r \notin Elements(episodes)
  BY <1>2 DEF IInv, Book
<1>4. UNCHANGED <<calls, is_validation, rollout_engine, results, poolVars>> /\ call = "collecting"
  BY DEF Collect
<1>5. \/ /\ future[r] = "returned" /\ call' = call
         /\ episodes' = Append(episodes, r)
      \/ call' = "raised" /\ episodes' = episodes
  BY DEF Collect
<1>6. /\ episodes' \in Seq(Rollouts) /\ Distinct(episodes')
      /\ \/ future[r] = "returned" /\ Elements(episodes') = Elements(episodes) \cup {r}
         \/ Elements(episodes') = Elements(episodes)
  <2>1. CASE episodes' = Append(episodes, r) /\ future[r] = "returned"
    <3>1. /\ Append(episodes, r) \in Seq(Rollouts) /\ Distinct(Append(episodes, r))
          /\ Elements(Append(episodes, r)) = Elements(episodes) \cup {r}
      BY <1>1, <1>2, <1>3, AppendDistinct
    <3> QED
      BY <2>1, <3>1
  <2>2. CASE episodes' = episodes
    BY <1>1, <2>2
  <2> QED
    BY <1>5, <2>1, <2>2
<1> HIDE DEF r
<1>7. TypeOK'
  BY <1>2, <1>4, <1>5, <1>6 DEF IInv, TypeOK, poolVars
<1>8. Pool'
  <2>1. Holders' = Holders /\ Free' = Free
    BY <1>4 DEF Holders, Free, poolVars
  <2> QED
    BY <1>4, <2>1 DEF IInv, Pool, Exclusive, poolVars
<1>9. Counted'
  <2>1. Holders' = Holders
    BY <1>4 DEF Holders, poolVars
  <2> QED
    BY <1>4, <2>1 DEF IInv, Counted, poolVars
<1>10. Book'
  <2>1. future' = future /\ call' # "idle"
    BY <1>4, <1>5 DEF poolVars
  <2> QED
    BY <1>2, <1>6, <2>1 DEF IInv, Book
<1>11. Mode'
  BY <1>4, <1>5 DEF IInv, Mode
<1> QED
  BY <1>7, <1>8, <1>9, <1>10, <1>11 DEF IInv

-----------------------------------------------------------------------------

(***************************************************************************)
(* Every rollout has a first rollout of its task, not after it.            *)
(***************************************************************************)
LEMMA TaskIdxType ==
  ASSUME NEW r \in Rollouts
  PROVE  /\ TaskIdx(r) \in Rollouts /\ TaskIds[TaskIdx(r)] = TaskIds[r]
         /\ \A j \in Rollouts : TaskIds[j] = TaskIds[r] => TaskIdx(r) <= j
<1> DEFINE P(i) == TaskIds[i] = TaskIds[r]
           S == {i \in Rollouts : P(i)}
<1>1. S \subseteq Nat /\ S # {} /\ \A i \in S : i \in Rollouts
  BY DEF Rollouts
<1>2. \E i \in S : \A j \in S : i <= j
  BY <1>1, LeastNatural
<1>3. \E i \in Rollouts : P(i) /\ \A j \in Rollouts : P(j) => i <= j
  BY <1>2
<1> QED
  BY <1>3 DEF TaskIdx

(***************************************************************************)
(* Two rollouts of one task have the same first rollout.                   *)
(***************************************************************************)
LEMMA TaskIdxOfTask ==
  ASSUME NEW r \in Rollouts, NEW s \in Rollouts
  PROVE  TaskIdx(r) = TaskIdx(s) <=> TaskIds[r] = TaskIds[s]
<1>1. TaskIdx(r) = TaskIdx(s) => TaskIds[r] = TaskIds[s]
  BY TaskIdxType
<1>2. ASSUME TaskIds[r] = TaskIds[s] PROVE TaskIdx(r) = TaskIdx(s)
  BY <1>2 DEF TaskIdx
<1> QED
  BY <1>1, <1>2

(***************************************************************************)
(* The places of the collected rollouts are the positions of the result,   *)
(* each taken once.                                                        *)
(***************************************************************************)
LEMMA PlaceType ==
  ASSUME NEW c \in Seq(Rollouts), NEW p \in DOMAIN c
  PROVE  Place(c, p) \in 1 .. Len(c)
<1>1. Len(c) \in Nat /\ DOMAIN c = 1 .. Len(c)
  OBVIOUS
<1> DEFINE S == {q \in DOMAIN c : Before(c, q, p)}
<1>2. IsFiniteSet(DOMAIN c) /\ Cardinality(DOMAIN c) = Len(c)
  <2> DEFINE n == Len(c)
  <2>1. n \in Nat /\ DOMAIN c = 1 .. n
    BY <1>1
  <2> HIDE DEF n
  <2>2. IsFiniteSet(1 .. n) /\ Cardinality(1 .. n) = n
    BY <2>1, FS_Interval
  <2>3. IsFiniteSet(DOMAIN c) /\ Cardinality(DOMAIN c) = n
    BY <2>1, <2>2
  <2> QED
    BY <2>3 DEF n
<1>3. S \in SUBSET (DOMAIN c)
  OBVIOUS
<1>4. IsFiniteSet(S) /\ Cardinality(S) <= Len(c)
  BY <1>2, <1>3, FS_Subset
<1>5. p \in S
  BY <1>1 DEF Before
<1>6. Cardinality(S) \in Nat /\ Cardinality(S) # 0
  BY <1>4, <1>5, FS_CardinalityType, FS_EmptySet
<1> QED
  BY <1>1, <1>4, <1>6 DEF Place

(***************************************************************************)
(* Of two collected rollouts, the one that goes before has the lower       *)
(* place.                                                                  *)
(***************************************************************************)
LEMMA PlaceOrder ==
  ASSUME NEW c \in Seq(Rollouts), NEW p \in DOMAIN c, NEW q \in DOMAIN c,
         p # q, Before(c, p, q)
  PROVE  Place(c, p) < Place(c, q)
<1> DEFINE S == {k \in DOMAIN c : Before(c, k, p)}
           T == {k \in DOMAIN c : Before(c, k, q)}
<1>1. Len(c) \in Nat /\ DOMAIN c = 1 .. Len(c)
  OBVIOUS
<1>2. \A k \in DOMAIN c : c[k] \in Rollouts /\ TaskIdx(c[k]) \in Int
  BY <1>1, TaskIdxType DEF Rollouts
<1>3. IsFiniteSet(DOMAIN c) /\ T \in SUBSET (DOMAIN c)
  BY <1>1, FS_Interval
<1>4. IsFiniteSet(T)
  BY <1>3, FS_Subset
<1>5. S \in SUBSET T
  BY <1>1, <1>2 DEF Before
<1>6. q \in T /\ q \notin S
  BY <1>1, <1>2 DEF Before
<1>7. /\ Cardinality(S) <= Cardinality(T)
      /\ Cardinality(S) # Cardinality(T)
      /\ IsFiniteSet(S)
  BY <1>4, <1>5, <1>6, FS_Subset
<1>8. Cardinality(S) \in Nat /\ Cardinality(T) \in Nat
  BY <1>4, <1>7, FS_CardinalityType
<1> QED
  BY <1>7, <1>8 DEF Place

(***************************************************************************)
(* Any two collected rollouts are ordered.                                 *)
(***************************************************************************)
LEMMA BeforeTotal ==
  ASSUME NEW c \in Seq(Rollouts), NEW p \in DOMAIN c, NEW q \in DOMAIN c
  PROVE  Before(c, p, q) \/ Before(c, q, p)
<1>1. p \in Int /\ q \in Int /\ c[p] \in Rollouts /\ c[q] \in Rollouts
  OBVIOUS
<1>2. TaskIdx(c[p]) \in Int /\ TaskIdx(c[q]) \in Int
  BY <1>1, TaskIdxType DEF Rollouts
<1> QED
  BY <1>1, <1>2 DEF Before

(***************************************************************************)
(* Position k of the result is the one collected rollout of place k.       *)
(***************************************************************************)
LEMMA PlaceOfPosition ==
  ASSUME NEW c \in Seq(Rollouts)
  PROVE  /\ \A p, q \in DOMAIN c : Place(c, p) = Place(c, q) => p = q
         /\ \A k \in DOMAIN c : \E p \in DOMAIN c : Place(c, p) = k
<1> DEFINE n == Len(c)
           f == [p \in 1 .. n |-> Place(c, p)]
<1>1. n \in Nat /\ DOMAIN c = 1 .. n
  OBVIOUS
<1>2. ASSUME NEW p \in DOMAIN c, NEW q \in DOMAIN c, Place(c, p) = Place(c, q)
      PROVE  p = q
  <2> SUFFICES ASSUME p # q PROVE FALSE
    OBVIOUS
  <2>1. Place(c, p) \in Int
    BY PlaceType
  <2>2. Place(c, p) < Place(c, q) \/ Place(c, q) < Place(c, p)
    BY BeforeTotal, PlaceOrder
  <2> QED
    BY <1>2, <2>1, <2>2
<1>3. f \in [1 .. n -> 1 .. n]
  BY <1>1, PlaceType
<1>4. f \in Injection(1 .. n, 1 .. n)
  BY <1>1, <1>2, <1>3 DEF Injection, IsInjective
<1>5. IsFiniteSet(1 .. n)
  BY <1>1, FS_Interval
<1>6. f \in Surjection(1 .. n, 1 .. n)
  BY <1>4, <1>5, FS_Injection
<1>7. \A k \in 1 .. n : \E p \in 1 .. n : f[p] = k
  BY <1>6 DEF Surjection
<1> QED
  BY <1>1, <1>2, <1>7

(***************************************************************************)
(* The result rearranges what was collected, in the order of the tasks.    *)
(***************************************************************************)
LEMMA InTaskOrderType ==
  ASSUME NEW c \in Seq(Rollouts)
  PROVE  /\ InTaskOrder(c) \in Seq(Rollouts) /\ Len(InTaskOrder(c)) = Len(c)
         /\ \A p \in DOMAIN c : InTaskOrder(c)[Place(c, p)] = c[p]
         /\ \A k \in DOMAIN c : \E p \in DOMAIN c : Place(c, p) = k /\ InTaskOrder(c)[k] = c[p]
<1> DEFINE at(k) == CHOOSE p \in DOMAIN c : Place(c, p) = k
<1>1. Len(c) \in Nat /\ DOMAIN c = 1 .. Len(c) /\ \A p \in DOMAIN c : c[p] \in Rollouts
  OBVIOUS
<1>2. \A k \in DOMAIN c : at(k) \in DOMAIN c /\ Place(c, at(k)) = k
  BY PlaceOfPosition
<1>3. InTaskOrder(c) = [k \in 1 .. Len(c) |-> c[at(k)]]
  BY <1>1 DEF InTaskOrder
<1> HIDE DEF at
<1>4. InTaskOrder(c) \in Seq(Rollouts) /\ Len(InTaskOrder(c)) = Len(c)
  BY <1>1, <1>2, <1>3
<1>5. ASSUME NEW p \in DOMAIN c PROVE InTaskOrder(c)[Place(c, p)] = c[p]
  <2>1. Place(c, p) \in DOMAIN c
    BY <1>1, PlaceType
  <2>2. at(Place(c, p)) = p
    BY <1>2, <2>1, PlaceOfPosition
  <2> QED
    BY <1>1, <1>3, <2>1, <2>2
<1>6. ASSUME NEW k \in DOMAIN c
      PROVE  \E p \in DOMAIN c : Place(c, p) = k /\ InTaskOrder(c)[k] = c[p]
  BY <1>1, <1>2, <1>3
<1> QED
  BY <1>4, <1>5, <1>6

(***************************************************************************)
(* The result follows the order of the tasks.                              *)
(***************************************************************************)
LEMMA InTaskOrderSorted ==
  ASSUME NEW c \in Seq(Rollouts), NEW i \in DOMAIN c, NEW j \in DOMAIN c, i < j
  PROVE  TaskIdx(InTaskOrder(c)[i]) <= TaskIdx(InTaskOrder(c)[j])
<1>1. PICK p \in DOMAIN c : Place(c, p) = i /\ InTaskOrder(c)[i] = c[p]
  BY InTaskOrderType
<1>2. PICK q \in DOMAIN c : Place(c, q) = j /\ InTaskOrder(c)[j] = c[q]
  BY InTaskOrderType
<1>3. i \in Int /\ j \in Int /\ p # q
  BY <1>1, <1>2
<1>4. ~ Before(c, q, p)
  BY <1>1, <1>2, <1>3, PlaceOrder
<1>5. c[p] \in Rollouts /\ c[q] \in Rollouts
  OBVIOUS
<1>6. TaskIdx(c[p]) \in Int /\ TaskIdx(c[q]) \in Int
  BY <1>5, TaskIdxType DEF Rollouts
<1> QED
  BY <1>1, <1>2, <1>4, <1>6 DEF Before

(***************************************************************************)
(* So does the batch, whose rollouts of a task are neighbours.             *)
(***************************************************************************)
LEMMA BatchSorted ==
  ASSUME NEW i \in Rollouts, NEW j \in Rollouts, i <= j
  PROVE  TaskIdx(i) <= TaskIdx(j)
<1> DEFINE f == TaskIdx(j)
<1>1. /\ f \in Rollouts /\ TaskIds[f] = TaskIds[j]
      /\ TaskIdx(i) \in Rollouts /\ TaskIdx(i) <= i
  BY TaskIdxType
<1>2. TaskIds[i] = TaskIds[j] => TaskIdx(i) = f
  BY TaskIdxOfTask
<1>3. i \in Int /\ j \in Int /\ f \in Int /\ TaskIdx(i) \in Int
  BY <1>1 DEF Rollouts
<1>4. CASE i < f
  BY <1>1, <1>3, <1>4
<1>5. CASE f <= i
  <2>1. TaskIds[i] = TaskIds[f]
    BY <1>1, <1>5, TaskIdsAssumption DEF Contiguous
  <2> QED
    BY <1>1, <1>2, <1>3, <2>1
<1> QED
  BY <1>3, <1>4, <1>5

(***************************************************************************)
(* Each rollout collected once gives a result with each rollout once, at a *)
(* position of its task.                                                   *)
(***************************************************************************)
LEMMA InTaskOrderAligned ==
  ASSUME NEW c \in Seq(Rollouts), Distinct(c), Len(c) = Len(TaskIds)
  PROVE  /\ Len(InTaskOrder(c)) = Len(TaskIds)
         /\ \A r \in Rollouts : \E i \in Rollouts : InTaskOrder(c)[i] = r
         /\ \A i \in Rollouts : TaskIds[InTaskOrder(c)[i]] = TaskIds[i]
<1> DEFINE n == Len(TaskIds)
           res == InTaskOrder(c)
<1>1. n \in Nat /\ Rollouts = 1 .. n /\ DOMAIN c = 1 .. n
  BY FiniteHolders DEF Rollouts
<1>2. res \in Seq(1 .. n) /\ Len(res) = n
  BY <1>1, InTaskOrderType
<1>3. res \in [1 .. n -> 1 .. n]
  BY <1>2
<1>4. \A r \in 1 .. n : \E i \in 1 .. n : res[i] = r
  <2> TAKE r \in 1 .. n
  <2>1. Elements(c) = 1 .. n
    BY <1>1, DistinctCovers
  <2>2. PICK p \in 1 .. n : c[p] = r
    BY <2>1 DEF Elements
  <2>3. Place(c, p) \in 1 .. n /\ res[Place(c, p)] = r
    BY <1>1, <2>2, PlaceType, InTaskOrderType
  <2> QED
    BY <2>3
<1>5. \A i, j \in 1 .. n : i < j => TaskIdx(res[i]) <= TaskIdx(res[j])
  BY <1>1, InTaskOrderSorted
<1>6. \A k \in 1 .. n : TaskIdx(k) \in Int
  BY <1>1, TaskIdxType
<1> HIDE DEF res
<1>7. IsFiniteSet(1 .. n) /\ res \in Injection(1 .. n, 1 .. n)
  <2>1. IsFiniteSet(1 .. n)
    BY <1>1, FS_Interval
  <2>2. res \in Surjection(1 .. n, 1 .. n)
    BY <1>3, <1>4 DEF Surjection
  <2> QED
    BY <2>1, <2>2, FS_Surjection
<1>8. \A i \in 1 .. n : TaskIdx(res[i]) = TaskIdx(i)
  <2> DEFINE key == [k \in 1 .. n |-> TaskIdx(k)]
  <2>1. key \in [1 .. n -> Int]
    BY <1>6
  <2>2. \A i, j \in 1 .. n : i < j => key[i] <= key[j]
    BY <1>1, BatchSorted
  <2>3. \A i, j \in 1 .. n : i < j => key[res[i]] <= key[res[j]]
    BY <1>3, <1>5
  <2>4. IsInjective(res)
    BY <1>7 DEF Injection
  <2>5. \A i \in 1 .. n : key[res[i]] = key[i]
    <3> HIDE DEF key
    <3> QED
      BY <1>1, <1>3, <2>1, <2>2, <2>3, <2>4, SortedTwice
  <2> QED
    BY <1>3, <2>5
<1>9. \A k \in 1 .. n : TaskIds[res[k]] = TaskIds[k]
  BY <1>1, <1>3, <1>8, TaskIdxOfTask
<1> QED
  BY <1>1, <1>2, <1>4, <1>9 DEF res

(***************************************************************************)
(* A call returns when every rollout was collected: then none is under way *)
(* and no future is left over.                                             *)
(***************************************************************************)
LEMMA ReturnInv == IInv /\ Return => IInv'
<1> SUFFICES ASSUME IInv, Return PROVE IInv'
  OBVIOUS
<1>1. /\ episodes \in Seq(Rollouts) /\ Distinct(episodes) /\ Len(episodes) = Len(TaskIds)
      /\ done \in Seq(Rollouts)
  BY DEF IInv, TypeOK, Book, Return
<1>2. Elements(episodes) = Rollouts
  BY <1>1, DistinctCovers, FiniteHolders DEF Rollouts
<1>3. \A r \in Rollouts : future[r] = "returned"
  BY <1>2 DEF IInv, Book
<1>4. done = <<>>
  <2>1. Elements(done) = {}
    <3>1. Elements(done) \subseteq Rollouts
      BY <1>1 DEF Elements
    <3> QED
      BY <1>2, <3>1 DEF IInv, Book
  <2>2. Len(done) \in Nat
    BY <1>1
  <2>3. Len(done) > 0 => done[1] \in Elements(done)
    BY <2>2 DEF Elements
  <2>4. Len(done) = 0
    BY <2>1, <2>2, <2>3
  <2> QED
    BY <1>1, <2>4
<1>5. /\ UNCHANGED <<calls, is_validation, poolVars, done, episodes>>
      /\ call = "collecting" /\ call' = "idle"
      /\ rollout_engine' = [awake |-> FALSE, validate |-> FALSE]
      /\ results' = InTaskOrder(episodes)
  BY DEF Return
<1>6. results' \in Seq(Rollouts)
  BY <1>1, <1>5, InTaskOrderType
<1>7. TypeOK'
  BY <1>5, <1>6 DEF IInv, TypeOK, poolVars
<1>8. Pool'
  <2>1. Holders' = Holders /\ Free' = Free
    BY <1>5 DEF Holders, Free, poolVars
  <2> QED
    BY <1>5, <2>1 DEF IInv, Pool, Exclusive, poolVars
<1>9. Counted'
  <2>1. Holders' = Holders
    BY <1>5 DEF Holders, poolVars
  <2> QED
    BY <1>5, <2>1 DEF IInv, Counted, poolVars
<1>10. Book'
  BY <1>3, <1>4, <1>5 DEF IInv, Book, poolVars
<1>11. Mode'
  BY <1>5 DEF Mode
<1> QED
  BY <1>7, <1>8, <1>9, <1>10, <1>11 DEF IInv

(***************************************************************************)
(* Every step preserves the inductive invariant.                           *)
(***************************************************************************)
LEMMA StepInv == IInv /\ [Next]_vars => IInv'
<1> SUFFICES ASSUME IInv, [Next]_vars PROVE IInv'
  OBVIOUS
<1>1. CASE \E validate \in BOOLEAN : ExecuteTasks(validate)
  BY <1>1, ExecuteTasksInv
<1>2. CASE \E r \in Rollouts : GetWorkflow(r)
  BY <1>2, GetWorkflowInv
<1>3. CASE \E r \in Rollouts, o \in Outcomes : RolloutReturns(r, o)
  BY <1>3, RolloutReturnsInv
<1>4. CASE Collect
  BY <1>4, CollectInv
<1>5. CASE Return
  BY <1>5, ReturnInv
<1>6. CASE UNCHANGED vars
  <2>1. UNCHANGED <<callVars, poolVars, done, episodes>>
    BY <1>6 DEF vars
  <2>2. Holders' = Holders /\ Free' = Free
    BY <2>1 DEF poolVars, Holders, Free
  <2>3. TypeOK'
    BY <2>1 DEF IInv, TypeOK, callVars, poolVars
  <2>4. Pool' /\ Counted' /\ Book' /\ Mode'
    BY <2>1, <2>2 DEF IInv, Pool, Exclusive, Counted, Book, Mode, callVars, poolVars
  <2> QED
    BY <2>3, <2>4 DEF IInv
<1> QED
  BY <1>1, <1>2, <1>3, <1>4, <1>5, <1>6 DEF Next

(***************************************************************************)
(* The inductive invariant holds of every state of the engine.             *)
(***************************************************************************)
THEOREM EngineInductive == Spec => []IInv
<1>1. Init => IInv
  BY InitInv
<1>2. IInv /\ [Next]_vars => IInv'
  BY StepInv
<1> QED
  BY <1>1, <1>2, PTL DEF Spec

(***************************************************************************)
(* The state of the engine has its type, whatever the batch and the pool.  *)
(***************************************************************************)
THEOREM EngineTypeOK == Spec => []TypeOK
<1>1. IInv => TypeOK
  BY DEF IInv
<1> QED
  BY <1>1, EngineInductive, PTL

(***************************************************************************)
(* A workflow instance never runs two rollouts at a time, and is never     *)
(* queued while it runs one.                                               *)
(***************************************************************************)
THEOREM EngineExclusive == Spec => []Exclusive
<1>1. IInv => Exclusive
  BY DEF IInv, Pool
<1> QED
  BY <1>1, EngineInductive, PTL

(***************************************************************************)
(* No workflow is lost or made twice, and between calls all are free.      *)
(***************************************************************************)
THEOREM EnginePoolConserved == Spec => []PoolConserved
<1>1. IInv => PoolConserved
  <2> SUFFICES ASSUME IInv PROVE PoolConserved
    OBVIOUS
  <2>1. calls > 0 => Len(workflow_queue) + Cardinality(Holders) = PoolSize
    BY DEF IInv, Counted
  <2>2. ASSUME call = "idle", calls > 0 PROVE Free = Workflows
    <3>1. Cardinality(Holders) = 0
      BY <2>2, IdleHoldsNothing, FS_EmptySet
    <3>2. /\ workflow_queue \in Seq(1 .. PoolSize) /\ Distinct(workflow_queue)
          /\ Len(workflow_queue) \in Nat /\ PoolSize \in Nat
      BY LimitsAssumption DEF IInv, TypeOK, Pool, Workflows
    <3>3. Len(workflow_queue) = PoolSize
      BY <2>1, <2>2, <3>1, <3>2
    <3>4. Elements(workflow_queue) = 1 .. PoolSize
      BY <3>2, <3>3, DistinctCovers
    <3>5. Free = Elements(workflow_queue)
      BY <3>2 DEF Free, Elements
    <3> QED
      BY <3>4, <3>5 DEF Workflows
  <2> QED
    BY <2>1, <2>2 DEF PoolConserved
<1> QED
  BY <1>1, EngineInductive, PTL

(***************************************************************************)
(* A rollout runs on an engine that is awake, in the mode of its call.     *)
(***************************************************************************)
THEOREM EngineRunsInItsMode == Spec => []RunsInItsMode
<1>1. IInv => RunsInItsMode
  <2> SUFFICES ASSUME IInv, NEW r \in Rollouts, future[r] = "run"
               PROVE  rollout_engine = [awake |-> TRUE, validate |-> is_validation]
    BY DEF RunsInItsMode
  <2>1. call # "idle" /\ is_validation \in BOOLEAN
    BY DEF IInv, Book, TypeOK
  <2> QED
    BY <2>1 DEF IInv, Mode
<1> QED
  BY <1>1, EngineInductive, PTL

(***************************************************************************)
(* What a call returned lines up with its batch: each rollout once, at a   *)
(* position of its task, although the episodes come in as they finish.     *)
(***************************************************************************)
THEOREM EngineResultsAlign == Spec => []ResultsAlign
<1>1. Init => ResultsAlign
  BY DEF Init, ResultsAlign
<1>2. IInv /\ ResultsAlign /\ [Next]_vars => ResultsAlign'
  <2> SUFFICES ASSUME IInv, ResultsAlign, [Next]_vars, call' = "idle", calls' > 0
               PROVE  /\ Len(results') = Len(TaskIds)
                      /\ \A r \in Rollouts : \E i \in Rollouts : results'[i] = r
                      /\ \A i \in Rollouts : TaskIds[results'[i]] = TaskIds[i]
    BY DEF ResultsAlign
  <2>1. CASE Return
    <3>1. episodes \in Seq(Rollouts) /\ Distinct(episodes) /\ Len(episodes) = Len(TaskIds)
      BY <2>1 DEF IInv, TypeOK, Book, Return
    <3>2. results' = InTaskOrder(episodes)
      BY <2>1 DEF Return
    <3> QED
      BY <3>1, <3>2, InTaskOrderAligned
  <2>2. CASE UNCHANGED <<call, calls, results>>
    BY <2>2 DEF ResultsAlign
  <2>3. CASE \E validate \in BOOLEAN : ExecuteTasks(validate)
    BY <2>3 DEF ExecuteTasks
  <2>4. CASE \E r \in Rollouts : GetWorkflow(r)
    BY <2>2, <2>4 DEF GetWorkflow, callVars
  <2>5. CASE \E r \in Rollouts, o \in Outcomes : RolloutReturns(r, o)
    BY <2>2, <2>5 DEF RolloutReturns, callVars
  <2>6. CASE Collect
    <3>1. call = "collecting" /\ (call' = call \/ call' = "raised")
      BY <2>6 DEF Collect
    <3> QED
      BY <3>1
  <2>7. CASE UNCHANGED vars
    BY <2>2, <2>7 DEF vars, callVars
  <2> QED
    BY <2>1, <2>3, <2>4, <2>5, <2>6, <2>7 DEF Next
<1> QED
  BY <1>1, <1>2, EngineInductive, PTL DEF Spec

-----------------------------------------------------------------------------

(***************************************************************************)
(* A rollout that ends is decided, and only that one.                      *)
(***************************************************************************)
LEMMA EndDecides ==
  ASSUME IInv, NEW r \in Rollouts, NEW how \in {"returned", "failed"},
         future[r] = "run", End(r, how), UNCHANGED callVars
  PROVE  Batch!Decide(r)
<1>1. future \in [Rollouts -> Futures] /\ future' = [future EXCEPT ![r] = how]
  BY DEF IInv, TypeOK, End
<1>2. Verdict[r] = "pending" /\ Verdict' = [Verdict EXCEPT ![r] = how]
  BY <1>1 DEF Verdict
<1>3. call # "idle" /\ UNCHANGED <<call, calls, results>>
  BY DEF IInv, Book, callVars
<1> QED
  BY <1>2, <1>3 DEF Batch!Decide

(***************************************************************************)
(* The engine takes only steps the trainer's contract allows: a batch is   *)
(* returned when all of its rollouts have returned, in an order that       *)
(* follows its tasks, and an exception is that of a rollout that failed.   *)
(***************************************************************************)
THEOREM EngineKeepsContract == Spec => Batch!Safety
<1>1. Init => Batch!Init
  <2> SUFFICES ASSUME Init PROVE Batch!Init
    OBVIOUS
  <2>1. Verdict = [r \in Rollouts |-> "pending"]
    BY DEF Init, Verdict
  <2> QED
    BY <2>1 DEF Init, Batch!Init, Batch!Rollouts, Rollouts
<1>2. IInv /\ IInv' /\ [Next]_vars => [Batch!Next]_(Batch!batchVars)
  <2> SUFFICES ASSUME IInv, IInv', [Next]_vars
               PROVE  Batch!Next \/ UNCHANGED <<call, calls, Verdict, results>>
    BY DEF Batch!batchVars
  <2>0. future \in [Rollouts -> Futures] /\ Batch!Rollouts = Rollouts
    BY DEF IInv, TypeOK, Rollouts, Batch!Rollouts
  <2>1. CASE \E validate \in BOOLEAN : ExecuteTasks(validate)
    <3>1. /\ call = "idle" /\ calls < CallLimit /\ call' = "collecting"
          /\ calls' = calls + 1 /\ results' = results
          /\ future' = [r \in Rollouts |-> "get"]
      BY <2>1 DEF ExecuteTasks
    <3>2. Verdict' = [r \in Rollouts |-> "pending"]
      BY <3>1 DEF Verdict
    <3> QED
      BY <2>0, <3>1, <3>2 DEF Batch!Next, Batch!Submit
  <2>2. CASE \E r \in Rollouts : GetWorkflow(r)
    <3>1. PICK r \in Rollouts : GetWorkflow(r)
      BY <2>2
    <3>2. future[r] = "get" /\ future' = [future EXCEPT ![r] = "run"]
      BY <3>1 DEF GetWorkflow
    <3>3. Verdict' = Verdict
      BY <2>0, <3>2 DEF Verdict
    <3> QED
      BY <3>1, <3>3 DEF GetWorkflow, callVars
  <2>3. CASE \E r \in Rollouts, o \in Outcomes : RolloutReturns(r, o)
    <3>1. PICK r \in Rollouts, o \in Outcomes : RolloutReturns(r, o)
      BY <2>3
    <3>2. future[r] = "run" /\ UNCHANGED callVars
      BY <3>1 DEF RolloutReturns
    <3>3. CASE End(r, "returned") \/ End(r, "failed")
      <4>1. Batch!Decide(r)
        BY <3>2, <3>3, EndDecides
      <4> QED
        BY <2>0, <4>1 DEF Batch!Next
    <3>4. CASE Retry(r)
      <4>1. Verdict' = Verdict
        BY <3>4 DEF Retry, Verdict
      <4> QED
        BY <3>2, <4>1 DEF callVars
    <3> QED
      BY <3>1, <3>3, <3>4 DEF RolloutReturns
  <2>4. CASE Collect
    <3>1. /\ Head(done) \in Rollouts /\ UNCHANGED <<calls, results, future>>
          /\ call = "collecting"
      BY <2>4 DEF Collect, poolVars, IInv, TypeOK
    <3>2. Verdict' = Verdict
      BY <3>1 DEF Verdict
    <3>3. CASE future[Head(done)] = "failed" /\ call' = "raised"
      <4>1. Verdict[Head(done)] = "failed"
        BY <3>1, <3>3 DEF Verdict
      <4> QED
        BY <2>0, <3>1, <3>2, <3>3, <4>1 DEF Batch!Next, Batch!RaiseOne
    <3>4. CASE call' = call
      BY <3>1, <3>2, <3>4
    <3> QED
      BY <2>4, <3>3, <3>4 DEF Collect
  <2>5. CASE Return
    <3>1. episodes \in Seq(Rollouts) /\ Distinct(episodes) /\ Len(episodes) = Len(TaskIds)
      BY <2>5 DEF IInv, TypeOK, Book, Return
    <3>2. /\ results' = InTaskOrder(episodes) /\ UNCHANGED <<calls, future>>
          /\ call = "collecting" /\ call' = "idle"
      BY <2>5 DEF Return, poolVars
    <3>3. Elements(episodes) = Rollouts
      BY <3>1, DistinctCovers, FiniteHolders DEF Rollouts
    <3>4. \A r \in Rollouts : Verdict[r] = "returned"
      BY <3>3 DEF IInv, Book, Verdict
    <3>5. results' \in [Rollouts -> Rollouts]
      <4>1. results' \in Seq(Rollouts) /\ Len(results') = Len(TaskIds)
        BY <3>1, <3>2, InTaskOrderType
      <4> QED
        BY <4>1 DEF Rollouts
    <3>6. Batch!Aligned(results')
      BY <2>0, <3>1, <3>2, InTaskOrderAligned DEF Batch!Aligned
    <3>7. Verdict' = Verdict
      BY <3>2 DEF Verdict
    <3>8. Batch!ReturnBatch
      BY <2>0, <3>2, <3>4, <3>5, <3>6, <3>7 DEF Batch!ReturnBatch
    <3> QED
      BY <3>8 DEF Batch!Next
  <2>6. CASE UNCHANGED vars
    BY <2>6 DEF vars, callVars, poolVars, Verdict
  <2> QED
    BY <2>1, <2>2, <2>3, <2>4, <2>5, <2>6 DEF Next
<1> QED
  BY <1>1, <1>2, EngineInductive, PTL DEF Spec, Batch!Safety

(***************************************************************************)
(* A workflow that reports its errors as postprocess_episode does: then a  *)
(* rollout fails after the last of its attempts only.                      *)
(***************************************************************************)
THEOREM EngineRaisesAfterRetries ==
  ASSUME Outcomes \subseteq {"episode", "error_dict"}
  PROVE  Spec => []RaisesAfterRetries
<1>1. Init => RaisesAfterRetries
  BY DEF Init, RaisesAfterRetries
<1>2. IInv /\ RaisesAfterRetries /\ [Next]_vars => RaisesAfterRetries'
  <2> SUFFICES ASSUME IInv, RaisesAfterRetries, [Next]_vars,
                      NEW s \in Rollouts, future'[s] = "failed"
               PROVE  RaiseOnError /\ retry_attempt'[s] = RetryLimit
    BY DEF RaisesAfterRetries
  <2>0. /\ future \in [Rollouts -> Futures] /\ retry_attempt \in [Rollouts -> 0 .. RetryLimit]
        /\ RaiseOnError \in BOOLEAN
    BY OptionsAssumption DEF IInv, TypeOK
  <2>1. CASE \E validate \in BOOLEAN : ExecuteTasks(validate)
    BY <2>1 DEF ExecuteTasks
  <2>2. CASE UNCHANGED <<future, retry_attempt>>
    BY <2>2 DEF RaisesAfterRetries
  <2>3. CASE \E r \in Rollouts : GetWorkflow(r)
    BY <2>0, <2>3 DEF GetWorkflow, RaisesAfterRetries
  <2>4. CASE \E r \in Rollouts, o \in Outcomes : RolloutReturns(r, o)
    <3>1. PICK r \in Rollouts, o \in Outcomes : RolloutReturns(r, o)
      BY <2>4
    <3>2. o \in {"episode", "error_dict"}
      OBVIOUS
    <3>3. CASE End(r, "returned")
      BY <2>0, <3>3 DEF End, RaisesAfterRetries
    <3>4. CASE RaiseOnError /\ retry_attempt[r] = RetryLimit /\ End(r, "failed")
      BY <2>0, <3>4 DEF End, RaisesAfterRetries
    <3>5. CASE Retry(r)
      <4>1. future[r] = "run"
        BY <3>1 DEF RolloutReturns
      <4> QED
        BY <2>0, <3>5, <4>1 DEF Retry, RaisesAfterRetries
    <3> QED
      BY <2>0, <3>1, <3>2, <3>3, <3>4, <3>5 DEF RolloutReturns
  <2> QED
    BY <2>1, <2>2, <2>3, <2>4 DEF Next, Collect, Return, vars, poolVars
<1> QED
  BY <1>1, <1>2, EngineInductive, PTL DEF Spec

=============================================================================
