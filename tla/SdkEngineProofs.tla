--------------------------- MODULE SdkEngineProofs ---------------------------
(***************************************************************************)
(* The SDK engine, for every batch, every number of slots, rounds, retries *)
(* and calls, and every size of the tracer's queue.                        *)
(*                                                                         *)
(* A trace is known by its rollout and attempt, and a rollout that ended   *)
(* in the current round is the only one of its name: whatever an earlier   *)
(* round left running traces under another name.                           *)
(***************************************************************************)
EXTENDS SdkEngine, PositionsProofs

(***************************************************************************)
(* A rollout holds its attempt from the round that launches it on.         *)
(***************************************************************************)
Launched ==
  /\ phase = "pausing" => round < mode.rounds
  /\ phase # "pausing" => round >= 1
  /\ \A l \in Launches :
       /\ status[l] = "none" <=> l[1] > round
       /\ status[l] \in {"none", "waiting"} => attempt[l] = 0 /\ calls[l] = 0
       /\ status[l] \notin {"none", "waiting"} => attempt[l] >= 1

(***************************************************************************)
(* Every trace on its way or in the store was made by its rollout, in this *)
(* attempt or an earlier one.                                              *)
(***************************************************************************)
Known == ToSet(queue) \cup ({storing} \ {NoTrace}) \cup stored

Made(t) ==
  LET l == <<t.round, t.rollout>>
  IN  /\ t.attempt <= attempt[l]
      /\ t.attempt = attempt[l] => t.call <= calls[l]

Recorded == \A t \in Known : Made(t)

(***************************************************************************)
(* While the traces are read, the rollouts of the round have ended, and    *)
(* what was read of one are calls of its attempt, from the store.          *)
(***************************************************************************)
OwnCalls(r) == ToSet(CallTraces(Current(r)))

Reading ==
  /\ phase \in {"flushing", "collecting", "done"} =>
       \A r \in Rollouts : status[Current(r)] = "finished"
  /\ phase = "collecting" =>
       \A r \in read : ToSet(collected[r]) \subseteq OwnCalls(r) \cap stored

(***************************************************************************)
(* Episodes are reported once.                                             *)
(***************************************************************************)
Reported == phase # "done" => results = <<>>

IInv ==
  /\ TypeOK /\ Launched /\ Recorded /\ Reading /\ Reported
  /\ OwnSteps /\ FlushedIsSettled /\ EpisodesKeepTheirTask

-----------------------------------------------------------------------------

(***************************************************************************)
(* The rows of the batch, and the settings.                                *)
(***************************************************************************)
LEMMA BatchFacts ==
  /\ Len(Batch) \in Nat \ {0}
  /\ Rollouts = 1 .. Len(Batch)
  /\ Contiguous
  /\ NoTrace \notin Traces
<1>1. Batch \in Seq(ToSet(Batch)) /\ Batch # <<>> /\ Contiguous
  BY BatchAssumption
<1>2. Len(Batch) \in Nat \ {0} /\ Rollouts = 1 .. Len(Batch)
  BY <1>1 DEF Rollouts
<1>3. ASSUME NoTrace \in Traces PROVE FALSE
  <2>1. 1 .. Rounds \in SUBSET Nat /\ 1 .. mode.retry_limit \in SUBSET Nat /\ 1 .. mode.calls \in SUBSET Nat
    OBVIOUS
  <2>2. NoTrace \in [round : Nat, rollout : Rollouts, attempt : Nat, call : Nat]
    BY <1>3, <2>1 DEF Traces
  <2>. QED BY <2>2, NoTraceAssumption
<1>. QED BY <1>1, <1>2, <1>3

(* The numbers of a mode are naturals, as the assumptions say. *)
LEMMA ModeFacts ==
  ASSUME TypeOK
  PROVE  /\ mode.views \in BOOLEAN /\ mode.grouped \in BOOLEAN
         /\ mode.retry_limit \in Nat \ {0}
         /\ mode.rounds \in 1 .. Rounds /\ Rounds \in Nat
         /\ mode.calls \in Nat
<1>1. mode \in [views : BOOLEAN, grouped : BOOLEAN, retry_limit : Nat \ {0},
                rounds : 1 .. Rounds, calls : Nat]
  BY ModesAssumption DEF TypeOK
<1>. QED BY <1>1, LimitsAssumption

(***************************************************************************)
(* A known trace has a rollout.                                            *)
(***************************************************************************)
LEMMA KnownTraces ==
  ASSUME TypeOK
  PROVE  /\ Known \subseteq Traces
         /\ \A t \in Traces : <<t.round, t.rollout>> \in Launches
<1>1. ToSet(queue) \subseteq Traces
  BY DEF TypeOK, ToSet
<1>2. Known \subseteq Traces
  BY <1>1 DEF Known, TypeOK
<1>. QED BY <1>2 DEF Traces, Launches

(***************************************************************************)
(* The calls of the reported attempt of a rollout.                         *)
(***************************************************************************)
LEMMA OwnCallsMembers ==
  ASSUME TypeOK, Launched, NEW r \in Rollouts, round >= 1
  PROVE  /\ Current(r) \in Launches
         /\ OwnCalls(r) = {[round |-> round, rollout |-> r, attempt |-> attempt[Current(r)],
                            call |-> n] : n \in 1 .. calls[Current(r)]}
         /\ status[Current(r)] = "finished" => OwnCalls(r) \subseteq Traces
         /\ \A t \in Traces : t \in OwnCalls(r) <=>
              /\ t.round = round /\ t.rollout = r
              /\ t.attempt = attempt[Current(r)] /\ t.call <= calls[Current(r)]
<1>1. Current(r) \in Launches /\ round \in 1 .. Rounds
  BY DEF TypeOK, Current, Launches
<1>2. /\ attempt[Current(r)] \in 0 .. mode.retry_limit /\ calls[Current(r)] \in 0 .. mode.calls
      /\ mode.retry_limit \in Nat /\ mode.calls \in Nat
  BY <1>1, ModeFacts DEF TypeOK
<1>3. OwnCalls(r) = {[round |-> round, rollout |-> r, attempt |-> attempt[Current(r)],
                      call |-> n] : n \in 1 .. calls[Current(r)]}
  <2>1. Current(r)[1] = round /\ Current(r)[2] = r
    BY DEF Current
  <2>. QED BY <2>1 DEF OwnCalls, CallTraces, ToSet, Trace
<1>4. ASSUME status[Current(r)] = "finished" PROVE OwnCalls(r) \subseteq Traces
  <2>1. attempt[Current(r)] >= 1
    BY <1>1, <1>4 DEF Launched
  <2>2. \A n \in 1 .. calls[Current(r)] : n \in 1 .. mode.calls
    BY <1>2
  <2>. QED BY <1>1, <1>2, <1>3, <2>1, <2>2 DEF Traces
<1>5. ASSUME NEW t \in Traces
      PROVE  t \in OwnCalls(r) <=>
              /\ t.round = round /\ t.rollout = r
              /\ t.attempt = attempt[Current(r)] /\ t.call <= calls[Current(r)]
  <2>1. t = [round |-> t.round, rollout |-> t.rollout, attempt |-> t.attempt, call |-> t.call]
    BY DEF Traces
  <2>2. t.call \in 1 .. mode.calls
    BY DEF Traces
  <2>3. t.call <= calls[Current(r)] <=> t.call \in 1 .. calls[Current(r)]
    BY <1>2, <2>2
  <2>. QED BY <1>3, <2>1, <2>3
<1>. QED BY <1>1, <1>3, <1>4, <1>5

(***************************************************************************)
(* A new call of execute_tasks satisfies the invariant.                    *)
(***************************************************************************)
LEMMA InitEstablishes == Init => IInv
<1>. SUFFICES ASSUME Init PROVE IInv
  OBVIOUS
<1>1. TypeOK
  <2>1. mode \in [views : BOOLEAN, grouped : BOOLEAN, retry_limit : Nat \ {0},
                  rounds : 1 .. Rounds, calls : Nat]
    BY ModesAssumption DEF Init
  <2>2. 0 \in 0 .. Rounds /\ 0 \in 0 .. mode.retry_limit /\ 0 \in 0 .. mode.calls
        /\ 0 \in 0 .. StoreAttempts - 1
    BY <2>1, LimitsAssumption, StoreAssumption
  <2>3. <<>> \in Seq(Traces) /\ Len(<<>>) <= QueueSize
        /\ <<>> \in Seq([rollout : Rollouts, steps : Seq(Traces)])
    BY QueueAssumption
  <2>. QED BY <2>2, <2>3 DEF TypeOK, Init, StoreInit
<1>2. Launched
  <2>1. mode.rounds \in 1 .. Rounds /\ Rounds \in Nat
    BY <1>1, ModeFacts
  <2>. QED BY <2>1 DEF Init, Launched, Launches
<1>3. Recorded
  BY DEF Init, StoreInit, Recorded, Known, ToSet
<1>. QED BY <1>1, <1>2, <1>3
         DEF Init, IInv, Reading, Reported, OwnSteps, FlushedIsSettled, EpisodesKeepTheirTask

-----------------------------------------------------------------------------
(***************************************************************************)
(* Steps of the tracer and the proxy                                       *)
(***************************************************************************)

(***************************************************************************)
(* What a step makes of the known traces, when it only moves or loses them *)
(* on their way.                                                           *)
(***************************************************************************)
LEMMA StoreMoves ==
  ASSUME IInv, UNCHANGED <<engineVars, rolloutVars, mode>>,
         up' \in BOOLEAN, tries' \in 0 .. StoreAttempts - 1,
         queue' \in Seq(Traces), Len(queue') <= QueueSize, ToSet(queue') \subseteq ToSet(queue),
         storing' \in ToSet(queue) \cup {storing, NoTrace},
         stored \subseteq stored', stored' \subseteq stored \cup ({storing} \ {NoTrace})
  PROVE  IInv'
<1>1. /\ TypeOK /\ Launched /\ Recorded /\ Reading /\ Reported
      /\ OwnSteps /\ FlushedIsSettled /\ EpisodesKeepTheirTask
  BY DEF IInv
<1>2. /\ UNCHANGED <<phase, round, flushed, read, collected, results>>
      /\ UNCHANGED <<status, attempt, calls, mode>>
  BY DEF engineVars, rolloutVars
<1>3. ToSet(queue) \subseteq Traces
  BY <1>1 DEF TypeOK, ToSet
<1>4. Traces' = Traces
  BY <1>2 DEF Traces
<1>5. TypeOK'
  <2>1. storing' \in Traces \cup {NoTrace} /\ stored' \subseteq Traces
    BY <1>1, <1>3 DEF TypeOK
  <2>. QED BY <1>1, <1>2, <1>4, <2>1 DEF TypeOK
<1>6. Launched'
  BY <1>1, <1>2 DEF Launched
<1>7. Recorded'
  <2>1. Known' \subseteq Known
    BY DEF Known
  <2>. QED BY <1>1, <1>2, <2>1 DEF Recorded, Made
<1>8. \A r \in Rollouts : OwnCalls(r)' = OwnCalls(r) /\ Current(r)' = Current(r)
  BY <1>2 DEF OwnCalls, CallTraces, Trace, Current
<1>9. Reading'
  <2>1. \A r \in read : r \in Rollouts
    BY <1>1 DEF TypeOK
  <2>. QED BY <1>1, <1>2, <1>8, <2>1 DEF Reading
<1>10. OwnSteps'
  BY <1>1, <1>2 DEF OwnSteps, CallTraces, Trace, Current
<1>11. FlushedIsSettled'
  <2>. SUFFICES ASSUME phase' \in {"collecting", "done"}, flushed', NEW r \in Rollouts
                PROVE  OwnCalls(r)' \cap (ToSet(queue') \cup {storing'}) = {}
    BY DEF FlushedIsSettled, OwnCalls
  <2>1. OwnCalls(r) \cap (ToSet(queue) \cup {storing}) = {}
    BY <1>1, <1>2 DEF FlushedIsSettled, OwnCalls
  <2>2. round >= 1 /\ status[Current(r)] = "finished"
    BY <1>1, <1>2 DEF Launched, Reading
  <2>3. NoTrace \notin OwnCalls(r)
    BY <1>1, <2>2, OwnCallsMembers, BatchFacts
  <2>. QED BY <1>8, <2>1, <2>3
<1>12. EpisodesKeepTheirTask' /\ Reported'
  BY <1>1, <1>2 DEF EpisodesKeepTheirTask, Reported
<1>. QED BY <1>5, <1>6, <1>7, <1>9, <1>10, <1>11, <1>12 DEF IInv

(* The worker takes the oldest trace off the queue. *)
LEMMA TakeStep ==
  ASSUME IInv, Take, UNCHANGED <<engineVars, rolloutVars, mode>>
  PROVE  IInv'
<1>1. queue \in Seq(Traces) /\ queue # <<>> /\ Len(queue) <= QueueSize /\ QueueSize \in Nat
  BY QueueAssumption DEF IInv, TypeOK, Take
<1>2. /\ Tail(queue) \in Seq(Traces) /\ Len(Tail(queue)) = Len(queue) - 1 /\ Len(queue) \in Nat
      /\ \A i \in 1 .. Len(Tail(queue)) : Tail(queue)[i] = queue[i + 1]
      /\ Head(queue) = queue[1]
  BY <1>1
<1>3. ToSet(Tail(queue)) \subseteq ToSet(queue) /\ Head(queue) \in ToSet(queue)
  BY <1>1, <1>2 DEF ToSet
<1>. QED BY <1>1, <1>2, <1>3, StoreMoves DEF Take, IInv, TypeOK

(* A trace that is stored is settled. *)
LEMMA StoreSucceedsStep ==
  ASSUME IInv, StoreSucceeds, UNCHANGED <<engineVars, rolloutVars, mode>>
  PROVE  IInv'
BY StoreMoves, StoreAssumption DEF StoreSucceeds, IInv, TypeOK

(* A trace is tried again or given up. *)
LEMMA StoreFailsStep ==
  ASSUME IInv, NEW committed \in BOOLEAN, StoreFails(committed),
         UNCHANGED <<engineVars, rolloutVars, mode>>
  PROVE  IInv'
<1>1. tries' \in 0 .. StoreAttempts - 1 /\ storing' \in {storing, NoTrace}
  BY StoreAssumption DEF StoreFails, IInv, TypeOK
<1>2. stored \subseteq stored' /\ stored' \subseteq stored \cup ({storing} \ {NoTrace})
  BY DEF StoreFails
<1>. QED BY <1>1, <1>2, StoreMoves DEF StoreFails, IInv, TypeOK

(* The end of the proxy loses what was not stored. *)
LEMMA DieStep ==
  ASSUME IInv, Die, UNCHANGED <<engineVars, rolloutVars, mode>>
  PROVE  IInv'
<1>1. /\ <<>> \in Seq(Traces) /\ Len(<<>>) <= QueueSize /\ ToSet(<<>>) = {}
      /\ 0 \in 0 .. StoreAttempts - 1
  BY QueueAssumption, StoreAssumption DEF ToSet
<1>. QED BY <1>1, StoreMoves DEF Die, IInv, TypeOK

-----------------------------------------------------------------------------
(***************************************************************************)
(* Steps of a rollout                                                      *)
(***************************************************************************)

(***************************************************************************)
(* A rollout that has not ended steps, into a later attempt or to a later  *)
(* call of this one, and traces at most calls of its own.                  *)
(***************************************************************************)
RolloutMove(l) ==
  /\ UNCHANGED <<engineVars, mode>> /\ UNCHANGED <<up, storing, tries, stored>>
  /\ status[l] \in {"waiting", "running"}
  /\ status' \in [Launches -> {"none", "waiting", "running", "finished", "raised"}]
  /\ attempt' \in [Launches -> 0 .. mode.retry_limit]
  /\ calls' \in [Launches -> 0 .. mode.calls]
  /\ \A k \in Launches \ {l} :
       status'[k] = status[k] /\ attempt'[k] = attempt[k] /\ calls'[k] = calls[k]
  /\ status'[l] \in {"running", "finished", "raised"} /\ attempt'[l] >= 1
  /\ \/ attempt'[l] > attempt[l]
     \/ attempt'[l] = attempt[l] /\ calls'[l] >= calls[l]
  /\ queue' \in Seq(Traces) /\ Len(queue') <= QueueSize
  /\ \A t \in ToSet(queue') \ ToSet(queue) :
       <<t.round, t.rollout>> = l /\ t.attempt = attempt'[l] /\ t.call <= calls'[l]

(* A step that moves one rollout, as RolloutMove says, keeps the invariant. *)
LEMMA RolloutMoves ==
  ASSUME IInv, Executing, NEW l \in Launches, RolloutMove(l)
  PROVE  IInv'
<1>1. /\ TypeOK /\ Launched /\ Recorded /\ Reading /\ Reported /\ FlushedIsSettled
  BY DEF IInv
<1>2. /\ UNCHANGED <<phase, round, flushed, read, collected, results, mode>>
      /\ phase # "done" /\ phase # "raised"
  BY DEF engineVars, Executing, RolloutMove
<1>3. Traces' = Traces
  BY <1>2 DEF Traces
<1>4. TypeOK'
  BY <1>1, <1>2, <1>3 DEF TypeOK, RolloutMove
<1>5. Launched'
  <2>1. status[l] # "none" /\ status'[l] \notin {"none", "waiting"}
    BY DEF RolloutMove
  <2>2. ASSUME NEW k \in Launches
        PROVE  /\ status'[k] = "none" <=> k[1] > round
               /\ status'[k] \in {"none", "waiting"} => attempt'[k] = 0 /\ calls'[k] = 0
               /\ status'[k] \notin {"none", "waiting"} => attempt'[k] >= 1
    <3>1. CASE k = l
      BY <1>1, <2>1, <3>1 DEF Launched, RolloutMove
    <3>2. CASE k # l
      BY <1>1, <3>2 DEF Launched, RolloutMove
    <3>. QED BY <3>1, <3>2
  <2>. QED BY <1>1, <1>2, <2>2 DEF Launched
<1>6. Recorded'
  <2>. SUFFICES ASSUME NEW t \in Known' PROVE Made(t)'
    BY DEF Recorded
  <2> DEFINE k == <<t.round, t.rollout>>
  <2>0. t \in Traces
    BY <1>3, <1>4 DEF TypeOK, Known, ToSet
  <2>1. k \in Launches
    BY <2>0 DEF Traces, Launches
  <2>2. \A j \in Launches : attempt[j] \in Int /\ calls[j] \in Int /\ attempt'[j] \in Int /\ calls'[j] \in Int
    <3>1. mode.retry_limit \in Nat /\ mode.calls \in Nat
      BY <1>1, ModeFacts
    <3>. QED BY <1>1, <3>1 DEF TypeOK, RolloutMove
  <2>3. t.attempt \in Int /\ t.call \in Int
    BY <2>0 DEF Traces
  <2>4. CASE t \in Known
    <3>1. t.attempt <= attempt[k] /\ (t.attempt = attempt[k] => t.call <= calls[k])
      BY <1>1, <2>4 DEF Recorded, Made
    <3>2. CASE k = l
      BY <2>1, <2>2, <2>3, <3>1, <3>2 DEF Made, RolloutMove
    <3>3. CASE k # l
      BY <2>1, <3>1, <3>3 DEF Made, RolloutMove
    <3>. QED BY <3>2, <3>3
  <2>5. CASE t \notin Known
    <3>1. t \in ToSet(queue') \ ToSet(queue)
      BY <2>5 DEF Known, RolloutMove
    <3>2. k = l /\ t.attempt = attempt'[k] /\ t.call <= calls'[k]
      BY <3>1 DEF RolloutMove
    <3>. QED BY <2>1, <2>2, <2>3, <3>2 DEF Made
  <2>. QED BY <2>4, <2>5
<1>7. ASSUME phase \in {"flushing", "collecting"}, NEW r \in Rollouts
      PROVE  /\ Current(r) \in Launches \ {l} /\ Current(r)' = Current(r)
             /\ status'[Current(r)] = "finished"
             /\ OwnCalls(r)' = OwnCalls(r) /\ OwnCalls(r) \subseteq Traces
             /\ \A t \in OwnCalls(r) : <<t.round, t.rollout>> # l
  <2>1. status[Current(r)] = "finished" /\ round >= 1
    BY <1>1, <1>7 DEF Reading, Launched
  <2>2. Current(r) \in Launches /\ Current(r) # l
    BY <1>1, <2>1, OwnCallsMembers DEF RolloutMove
  <2>3. Current(r)' = Current(r)
    BY <1>2 DEF Current
  <2>4. status'[Current(r)] = "finished" /\ attempt'[Current(r)] = attempt[Current(r)]
        /\ calls'[Current(r)] = calls[Current(r)]
    BY <2>1, <2>2 DEF RolloutMove
  <2>5. OwnCalls(r)' = OwnCalls(r)
    BY <2>3, <2>4 DEF OwnCalls, CallTraces, Trace
  <2>6. OwnCalls(r) \subseteq Traces
    BY <1>1, <2>1, OwnCallsMembers
  <2>7. \A t \in OwnCalls(r) : <<t.round, t.rollout>> # l
    BY <1>1, <2>1, <2>2, <2>6, OwnCallsMembers DEF Current
  <2>. QED BY <2>2, <2>3, <2>4, <2>5, <2>6, <2>7
<1>8. Reading'
  <2>1. \A r \in read : r \in Rollouts
    BY <1>1 DEF TypeOK
  <2>. QED BY <1>1, <1>2, <1>7, <2>1 DEF Reading, RolloutMove
<1>9. FlushedIsSettled'
  <2>. SUFFICES ASSUME phase' \in {"collecting", "done"}, flushed', NEW r \in Rollouts
                PROVE  OwnCalls(r)' \cap (ToSet(queue') \cup {storing'}) = {}
    BY DEF FlushedIsSettled, OwnCalls
  <2>1. phase = "collecting" /\ flushed
    BY <1>2
  <2>2. OwnCalls(r) \cap (ToSet(queue) \cup {storing}) = {}
    BY <1>1, <2>1 DEF FlushedIsSettled, OwnCalls
  <2>3. ToSet(queue') \cup {storing'} \subseteq
          ToSet(queue) \cup {storing} \cup {t \in ToSet(queue') : <<t.round, t.rollout>> = l}
    BY DEF RolloutMove
  <2>. QED BY <1>7, <2>1, <2>2, <2>3
<1>10. OwnSteps' /\ EpisodesKeepTheirTask' /\ Reported'
  <2>1. results' = <<>> /\ phase' # "done"
    BY <1>1, <1>2 DEF Reported
  <2>. QED BY <2>1 DEF OwnSteps, EpisodesKeepTheirTask, Reported
<1>. QED BY <1>4, <1>5, <1>6, <1>8, <1>9, <1>10 DEF IInv

(* A rollout gets a slot. *)
LEMMA AcquireStep ==
  ASSUME IInv, Executing, NEW l \in Launches, Acquire(l)
  PROVE  IInv'
<1>1. TypeOK /\ mode.retry_limit \in Nat \ {0} /\ attempt[l] = 0 /\ UNCHANGED <<storeVars, engineVars, calls, mode>>
  BY ModeFacts DEF IInv, Launched, Acquire
<1>2. /\ status' = [status EXCEPT ![l] = "running"] /\ attempt' = [attempt EXCEPT ![l] = 1]
      /\ status[l] = "waiting"
  BY DEF Acquire
<1>3. /\ status' \in [Launches -> {"none", "waiting", "running", "finished", "raised"}]
      /\ attempt' \in [Launches -> 0 .. mode.retry_limit]
      /\ status'[l] = "running" /\ attempt'[l] = 1
      /\ \A k \in Launches \ {l} : status'[k] = status[k] /\ attempt'[k] = attempt[k]
  BY <1>1, <1>2 DEF TypeOK
<1>9. RolloutMove(l)
  BY <1>1, <1>2, <1>3 DEF RolloutMove, storeVars, TypeOK
<1>. QED BY <1>9, RolloutMoves

(* A call of the model leaves its trace, or the queue is full. *)
LEMMA CallStep ==
  ASSUME IInv, Executing, NEW l \in Launches, Call(l)
  PROVE  IInv'
<1>1. /\ TypeOK /\ mode.retry_limit \in Nat \ {0} /\ mode.calls \in Nat /\ attempt[l] >= 1
      /\ UNCHANGED <<engineVars, status, attempt, mode>> /\ UNCHANGED <<up, storing, tries, stored>>
      /\ status[l] = "running" /\ calls[l] < mode.calls
  BY ModeFacts DEF IInv, Launched, Call, Log
<1>2. /\ calls' = [calls EXCEPT ![l] = calls[l] + 1]
      /\ attempt[l] \in 0 .. mode.retry_limit /\ calls[l] \in 0 .. mode.calls
  BY <1>1 DEF Call, TypeOK
<1>3. /\ calls' \in [Launches -> 0 .. mode.calls] /\ calls'[l] = calls[l] + 1
      /\ \A k \in Launches \ {l} : calls'[k] = calls[k]
  BY <1>1, <1>2 DEF TypeOK
<1> DEFINE t == Trace(l, calls[l] + 1)
<1>4. /\ t \in Traces /\ <<t.round, t.rollout>> = l
      /\ t.attempt = attempt[l] /\ t.call = calls[l] + 1
  <2>1. l[1] \in 1 .. Rounds /\ l[2] \in Rollouts /\ <<l[1], l[2]>> = l
    BY DEF Launches
  <2>2. attempt[l] \in 1 .. mode.retry_limit /\ calls[l] + 1 \in 1 .. mode.calls
    BY <1>1, <1>2
  <2>. QED BY <2>1, <2>2 DEF Trace, Traces
<1>5. queue' = IF Len(queue) < QueueSize THEN Append(queue, t) ELSE queue
  BY DEF Call, Log
<1> HIDE DEF t
<1>6. /\ queue' \in Seq(Traces) /\ Len(queue') <= QueueSize
      /\ ToSet(queue') \subseteq ToSet(queue) \cup {t}
  <2>1. queue \in Seq(Traces) /\ Len(queue) <= QueueSize /\ QueueSize \in Nat
    BY <1>1, QueueAssumption DEF TypeOK
  <2>2. CASE Len(queue) < QueueSize
    <3>1. queue' = Append(queue, t)
      BY <1>5, <2>2
    <3>2. /\ queue' \in Seq(Traces) /\ Len(queue') = Len(queue) + 1
          /\ \A i \in 1 .. Len(queue) : queue'[i] = queue[i]
          /\ queue'[Len(queue) + 1] = t /\ Len(queue) \in Nat
      BY <1>4, <2>1, <3>1
    <3>3. \A i \in DOMAIN queue' : i \in 1 .. Len(queue) \/ i = Len(queue) + 1
      BY <3>2
    <3>4. ToSet(queue') \subseteq ToSet(queue) \cup {t}
      BY <2>1, <3>2, <3>3 DEF ToSet
    <3>. QED BY <2>1, <2>2, <3>2, <3>4
  <2>3. CASE ~ (Len(queue) < QueueSize)
    BY <1>5, <2>1, <2>3
  <2>. QED BY <2>2, <2>3
<1>7. \A u \in ToSet(queue') \ ToSet(queue) :
         <<u.round, u.rollout>> = l /\ u.attempt = attempt'[l] /\ u.call <= calls'[l]
  BY <1>1, <1>2, <1>3, <1>4, <1>6
<1>9. RolloutMove(l)
  BY <1>1, <1>2, <1>3, <1>6, <1>7 DEF RolloutMove, TypeOK
<1>. QED BY <1>9, RolloutMoves

(* An attempt ends with the calls it counted. *)
LEMMA AttemptEndsStep ==
  ASSUME IInv, Executing, NEW l \in Launches, AttemptEnds(l)
  PROVE  IInv'
<1>1. /\ TypeOK /\ mode.retry_limit \in Nat \ {0} /\ mode.calls \in Nat /\ attempt[l] >= 1
      /\ UNCHANGED <<storeVars, engineVars, attempt, calls, mode>>
      /\ status[l] = "running" /\ status' = [status EXCEPT ![l] = "finished"]
  BY ModeFacts DEF IInv, Launched, AttemptEnds
<1>2. /\ status' \in [Launches -> {"none", "waiting", "running", "finished", "raised"}]
      /\ status'[l] = "finished" /\ \A k \in Launches \ {l} : status'[k] = status[k]
      /\ calls[l] \in Nat
  BY <1>1 DEF TypeOK
<1>9. RolloutMove(l)
  BY <1>1, <1>2 DEF RolloutMove, storeVars, TypeOK
<1>. QED BY <1>9, RolloutMoves

(* A failed attempt is followed by another under a new name, or by the error. *)
LEMMA AttemptFailsStep ==
  ASSUME IInv, Executing, NEW l \in Launches, AttemptFails(l)
  PROVE  IInv'
<1>1. /\ TypeOK /\ mode.retry_limit \in Nat \ {0} /\ mode.calls \in Nat /\ attempt[l] >= 1
      /\ UNCHANGED <<storeVars, engineVars, mode>> /\ status[l] = "running"
      /\ attempt[l] \in 0 .. mode.retry_limit /\ calls[l] \in 0 .. mode.calls
  BY ModeFacts DEF IInv, Launched, AttemptFails, TypeOK
<1>2. CASE attempt[l] < mode.retry_limit
  <2>1. /\ attempt' = [attempt EXCEPT ![l] = attempt[l] + 1] /\ calls' = [calls EXCEPT ![l] = 0]
        /\ status' = status
    BY <1>2 DEF AttemptFails
  <2>2. /\ attempt' \in [Launches -> 0 .. mode.retry_limit] /\ calls' \in [Launches -> 0 .. mode.calls]
        /\ attempt'[l] = attempt[l] + 1
        /\ \A k \in Launches \ {l} : attempt'[k] = attempt[k] /\ calls'[k] = calls[k]
    BY <1>1, <1>2, <2>1 DEF TypeOK
  <2>5. RolloutMove(l)
    BY <1>1, <2>1, <2>2 DEF RolloutMove, storeVars, TypeOK
  <2>. QED BY <2>5, RolloutMoves
<1>3. CASE ~ (attempt[l] < mode.retry_limit)
  <2>1. status' = [status EXCEPT ![l] = "raised"] /\ UNCHANGED <<attempt, calls>>
    BY <1>3 DEF AttemptFails
  <2>2. /\ status' \in [Launches -> {"none", "waiting", "running", "finished", "raised"}]
        /\ status'[l] = "raised" /\ \A k \in Launches \ {l} : status'[k] = status[k]
    BY <1>1, <2>1 DEF TypeOK
  <2>3. /\ attempt' \in [Launches -> 0 .. mode.retry_limit] /\ calls' \in [Launches -> 0 .. mode.calls]
        /\ \A k \in Launches : attempt'[k] = attempt[k] /\ calls'[k] = calls[k]
        /\ attempt'[l] >= 1 /\ calls'[l] >= calls[l]
    BY <1>1, <2>1 DEF TypeOK
  <2>4. /\ queue' = queue /\ queue \in Seq(Traces) /\ Len(queue) <= QueueSize
        /\ UNCHANGED <<up, storing, tries, stored>>
    BY <1>1 DEF storeVars, TypeOK
  <2>5. RolloutMove(l)
    BY <1>1, <2>2, <2>3, <2>4 DEF RolloutMove
  <2>. QED BY <2>5, RolloutMoves
<1>. QED BY <1>2, <1>3

(* A refused list ends its rollout, whatever attempts are left. *)
LEMMA ListRefusedStep ==
  ASSUME IInv, Executing, NEW l \in Launches, ListRefused(l)
  PROVE  IInv'
<1>1. /\ TypeOK /\ mode.retry_limit \in Nat \ {0} /\ mode.calls \in Nat /\ attempt[l] >= 1
      /\ UNCHANGED <<storeVars, engineVars, attempt, calls, mode>>
      /\ status[l] = "running" /\ status' = [status EXCEPT ![l] = "raised"]
  BY ModeFacts DEF IInv, Launched, ListRefused
<1>2. /\ status' \in [Launches -> {"none", "waiting", "running", "finished", "raised"}]
      /\ status'[l] = "raised" /\ \A k \in Launches \ {l} : status'[k] = status[k]
      /\ calls[l] \in Nat
  BY <1>1 DEF TypeOK
<1>3. RolloutMove(l)
  BY <1>1, <1>2 DEF RolloutMove, storeVars, TypeOK
<1>. QED BY <1>3, RolloutMoves

-----------------------------------------------------------------------------
(***************************************************************************)
(* Steps of the engine                                                     *)
(***************************************************************************)

(***************************************************************************)
(* A step of the engine that moves no trace and no rollout.                *)
(***************************************************************************)
LEMMA EngineMoves ==
  ASSUME TypeOK, Recorded, UNCHANGED <<storeVars, attempt, calls, mode>>
  PROVE  /\ Traces' = Traces /\ Recorded'
         /\ UNCHANGED <<up, queue, storing, tries, stored>>
<1>1. UNCHANGED <<up, queue, storing, tries, stored>>
  BY DEF storeVars
<1>2. Traces' = Traces
  BY DEF Traces
<1>3. Known' = Known
  BY <1>1 DEF Known
<1>. QED BY <1>1, <1>2, <1>3 DEF Recorded, Made

(* A round starts its rollouts afresh. *)
LEMMA LaunchStep ==
  ASSUME IInv, Launch
  PROVE  IInv'
<1>1. /\ TypeOK /\ Launched /\ Recorded /\ Reported
      /\ phase = "pausing" /\ phase' = "rolling" /\ round' = round + 1
      /\ status' = [l \in Launches |-> IF l[1] = round + 1 THEN "waiting" ELSE status[l]]
      /\ UNCHANGED <<storeVars, flushed, read, collected, results, attempt, calls, mode>>
  BY DEF IInv, Launch
<1>2. round \in Nat /\ round + 1 \in 1 .. Rounds
  BY <1>1, ModeFacts DEF TypeOK, Launched
<1>3. Traces' = Traces /\ Recorded' /\ UNCHANGED <<up, queue, storing, tries, stored>>
  BY <1>1, EngineMoves
<1>4. TypeOK'
  BY <1>1, <1>2, <1>3 DEF TypeOK
<1>5. Launched'
  <2>. SUFFICES ASSUME NEW l \in Launches
                PROVE  /\ status'[l] = "none" <=> l[1] > round'
                       /\ status'[l] \in {"none", "waiting"} => attempt'[l] = 0 /\ calls'[l] = 0
                       /\ status'[l] \notin {"none", "waiting"} => attempt'[l] >= 1
    BY <1>1, <1>2 DEF Launched
  <2>1. l[1] \in Int
    BY DEF Launches
  <2>2. CASE l[1] = round + 1
    <3>1. status[l] = "none"
      BY <1>1, <1>2, <2>2 DEF Launched
    <3>. QED BY <1>1, <1>2, <2>1, <2>2, <3>1 DEF Launched
  <2>3. CASE l[1] # round + 1
    BY <1>1, <1>2, <2>1, <2>3 DEF Launched
  <2>. QED BY <2>2, <2>3
<1>. QED BY <1>1, <1>3, <1>4, <1>5
         DEF IInv, Reading, Reported, OwnSteps, FlushedIsSettled, EpisodesKeepTheirTask

(***************************************************************************)
(* Giving the round up leaves a round to come, or none.                    *)
(***************************************************************************)
LEMMA GiveUpStep ==
  ASSUME IInv, phase \in {"rolling", "collecting"}, GiveUpRound,
         UNCHANGED <<storeVars, round, flushed, read, collected, results, rolloutVars, mode>>
  PROVE  IInv'
<1>1. /\ TypeOK /\ Launched /\ Recorded /\ Reported
      /\ UNCHANGED <<storeVars, round, flushed, read, collected, results, status, attempt, calls, mode>>
  BY DEF IInv, rolloutVars
<1>2. /\ Traces' = Traces /\ Recorded' /\ UNCHANGED <<up, queue, storing, tries, stored>>
      /\ results' = <<>>
  BY <1>1, EngineMoves DEF Reported
<1>3. phase' \in {"pausing", "raised"} /\ (phase' = "pausing" => round < mode.rounds)
  BY DEF GiveUpRound
<1>4. TypeOK' /\ Launched'
  BY <1>1, <1>2, <1>3 DEF TypeOK, Launched
<1>. QED BY <1>1, <1>2, <1>3, <1>4
         DEF IInv, Reading, Reported, OwnSteps, FlushedIsSettled, EpisodesKeepTheirTask

(* A round that is given up leaves its rollouts running. *)
LEMMA RolloutRaisedStep ==
  ASSUME IInv, RolloutRaised
  PROVE  IInv'
BY GiveUpStep DEF RolloutRaised

(* So does a reading that raises, of a round whose rollouts have ended. *)
LEMMA ReadFailsStep ==
  ASSUME IInv, ReadFails
  PROVE  IInv'
BY GiveUpStep DEF ReadFails

(* When all rollouts have ended, the flush is asked for. *)
LEMMA AllFinishedStep ==
  ASSUME IInv, AllFinished
  PROVE  IInv'
<1>1. /\ TypeOK /\ Launched /\ Recorded /\ Reported /\ phase = "rolling" /\ phase' = "flushing"
      /\ \A r \in Rollouts : status[Current(r)] = "finished"
      /\ UNCHANGED <<storeVars, round, flushed, read, collected, results, status, attempt, calls, mode>>
  BY DEF IInv, AllFinished, rolloutVars
<1>2. /\ Traces' = Traces /\ Recorded' /\ UNCHANGED <<up, queue, storing, tries, stored>>
      /\ results' = <<>>
  BY <1>1, EngineMoves DEF Reported
<1>3. TypeOK' /\ Launched'
  BY <1>1, <1>2 DEF TypeOK, Launched
<1>4. Reading'
  BY <1>1 DEF Reading, Current
<1>. QED BY <1>1, <1>2, <1>3, <1>4
         DEF IInv, Reported, OwnSteps, FlushedIsSettled, EpisodesKeepTheirTask

(***************************************************************************)
(* The answer to the flush means that nothing is on its way.               *)
(***************************************************************************)
LEMMA FlushReturnsStep ==
  ASSUME IInv, NEW ok \in BOOLEAN, FlushReturns(ok)
  PROVE  IInv'
<1>1. /\ TypeOK /\ Launched /\ Recorded /\ Reported /\ Reading
      /\ phase = "flushing" /\ phase' = "collecting" /\ read' = {} /\ flushed' = ok
      /\ ok => queue = <<>> /\ storing = NoTrace
      /\ UNCHANGED <<storeVars, round, collected, results, status, attempt, calls, mode>>
  BY DEF IInv, FlushReturns, Flushed, rolloutVars
<1>2. /\ Traces' = Traces /\ Recorded' /\ UNCHANGED <<up, queue, storing, tries, stored>>
      /\ results' = <<>>
  BY <1>1, EngineMoves DEF Reported
<1>3. TypeOK' /\ Launched'
  BY <1>1, <1>2 DEF TypeOK, Launched
<1>4. Reading'
  BY <1>1 DEF Reading, Current
<1>5. FlushedIsSettled'
  <2>. SUFFICES ASSUME flushed', NEW r \in Rollouts
                PROVE  OwnCalls(r)' \cap (ToSet(queue') \cup {storing'}) = {}
    BY DEF FlushedIsSettled, OwnCalls
  <2>1. ToSet(queue') \cup {storing'} = {NoTrace}
    BY <1>1, <1>2 DEF ToSet
  <2>2. NoTrace \notin OwnCalls(r)
    <3>1. status[Current(r)] = "finished" /\ round >= 1
      BY <1>1 DEF Reading, Launched
    <3>. QED BY <1>1, <3>1, OwnCallsMembers, BatchFacts
  <2>3. OwnCalls(r)' = OwnCalls(r)
    BY <1>1 DEF OwnCalls, CallTraces, Trace, Current
  <2>. QED BY <2>1, <2>2, <2>3
<1>. QED BY <1>1, <1>2, <1>3, <1>4, <1>5
         DEF IInv, Reported, OwnSteps, EpisodesKeepTheirTask

(***************************************************************************)
(* A session lists traces it was asked for, and no other.                  *)
(***************************************************************************)
LEMMA NewestFirstFacts ==
  ASSUME NEW traces, NEW n \in Nat, \A t \in traces : t.call \in 1 .. n
  PROVE  NewestFirst(traces) \in Seq(traces)
<1> DEFINE made == {t.call : t \in traces}
           k    == Cardinality(made)
<1>1. made \in SUBSET (1 .. n)
  OBVIOUS
<1>2. IsFiniteSet(made) /\ k \in Nat /\ made \in SUBSET Int
  <2>1. IsFiniteSet(1 .. n)
    BY FS_Interval
  <2>2. IsFiniteSet(made)
    BY <1>1, <2>1, FS_Subset
  <2>. QED BY <1>1, <2>2, FS_CardinalityType
<1>3. NewestFirst(traces) = [i \in 1 .. k |-> CHOOSE t \in traces : t.call = Nth(made, k + 1 - i)]
  BY DEF NewestFirst
<1>4. ASSUME NEW i \in 1 .. k
      PROVE  (CHOOSE t \in traces : t.call = Nth(made, k + 1 - i)) \in traces
  <2>1. k + 1 - i \in 1 .. k
    BY <1>2
  <2>2. Nth(made, k + 1 - i) \in made
    <3> HIDE DEF made
    <3>. QED BY <1>2, <2>1, NthFacts
  <2>3. \E t \in traces : t.call = Nth(made, k + 1 - i)
    BY <2>2
  <2>. QED BY <2>3
<1> HIDE DEF k, made
<1>5. NewestFirst(traces) \in [1 .. k -> traces]
  BY <1>3, <1>4
<1>. QED BY <1>2, <1>5

(* The sessions are read after the flush. *)
LEMMA CollectStep ==
  ASSUME IInv, NEW r \in Rollouts, Collect(r)
  PROVE  IInv'
<1>1. /\ TypeOK /\ Launched /\ Recorded /\ Reported /\ Reading /\ FlushedIsSettled
      /\ phase = "collecting" /\ phase' = "collecting" /\ read' = read \cup {r}
      /\ collected' = [collected EXCEPT ![r] = TracesOf(Current(r))]
      /\ UNCHANGED <<storeVars, round, flushed, results, status, attempt, calls, mode>>
  BY DEF IInv, Collect, rolloutVars
<1>2. /\ Traces' = Traces /\ Recorded' /\ UNCHANGED <<up, queue, storing, tries, stored>>
      /\ results' = <<>>
  BY <1>1, EngineMoves DEF Reported
<1> DEFINE own == {t \in stored : /\ t.round = Current(r)[1] /\ t.rollout = Current(r)[2]
                                  /\ t.attempt = attempt[Current(r)]}
<1>3. own \subseteq OwnCalls(r) \cap stored /\ own \subseteq Traces
  <2>. SUFFICES ASSUME NEW t \in own PROVE t \in OwnCalls(r) /\ t \in Traces
    OBVIOUS
  <2>1. t \in Traces /\ t \in Known
    BY <1>1 DEF TypeOK, Known
  <2>2. t.round = round /\ t.rollout = r /\ t.attempt = attempt[Current(r)]
    BY DEF Current
  <2>3. t.call <= calls[Current(r)]
    BY <1>1, <2>1, <2>2 DEF Recorded, Made, Current
  <2>. QED BY <1>1, <2>1, <2>2, <2>3, OwnCallsMembers DEF Launched
<1>4. TracesOf(Current(r)) \in Seq(own)
  <2>1. mode.calls \in Nat /\ \A t \in own : t.call \in 1 .. mode.calls
    BY <1>1, <1>3, ModeFacts DEF Traces
  <2>. QED BY <2>1, NewestFirstFacts DEF TracesOf
<1> HIDE DEF own
<1>5. TracesOf(Current(r)) \in Seq(Traces) /\ ToSet(TracesOf(Current(r))) \subseteq own
  BY <1>3, <1>4 DEF ToSet
<1>6. TypeOK' /\ Launched'
  BY <1>1, <1>2, <1>5 DEF TypeOK, Launched
<1>7. Reading'
  <2>1. \A s \in Rollouts : OwnCalls(s)' = OwnCalls(s) /\ Current(s)' = Current(s)
    BY <1>1 DEF OwnCalls, CallTraces, Trace, Current
  <2>2. ASSUME NEW s \in read' PROVE ToSet(collected'[s]) \subseteq OwnCalls(s) \cap stored
    <3>1. s \in Rollouts
      BY <1>1 DEF TypeOK
    <3>2. CASE s = r
      BY <1>1, <1>3, <1>5, <3>2 DEF TypeOK
    <3>3. CASE s # r
      BY <1>1, <3>1, <3>3 DEF TypeOK, Reading
    <3>. QED BY <3>2, <3>3
  <2>3. \A s \in read' : s \in Rollouts
    BY <1>1 DEF TypeOK
  <2>. QED BY <1>1, <1>2, <2>1, <2>2, <2>3 DEF Reading
<1>8. FlushedIsSettled'
  BY <1>1, <1>2 DEF FlushedIsSettled, CallTraces, Trace, Current
<1>. QED BY <1>1, <1>2, <1>6, <1>7, <1>8
         DEF IInv, Reported, OwnSteps, EpisodesKeepTheirTask

(***************************************************************************)
(* The first row of a task, and the order of the rows.                     *)
(***************************************************************************)
LEMMA IndexFacts ==
  ASSUME NEW i \in Rollouts
  PROVE  /\ IndexOf(Batch[i]) \in Rollouts /\ IndexOf(Batch[i]) <= i
         /\ Batch[IndexOf(Batch[i])] = Batch[i]
<1> DEFINE S == {j \in Rollouts : Batch[j] = Batch[i]}
<1>1. S \in SUBSET Nat /\ S # {} /\ i \in S
  BY BatchFacts
<1>2. Min(S) \in S /\ Min(S) <= i
  <2> HIDE DEF S
  <2>. QED BY <1>1, MinIsLeast
<1>. QED BY <1>2 DEF IndexOf

(* The batch is in the order of the first places of its tasks already. *)
LEMMA BatchSorted ==
  ASSUME NEW i \in Rollouts, NEW j \in Rollouts, i < j
  PROVE  IndexOf(Batch[i]) <= IndexOf(Batch[j])
<1> DEFINE f == IndexOf(Batch[j])
<1>1. /\ f \in Rollouts /\ Batch[f] = Batch[j]
      /\ IndexOf(Batch[i]) \in Rollouts /\ IndexOf(Batch[i]) <= i
  BY IndexFacts
<1>2. i \in Int /\ j \in Int /\ f \in Int /\ IndexOf(Batch[i]) \in Int
  BY <1>1, BatchFacts
<1>3. CASE i < f
  BY <1>1, <1>2, <1>3
<1>4. CASE f < i
  <2>1. Batch[i] = Batch[f]
    BY <1>1, <1>4, BatchFacts DEF Contiguous
  <2>2. IndexOf(Batch[i]) = f
    BY <1>1, <2>1
  <2>. QED BY <1>2, <2>2
<1>5. CASE f = i
  BY <1>1, <1>2, <1>5
<1> HIDE DEF f
<1>. QED BY <1>2, <1>3, <1>4, <1>5

(***************************************************************************)
(* An order of the tasks as in the batch brings the rows of each task to   *)
(* its rows.                                                               *)
(***************************************************************************)
LEMMA OrderAligned ==
  ASSUME NEW order \in [Rollouts -> Rollouts], InOrder(order)
  PROVE  /\ \A r \in Rollouts : \E i \in Rollouts : order[i] = r
         /\ \A i \in Rollouts : Batch[order[i]] = Batch[i]
<1> DEFINE n   == Len(Batch)
           key == [i \in 1 .. n |-> IndexOf(Batch[i])]
<1>1. n \in Nat /\ Rollouts = 1 .. n
  BY BatchFacts
<1>2. \A i \in Rollouts : key[i] = IndexOf(Batch[i])
  BY <1>1
<1>3. key \in [1 .. n -> Int]
  BY <1>1, IndexFacts
<1>4. \A i, j \in 1 .. n : i < j => key[i] <= key[j]
  BY <1>1, <1>2, BatchSorted
<1>5. IsInjective(order) /\ \A i, j \in 1 .. n : i < j => key[order[i]] <= key[order[j]]
  BY <1>1, <1>2 DEF InOrder
<1> HIDE DEF key
<1>6. /\ \A v \in 1 .. n : \E i \in 1 .. n : order[i] = v
      /\ \A i \in 1 .. n : key[order[i]] = key[i]
  BY <1>1, <1>3, <1>4, <1>5, SortedTwice
<1>7. ASSUME NEW i \in Rollouts PROVE Batch[order[i]] = Batch[i]
  <2>1. IndexOf(Batch[order[i]]) = IndexOf(Batch[i])
    BY <1>1, <1>2, <1>6, <1>7
  <2>. QED BY <2>1, IndexFacts
<1>. QED BY <1>1, <1>6, <1>7

(***************************************************************************)
(* The steps that an episode reports, when its traces were read.           *)
(***************************************************************************)
LEMMA EpisodeFacts ==
  ASSUME IInv, phase = "collecting", read = Rollouts,
         NEW bare, ~ StepsMissing(bare), NEW r \in Rollouts
  PROVE  /\ EpisodeOf(r, bare) \in Seq(Traces)
         /\ ToSet(EpisodeOf(r, bare)) \subseteq OwnCalls(r)
         /\ mode.views /\ EpisodeOf(r, bare) # <<>> => OwnCalls(r) \subseteq stored
<1>1. TypeOK /\ Launched /\ Reading
  BY DEF IInv
<1>2. /\ status[Current(r)] = "finished" /\ round >= 1
      /\ ToSet(collected[r]) \subseteq OwnCalls(r) \cap stored
  BY <1>1 DEF Reading, Launched
<1>3. OwnCalls(r) \subseteq Traces /\ Current(r) \in Launches
  BY <1>1, <1>2, OwnCallsMembers
<1>4. CASE r \notin bare /\ mode.views
  <2>1. EpisodeOf(r, bare) = CallTraces(Current(r)) /\ ToSet(EpisodeOf(r, bare)) = OwnCalls(r)
    BY <1>4 DEF EpisodeOf, OwnCalls
  <2>2. OwnCalls(r) \subseteq stored
    BY <1>2, <2>1 DEF StepsMissing
  <2>3. calls[Current(r)] \in Nat
    BY <1>1, <1>3, ModeFacts DEF TypeOK
  <2>4. \A m \in 1 .. calls[Current(r)] : Trace(Current(r), m) \in OwnCalls(r)
    BY DEF OwnCalls, CallTraces, ToSet
  <2>5. CallTraces(Current(r)) \in [1 .. calls[Current(r)] -> Traces]
    BY <1>3, <2>4 DEF CallTraces
  <2>. QED BY <2>1, <2>2, <2>3, <2>5
<1>5. CASE r \notin bare /\ ~ mode.views
  BY <1>1, <1>2, <1>5 DEF EpisodeOf, TypeOK
<1>6. CASE r \in bare
  BY <1>6 DEF EpisodeOf, ToSet
<1>. QED BY <1>4, <1>5, <1>6

(* Episodes are made of the sessions that were read, or the round is given *)
(* up. *)
LEMMA AssembleStep ==
  ASSUME IInv, NEW order \in [Rollouts -> Rollouts], NEW bare, Assemble(order, bare)
  PROVE  IInv'
<1>1. CASE StepsMissing(bare) \/ TooManyErrors(bare)
  BY <1>1, GiveUpStep DEF Assemble
<1>2. CASE ~ (StepsMissing(bare) \/ TooManyErrors(bare))
  <2>1. /\ TypeOK /\ Launched /\ Recorded /\ Reading /\ FlushedIsSettled
        /\ phase = "collecting" /\ phase' = "done" /\ read = Rollouts /\ InOrder(order)
        /\ results' = [i \in Rollouts |->
             [rollout |-> order[i], steps |-> EpisodeOf(order[i], bare)]]
        /\ UNCHANGED <<storeVars, round, flushed, read, collected, status, attempt, calls, mode>>
    BY <1>2 DEF IInv, Assemble, rolloutVars
  <2>2. Traces' = Traces /\ Recorded' /\ UNCHANGED <<up, queue, storing, tries, stored>>
    BY <2>1, EngineMoves
  <2>3. \A r \in Rollouts : /\ EpisodeOf(r, bare) \in Seq(Traces)
                            /\ ToSet(EpisodeOf(r, bare)) \subseteq OwnCalls(r)
                            /\ mode.views /\ EpisodeOf(r, bare) # <<>> => OwnCalls(r) \subseteq stored
    BY <1>2, <2>1, EpisodeFacts
  <2>4. \A r \in Rollouts : OwnCalls(r)' = OwnCalls(r) /\ Current(r)' = Current(r)
    BY <2>1 DEF OwnCalls, CallTraces, Trace, Current
  <2>5. /\ DOMAIN results' = Rollouts
        /\ \A i \in Rollouts : /\ results'[i].rollout = order[i]
                               /\ results'[i].steps = EpisodeOf(order[i], bare)
    BY <2>1
  <2>6. results' \in Seq([rollout : Rollouts, steps : Seq(Traces)])
    <3> DEFINE E == [rollout : Rollouts, steps : Seq(Traces)]
    <3>1. results' \in [Rollouts -> E]
      BY <2>1, <2>3
    <3>2. Len(Batch) \in Nat /\ Rollouts = 1 .. Len(Batch)
      BY BatchFacts
    <3> HIDE DEF E
    <3>3. results' \in [1 .. Len(Batch) -> E]
      BY <3>1, <3>2
    <3>4. results' \in Seq(E)
      BY <3>2, <3>3
    <3>. QED BY <3>4 DEF E
  <2>7. TypeOK' /\ Launched'
    BY <2>1, <2>2, <2>6 DEF TypeOK, Launched
  <2>8. Reading'
    BY <2>1, <2>4 DEF Reading
  <2>9. OwnSteps'
    <3>. SUFFICES ASSUME NEW i \in Rollouts
                  PROVE  (/\ ToSet(results[i].steps) \subseteq OwnCalls(results[i].rollout)
                          /\ mode.views /\ results[i].steps # <<>> =>
                               OwnCalls(results[i].rollout) \subseteq stored)'
      BY <2>5 DEF OwnSteps, OwnCalls
    <3>1. order[i] \in Rollouts
      OBVIOUS
    <3>2. (OwnCalls(results[i].rollout))' = (OwnCalls(order[i]))'
      BY <2>5 DEF OwnCalls, CallTraces, Trace, Current
    <3>3. (OwnCalls(results[i].rollout))' = OwnCalls(order[i])
      BY <2>4, <3>1, <3>2
    <3>. QED BY <2>1, <2>2, <2>3, <2>5, <3>1, <3>3
  <2>10. FlushedIsSettled'
    BY <2>1, <2>2 DEF FlushedIsSettled, CallTraces, Trace, Current
  <2>11. EpisodesKeepTheirTask'
    <3>1. /\ \A r \in Rollouts : \E i \in Rollouts : order[i] = r
          /\ \A i \in Rollouts : Batch[order[i]] = Batch[i]
      BY <2>1, OrderAligned
    <3>. QED BY <2>5, <3>1 DEF EpisodesKeepTheirTask
  <2>. QED BY <2>1, <2>2, <2>7, <2>8, <2>9, <2>10, <2>11 DEF IInv, Reported
<1>. QED BY <1>1, <1>2

-----------------------------------------------------------------------------

(***************************************************************************)
(* A stutter changes nothing the invariant reads.                          *)
(***************************************************************************)
LEMMA StutterStep == IInv /\ UNCHANGED vars => IInv'
<1>. SUFFICES ASSUME IInv, UNCHANGED vars PROVE IInv'
  OBVIOUS
<1>1. /\ TypeOK /\ Launched /\ Recorded /\ Reading /\ Reported
      /\ OwnSteps /\ FlushedIsSettled /\ EpisodesKeepTheirTask
  BY DEF IInv
<1>2. /\ UNCHANGED <<storeVars, phase, round, flushed, read, collected, results>>
      /\ UNCHANGED <<status, attempt, calls, mode>>
  BY DEF vars, engineVars, rolloutVars
<1>3. Traces' = Traces /\ Recorded' /\ UNCHANGED <<up, queue, storing, tries, stored>>
  BY <1>1, <1>2, EngineMoves
<1>4. TypeOK' /\ Launched' /\ Reported'
  BY <1>1, <1>2, <1>3 DEF TypeOK, Launched, Reported
<1>5. Reading'
  BY <1>1, <1>2, <1>3 DEF Reading, OwnCalls, CallTraces, Trace, Current
<1>6. OwnSteps' /\ FlushedIsSettled' /\ EpisodesKeepTheirTask'
  BY <1>1, <1>2, <1>3 DEF OwnSteps, FlushedIsSettled, EpisodesKeepTheirTask, CallTraces, Trace, Current
<1>. QED BY <1>3, <1>4, <1>5, <1>6 DEF IInv

(* Every step keeps the invariant. *)
LEMMA NextInv == IInv /\ [Next]_vars => IInv'
<1>. SUFFICES ASSUME IInv, [Next]_vars PROVE IInv'
  OBVIOUS
<1>1. CASE Engine
  BY <1>1, LaunchStep, RolloutRaisedStep, AllFinishedStep, FlushReturnsStep, CollectStep,
     ReadFailsStep, AssembleStep DEF Engine
<1>2. CASE Executing /\ \E l \in Launches : RolloutStep(l)
  BY <1>2, AcquireStep, CallStep, AttemptEndsStep, AttemptFailsStep, ListRefusedStep DEF RolloutStep
<1>3. CASE Background
  BY <1>3, TakeStep, StoreSucceedsStep, StoreFailsStep, DieStep DEF Background, Worker
<1>4. CASE UNCHANGED vars
  BY <1>4, StutterStep
<1>. QED BY <1>1, <1>2, <1>3, <1>4 DEF Next

(***************************************************************************)
(* The inductive invariant holds of every state of the engine.             *)
(***************************************************************************)
THEOREM SdkEngineInductive == Spec => []IInv
<1>. QED BY InitEstablishes, NextInv, PTL DEF Spec

(***************************************************************************)
(* Every variable of the engine and of the tracer keeps its type: a trace  *)
(* names a launched rollout, one of its attempts and one of its calls.     *)
(***************************************************************************)
THEOREM SdkEngineTypes == Spec => []TypeOK
<1>1. IInv => TypeOK
  BY DEF IInv
<1>. QED BY <1>1, SdkEngineInductive, PTL

(***************************************************************************)
(* However an earlier round's rollouts go on, and whatever attempts failed *)
(* before, an episode holds calls of the attempt it reports only.          *)
(***************************************************************************)
THEOREM EpisodesOwnTheirSteps == Spec => []OwnSteps
<1>1. IInv => OwnSteps
  BY DEF IInv
<1>. QED BY <1>1, SdkEngineInductive, PTL

(***************************************************************************)
(* An answered flush leaves no call of a reported attempt on its way to    *)
(* the store, although earlier rounds go on tracing.                       *)
(***************************************************************************)
THEOREM FlushSettles == Spec => []FlushedIsSettled
<1>1. IInv => FlushedIsSettled
  BY DEF IInv
<1>. QED BY <1>1, SdkEngineInductive, PTL

(***************************************************************************)
(* The episodes come back at rows of their task, one for each rollout, for *)
(* every batch whose rows of a task are neighbours.                        *)
(***************************************************************************)
THEOREM EpisodesMatchTheirRows == Spec => []EpisodesKeepTheirTask
<1>1. IInv => EpisodesKeepTheirTask
  BY DEF IInv
<1>. QED BY <1>1, SdkEngineInductive, PTL

=============================================================================
