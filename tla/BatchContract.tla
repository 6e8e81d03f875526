---------------------------- MODULE BatchContract ----------------------------
(***************************************************************************)
(* What the trainer relies on when it hands a batch of rollouts to the     *)
(* engine (execute_tasks_verl): the rollouts are decided one by one, each  *)
(* at most once in a call; the call returns only when all have returned,   *)
(* with their episodes in an order that follows the tasks of the batch; it *)
(* raises only when one has failed.  How the rollouts share workflows, and *)
(* how often each is tried, is left open.                                  *)
(***************************************************************************)
EXTENDS Integers, Sequences

CONSTANTS TaskIds, CallLimit

VARIABLES call, calls, verdict, results

batchVars == <<call, calls, verdict, results>>

Rollouts == 1 .. Len(TaskIds)

Init ==
  /\ call = "idle"
  /\ calls = 0
  /\ verdict = [r \in Rollouts |-> "pending"]
  /\ results = <<>>

Submit ==
  /\ call = "idle"
  /\ calls < CallLimit
  /\ call' = "collecting"
  /\ calls' = calls + 1
  /\ verdict' = [r \in Rollouts |-> "pending"]
  /\ UNCHANGED results

(* Also after the call has raised. *)
Decide(r) ==
  /\ verdict[r] = "pending"
  /\ call # "idle"
  /\ \E v \in {"returned", "failed"} : verdict' = [verdict EXCEPT ![r] = v]
  /\ UNCHANGED <<call, calls, results>>

(***************************************************************************)
(* Every rollout once, each at a position of its task.                     *)
(***************************************************************************)
Aligned(order) ==
  /\ \A r \in Rollouts : \E i \in Rollouts : order[i] = r
  /\ \A i \in Rollouts : TaskIds[order[i]] = TaskIds[i]

ReturnBatch ==
  /\ call = "collecting"
  /\ \A r \in Rollouts : verdict[r] = "returned"
  /\ call' = "idle"
  /\ \E order \in [Rollouts -> Rollouts] : Aligned(order) /\ results' = order
  /\ UNCHANGED <<calls, verdict>>

RaiseOne ==
  /\ call = "collecting"
  /\ \E r \in Rollouts : verdict[r] = "failed"
  /\ call' = "raised"
  /\ UNCHANGED <<calls, verdict, results>>

Next ==
  Submit \/ (\E r \in Rollouts : Decide(r)) \/ ReturnBatch \/ RaiseOne

Safety == Init /\ [][Next]_batchVars

Contract ==
  /\ Safety
  /\ \A r \in Rollouts : WF_batchVars(Decide(r))
  /\ WF_batchVars(ReturnBatch \/ RaiseOne)

=============================================================================
