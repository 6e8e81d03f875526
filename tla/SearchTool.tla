----------------------------- MODULE SearchTool -----------------------------
(***************************************************************************)
(* search_single_query of the search tool (vision_deepresearch_async_      *)
(* workflow/tools/search_tool.py) around the cache: look the query up,     *)
(* else ask the search service, and store some of its answers.  The        *)
(* searches run on one event loop, those of one call under asyncio.gather; *)
(* the process may end and be started again.                               *)
(***************************************************************************)
EXTENDS ToolCache

CONSTANTS
  RequestAttempts,  \* attempts of run_with_retries_async
  RestartLimit      \* bound: how often the process ends

ASSUME RequestAssumption == RequestAttempts \in Nat \ {0} /\ RestartLimit \in Nat

VARIABLES
  requests,   \* requests a search has made
  answer,     \* what a search returns
  restarts,
  stored      \* history: the queries whose set_cache_async got to its "Success"

vars == <<cacheVars, requests, answer, restarts, stored>>

Search(s) == <<s, "search">>
Touch(s) == <<s, "touch">>

-----------------------------------------------------------------------------

Init ==
  /\ CacheInit
  /\ requests = [s \in Searches |-> 0]
  /\ answer = [s \in Searches |-> "none"]
  /\ restarts = 0
  /\ stored = {}

Start(s) ==
  /\ pc[Search(s)] = "idle"
  /\ Begin(Search(s), "read", "none")
  /\ UNCHANGED <<dbVars, requests, answer, restarts, stored>>

UsesCache(a) ==
  /\ CacheStep(a)
  /\ UNCHANGED <<requests, answer, restarts, stored>>

(***************************************************************************)
(* A hit is returned; a task nobody awaits notes its time.                 *)
(***************************************************************************)
Hit(s) ==
  /\ pc[Search(s)] = "finished"
  /\ goal[Search(s)] = "read"
  /\ value[Search(s)] # "none"
  /\ answer' = [answer EXCEPT ![s] = value[Search(s)]]
  /\ pc' = [pc EXCEPT ![Search(s)] = "done", ![Touch(s)] = Entry("update")]
  /\ goal' = [goal EXCEPT ![Touch(s)] = "update"]
  /\ UNCHANGED <<dbVars, attempt, value, requests, restarts, stored>>

Miss(s) ==
  /\ goal[Search(s)] = "read"
  /\ \/ pc[Search(s)] = "finished" /\ value[Search(s)] = "none"
     \/ pc[Search(s)] = "gave_up"
  /\ pc' = [pc EXCEPT ![Search(s)] = "request"]
  /\ UNCHANGED <<dbVars, goal, attempt, value, requests, answer, restarts, stored>>

(***************************************************************************)
(* The request raises, and is made again after a delay.                    *)
(***************************************************************************)
RequestFails(s) ==
  /\ pc[Search(s)] = "request"
  /\ requests[s] + 1 < RequestAttempts
  /\ requests' = [requests EXCEPT ![s] = @ + 1]
  /\ UNCHANGED <<cacheVars, answer, restarts, stored>>

(***************************************************************************)
(* The last attempt raised or the service answered with an error status;   *)
(* with no result, or a body that is no dictionary; with results; with     *)
(* items that are no list or whose text is no text, which raises out of    *)
(* the search.  Only an answer without results is stored.                  *)
(***************************************************************************)
Respond(s, content) ==
  /\ pc[Search(s)] = "request"
  /\ requests' = [requests EXCEPT ![s] = 0]
  /\ answer' = [answer EXCEPT ![s] = content]
  /\ IF content = "empty"
       THEN Begin(Search(s), "insert", content)
       ELSE pc' = [pc EXCEPT ![Search(s)] = "done"] /\ UNCHANGED <<goal, attempt, value>>
  /\ UNCHANGED <<dbVars, restarts, stored>>

(***************************************************************************)
(* set_cache_async returns in any case, and so does the search.            *)
(***************************************************************************)
SetReturns(s) ==
  /\ goal[Search(s)] = "insert"
  /\ pc[Search(s)] \in {"finished", "gave_up"}
  /\ stored' = IF pc[Search(s)] = "finished" THEN stored \cup {QueryOf[s]} ELSE stored
  /\ pc' = [pc EXCEPT ![Search(s)] = "done"]
  /\ UNCHANGED <<dbVars, goal, attempt, value, requests, answer, restarts>>

(***************************************************************************)
(* The time limit of the rollout that made the search.                     *)
(***************************************************************************)
Cancel(s) ==
  /\ pc[Search(s)] \notin {"idle", "done"}
  /\ Abandon(Search(s))
  /\ pc' = [pc EXCEPT ![Search(s)] = "done"]
  /\ answer' = [answer EXCEPT ![s] = "cancelled"]
  /\ UNCHANGED <<requests, restarts, stored>>

Restart ==
  /\ restarts < RestartLimit
  /\ restarts' = restarts + 1
  /\ CacheRestart
  /\ requests' = [s \in Searches |-> 0]
  /\ answer' = [s \in Searches |-> "none"]
  /\ UNCHANGED stored

SearchStep(s) ==
  \/ UsesCache(Search(s)) \/ Hit(s) \/ Miss(s) \/ RequestFails(s)
  \/ \E content \in {"empty", "results", "error", "raised"} : Respond(s, content)
  \/ SetReturns(s)

Next ==
  \/ \E s \in Searches : Start(s) \/ SearchStep(s) \/ UsesCache(Touch(s)) \/ Cancel(s)
  \/ Restart

Spec == Init /\ [][Next]_vars

(***************************************************************************)
(* The event loop runs every coroutine that can go on; statements and      *)
(* requests carry timeouts.  Nothing need be searched, or restarted.       *)
(***************************************************************************)
FairSpec ==
  /\ Spec
  /\ \A s \in Searches : WF_vars(SearchStep(s)) /\ WF_vars(UsesCache(Touch(s)))

-----------------------------------------------------------------------------
(***************************************************************************)
(* Properties                                                              *)
(***************************************************************************)

TypeOK ==
  /\ CacheTypeOK
  /\ requests \in [Searches -> 0 .. RequestAttempts - 1]
  /\ answer \in [Searches -> {"none", "empty", "results", "error", "raised", "cancelled"}]
  /\ restarts \in 0 .. RestartLimit
  /\ stored \subseteq Queries

(* Connections of the process that no coroutine can use, and the searches  *)
(* that were cancelled.                                                    *)
Lost == opened - (IF connection = 0 THEN 0 ELSE 1)
Cancelled == {s \in Searches : answer[s] = "cancelled"}

(***************************************************************************)
(* All coroutines of a process use one connection, however many ask for it *)
(* while it is opened, and whichever opener fails or is cancelled: once    *)
(* others can see it, it is never replaced, and any other that was opened  *)
(* is one that a cancelled search lost.                                    *)
(***************************************************************************)
OneConnection ==
  [][/\ connection # 0 => connection' = connection \/ Restart
     /\ Lost' <= Cardinality(Cancelled')]_vars

(***************************************************************************)
(* What the cache reported as stored is found by every later lookup, also  *)
(* after commits failed, rollouts were cancelled in the middle of a write, *)
(* or the process ended.                                                   *)
(***************************************************************************)
CacheIsDurable == \A q \in stored : rows[q] # "none" /\ file[q] # "none"

(***************************************************************************)
(* Whatever the cache and the service do, a search ends with an answer,    *)
(* and the note of its hit does not wait for a lock for ever.              *)
(***************************************************************************)
SearchReturns ==
  \A s \in Searches :
    /\ (pc[Search(s)] # "idle") ~>
         (pc[Search(s)] = "idle" \/ (pc[Search(s)] = "done" /\ answer[s] # "none"))
    /\ (pc[Touch(s)] # "idle") ~> (pc[Touch(s)] \in {"idle", "finished", "gave_up"})

(***************************************************************************)
(* "Store individual query result in cache (we've already passed error     *)
(* checks above)": a search that got results has tried to store them.      *)
(***************************************************************************)
ResultsAreStored ==
  \A s \in Searches :
    pc[Search(s)] = "done" /\ answer[s] = "results" => goal[Search(s)] = "insert"

=============================================================================
