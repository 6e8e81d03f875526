----------------------------- MODULE ToolCache -----------------------------
(***************************************************************************)
(* The SQLite cache of the tools (vision_deepresearch_async_workflow/      *)
(* tools/shared.py): AsyncCacheDB, one lazily opened connection shared by  *)
(* every coroutine of the process, and the calls made of it:               *)
(* get_cache_async, set_cache_async and _update_access_time_async.         *)
(*                                                                         *)
(* An action is the code between two awaits.  A statement runs alone on    *)
(* the thread of the connection and sees what any coroutine wrote through  *)
(* it, committed or not: rows is one, because all statements of a process  *)
(* run on one connection (OneConnection).  Other processes use the same    *)
(* file, so that a statement may find it locked.  Nothing calls close or   *)
(* the clean-up of old entries; both are left out, and so are the batched  *)
(* writes.                                                                 *)
(*                                                                         *)
(* FailWithoutRelease, FailOnceMore, AcquireWriteUnlocked,                 *)
(* AcquireInitUnchecked and CommitInBackground are plausible bugs, as in   *)
(* ReactAgent.                                                             *)
(***************************************************************************)
EXTENDS Integers, FiniteSets

CONSTANTS
  Searches,    \* the lookups of the program, each of one query
  Queries,
  QueryOf,     \* the query of a search
  MaxRetries,  \* max_retries
  NoOne        \* holds a lock that is free

(* A search, and the background task that notes the time of its hit. *)
Actors == Searches \X {"search", "touch"}

ASSUME SearchesAssumption == IsFiniteSet(Searches)
ASSUME QueryAssumption == QueryOf \in [Searches -> Queries]
ASSUME RetriesAssumption == MaxRetries \in Nat \ {0}
ASSUME NoOneAssumption == NoOne \notin Actors

(* What may be stored. *)
Results == {"empty", "results", "error"}

VARIABLES
  connection,   \* _connection: which of the opened ones, None while 0
  opened,       \* connections this process has opened, by their number
  tables,       \* the tables exist in the file
  init_lock,    \* who holds _init_lock
  write_lock,   \* who holds _write_lock
  rows,         \* what a statement of this process finds in the table
  file,         \* what is committed
  pc,           \* the await an actor is suspended at
  goal,         \* what it is there for
  attempt,      \* of the loop over max_retries
  value         \* what it stores, or what it found

dbVars == <<connection, opened, tables, init_lock, write_lock, rows, file>>
actorVars == <<pc, goal, attempt, value>>
cacheVars == <<dbVars, actorVars>>

Key(a) == QueryOf[a[1]]

-----------------------------------------------------------------------------

CacheInit ==
  /\ connection = 0
  /\ opened = 0
  /\ tables \in BOOLEAN
  /\ init_lock = NoOne
  /\ write_lock = NoOne
  /\ rows = [q \in Queries |-> "none"]
  /\ file = rows
  /\ pc = [a \in Actors |-> "idle"]
  /\ goal = [a \in Actors |-> "read"]
  /\ attempt = [a \in Actors |-> 1]
  /\ value = [a \in Actors |-> "none"]

(***************************************************************************)
(* get_connection, up to its first await: the connection is taken as soon  *)
(* as there is one, whether or not it is set up.                           *)
(***************************************************************************)
Connected == IF connection # 0 THEN "statement" ELSE "init_lock"

(***************************************************************************)
(* A call begins: get_cache_async reads; set_cache_async and               *)
(* _update_access_time_async queue for the write lock.                     *)
(***************************************************************************)
Entry(what) == IF what = "read" THEN Connected ELSE "write_lock"

Begin(a, what, result) ==
  /\ pc' = [pc EXCEPT ![a] = Entry(what)]
  /\ goal' = [goal EXCEPT ![a] = what]
  /\ attempt' = [attempt EXCEPT ![a] = 1]
  /\ value' = [value EXCEPT ![a] = result]

(***************************************************************************)
(* An exception on the way releases the locks the actor holds.             *)
(***************************************************************************)
Release(a) ==
  /\ init_lock' = IF init_lock = a THEN NoOne ELSE init_lock
  /\ write_lock' = IF write_lock = a THEN NoOne ELSE write_lock

(***************************************************************************)
(* A locked file is tried again, but not by the update of the access time; *)
(* any other error, and the last attempt, gives up: a miss, or a result    *)
(* that is not stored.                                                     *)
(***************************************************************************)
FailWithoutRelease(a, locked) ==
  /\ IF locked /\ goal[a] # "update" /\ attempt[a] < MaxRetries
       THEN /\ pc' = [pc EXCEPT ![a] = Entry(goal[a])]
            /\ attempt' = [attempt EXCEPT ![a] = @ + 1]
       ELSE pc' = [pc EXCEPT ![a] = "gave_up"] /\ UNCHANGED attempt
  /\ init_lock' = IF init_lock = a THEN NoOne ELSE init_lock
  /\ UNCHANGED <<connection, opened, tables, write_lock, rows, file, goal, value>>

FailOnceMore(a, locked) ==
  /\ IF locked /\ goal[a] # "update" /\ attempt[a] <= MaxRetries
       THEN /\ pc' = [pc EXCEPT ![a] = Entry(goal[a])]
            /\ attempt' = [attempt EXCEPT ![a] = @ + 1]
       ELSE pc' = [pc EXCEPT ![a] = "gave_up"] /\ UNCHANGED attempt
  /\ Release(a)
  /\ UNCHANGED <<connection, opened, tables, rows, file, goal, value>>

Fail(a, locked) ==
  /\ IF locked /\ goal[a] # "update" /\ attempt[a] < MaxRetries
       THEN /\ pc' = [pc EXCEPT ![a] = Entry(goal[a])]
            /\ attempt' = [attempt EXCEPT ![a] = @ + 1]
       ELSE pc' = [pc EXCEPT ![a] = "gave_up"] /\ UNCHANGED attempt
  /\ Release(a)
  /\ UNCHANGED <<connection, opened, tables, rows, file, goal, value>>

AcquireWriteUnlocked(a) ==
  /\ pc[a] = "write_lock"
  /\ write_lock' = a
  /\ pc' = [pc EXCEPT ![a] = Connected]
  /\ UNCHANGED <<connection, opened, tables, init_lock, rows, file, goal, attempt, value>>

AcquireWrite(a) ==
  /\ pc[a] = "write_lock"
  /\ write_lock = NoOne
  /\ write_lock' = a
  /\ pc' = [pc EXCEPT ![a] = Connected]
  /\ UNCHANGED <<connection, opened, tables, init_lock, rows, file, goal, attempt, value>>

(***************************************************************************)
(* _init_lock is acquired, and the connection looked for again: whoever    *)
(* waited while it was opened uses it.                                     *)
(***************************************************************************)
AcquireInitUnchecked(a) ==
  /\ pc[a] = "init_lock"
  /\ init_lock = NoOne
  /\ init_lock' = a
  /\ pc' = [pc EXCEPT ![a] = "connect"]
  /\ UNCHANGED <<connection, opened, tables, write_lock, rows, file, goal, attempt, value>>

AcquireInit(a) ==
  /\ pc[a] = "init_lock"
  /\ init_lock = NoOne
  /\ \/ /\ connection # 0
        /\ pc' = [pc EXCEPT ![a] = "statement"]
        /\ UNCHANGED init_lock
     \/ /\ connection = 0
        /\ pc' = [pc EXCEPT ![a] = "connect"]
        /\ init_lock' = a
  /\ UNCHANGED <<connection, opened, tables, write_lock, rows, file, goal, attempt, value>>

(***************************************************************************)
(* aiosqlite.connect: from here on everyone sees the connection.           *)
(***************************************************************************)
Connect(a) ==
  /\ pc[a] = "connect"
  /\ \/ /\ opened' = opened + 1
        /\ connection' = opened'
        /\ pc' = [pc EXCEPT ![a] = "set_up"]
        /\ UNCHANGED <<tables, init_lock, write_lock, rows, file, goal, attempt, value>>
     \/ Fail(a, FALSE)

(***************************************************************************)
(* The pragmas and the first table: executescript commits what others have *)
(* written meanwhile.  When one of them raises, the connection stays.      *)
(***************************************************************************)
SetUp(a) ==
  /\ pc[a] = "set_up"
  /\ \/ /\ tables' = TRUE
        /\ file' = rows
        /\ pc' = [pc EXCEPT ![a] = "initialize"]
        /\ UNCHANGED <<connection, opened, init_lock, write_lock, rows, goal, attempt, value>>
     \/ \E locked \in BOOLEAN : Fail(a, locked)

(***************************************************************************)
(* The other tables, and the commit.                                       *)
(***************************************************************************)
Initialize(a) ==
  /\ pc[a] = "initialize"
  /\ \/ /\ file' = rows
        /\ init_lock' = NoOne
        /\ pc' = [pc EXCEPT ![a] = "statement"]
        /\ UNCHANGED <<connection, opened, tables, write_lock, rows, goal, attempt, value>>
     \/ \E locked \in BOOLEAN : Fail(a, locked)

(***************************************************************************)
(* The SELECT, the INSERT OR REPLACE or the UPDATE.                        *)
(***************************************************************************)
Read(a) ==
  /\ goal[a] = "read"
  /\ value' = [value EXCEPT ![a] = rows[Key(a)]]
  /\ pc' = [pc EXCEPT ![a] = "finished"]
  /\ UNCHANGED <<dbVars, goal, attempt>>

Write(a) ==
  /\ goal[a] # "read"
  /\ rows' = IF goal[a] = "insert" THEN [rows EXCEPT ![Key(a)] = value[a]] ELSE rows
  /\ pc' = [pc EXCEPT ![a] = "commit"]
  /\ UNCHANGED <<connection, opened, tables, init_lock, write_lock, file, goal, attempt, value>>

Statement(a) ==
  /\ pc[a] = "statement"
  /\ \/ tables /\ (Read(a) \/ Write(a))
     \/ tables /\ Fail(a, TRUE)
     \/ ~tables /\ Fail(a, FALSE)      \* no such table

(***************************************************************************)
(* commit commits what everyone wrote; when it fails the transaction stays *)
(* open, with the row in it.                                               *)
(***************************************************************************)
CommitInBackground(a) ==
  /\ pc[a] = "commit"
  /\ write_lock' = NoOne
  /\ pc' = [pc EXCEPT ![a] = "finished"]
  /\ UNCHANGED <<connection, opened, tables, init_lock, rows, file, goal, attempt, value>>

Commit(a) ==
  /\ pc[a] = "commit"
  /\ \/ /\ file' = rows
        /\ write_lock' = NoOne
        /\ pc' = [pc EXCEPT ![a] = "finished"]
        /\ UNCHANGED <<connection, opened, tables, init_lock, rows, goal, attempt, value>>
     \/ Fail(a, TRUE)

CacheStep(a) ==
  \/ AcquireWrite(a) \/ AcquireInit(a) \/ Connect(a) \/ SetUp(a) \/ Initialize(a)
  \/ Statement(a) \/ Commit(a)

(***************************************************************************)
(* The rollout of a caller times out: the locks are released, and what is  *)
(* queued on the thread of the connection is run all the same.  The one    *)
(* that was to be opened is opened, but _connection is never assigned, and *)
(* the next caller opens another.                                          *)
(***************************************************************************)
Abandon(a) ==
  /\ Release(a)
  /\ opened' \in {opened, IF pc[a] = "connect" THEN opened + 1 ELSE opened}
  /\ tables' \in {tables, tables \/ pc[a] = "set_up"}
  /\ rows' \in {rows, IF pc[a] = "statement" /\ goal[a] = "insert" /\ tables
                      THEN [rows EXCEPT ![Key(a)] = value[a]] ELSE rows}
  /\ file' \in {file, IF pc[a] \in {"set_up", "initialize", "commit"} THEN rows ELSE file}
  /\ UNCHANGED <<connection, goal, attempt, value>>

(***************************************************************************)
(* The process ends: what is not committed is lost, nothing is held.       *)
(***************************************************************************)
CacheRestart ==
  /\ connection' = 0
  /\ opened' = 0
  /\ init_lock' = NoOne
  /\ write_lock' = NoOne
  /\ rows' = file
  /\ pc' = [a \in Actors |-> "idle"]
  /\ goal' = [a \in Actors |-> "read"]
  /\ attempt' = [a \in Actors |-> 1]
  /\ value' = [a \in Actors |-> "none"]
  /\ UNCHANGED <<tables, file>>

-----------------------------------------------------------------------------
(***************************************************************************)
(* Properties                                                              *)
(***************************************************************************)

Waits == {"idle", "write_lock", "init_lock", "connect", "set_up", "statement",
          "initialize", "commit", "gave_up", "finished", "request", "done"}

CacheTypeOK ==
  /\ opened \in Nat
  /\ connection \in 0 .. opened
  /\ tables \in BOOLEAN
  /\ init_lock \in Actors \cup {NoOne}
  /\ write_lock \in Actors \cup {NoOne}
  /\ rows \in [Queries -> Results \cup {"none"}]
  /\ file \in [Queries -> Results \cup {"none"}]
  /\ pc \in [Actors -> Waits]
  /\ goal \in [Actors -> {"read", "insert", "update"}]
  /\ attempt \in [Actors -> 1 .. MaxRetries]
  /\ value \in [Actors -> Results \cup {"none"}]

LeftItsRow(a) == pc[a] \in {"gave_up", "done"} \/ attempt[a] > 1

(***************************************************************************)
(* Writers take turns: a commit is made under the write lock, and a row    *)
(* that is not committed is that of the writer at its commit, or of one    *)
(* that gave up, tries again or was cancelled after its statement.         *)
(***************************************************************************)
WritersTakeTurns ==
  /\ \A a \in Actors : pc[a] = "commit" => write_lock = a /\ goal[a] # "read"
  /\ \A q \in Queries : rows[q] # file[q] =>
       \E a \in Actors :
         Key(a) = q /\ goal[a] = "insert" /\ (pc[a] = "commit" \/ LeftItsRow(a))

=============================================================================
