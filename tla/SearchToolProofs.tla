-------------------------- MODULE SearchToolProofs --------------------------
(***************************************************************************)
(* What holds of the search tool and its cache for any number of searches  *)
(* and queries, any number of retries and any number of restarts.          *)
(*                                                                         *)
(* The locks are released on every path, so holding one is the same as     *)
(* being at one of the awaits under it: that is LockInv, from which it     *)
(* follows that nobody connects once there is a connection.  WriteInv says *)
(* whose an uncommitted row may be.  A row that was committed is never     *)
(* removed from what the connection sees: that is DurableInv, which makes  *)
(* the next commit harmless.                                               *)
(***************************************************************************)
EXTENDS SearchTool, FiniteSetTheorems, TLAPS

Opening == {"connect", "set_up", "initialize"}
UnderWriteLock == Opening \cup {"init_lock", "statement", "commit"}

LockInv ==
  /\ \A a \in Actors : init_lock = a <=> pc[a] \in Opening
  /\ \A a \in Actors : pc[a] \in Opening => (pc[a] = "connect" <=> connection = 0)
  /\ \A a \in Actors : write_lock = a <=> goal[a] # "read" /\ pc[a] \in UnderWriteLock
  /\ \A a \in Actors : pc[a] = "commit" => goal[a] # "read"
  /\ \A a \in Actors : pc[a] = "write_lock" => goal[a] # "read"
  /\ \A s \in Searches : pc[Search(s)] # "done" => pc[Touch(s)] = "idle"

WriteInv ==
  /\ WritersTakeTurns
  /\ \A s \in Searches : goal[Touch(s)] # "insert"
  /\ \A a \in Actors : pc[a] \in {"idle", "request"} => goal[a] = "read"

DurableInv ==
  /\ \A q \in Queries : file[q] # "none" => rows[q] # "none"
  /\ \A q \in stored : file[q] # "none"
  /\ \A a \in Actors : goal[a] = "insert" => value[a] # "none"
  /\ \A a \in Actors : goal[a] = "insert" /\ pc[a] = "commit" => rows[Key(a)] # "none"
  /\ \A a \in Actors : goal[a] = "insert" /\ pc[a] = "finished" => file[Key(a)] # "none"

IInv == TypeOK /\ LockInv /\ WriteInv /\ DurableInv

-----------------------------------------------------------------------------

(* A search and its note are two actors. *)
LEMMA ActorOf ==
  ASSUME NEW s \in Searches
  PROVE  Search(s) \in Actors /\ Touch(s) \in Actors /\ Search(s) # Touch(s)
BY DEF Search, Touch, Actors

(* Searches and notes do not share actors. *)
LEMMA TouchOfAnother ==
  ASSUME NEW s \in Searches, NEW t \in Searches
  PROVE  /\ Search(s) # Touch(t)
         /\ (Search(s) = Search(t)) => s = t
         /\ (Touch(s) = Touch(t)) => s = t
BY DEF Search, Touch

(* An actor works on a query. *)
LEMMA KeyOfActor ==
  ASSUME NEW a \in Actors
  PROVE  Key(a) \in Queries
BY QueryAssumption DEF Key, Actors

(* An empty cache that nobody uses satisfies the invariant. *)
LEMMA InitEstablishes == Init => IInv
<1>. SUFFICES ASSUME Init PROVE IInv
  OBVIOUS
<1>. USE DEF Init, CacheInit
<1>1. TypeOK
  BY RetriesAssumption, RequestAssumption DEF TypeOK, CacheTypeOK, Waits, Results
<1>2. LockInv
  BY NoOneAssumption, ActorOf DEF LockInv, Opening, UnderWriteLock
<1>3. WriteInv
  BY ActorOf DEF WriteInv, WritersTakeTurns
<1>4. DurableInv
  BY KeyOfActor DEF DurableInv
<1>. QED BY <1>1, <1>2, <1>3, <1>4 DEF IInv


(* A note does not run before its search is done, whoever else moves. *)
LEMMA TouchesKept ==
  ASSUME IInv, NEW a \in Actors, pc[a] \notin {"idle", "done"}, NEW w,
         pc' = [pc EXCEPT ![a] = w]
  PROVE  \A s \in Searches : pc'[Search(s)] # "done" => pc'[Touch(s)] = "idle"
<1>. TAKE s \in Searches
<1>1. pc \in [Actors -> Waits]
  BY DEF IInv, TypeOK, CacheTypeOK
<1>2. pc[Search(s)] # "done" => pc[Touch(s)] = "idle"
  BY DEF IInv, LockInv
<1>. QED BY <1>1, <1>2, ActorOf

(***************************************************************************)
(* A row that is not committed stays somebody's: whoever may have left one *)
(* in the transaction still may have, and no step leaves one of nobody.    *)
(***************************************************************************)
MayOwn(a) == goal[a] = "insert" /\ (pc[a] = "commit" \/ LeftItsRow(a))

LEMMA WriteKept ==
  ASSUME IInv, LockInv',
         \A a \in Actors : MayOwn(a) => MayOwn(a)',
         \A q \in Queries : rows'[q] # file'[q] =>
           rows[q] # file[q] \/ \E a \in Actors : Key(a) = q /\ MayOwn(a)',
         \A s \in Searches : goal'[Touch(s)] # "insert",
         \A a \in Actors : pc'[a] \in {"idle", "request"} => goal'[a] = "read"
  PROVE  WriteInv'
<1>1. \A a \in Actors : pc'[a] = "commit" => write_lock' = a /\ goal'[a] # "read"
  BY DEF LockInv, UnderWriteLock
<1>2. ASSUME NEW q \in Queries, rows'[q] # file'[q]
      PROVE  \E a \in Actors : Key(a) = q /\ MayOwn(a)'
  <2>1. CASE rows[q] # file[q]
    <3>1. PICK a \in Actors : Key(a) = q /\ MayOwn(a)
      BY <2>1 DEF IInv, WriteInv, WritersTakeTurns, MayOwn
    <3>. QED BY <3>1
  <2>. QED BY <1>2, <2>1
<1>3. WritersTakeTurns'
  BY <1>1, <1>2 DEF WritersTakeTurns, MayOwn, Key
<1>. QED BY <1>3 DEF WriteInv

(***************************************************************************)
(* Steps of the cache.                                                     *)
(***************************************************************************)

OutsideUnchanged == UNCHANGED <<requests, answer, restarts, stored>>

(* A failed statement gives back its locks, and is tried again or not. *)
LEMMA FailStep ==
  ASSUME IInv, NEW a \in Actors, NEW locked \in BOOLEAN,
         pc[a] \in Opening \cup {"statement", "commit"}, Fail(a, locked), OutsideUnchanged
  PROVE  IInv'
<1>. USE DEF OutsideUnchanged, Fail, Release, Entry, Connected, Opening
<1>1. TypeOK'
  BY RetriesAssumption DEF IInv, TypeOK, CacheTypeOK, Waits
<1>2. LockInv'
  <2>1. \A s \in Searches : pc'[Search(s)] # "done" => pc'[Touch(s)] = "idle"
    BY TouchesKept
  <2>. QED BY <2>1, NoOneAssumption DEF IInv, LockInv, TypeOK, CacheTypeOK, Opening, UnderWriteLock
<1>3. WriteInv'
  <2>1. \A b \in Actors : MayOwn(b) => MayOwn(b)'
    BY DEF IInv, WriteInv, TypeOK, CacheTypeOK, MayOwn, LeftItsRow
  <2>2. \A q \in Queries : rows'[q] # file'[q] =>
         rows[q] # file[q] \/ \E b \in Actors : Key(b) = q /\ MayOwn(b)'
    BY KeyOfActor DEF IInv, TypeOK, CacheTypeOK, MayOwn, LeftItsRow, Key
  <2>3. /\ \A r \in Searches : goal'[Touch(r)] # "insert"
        /\ \A b \in Actors : pc'[b] \in {"idle", "request"} => goal'[b] = "read"
    BY ActorOf, TouchOfAnother DEF IInv, WriteInv, TypeOK, CacheTypeOK
  <2>. QED BY <1>2, <2>1, <2>2, <2>3, WriteKept
<1>4. DurableInv'
  BY KeyOfActor DEF IInv, DurableInv, TypeOK, CacheTypeOK, Key
<1>. QED BY <1>1, <1>2, <1>3, <1>4 DEF IInv

(* The write lock goes to one waiter, when it is free. *)
LEMMA AcquireWriteStep ==
  ASSUME IInv, NEW a \in Actors, AcquireWrite(a), OutsideUnchanged
  PROVE  IInv'
<1>. USE DEF OutsideUnchanged, AcquireWrite, Connected
<1>1. TypeOK'
  BY RetriesAssumption DEF IInv, TypeOK, CacheTypeOK, Waits
<1>2. LockInv'
  <2>1. \A s \in Searches : pc'[Search(s)] # "done" => pc'[Touch(s)] = "idle"
    BY TouchesKept
  <2>. QED BY <2>1, NoOneAssumption DEF IInv, LockInv, TypeOK, CacheTypeOK, Opening, UnderWriteLock
<1>3. WriteInv'
  <2>1. \A b \in Actors : MayOwn(b) => MayOwn(b)'
    BY DEF IInv, WriteInv, TypeOK, CacheTypeOK, MayOwn, LeftItsRow
  <2>2. \A q \in Queries : rows'[q] # file'[q] =>
         rows[q] # file[q] \/ \E b \in Actors : Key(b) = q /\ MayOwn(b)'
    BY KeyOfActor DEF IInv, TypeOK, CacheTypeOK, MayOwn, LeftItsRow, Key
  <2>3. /\ \A r \in Searches : goal'[Touch(r)] # "insert"
        /\ \A b \in Actors : pc'[b] \in {"idle", "request"} => goal'[b] = "read"
    BY ActorOf, TouchOfAnother DEF IInv, WriteInv, TypeOK, CacheTypeOK
  <2>. QED BY <1>2, <2>1, <2>2, <2>3, WriteKept
<1>4. DurableInv'
  BY KeyOfActor DEF IInv, DurableInv, TypeOK, CacheTypeOK, Key
<1>. QED BY <1>1, <1>2, <1>3, <1>4 DEF IInv

(* The lock to open goes to one waiter, who may find the connection. *)
LEMMA AcquireInitStep ==
  ASSUME IInv, NEW a \in Actors, AcquireInit(a), OutsideUnchanged
  PROVE  IInv'
<1>. USE DEF OutsideUnchanged, AcquireInit
<1>1. TypeOK'
  BY RetriesAssumption DEF IInv, TypeOK, CacheTypeOK, Waits
<1>2. LockInv'
  <2>1. \A s \in Searches : pc'[Search(s)] # "done" => pc'[Touch(s)] = "idle"
    BY TouchesKept
  <2>. QED BY <2>1, NoOneAssumption DEF IInv, LockInv, TypeOK, CacheTypeOK, Opening, UnderWriteLock
<1>3. WriteInv'
  <2>1. \A b \in Actors : MayOwn(b) => MayOwn(b)'
    BY DEF IInv, WriteInv, TypeOK, CacheTypeOK, MayOwn, LeftItsRow
  <2>2. \A q \in Queries : rows'[q] # file'[q] =>
         rows[q] # file[q] \/ \E b \in Actors : Key(b) = q /\ MayOwn(b)'
    BY KeyOfActor DEF IInv, TypeOK, CacheTypeOK, MayOwn, LeftItsRow, Key
  <2>3. /\ \A r \in Searches : goal'[Touch(r)] # "insert"
        /\ \A b \in Actors : pc'[b] \in {"idle", "request"} => goal'[b] = "read"
    BY ActorOf, TouchOfAnother DEF IInv, WriteInv, TypeOK, CacheTypeOK
  <2>. QED BY <1>2, <2>1, <2>2, <2>3, WriteKept
<1>4. DurableInv'
  BY KeyOfActor DEF IInv, DurableInv, TypeOK, CacheTypeOK, Key
<1>. QED BY <1>1, <1>2, <1>3, <1>4 DEF IInv

(* Only the holder of the lock to open connects. *)
LEMMA ConnectStep ==
  ASSUME IInv, NEW a \in Actors, Connect(a), OutsideUnchanged
  PROVE  IInv'
<1>1. CASE Fail(a, FALSE)
  BY <1>1, FailStep DEF Connect, Opening
<1>2. ASSUME pc[a] = "connect", opened' = opened + 1, connection' = opened',
             pc' = [pc EXCEPT ![a] = "set_up"],
             UNCHANGED <<tables, init_lock, write_lock, rows, file, goal, attempt, value>>
      PROVE  IInv'
  <2>. USE <1>2 DEF OutsideUnchanged
  <2>1. TypeOK'
    BY RetriesAssumption, KeyOfActor DEF IInv, TypeOK, CacheTypeOK, Waits
  <2>2. LockInv'
    <3>1. \A s \in Searches : pc'[Search(s)] # "done" => pc'[Touch(s)] = "idle"
      BY TouchesKept
    <3>. QED BY <3>1, NoOneAssumption DEF IInv, LockInv, TypeOK, CacheTypeOK, Opening, UnderWriteLock
  <2>3. WriteInv'
    <3>1. \A b \in Actors : MayOwn(b) => MayOwn(b)'
      BY DEF IInv, WriteInv, TypeOK, CacheTypeOK, MayOwn, LeftItsRow
    <3>2. \A q \in Queries : rows'[q] # file'[q] =>
           rows[q] # file[q] \/ \E b \in Actors : Key(b) = q /\ MayOwn(b)'
      BY KeyOfActor DEF IInv, TypeOK, CacheTypeOK, MayOwn, LeftItsRow, Key
    <3>3. /\ \A r \in Searches : goal'[Touch(r)] # "insert"
          /\ \A b \in Actors : pc'[b] \in {"idle", "request"} => goal'[b] = "read"
      BY ActorOf, TouchOfAnother DEF IInv, WriteInv, TypeOK, CacheTypeOK
    <3>. QED BY <2>2, <3>1, <3>2, <3>3, WriteKept
  <2>4. DurableInv'
    BY KeyOfActor DEF IInv, DurableInv, TypeOK, CacheTypeOK, Key
  <2>. QED BY <2>1, <2>2, <2>3, <2>4 DEF IInv
<1>. QED BY <1>1, <1>2 DEF Connect

(* Pragmas and tables take nothing out of the file. *)
LEMMA SetUpStep ==
  ASSUME IInv, NEW a \in Actors, SetUp(a), OutsideUnchanged
  PROVE  IInv'
<1>1. CASE \E locked \in BOOLEAN : Fail(a, locked)
  BY <1>1, FailStep DEF SetUp, Opening
<1>2. ASSUME pc[a] = "set_up", tables' = TRUE, file' = rows, pc' = [pc EXCEPT ![a] = "initialize"],
             UNCHANGED <<connection, opened, init_lock, write_lock, rows, goal, attempt, value>>
      PROVE  IInv'
  <2>. USE <1>2 DEF OutsideUnchanged
  <2>1. TypeOK'
    BY RetriesAssumption, KeyOfActor DEF IInv, TypeOK, CacheTypeOK, Waits
  <2>2. LockInv'
    <3>1. \A s \in Searches : pc'[Search(s)] # "done" => pc'[Touch(s)] = "idle"
      BY TouchesKept
    <3>. QED BY <3>1, NoOneAssumption DEF IInv, LockInv, TypeOK, CacheTypeOK, Opening, UnderWriteLock
  <2>3. WriteInv'
    <3>1. \A b \in Actors : MayOwn(b) => MayOwn(b)'
      BY DEF IInv, WriteInv, TypeOK, CacheTypeOK, MayOwn, LeftItsRow
    <3>2. \A q \in Queries : rows'[q] # file'[q] =>
           rows[q] # file[q] \/ \E b \in Actors : Key(b) = q /\ MayOwn(b)'
      BY KeyOfActor DEF IInv, TypeOK, CacheTypeOK, MayOwn, LeftItsRow, Key
    <3>3. /\ \A r \in Searches : goal'[Touch(r)] # "insert"
          /\ \A b \in Actors : pc'[b] \in {"idle", "request"} => goal'[b] = "read"
      BY ActorOf, TouchOfAnother DEF IInv, WriteInv, TypeOK, CacheTypeOK
    <3>. QED BY <2>2, <3>1, <3>2, <3>3, WriteKept
  <2>4. DurableInv'
    BY KeyOfActor DEF IInv, DurableInv, TypeOK, CacheTypeOK, Key
  <2>. QED BY <2>1, <2>2, <2>3, <2>4 DEF IInv
<1>. QED BY <1>1, <1>2 DEF SetUp

(* The opener gives back its lock and goes on to its statement. *)
LEMMA InitializeStep ==
  ASSUME IInv, NEW a \in Actors, Initialize(a), OutsideUnchanged
  PROVE  IInv'
<1>1. CASE \E locked \in BOOLEAN : Fail(a, locked)
  BY <1>1, FailStep DEF Initialize, Opening
<1>2. ASSUME pc[a] = "initialize", file' = rows, init_lock' = NoOne,
             pc' = [pc EXCEPT ![a] = "statement"],
             UNCHANGED <<connection, opened, tables, write_lock, rows, goal, attempt, value>>
      PROVE  IInv'
  <2>. USE <1>2 DEF OutsideUnchanged
  <2>1. TypeOK'
    BY RetriesAssumption, KeyOfActor DEF IInv, TypeOK, CacheTypeOK, Waits
  <2>2. LockInv'
    <3>1. \A s \in Searches : pc'[Search(s)] # "done" => pc'[Touch(s)] = "idle"
      BY TouchesKept
    <3>. QED BY <3>1, NoOneAssumption DEF IInv, LockInv, TypeOK, CacheTypeOK, Opening, UnderWriteLock
  <2>3. WriteInv'
    <3>1. \A b \in Actors : MayOwn(b) => MayOwn(b)'
      BY DEF IInv, WriteInv, TypeOK, CacheTypeOK, MayOwn, LeftItsRow
    <3>2. \A q \in Queries : rows'[q] # file'[q] =>
           rows[q] # file[q] \/ \E b \in Actors : Key(b) = q /\ MayOwn(b)'
      BY KeyOfActor DEF IInv, TypeOK, CacheTypeOK, MayOwn, LeftItsRow, Key
    <3>3. /\ \A r \in Searches : goal'[Touch(r)] # "insert"
          /\ \A b \in Actors : pc'[b] \in {"idle", "request"} => goal'[b] = "read"
      BY ActorOf, TouchOfAnother DEF IInv, WriteInv, TypeOK, CacheTypeOK
    <3>. QED BY <2>2, <3>1, <3>2, <3>3, WriteKept
  <2>4. DurableInv'
    BY KeyOfActor DEF IInv, DurableInv, TypeOK, CacheTypeOK, Key
  <2>. QED BY <2>1, <2>2, <2>3, <2>4 DEF IInv
<1>. QED BY <1>1, <1>2 DEF Initialize

(* A statement changes what the connection sees, not the file. *)
LEMMA StatementStep ==
  ASSUME IInv, NEW a \in Actors, Statement(a), OutsideUnchanged
  PROVE  IInv'
<1>1. CASE \E locked \in BOOLEAN : Fail(a, locked)
  BY <1>1, FailStep DEF Statement, Opening
<1>2. ASSUME pc[a] = "statement", Read(a) \/ Write(a)
      PROVE  IInv'
  <2>. USE <1>2 DEF OutsideUnchanged, Read, Write, dbVars
  <2>1. TypeOK'
    BY RetriesAssumption, KeyOfActor DEF IInv, TypeOK, CacheTypeOK, Waits
  <2>2. LockInv'
    <3>1. \A s \in Searches : pc'[Search(s)] # "done" => pc'[Touch(s)] = "idle"
      BY TouchesKept
    <3>. QED BY <3>1, NoOneAssumption DEF IInv, LockInv, TypeOK, CacheTypeOK, Opening, UnderWriteLock
  <2>3. WriteInv'
    <3>1. \A b \in Actors : MayOwn(b) => MayOwn(b)'
      BY DEF IInv, WriteInv, TypeOK, CacheTypeOK, MayOwn, LeftItsRow
    <3>2. \A q \in Queries : rows'[q] # file'[q] =>
           rows[q] # file[q] \/ \E b \in Actors : Key(b) = q /\ MayOwn(b)'
      BY KeyOfActor DEF IInv, TypeOK, CacheTypeOK, MayOwn, LeftItsRow, Key
    <3>3. /\ \A r \in Searches : goal'[Touch(r)] # "insert"
          /\ \A b \in Actors : pc'[b] \in {"idle", "request"} => goal'[b] = "read"
      BY ActorOf, TouchOfAnother DEF IInv, WriteInv, TypeOK, CacheTypeOK
    <3>. QED BY <2>2, <3>1, <3>2, <3>3, WriteKept
  <2>4. DurableInv'
    BY KeyOfActor DEF IInv, DurableInv, TypeOK, CacheTypeOK, Key
  <2>. QED BY <2>1, <2>2, <2>3, <2>4 DEF IInv
<1>. QED BY <1>1, <1>2 DEF Statement

(* A commit writes every row the connection sees. *)
LEMMA CommitStep ==
  ASSUME IInv, NEW a \in Actors, Commit(a), OutsideUnchanged
  PROVE  IInv'
<1>1. CASE Fail(a, TRUE)
  BY <1>1, FailStep DEF Commit, Opening
<1>2. ASSUME pc[a] = "commit", file' = rows, write_lock' = NoOne,
             pc' = [pc EXCEPT ![a] = "finished"],
             UNCHANGED <<connection, opened, tables, init_lock, rows, goal, attempt, value>>
      PROVE  IInv'
  <2>. USE <1>2 DEF OutsideUnchanged
  <2>1. TypeOK'
    BY RetriesAssumption, KeyOfActor DEF IInv, TypeOK, CacheTypeOK, Waits
  <2>2. LockInv'
    <3>1. \A s \in Searches : pc'[Search(s)] # "done" => pc'[Touch(s)] = "idle"
      BY TouchesKept
    <3>. QED BY <3>1, NoOneAssumption DEF IInv, LockInv, TypeOK, CacheTypeOK, Opening, UnderWriteLock
  <2>3. WriteInv'
    <3>1. /\ \A r \in Searches : goal'[Touch(r)] # "insert"
          /\ \A b \in Actors : pc'[b] \in {"idle", "request"} => goal'[b] = "read"
      BY ActorOf, TouchOfAnother DEF IInv, WriteInv, TypeOK, CacheTypeOK
    <3>2. rows' = file'
      BY DEF IInv
    <3>3. WritersTakeTurns'
      BY <2>2, <3>2 DEF WritersTakeTurns, LockInv, UnderWriteLock
    <3>. QED BY <3>1, <3>3 DEF WriteInv
  <2>4. DurableInv'
    BY KeyOfActor DEF IInv, DurableInv, TypeOK, CacheTypeOK, Key
  <2>. QED BY <2>1, <2>2, <2>3, <2>4 DEF IInv
<1>. QED BY <1>1, <1>2 DEF Commit

(* Each step of the cache keeps the invariant. *)
LEMMA UsesCacheStep ==
  ASSUME IInv, NEW a \in Actors, UsesCache(a)
  PROVE  IInv'
<1>. OutsideUnchanged
  BY DEF UsesCache, OutsideUnchanged
<1>. QED
  BY AcquireWriteStep, AcquireInitStep, ConnectStep, SetUpStep, InitializeStep,
     StatementStep, CommitStep DEF UsesCache, CacheStep

(***************************************************************************)
(* Steps of a search.                                                      *)
(***************************************************************************)

(* A search begins with a lookup. *)
LEMMA StartStep ==
  ASSUME IInv, NEW s \in Searches, Start(s)
  PROVE  IInv'
<1>. USE ActorOf DEF Start, Begin, Entry, Connected, dbVars
<1>1. TypeOK'
  BY RetriesAssumption, RequestAssumption DEF IInv, TypeOK, CacheTypeOK, Waits, Results
<1>2. LockInv'
  <2>1. \A r \in Searches : pc'[Search(r)] # "done" => pc'[Touch(r)] = "idle"
    BY TouchOfAnother DEF IInv, LockInv, TypeOK, CacheTypeOK
  <2>. QED
    BY <2>1, NoOneAssumption DEF IInv, LockInv, TypeOK, CacheTypeOK, Opening, UnderWriteLock
<1>3. WriteInv'
  <2>1. \A b \in Actors : MayOwn(b) => MayOwn(b)'
    BY DEF IInv, WriteInv, TypeOK, CacheTypeOK, MayOwn, LeftItsRow
  <2>2. \A q \in Queries : rows'[q] # file'[q] =>
         rows[q] # file[q] \/ \E b \in Actors : Key(b) = q /\ MayOwn(b)'
    BY KeyOfActor DEF IInv, TypeOK, CacheTypeOK, MayOwn, LeftItsRow, Key
  <2>3. /\ \A r \in Searches : goal'[Touch(r)] # "insert"
        /\ \A b \in Actors : pc'[b] \in {"idle", "request"} => goal'[b] = "read"
    BY ActorOf, TouchOfAnother DEF IInv, WriteInv, TypeOK, CacheTypeOK
  <2>. QED BY <1>2, <2>1, <2>2, <2>3, WriteKept
<1>4. DurableInv'
  BY KeyOfActor DEF IInv, DurableInv, TypeOK, CacheTypeOK
<1>. QED BY <1>1, <1>2, <1>3, <1>4 DEF IInv

(* A hit ends the search and may leave a note. *)
LEMMA HitStep ==
  ASSUME IInv, NEW s \in Searches, Hit(s)
  PROVE  IInv'
<1>. USE ActorOf DEF Hit, Entry, dbVars
<1>1. TypeOK'
  BY RetriesAssumption, RequestAssumption DEF IInv, TypeOK, CacheTypeOK, Waits, Results
<1>2. LockInv'
  <2>1. \A r \in Searches : pc'[Search(r)] # "done" => pc'[Touch(r)] = "idle"
    BY TouchOfAnother DEF IInv, LockInv, TypeOK, CacheTypeOK
  <2>. QED
    BY <2>1, NoOneAssumption DEF IInv, LockInv, TypeOK, CacheTypeOK, Opening, UnderWriteLock
<1>3. WriteInv'
  <2>1. \A b \in Actors : MayOwn(b) => MayOwn(b)'
    BY DEF IInv, WriteInv, TypeOK, CacheTypeOK, MayOwn, LeftItsRow
  <2>2. \A q \in Queries : rows'[q] # file'[q] =>
         rows[q] # file[q] \/ \E b \in Actors : Key(b) = q /\ MayOwn(b)'
    BY KeyOfActor DEF IInv, TypeOK, CacheTypeOK, MayOwn, LeftItsRow, Key
  <2>3. /\ \A r \in Searches : goal'[Touch(r)] # "insert"
        /\ \A b \in Actors : pc'[b] \in {"idle", "request"} => goal'[b] = "read"
    BY ActorOf, TouchOfAnother DEF IInv, WriteInv, TypeOK, CacheTypeOK
  <2>. QED BY <1>2, <2>1, <2>2, <2>3, WriteKept
<1>4. DurableInv'
  BY KeyOfActor DEF IInv, DurableInv, TypeOK, CacheTypeOK
<1>. QED BY <1>1, <1>2, <1>3, <1>4 DEF IInv

(* A miss goes on to the service. *)
LEMMA MissStep ==
  ASSUME IInv, NEW s \in Searches, Miss(s)
  PROVE  IInv'
<1>. USE ActorOf DEF Miss, dbVars
<1>1. TypeOK'
  BY RetriesAssumption, RequestAssumption DEF IInv, TypeOK, CacheTypeOK, Waits, Results
<1>2. LockInv'
  <2>1. \A r \in Searches : pc'[Search(r)] # "done" => pc'[Touch(r)] = "idle"
    BY TouchesKept
  <2>. QED
    BY <2>1, NoOneAssumption DEF IInv, LockInv, TypeOK, CacheTypeOK, Opening, UnderWriteLock
<1>3. WriteInv'
  <2>1. \A b \in Actors : MayOwn(b) => MayOwn(b)'
    BY DEF IInv, WriteInv, TypeOK, CacheTypeOK, MayOwn, LeftItsRow
  <2>2. \A q \in Queries : rows'[q] # file'[q] =>
         rows[q] # file[q] \/ \E b \in Actors : Key(b) = q /\ MayOwn(b)'
    BY KeyOfActor DEF IInv, TypeOK, CacheTypeOK, MayOwn, LeftItsRow, Key
  <2>3. /\ \A r \in Searches : goal'[Touch(r)] # "insert"
        /\ \A b \in Actors : pc'[b] \in {"idle", "request"} => goal'[b] = "read"
    BY ActorOf, TouchOfAnother DEF IInv, WriteInv, TypeOK, CacheTypeOK
  <2>. QED BY <1>2, <2>1, <2>2, <2>3, WriteKept
<1>4. DurableInv'
  BY KeyOfActor DEF IInv, DurableInv, TypeOK, CacheTypeOK
<1>. QED BY <1>1, <1>2, <1>3, <1>4 DEF IInv

(* A failed request is tried again while attempts are left. *)
LEMMA RequestFailsStep ==
  ASSUME IInv, NEW s \in Searches, RequestFails(s)
  PROVE  IInv'
<1>. USE ActorOf DEF RequestFails, cacheVars, dbVars, actorVars
<1>1. TypeOK'
  BY RetriesAssumption, RequestAssumption DEF IInv, TypeOK, CacheTypeOK, Waits, Results
<1>2. LockInv'
  <2>1. \A r \in Searches : pc'[Search(r)] # "done" => pc'[Touch(r)] = "idle"
    BY TouchOfAnother DEF IInv, LockInv, TypeOK, CacheTypeOK
  <2>. QED
    BY <2>1, NoOneAssumption DEF IInv, LockInv, TypeOK, CacheTypeOK, Opening, UnderWriteLock
<1>3. WriteInv'
  <2>1. \A b \in Actors : MayOwn(b) => MayOwn(b)'
    BY DEF IInv, WriteInv, TypeOK, CacheTypeOK, MayOwn, LeftItsRow
  <2>2. \A q \in Queries : rows'[q] # file'[q] =>
         rows[q] # file[q] \/ \E b \in Actors : Key(b) = q /\ MayOwn(b)'
    BY KeyOfActor DEF IInv, TypeOK, CacheTypeOK, MayOwn, LeftItsRow, Key
  <2>3. /\ \A r \in Searches : goal'[Touch(r)] # "insert"
        /\ \A b \in Actors : pc'[b] \in {"idle", "request"} => goal'[b] = "read"
    BY ActorOf, TouchOfAnother DEF IInv, WriteInv, TypeOK, CacheTypeOK
  <2>. QED BY <1>2, <2>1, <2>2, <2>3, WriteKept
<1>4. DurableInv'
  BY KeyOfActor DEF IInv, DurableInv, TypeOK, CacheTypeOK
<1>. QED BY <1>1, <1>2, <1>3, <1>4 DEF IInv

(* An answer ends the search or is stored first. *)
LEMMA RespondStep ==
  ASSUME IInv, NEW s \in Searches, NEW content \in {"empty", "results", "error", "raised"},
         Respond(s, content)
  PROVE  IInv'
<1>. USE ActorOf DEF Respond, Begin, Entry, Connected, dbVars
<1>1. TypeOK'
  BY RetriesAssumption, RequestAssumption DEF IInv, TypeOK, CacheTypeOK, Waits, Results
<1>2. LockInv'
  <2>1. \A r \in Searches : pc'[Search(r)] # "done" => pc'[Touch(r)] = "idle"
    BY TouchOfAnother DEF IInv, LockInv, TypeOK, CacheTypeOK
  <2>2. CASE content = "empty"
    BY <2>1, <2>2, NoOneAssumption
    DEF IInv, LockInv, TypeOK, CacheTypeOK, Opening, UnderWriteLock
  <2>3. CASE content # "empty"
    BY <2>1, <2>3, NoOneAssumption
    DEF IInv, LockInv, TypeOK, CacheTypeOK, Opening, UnderWriteLock
  <2>. QED BY <2>2, <2>3
<1>3. WriteInv'
  <2>1. \A b \in Actors : MayOwn(b) => MayOwn(b)'
    BY DEF IInv, WriteInv, TypeOK, CacheTypeOK, MayOwn, LeftItsRow
  <2>2. \A q \in Queries : rows'[q] # file'[q] =>
         rows[q] # file[q] \/ \E b \in Actors : Key(b) = q /\ MayOwn(b)'
    BY KeyOfActor DEF IInv, TypeOK, CacheTypeOK, MayOwn, LeftItsRow, Key
  <2>3. /\ \A r \in Searches : goal'[Touch(r)] # "insert"
        /\ \A b \in Actors : pc'[b] \in {"idle", "request"} => goal'[b] = "read"
    BY ActorOf, TouchOfAnother DEF IInv, WriteInv, TypeOK, CacheTypeOK
  <2>. QED BY <1>2, <2>1, <2>2, <2>3, WriteKept
<1>4. DurableInv'
  BY KeyOfActor DEF IInv, DurableInv, TypeOK, CacheTypeOK
<1>. QED BY <1>1, <1>2, <1>3, <1>4 DEF IInv

(* A finished write reports its row as stored: it is in the file. *)
LEMMA SetReturnsStep ==
  ASSUME IInv, NEW s \in Searches, SetReturns(s)
  PROVE  IInv'
<1>. USE ActorOf DEF SetReturns, dbVars
<1>1. QueryOf[s] \in Queries /\ Key(Search(s)) = QueryOf[s]
  BY QueryAssumption DEF Key, Search
<1>2. TypeOK'
  <2>1. CacheTypeOK'
    BY DEF IInv, TypeOK, CacheTypeOK, Waits
  <2>2. stored' \subseteq Queries
    BY <1>1 DEF IInv, TypeOK
  <2>. QED BY <2>1, <2>2 DEF IInv, TypeOK
<1>3. LockInv'
  <2>1. \A r \in Searches : pc'[Search(r)] # "done" => pc'[Touch(r)] = "idle"
    BY TouchesKept
  <2>. QED
    BY <2>1, NoOneAssumption DEF IInv, LockInv, TypeOK, CacheTypeOK, Opening, UnderWriteLock
<1>4. WriteInv'
  <2>1. \A b \in Actors : MayOwn(b) => MayOwn(b)'
    BY DEF IInv, WriteInv, TypeOK, CacheTypeOK, MayOwn, LeftItsRow
  <2>2. \A q \in Queries : rows'[q] # file'[q] =>
         rows[q] # file[q] \/ \E b \in Actors : Key(b) = q /\ MayOwn(b)'
    BY KeyOfActor DEF IInv, TypeOK, CacheTypeOK, MayOwn, LeftItsRow, Key
  <2>3. /\ \A r \in Searches : goal'[Touch(r)] # "insert"
        /\ \A b \in Actors : pc'[b] \in {"idle", "request"} => goal'[b] = "read"
    BY ActorOf, TouchOfAnother DEF IInv, WriteInv, TypeOK, CacheTypeOK
  <2>. QED BY <1>3, <2>1, <2>2, <2>3, WriteKept
<1>5. DurableInv'
  <2>1. \A q \in stored' : file'[q] # "none"
    <3>1. pc[Search(s)] = "finished" => file[QueryOf[s]] # "none"
      BY <1>1 DEF IInv, DurableInv
    <3>. QED BY <3>1 DEF IInv, DurableInv
  <2>. QED BY <2>1, KeyOfActor DEF IInv, DurableInv, TypeOK, CacheTypeOK, Key
<1>. QED BY <1>2, <1>3, <1>4, <1>5 DEF IInv

(* A cancelled search gives back its locks; its statement may still run. *)
LEMMA CancelStep ==
  ASSUME IInv, NEW s \in Searches, Cancel(s)
  PROVE  IInv'
<1>. USE ActorOf DEF Cancel, Abandon, Release
<1>1. TypeOK'
  <2>1. opened' \in Nat /\ connection' \in 0 .. opened'
    BY DEF IInv, TypeOK, CacheTypeOK
  <2>2. rows' \in [Queries -> Results \cup {"none"}] /\ file' \in [Queries -> Results \cup {"none"}]
    BY KeyOfActor DEF IInv, TypeOK, CacheTypeOK
  <2>. QED BY <2>1, <2>2 DEF IInv, TypeOK, CacheTypeOK, Waits
<1>2. LockInv'
  <2>1. \A r \in Searches : pc'[Search(r)] # "done" => pc'[Touch(r)] = "idle"
    BY TouchOfAnother DEF IInv, LockInv, TypeOK, CacheTypeOK
  <2>. QED
    BY <2>1, NoOneAssumption DEF IInv, LockInv, TypeOK, CacheTypeOK, Opening, UnderWriteLock
<1>3. WriteInv'
  <2>1. \A b \in Actors : MayOwn(b) => MayOwn(b)'
    BY DEF IInv, WriteInv, TypeOK, CacheTypeOK, MayOwn, LeftItsRow
  <2>2. \A q \in Queries : rows'[q] # file'[q] =>
         rows[q] # file[q] \/ \E b \in Actors : Key(b) = q /\ MayOwn(b)'
    BY KeyOfActor DEF IInv, TypeOK, CacheTypeOK, MayOwn, LeftItsRow, Key
  <2>3. /\ \A r \in Searches : goal'[Touch(r)] # "insert"
        /\ \A b \in Actors : pc'[b] \in {"idle", "request"} => goal'[b] = "read"
    BY ActorOf, TouchOfAnother DEF IInv, WriteInv, TypeOK, CacheTypeOK
  <2>. QED BY <1>2, <2>1, <2>2, <2>3, WriteKept
<1>4. DurableInv'
  BY KeyOfActor DEF IInv, DurableInv, TypeOK, CacheTypeOK
<1>. QED BY <1>1, <1>2, <1>3, <1>4 DEF IInv

(* After a restart the connection sees what the file holds. *)
LEMMA RestartStep ==
  ASSUME IInv, Restart
  PROVE  IInv'
<1>. USE DEF Restart, CacheRestart
<1>1. TypeOK'
  BY RetriesAssumption, RequestAssumption DEF IInv, TypeOK, CacheTypeOK, Waits
<1>2. LockInv'
  BY NoOneAssumption, ActorOf DEF LockInv, Opening, UnderWriteLock
<1>3. WriteInv'
  <2>1. /\ \A r \in Searches : goal'[Touch(r)] # "insert"
        /\ \A b \in Actors : pc'[b] \in {"idle", "request"} => goal'[b] = "read"
    BY ActorOf, TouchOfAnother DEF IInv, WriteInv, TypeOK, CacheTypeOK
  <2>2. rows' = file'
    BY DEF IInv
  <2>3. WritersTakeTurns'
    BY <1>2, <2>2 DEF WritersTakeTurns, LockInv, UnderWriteLock
  <2>. QED BY <2>1, <2>3 DEF WriteInv
<1>4. DurableInv'
  BY DEF IInv, DurableInv
<1>. QED BY <1>1, <1>2, <1>3, <1>4 DEF IInv

(***************************************************************************)
(* The inductive invariant holds in every reachable state.                 *)
(***************************************************************************)
THEOREM Invariance == Spec => []IInv
<1>1. IInv /\ [Next]_vars => IInv'
  <2>. SUFFICES ASSUME IInv, [Next]_vars PROVE IInv'
    OBVIOUS
  <2>1. CASE UNCHANGED vars
    BY <2>1 DEF vars, cacheVars, dbVars, actorVars, IInv, TypeOK, CacheTypeOK, LockInv,
                WriteInv, WritersTakeTurns, LeftItsRow, DurableInv, Key
  <2>2. CASE Restart
    BY <2>2, RestartStep
  <2>3. ASSUME NEW s \in Searches, Start(s) \/ SearchStep(s) \/ UsesCache(Touch(s)) \/ Cancel(s)
        PROVE  IInv'
    BY <2>3, ActorOf, UsesCacheStep, StartStep, HitStep, MissStep, RequestFailsStep, RespondStep,
       SetReturnsStep, CancelStep DEF SearchStep
  <2>. QED BY <2>1, <2>2, <2>3 DEF Next
<1>. QED BY InitEstablishes, <1>1, PTL DEF Spec

(***************************************************************************)
(* Every variable keeps its type.                                          *)
(***************************************************************************)
THEOREM Types == Spec => []TypeOK
BY Invariance, PTL DEF IInv

(***************************************************************************)
(* A search is cancelled once, and loses one connection at most.           *)
(***************************************************************************)
LostInv ==
  /\ Lost <= Cardinality(Cancelled)
  /\ \A s \in Cancelled : pc[Search(s)] = "done"

(* The cancelled searches can be counted. *)
LEMMA CancelledFinite == IsFiniteSet(Cancelled) /\ Cardinality(Cancelled) \in Nat
<1>1. Cancelled \in SUBSET Searches
  BY DEF Cancelled
<1>. QED BY <1>1, SearchesAssumption, FS_Subset, FS_CardinalityType

(* A connection is opened when there is none, by an actor that waits. *)
LEMMA CacheLosesNone ==
  ASSUME IInv, LostInv, NEW a \in Actors, UsesCache(a)
  PROVE  LostInv'
<1>1. Cancelled' = Cancelled /\ opened \in Nat /\ pc \in [Actors -> Waits]
  BY DEF UsesCache, Cancelled, IInv, TypeOK, CacheTypeOK
<1>2. pc[a] # "done" /\ \A b \in Actors \ {a} : pc'[b] = pc[b]
  BY <1>1 DEF UsesCache, CacheStep, AcquireWrite, AcquireInit, Connect, SetUp, Initialize,
              Statement, Read, Write, Commit, Fail
<1>3. \A s \in Cancelled' : pc'[Search(s)] = "done"
  BY <1>1, <1>2, ActorOf DEF LostInv, Cancelled
<1>4. \/ UNCHANGED <<connection, opened>>
      \/ connection = 0 /\ opened' = opened + 1 /\ connection' = opened'
  BY DEF UsesCache, CacheStep, AcquireWrite, AcquireInit, Connect, SetUp, Initialize,
         Statement, Read, Write, Commit, Fail, dbVars, IInv, LockInv, Opening
<1>5. Lost' <= Cardinality(Cancelled)'
  BY <1>1, <1>4, CancelledFinite DEF LostInv, Lost
<1>. QED BY <1>3, <1>5 DEF LostInv

(* A search that goes on is not cancelled, and opens nothing. *)
LEMMA SearchLosesNone ==
  ASSUME IInv, LostInv, NEW s \in Searches,
         \/ Start(s) \/ Hit(s) \/ Miss(s) \/ RequestFails(s) \/ SetReturns(s)
         \/ \E content \in {"empty", "results", "error", "raised"} : Respond(s, content)
  PROVE  LostInv'
<1>. USE DEF Start, Hit, Miss, RequestFails, SetReturns, Respond, Begin, cacheVars, dbVars, actorVars
<1>1. UNCHANGED <<connection, opened>>
  OBVIOUS
<1>2. pc[Search(s)] # "done" /\ s \notin Cancelled
  BY DEF LostInv
<1>3. Cancelled' = Cancelled
  <2>1. answer \in [Searches -> {"none", "empty", "results", "error", "raised", "cancelled"}]
    BY DEF IInv, TypeOK
  <2>2. value[Search(s)] # "cancelled"
    BY ActorOf DEF IInv, TypeOK, CacheTypeOK, Results
  <2>3. answer'[s] # "cancelled" /\ \A t \in Searches \ {s} : answer'[t] = answer[t]
    BY <1>2, <2>1, <2>2 DEF Cancelled
  <2>. QED BY <1>2, <2>3 DEF Cancelled
<1>4. \A t \in Cancelled : pc'[Search(t)] = "done"
  BY <1>2, ActorOf, TouchOfAnother DEF LostInv, Cancelled, IInv, TypeOK, CacheTypeOK
<1>. QED BY <1>1, <1>3, <1>4 DEF LostInv, Lost

(* A cancelled search may lose the connection it was opening. *)
LEMMA CancelLosesOne ==
  ASSUME IInv, LostInv, NEW s \in Searches, Cancel(s)
  PROVE  LostInv'
<1>1. /\ s \notin Cancelled /\ connection' = connection
      /\ opened \in Nat /\ opened' \in Nat /\ opened' <= opened + 1
  BY DEF Cancel, Abandon, LostInv, IInv, TypeOK, CacheTypeOK
<1>2. Cancelled' = Cancelled \cup {s}
  BY DEF Cancel, Cancelled, IInv, TypeOK
<1>3. Cardinality(Cancelled)' = Cardinality(Cancelled) + 1
  BY <1>1, <1>2, CancelledFinite, FS_AddElement
<1>4. \A t \in Cancelled' : pc'[Search(t)] = "done"
  BY <1>2, ActorOf, TouchOfAnother DEF Cancel, LostInv, Cancelled, IInv, TypeOK, CacheTypeOK
<1>5. Lost' <= Cardinality(Cancelled)'
  BY <1>1, <1>3, CancelledFinite DEF LostInv, Lost
<1>. QED BY <1>4, <1>5 DEF LostInv

(* A new process has opened nothing. *)
LEMMA RestartLosesNone ==
  ASSUME Restart
  PROVE  LostInv'
<1>1. Cancelled' = {}
  BY DEF Restart, Cancelled
<1>. QED BY <1>1, FS_EmptySet DEF Restart, CacheRestart, LostInv, Lost

(* So it is of every step. *)
LEMMA LostInductive == Spec => []LostInv
<1>1. Init => LostInv
  <2>1. Init => Cancelled = {}
    BY DEF Init, Cancelled
  <2>. QED BY <2>1, FS_EmptySet DEF Init, CacheInit, LostInv, Lost
<1>2. IInv /\ LostInv /\ [Next]_vars => LostInv'
  <2>. SUFFICES ASSUME IInv, LostInv, [Next]_vars PROVE LostInv'
    OBVIOUS
  <2>1. CASE UNCHANGED vars
    BY <2>1 DEF vars, cacheVars, dbVars, actorVars, LostInv, Lost, Cancelled
  <2>2. CASE Restart
    BY <2>2, RestartLosesNone
  <2>3. ASSUME NEW s \in Searches, Start(s) \/ SearchStep(s) \/ UsesCache(Touch(s)) \/ Cancel(s)
        PROVE  LostInv'
    BY <2>3, ActorOf, CacheLosesNone, SearchLosesNone, CancelLosesOne DEF SearchStep
  <2>. QED BY <2>1, <2>2, <2>3 DEF Next
<1>. QED BY <1>1, <1>2, Invariance, PTL DEF Spec

(***************************************************************************)
(* However many coroutines ask for the connection while it is opened, a    *)
(* process never replaces the connection its coroutines use, and opens no  *)
(* other but for those that cancelled searches lost.                       *)
(***************************************************************************)
THEOREM ConnectionStays == Spec => OneConnection
<1>1. IInv /\ [Next]_vars => [connection # 0 => connection' = connection \/ Restart]_vars
  <2>. SUFFICES ASSUME IInv, Next, connection # 0, ~ Restart
                PROVE  connection' = connection
    BY DEF vars, cacheVars, dbVars
  <2>1. \A a \in Actors : pc[a] # "connect"
    BY DEF IInv, LockInv, Opening
  <2>2. ASSUME NEW a \in Actors, UsesCache(a) PROVE connection' = connection
    BY <2>1, <2>2 DEF UsesCache, CacheStep, AcquireWrite, AcquireInit, Connect, SetUp, Initialize,
                      Statement, Read, Write, Commit, Fail, dbVars
  <2>3. PICK s \in Searches : Start(s) \/ SearchStep(s) \/ UsesCache(Touch(s)) \/ Cancel(s)
    BY DEF Next
  <2>4. CASE SearchStep(s)
    BY <2>2, <2>4, ActorOf DEF SearchStep, Hit, Miss, RequestFails, Respond, SetReturns, cacheVars, dbVars
  <2>5. CASE Start(s) \/ Cancel(s)
    BY <2>5 DEF Start, Cancel, Abandon, dbVars
  <2>. QED BY <2>2, <2>3, <2>4, <2>5, ActorOf
<1>2. LostInv' => Lost' <= Cardinality(Cancelled')
  BY DEF LostInv
<1>3. IInv /\ LostInv' /\ [Next]_vars =>
        [/\ connection # 0 => connection' = connection \/ Restart
         /\ Lost' <= Cardinality(Cancelled')]_vars
  BY <1>1, <1>2
<1>. QED BY <1>3, Invariance, LostInductive, PTL DEF Spec, OneConnection

(***************************************************************************)
(* Commits are made under the write lock, and every uncommitted row is     *)
(* that of the writer at its commit or of one that left it behind.         *)
(***************************************************************************)
THEOREM WriterTurns == Spec => []WritersTakeTurns
<1>1. IInv => WritersTakeTurns
  BY DEF IInv, WriteInv
<1>. QED BY <1>1, Invariance, PTL

(***************************************************************************)
(* What was reported as stored stays in the file and is found, whatever    *)
(* fails, is cancelled or is restarted afterwards.                         *)
(***************************************************************************)
THEOREM Durability == Spec => []CacheIsDurable
<1>1. IInv => CacheIsDurable
  BY DEF IInv, DurableInv, CacheIsDurable, TypeOK
<1>. QED BY <1>1, Invariance, PTL

=============================================================================
