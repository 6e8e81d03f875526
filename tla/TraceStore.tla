----------------------------- MODULE TraceStore -----------------------------
(***************************************************************************)
(* The tracer of the proxy (rllm/sdk/tracers/sqlite.py) on its store       *)
(* (rllm/sdk/store/sqlite_store.py): a bounded queue of traces, one        *)
(* background worker that stores them one at a time, and flush, which      *)
(* waits for the queue.  The proxy is a process that may die.              *)
(*                                                                         *)
(* Every trace has its session uids, and nothing closes the tracer: the    *)
(* stop sentinel is left out, and so is the tracing that awaits the store. *)
(* One worker stores in the order of the queue, so that created_at orders  *)
(* the traces of a session as they were logged; stored is the set of them. *)
(*                                                                         *)
(* FlushedEarly is a plausible bug, as in ReactAgent.                      *)
(***************************************************************************)
EXTENDS Integers, Sequences, SequencesExt

CONSTANTS
  QueueSize,      \* max_queue_size
  StoreAttempts,  \* max_retries of _store_trace_with_retry
  NoTrace         \* the worker waits for a trace

ASSUME QueueAssumption == QueueSize \in Nat \ {0}
ASSUME StoreAssumption == StoreAttempts \in Nat \ {0}

VARIABLES
  up,       \* the proxy runs
  queue,    \* _store_queue
  storing,  \* the trace the worker is storing
  tries,    \* attempts it made before
  stored    \* the traces in the file

storeVars == <<up, queue, storing, tries, stored>>

StoreInit ==
  /\ up = TRUE
  /\ queue = <<>>
  /\ storing = NoTrace
  /\ tries = 0
  /\ stored = {}

(***************************************************************************)
(* log_llm_call: a full queue drops the trace.                             *)
(***************************************************************************)
Log(t) ==
  /\ up
  /\ queue' = IF Len(queue) < QueueSize THEN Append(queue, t) ELSE queue
  /\ UNCHANGED <<up, storing, tries, stored>>

Take ==
  /\ storing = NoTrace
  /\ queue # <<>>
  /\ storing' = Head(queue)
  /\ queue' = Tail(queue)
  /\ UNCHANGED <<up, tries, stored>>

StoreSucceeds ==
  /\ storing # NoTrace
  /\ stored' = stored \cup {storing}
  /\ storing' = NoTrace
  /\ tries' = 0
  /\ UNCHANGED <<up, queue>>

(***************************************************************************)
(* The write raises, perhaps after it committed: the next attempt replaces *)
(* the row.  After the last attempt the trace is given up, and counts as   *)
(* done all the same.                                                      *)
(***************************************************************************)
StoreFails(committed) ==
  /\ storing # NoTrace
  /\ stored' = IF committed THEN stored \cup {storing} ELSE stored
  /\ IF tries + 1 < StoreAttempts
       THEN tries' = tries + 1 /\ UNCHANGED storing
       ELSE tries' = 0 /\ storing' = NoTrace
  /\ UNCHANGED <<up, queue>>

Worker == Take \/ StoreSucceeds \/ \E committed \in BOOLEAN : StoreFails(committed)

(***************************************************************************)
(* queue.join: every trace that was queued is a task done.                 *)
(***************************************************************************)
FlushedEarly == queue = <<>>

Flushed == queue = <<>> /\ storing = NoTrace

(***************************************************************************)
(* The proxy dies with the traces of its queue; nothing starts it again.   *)
(***************************************************************************)
Die ==
  /\ up
  /\ up' = FALSE
  /\ queue' = <<>>
  /\ storing' = NoTrace
  /\ tries' = 0
  /\ UNCHANGED stored

=============================================================================
