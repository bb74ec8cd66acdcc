--------------------------- MODULE CascadeWorker ---------------------------
(***************************************************************************)
(* AsyncRevocationCascade (cogtrust/workers/async_cascade.py): a bounded   *)
(* queue in front of worker threads that run revoke_with_cascade, composed *)
(* with the writers of the lineage store.  submit() never blocks; a worker *)
(* looks at the shutdown event between jobs; shutdown() sets the event,    *)
(* then queues one sentinel per worker, unless the queue is full.          *)
(***************************************************************************)
EXTENDS Cascade

CONSTANTS
  Submitters,   \* the threads that call submit()
  QueueSize,    \* max_queue_size
  Sentinel,     \* the "__shutdown__" job
  MaxSubmits,   \* bound on the calls of submit()
  MaxFailures   \* bound on the cascades a failing store interrupts

ASSUME WorkerAssumption ==
  /\ QueueSize \in Nat \ {0} /\ MaxSubmits \in 0..MaxCascades /\ MaxFailures \in Nat
  /\ Sentinel \notin Ids
  /\ IsFiniteSet(Revokers) /\ IsFiniteSet(Submitters)

VARIABLES
  queue,       \* _queue
  shutdown,    \* _shutdown
  toWake,      \* sentinels shutdown() has still to queue
  worker,      \* per worker (a revoker), where its loop is, and its job
  submitting,  \* per submitter, the job its submit() has queued but not counted
  metrics,     \* _metrics
  submits      \* calls of submit() so far

queueVars == <<queue, shutdown, toWake, worker, submitting, metrics, submits>>
workerVars == <<cascadeVars, queueVars>>

Job == Ids \cup {Sentinel}
WorkerState ==
  [pc: {"check", "get", "begin", "work", "finish", "stopped"}, job: Ids \cup {None}]
Metrics == [queued: Nat, inFlight: Nat, completed: Nat, failed: Nat, rejected: Nat]

WorkerInit ==
  /\ CascadeInit
  /\ queue = <<>>
  /\ shutdown = FALSE
  /\ toWake = 0
  /\ worker = [t \in Revokers |-> [pc |-> "check", job |-> None]]
  /\ submitting = [t \in Submitters |-> None]
  /\ metrics = [queued |-> 0, inFlight |-> 0, completed |-> 0, failed |-> 0, rejected |-> 0]
  /\ submits = 0

\* Mutant: a full queue silently loses the job, and submit() still answers True.
SubmitLossy(t, id) ==
  /\ submitting[t] = None /\ submits < MaxSubmits
  /\ submits' = submits + 1
  /\ submitting' = [submitting EXCEPT ![t] = id]
  /\ queue' = IF Len(queue) < QueueSize THEN Append(queue, id) ELSE queue
  /\ UNCHANGED <<cascadeVars, shutdown, toWake, worker, metrics>>

\* put_nowait: the job is queued, or counted as rejected when the queue is full.
Submit(t, id) ==
  /\ submitting[t] = None /\ submits < MaxSubmits
  /\ submits' = submits + 1
  /\ \/ /\ Len(queue) < QueueSize
        /\ queue' = Append(queue, id)
        /\ submitting' = [submitting EXCEPT ![t] = id]
        /\ UNCHANGED metrics
     \/ /\ Len(queue) = QueueSize
        /\ metrics' = [metrics EXCEPT !.rejected = @ + 1]
        /\ UNCHANGED <<queue, submitting>>
  /\ UNCHANGED <<cascadeVars, shutdown, toWake, worker>>

\* `jobs_queued += 1` after the put: a worker may have the job already.
SubmitCount(t) ==
  /\ submitting[t] # None
  /\ metrics' = [metrics EXCEPT !.queued = @ + 1]
  /\ submitting' = [submitting EXCEPT ![t] = None]
  /\ UNCHANGED <<cascadeVars, queue, shutdown, toWake, worker, submits>>

\* Mutant: the loop trusts the sentinel and does not look at the event.
WorkerCheckNoEvent(t) ==
  /\ worker[t].pc = "check"
  /\ worker' = [worker EXCEPT ![t].pc = "get"]
  /\ UNCHANGED <<cascadeVars, queue, shutdown, toWake, submitting,
                 metrics, submits>>

\* `while not self._shutdown.is_set()`
WorkerCheck(t) ==
  /\ worker[t].pc = "check"
  /\ worker' = [worker EXCEPT ![t].pc = IF shutdown THEN "stopped" ELSE "get"]
  /\ UNCHANGED <<cascadeVars, queue, shutdown, toWake, submitting,
                 metrics, submits>>

\* Mutant: `break` instead of `continue` when the queue is empty.
WorkerGetBreaks(t) ==
  /\ worker[t].pc = "get"
  /\ \/ /\ queue # <<>>
        /\ queue' = Tail(queue)
        /\ worker' = [worker EXCEPT ![t] =
             IF Head(queue) = Sentinel THEN [pc |-> "stopped", job |-> None]
             ELSE [pc |-> "begin", job |-> Head(queue)]]
     \/ /\ queue = <<>>
        /\ worker' = [worker EXCEPT ![t].pc = "stopped"]
        /\ UNCHANGED queue
  /\ UNCHANGED <<cascadeVars, shutdown, toWake, submitting, metrics, submits>>

\* get(timeout=0.5): a job, the sentinel (break), or queue.Empty (continue).
WorkerGet(t) ==
  /\ worker[t].pc = "get"
  /\ \/ /\ queue # <<>>
        /\ queue' = Tail(queue)
        /\ worker' = [worker EXCEPT ![t] =
             IF Head(queue) = Sentinel THEN [pc |-> "stopped", job |-> None]
             ELSE [pc |-> "begin", job |-> Head(queue)]]
     \/ /\ queue = <<>>
        /\ worker' = [worker EXCEPT ![t].pc = "check"]
        /\ UNCHANGED queue
  /\ UNCHANGED <<cascadeVars, shutdown, toWake, submitting, metrics, submits>>

\* _process_job: `jobs_in_flight += 1`, call revoke_with_cascade.
WorkerBegin(t) ==
  /\ worker[t].pc = "begin"
  /\ metrics' = [metrics EXCEPT !.inFlight = @ + 1]
  /\ worker' = [worker EXCEPT ![t].pc = "work"]
  /\ CascadeStart(t, worker[t].job)
  /\ UNCHANGED <<queue, shutdown, toWake, submitting, submits>>

WorkerCascade(t) == CascadeStep(t) /\ UNCHANGED queueVars

\* revoke_with_cascade has returned: `jobs_completed += 1`.
WorkerComplete(t) ==
  /\ worker[t].pc = "work" /\ CascadeDone(t)
  /\ metrics' = [metrics EXCEPT !.completed = @ + 1]
  /\ worker' = [worker EXCEPT ![t].pc = "finish"]
  /\ cascade' = [cascade EXCEPT ![t] = NoCascade]
  /\ UNCHANGED <<lineageVars, indexVars, cascades, queue, shutdown, toWake, submitting, submits>>

\* A store that raises in all_descendants (the SQLite one may): `jobs_failed += 1`, and
\* the rest of the cascade is abandoned.
WorkerFail(t) ==
  /\ worker[t].pc = "work" /\ cascade[t].pc = "walk"
  /\ metrics.failed < MaxFailures
  /\ metrics' = [metrics EXCEPT !.failed = @ + 1]
  /\ worker' = [worker EXCEPT ![t].pc = "finish"]
  /\ cascade' = [cascade EXCEPT ![t] = NoCascade]
  /\ UNCHANGED <<lineageVars, indexVars, cascades, queue, shutdown, toWake, submitting, submits>>

\* finally: `jobs_in_flight -= 1`, back to the loop.
WorkerFinish(t) ==
  /\ worker[t].pc = "finish"
  /\ metrics' = [metrics EXCEPT !.inFlight = @ - 1]
  /\ worker' = [worker EXCEPT ![t] = [pc |-> "check", job |-> None]]
  /\ UNCHANGED <<cascadeVars, queue, shutdown, toWake, submitting, submits>>

\* shutdown(): set the event ...
ShutdownSet ==
  /\ ~shutdown
  /\ shutdown' = TRUE
  /\ toWake' = Cardinality(Revokers)
  /\ UNCHANGED <<cascadeVars, queue, worker, submitting, metrics, submits>>

\* ... and queue one sentinel per worker, or give up on it when the queue is full.
ShutdownWake ==
  /\ toWake > 0
  /\ toWake' = toWake - 1
  /\ queue' = IF Len(queue) < QueueSize THEN Append(queue, Sentinel) ELSE queue
  /\ UNCHANGED <<cascadeVars, shutdown, worker, submitting, metrics, submits>>

WriterStep ==
  /\ LineageNext
  /\ UNCHANGED <<indexVars, cascade, cascades, queueVars>>

WorkerStep(t) ==
  \/ WorkerCheck(t) \/ WorkerGet(t) \/ WorkerBegin(t) \/ WorkerCascade(t)
  \/ WorkerComplete(t) \/ WorkerFinish(t)

WorkerNext ==
  \/ \E t \in Submitters : SubmitCount(t) \/ \E id \in Ids : Submit(t, id)
  \/ \E t \in Revokers : WorkerStep(t) \/ WorkerFail(t)
  \/ ShutdownSet \/ ShutdownWake
  \/ WriterStep

WorkerSpec == WorkerInit /\ [][WorkerNext]_workerVars

\* Worker threads and a submit() or shutdown() in progress keep running; an index lock
\* is only held for two assignments, so a worker waiting for it gets it in the end.
FairWorkerSpec ==
  /\ WorkerSpec
  /\ \A t \in Revokers : SF_workerVars(WorkerStep(t))
  /\ \A t \in Submitters : WF_workerVars(SubmitCount(t))
  /\ WF_workerVars(ShutdownWake)

-----------------------------------------------------------------------------
\* The metrics lose no job (async_cascade.py:121-227): every job whose submit()
\* returned True is in the queue, with a worker, completed or failed, exactly once,
\* and every submit() is counted once, as queued or as rejected.
MetricsAccountForJobs ==
  LET waiting == Cardinality({n \in 1..Len(queue) : queue[n] # Sentinel})
      held == Cardinality({t \in Revokers : worker[t].pc \in {"begin", "work"}})
      uncounted == Cardinality({t \in Submitters : submitting[t] # None})
  IN /\ metrics.queued + uncounted = waiting + held + metrics.completed + metrics.failed
     /\ metrics.queued + uncounted + metrics.rejected = submits
     /\ metrics.inFlight = Cardinality({t \in Revokers : worker[t].pc \in {"work", "finish"}})

\* CT-I5: a job in the queue is eventually served -- its attestation is revoked --
\* unless the worker pool is shut down first.
AcceptedIsRevoked ==
  \A id \in Ids :
    (\E n \in 1..Len(queue) : queue[n] = id) ~> (id \in Revoked \/ shutdown)

\* shutdown() stops every worker, even when the queue was too full for its sentinel:
\* the timeout of get() lets the worker see the event (async_cascade.py:180-188).
ShutdownStopsWorkers ==
  shutdown ~> \A t \in Revokers : worker[t].pc = "stopped"
=============================================================================
