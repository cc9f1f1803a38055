----------------------------- MODULE WorkerPool -----------------------------
(***************************************************************************)
(* Worker and WorkloadCapacityLimiter (core/worker.py): the consumers of   *)
(* one process, the permits that bound how many jobs of a workload type    *)
(* run at once, and the round robin over the queues.                       *)
(*                                                                         *)
(* All workers share one event loop, so what a worker does between two     *)
(* awaits that suspend is one action: it suspends in the backend's calls,  *)
(* in the handler and in its sleep, never in acquire or release.           *)
(*                                                                         *)
(* The backend appears only as what its calls may do here: dequeue gives   *)
(* the oldest job, or nothing, or raises; acknowledge and reject succeed   *)
(* or raise.  The queue modules say what it does with its own state.       *)
(***************************************************************************)
EXTENDS Integers, Sequences, FiniteSets

CONSTANTS Workers,
          NumQueues,    \* the queues of config.workload_types, in sorted order
          Limit,        \* max concurrent jobs per queue, 0 for unlimited
          Limiter,      \* whether the workers were given a capacity_limiter
          Handler,      \* the worker whose signal handler is installed, or None
          None,
          MaxAttempts,  \* Job.max_attempts
          MaxWaiting,   \* bound: jobs a producer leaves in one queue
          MaxFaults     \* bound: calls of the backend that raise

Queues  == 0..NumQueues-1
Limited == IF Limiter THEN {q \in Queues : Limit[q] > 0} ELSE {}
Job     == [queue : Queues, attempts : 1..MaxAttempts]

ASSUME PoolAssumption ==
  /\ IsFiniteSet(Workers) /\ NumQueues \in Nat \ {0}
  /\ Limit \in [Queues -> Nat] /\ Limiter \in BOOLEAN
  /\ None \notin Workers /\ Handler \in Workers \cup {None}
  /\ None \notin Queues /\ None \notin Job
  /\ MaxAttempts \in Nat \ {0} /\ MaxWaiting \in Nat /\ MaxFaults \in Nat

VARIABLES
  waiting,   \* the attempts already made of each waiting job, oldest first
  permits,   \* _semaphores: what is left of each limit
  running,   \* Worker._running
  pc,        \* where each worker is suspended
  index,     \* Worker._queue_index
  offset,    \* i of the loop in _dequeue_from_any
  job,       \* Worker._current_job
  acquired,  \* Worker._acquired_capacity
  requeue,   \* should_requeue
  signalled, \* a SIGTERM or SIGINT arrived
  faults     \* calls of the backend that raised so far

worker == <<running, pc, index, offset, job, acquired, requeue>>
vars == <<waiting, permits, worker, signalled, faults>>

Init ==
  /\ waiting = [q \in Queues |-> <<>>]
  /\ permits = Limit
  /\ running = [w \in Workers |-> TRUE]
  /\ pc = [w \in Workers |-> "top"]
  /\ index = [w \in Workers |-> 0]
  /\ offset = [w \in Workers |-> 0]
  /\ job = [w \in Workers |-> None]
  /\ acquired = [w \in Workers |-> None]
  /\ requeue = [w \in Workers |-> FALSE]
  /\ signalled = FALSE
  /\ faults = 0

Submit(q) ==
  /\ Len(waiting[q]) < MaxWaiting
  /\ waiting' = [waiting EXCEPT ![q] = Append(@, 0)]
  /\ UNCHANGED <<permits, worker, signalled, faults>>

------------------------------------------------------------------------------
(***************************************************************************)
(* Permits.                                                                *)
(***************************************************************************)
Slot(w, i) == (index[w] + i) % NumQueues

Free(p, q)    == q \in Limited => p[q] > 0
Taken(p, q)   == IF q \in Limited THEN [p EXCEPT ![q] = @ - 1] ELSE p
Released(p, q) == IF q \in Limited THEN [p EXCEPT ![q] = @ + 1] ELSE p

------------------------------------------------------------------------------
(***************************************************************************)
(* run and _dequeue_from_any.                                              *)
(***************************************************************************)

\* Slip: the rotation stays where a job was found.
SameIndex(i) == i

NextIndex(i) == (i + 1) % NumQueues

\* From position i of the rotation on, take the permit of the first queue that
\* has one and ask that queue for a job; with none left, give up this poll.
Seek(w, i, p) ==
  \/ \E k \in i..NumQueues-1 :
       /\ Free(p, Slot(w, k))
       /\ \A j \in i..k-1 : ~Free(p, Slot(w, j))
       /\ permits' = Taken(p, Slot(w, k))
       /\ offset' = [offset EXCEPT ![w] = k]
       /\ pc' = [pc EXCEPT ![w] = "dequeuing"]
       /\ UNCHANGED index
  \/ /\ \A j \in i..NumQueues-1 : ~Free(p, Slot(w, j))
     /\ permits' = p
     /\ index' = [index EXCEPT ![w] = NextIndex(@)]
     /\ offset' = [offset EXCEPT ![w] = 0]
     /\ pc' = [pc EXCEPT ![w] = "sleeping"]

Poll(w) ==
  /\ pc[w] = "top" /\ running[w]
  /\ Seek(w, 0, permits)
  /\ UNCHANGED <<waiting, running, job, acquired, requeue, signalled, faults>>

Stop(w) ==
  /\ pc[w] = "top" /\ ~running[w]
  /\ pc' = [pc EXCEPT ![w] = "stopped"]
  /\ UNCHANGED <<waiting, permits, running, index, offset, job, acquired,
                 requeue, signalled, faults>>

Asked(w) == Slot(w, offset[w])

\* The permit stays with the job.
TakeJob(w) ==
  /\ pc[w] = "dequeuing" /\ waiting[Asked(w)] # <<>>
  /\ job' = [job EXCEPT ![w] =
       [queue |-> Asked(w), attempts |-> Head(waiting[Asked(w)]) + 1]]
  /\ waiting' = [waiting EXCEPT ![Asked(w)] = Tail(@)]
  /\ acquired' = [acquired EXCEPT ![w] = Asked(w)]
  /\ index' = [index EXCEPT ![w] = NextIndex(Asked(w))]
  /\ offset' = [offset EXCEPT ![w] = 0]
  /\ pc' = [pc EXCEPT ![w] = "handling"]
  /\ UNCHANGED <<permits, running, requeue, signalled, faults>>

\* Slip: the permit of an empty queue is kept.
MoveOnKeeping(w) == Seek(w, offset[w] + 1, permits)

MoveOn(w) == Seek(w, offset[w] + 1, Released(permits, Asked(w)))

FindNothing(w) ==
  /\ pc[w] = "dequeuing" /\ waiting[Asked(w)] = <<>>
  /\ MoveOn(w)
  /\ UNCHANGED <<waiting, running, job, acquired, requeue, signalled, faults>>

Fault == faults < MaxFaults /\ faults' = faults + 1

DequeueFails(w) ==
  /\ pc[w] = "dequeuing"
  /\ Fault
  /\ MoveOn(w)
  /\ UNCHANGED <<waiting, running, job, acquired, requeue, signalled>>

Wake(w) ==
  /\ pc[w] = "sleeping"
  /\ pc' = [pc EXCEPT ![w] = "top"]
  /\ UNCHANGED <<waiting, permits, running, index, offset, job, acquired,
                 requeue, signalled, faults>>

------------------------------------------------------------------------------
(***************************************************************************)
(* _process_job.                                                           *)
(***************************************************************************)
HandlerReturns(w) ==
  /\ pc[w] = "handling"
  /\ pc' = [pc EXCEPT ![w] = "acknowledging"]
  /\ UNCHANGED <<waiting, permits, running, index, offset, job, acquired,
                 requeue, signalled, faults>>

\* The finally block, whichever way the job ended.  (requeue and offset are locals
\* of the code and are reset here when they go out of scope.)
Finally(w, next) ==
  /\ job' = [job EXCEPT ![w] = None]
  /\ permits' = Released(permits, acquired[w])
  /\ acquired' = [acquired EXCEPT ![w] = None]
  /\ requeue' = [requeue EXCEPT ![w] = FALSE]
  /\ pc' = [pc EXCEPT ![w] = next]

Acknowledge(w) ==
  /\ pc[w] = "acknowledging"
  /\ Finally(w, "top")
  /\ UNCHANGED <<waiting, running, index, offset, signalled, faults>>

\* The except clause decides; a job without a tenant is never retried.
Reject(w, again) ==
  /\ requeue' = [requeue EXCEPT ![w] = again]
  /\ pc' = [pc EXCEPT ![w] = "rejecting"]
  /\ UNCHANGED <<waiting, permits, running, index, offset, job, acquired, signalled>>

AttemptsLeft(w) == job[w].attempts < MaxAttempts

HandlerRaises(w, missingTenant) ==
  /\ pc[w] = "handling"
  /\ Reject(w, ~missingTenant /\ AttemptsLeft(w))
  /\ UNCHANGED faults

\* acknowledge stands in the same try: if it raises, the job is rejected.
AcknowledgeFails(w) ==
  /\ pc[w] = "acknowledging"
  /\ Fault
  /\ Reject(w, AttemptsLeft(w))

RejectSucceeds(w) ==
  /\ pc[w] = "rejecting"
  /\ waiting' = IF requeue[w]
                  THEN [waiting EXCEPT ![job[w].queue] = Append(@, job[w].attempts)]
                  ELSE waiting
  /\ Finally(w, "top")
  /\ UNCHANGED <<running, index, offset, signalled, faults>>

\* Nothing catches what reject raises: it leaves run.
RejectFails(w) ==
  /\ pc[w] = "rejecting"
  /\ Fault
  /\ Finally(w, "died")
  /\ UNCHANGED <<waiting, running, index, offset, signalled>>

------------------------------------------------------------------------------
\* handle_signal.  Installing a handler replaces the one installed before.
Signal ==
  /\ Handler # None /\ ~signalled
  /\ signalled' = TRUE
  /\ running' = [running EXCEPT ![Handler] = FALSE]
  /\ UNCHANGED <<waiting, permits, pc, index, offset, job, acquired, requeue, faults>>

Work(w) ==
  \/ Poll(w) \/ Stop(w) \/ TakeJob(w) \/ FindNothing(w) \/ DequeueFails(w)
  \/ Wake(w) \/ HandlerReturns(w) \/ \E t \in BOOLEAN : HandlerRaises(w, t)
  \/ Acknowledge(w) \/ AcknowledgeFails(w) \/ RejectSucceeds(w) \/ RejectFails(w)

Next == (\E q \in Queues : Submit(q)) \/ (\E w \in Workers : Work(w)) \/ Signal

Spec == Init /\ [][Next]_vars

\* The event loop resumes every coroutine; calls and handlers come back.
FairSpec == Spec /\ \A w \in Workers : WF_vars(Work(w))

------------------------------------------------------------------------------
TypeOK ==
  /\ waiting \in [Queues -> Seq(0..MaxAttempts-1)]
  /\ permits \in [Queues -> Nat]
  /\ running \in [Workers -> BOOLEAN]
  /\ pc \in [Workers -> {"top", "dequeuing", "sleeping", "handling",
                         "acknowledging", "rejecting", "stopped", "died"}]
  /\ index \in [Workers -> Queues] /\ offset \in [Workers -> Queues]
  /\ job \in [Workers -> Job \cup {None}]
  /\ acquired \in [Workers -> Queues \cup {None}]
  /\ requeue \in [Workers -> BOOLEAN]
  /\ signalled \in BOOLEAN
  /\ faults \in Nat

Busy(w) == pc[w] \in {"handling", "acknowledging", "rejecting"}
Prober(q) == {w \in Workers : pc[w] = "dequeuing" /\ Asked(w) = q}
Runner(q) == {w \in Workers : acquired[w] = q}

(***************************************************************************)
(* Every permit that is not free is held by exactly one worker: one that   *)
(* is asking that queue for a job, or one that runs a job of it.  No path  *)
(* through _dequeue_from_any and _process_job leaks a permit or releases   *)
(* one twice.                                                              *)
(***************************************************************************)
PermitsAccounted ==
  \A q \in Limited : permits[q] + Cardinality(Prober(q) \cup Runner(q)) = Limit[q]

(***************************************************************************)
(* "Max concurrent OCR jobs per worker process": no more handlers of a     *)
(* workload type run at once than its setting allows.                      *)
(***************************************************************************)
Handling(q) == {w \in Workers : job[w] # None /\ job[w].queue = q}

WithinLimits ==
  \A q \in Queues : Limit[q] > 0 => Cardinality(Handling(q)) <= Limit[q]

(***************************************************************************)
(* Round-robin polling: "preventing any single queue from starving others  *)
(* when under continuous load".  A job that waits is eventually followed   *)
(* by a job of its queue being handled, whatever arrives elsewhere, unless *)
(* no worker is left.                                                      *)
(***************************************************************************)
Ended(w) == pc[w] \in {"stopped", "died"}

NoStarvation ==
  \A q \in Queues : waiting[q] # <<>> ~> Handling(q) # {} \/ \A w \in Workers : Ended(w)

------------------------------------------------------------------------------
(***************************************************************************)
(* run "blocks until a shutdown signal (SIGTERM/SIGINT) is received".      *)
(***************************************************************************)
RunsUntilSignal == \A w \in Workers : Ended(w) => signalled

==============================================================================
