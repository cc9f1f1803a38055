---------------------------- MODULE InMemoryQueue ----------------------------
(***************************************************************************)
(* InMemoryQueueBackend (core/queue_backend.py): one named queue of the    *)
(* in-process backend, and the consumers that compete for its jobs.        *)
(*                                                                         *)
(* Every method body runs under one RLock and awaits nothing while it      *)
(* holds it, so each is one action.  Queue names partition the state; the  *)
(* only method that touches a queue other than its own is _maybe_cleanup,  *)
(* and what it does to another queue is the action Refresh of that queue.  *)
(*                                                                         *)
(* Time is kept as what remains of each timer: "left" of a lease is its    *)
(* expiry minus the clock, cut off at -1 (expired), and "left" of a        *)
(* scheduled job is its execute_at minus the clock, cut off at 0 (due).    *)
(* Tick lets one unit pass.                                                *)
(***************************************************************************)
EXTENDS Integers, Sequences, FiniteSets

CONSTANTS Jobs,         \* the identities of the jobs (Job.id)
          Workers,      \* the consumers
          Endless,      \* those that call dequeue with timeout_seconds = 0
          None,         \* "no job", "no lease"
          MaxAttempts,  \* Job.max_attempts, per job
          Visibility,   \* Job.visibility_timeout
          Extension,    \* additional_seconds of a heartbeat
          MaxDelay,     \* bound: the largest delay_seconds of schedule
          MaxLeft,      \* bound: how far ahead heartbeats may push a lease
          MaxLapses     \* bound: how often the lease of one job may run out

Copy  == [id : Jobs, attempts : Nat]
Lease == [attempts : Nat, left : Int, owner : Workers]

ASSUME QueueAssumption ==
  /\ IsFiniteSet(Jobs) /\ Endless \subseteq Workers
  /\ MaxAttempts \in [Jobs -> Nat \ {0}]
  /\ Visibility \in Nat /\ Extension \in Nat \ {0}
  /\ MaxDelay \in Nat /\ MaxLeft \in Nat /\ MaxLapses \in Nat
  /\ None \notin Copy /\ None \notin Lease /\ None \notin Jobs

VARIABLES
  queue,       \* _queues: the waiting copies, first in first out
  processing,  \* _processing: the lease of each job handed out, or None
  scheduled,   \* _scheduled: delayed copies with their timers, soonest first
  held,        \* the copy each consumer received and has not reported on
  mode         \* where each consumer stands in dequeue

\* History of the run, read by no action of the backend.  The owner of a lease
\* is history too: _processing records the job and not who received it.
VARIABLES
  sent,     \* jobs enqueued or scheduled
  done,     \* jobs acknowledged
  dropped,  \* jobs a reject discarded
  lapsed,   \* jobs restored at least once after their lease ran out
  delayed,  \* jobs that went through _scheduled
  stale,    \* consumers still running a job whose lease ran out
  lapses    \* how often the lease of each job ran out

backend == <<queue, processing, scheduled>>
history == <<sent, done, dropped, lapsed, delayed, stale, lapses>>
vars == <<backend, held, mode, history>>

Init ==
  /\ queue = <<>> /\ scheduled = <<>>
  /\ processing = [j \in Jobs |-> None]
  /\ held = [w \in Workers |-> None]
  /\ mode = [w \in Workers |-> "idle"]
  /\ sent = {} /\ done = {} /\ dropped = {}
  /\ lapsed = {} /\ delayed = {} /\ stale = {}
  /\ lapses = [j \in Jobs |-> 0]

------------------------------------------------------------------------------
(***************************************************************************)
(* _restore_expired_jobs and _move_scheduled_jobs, which every dequeue and *)
(* every inspection of the queue runs first.                               *)
(***************************************************************************)
Leased  == {j \in Jobs : processing[j] # None}
Expired == {j \in Leased : processing[j].left < 0}

\* The orders in which the jobs of S may stand in the dict of leases.
Orderings(S) ==
  {o \in [1..Cardinality(S) -> S] : \A j \in S : \E i \in DOMAIN o : o[i] = j}

\* The expired copies, as they are put at the front of the queue.
Restored(o) ==
  [i \in DOMAIN o |-> [id |-> o[i], attempts |-> processing[o[i]].attempts]]

\* Slip: the move that is never reached.
NeverDue(n) == n = 0

\* The copies whose time has come are the first n: schedule keeps them sorted.
DueCount(n) ==
  /\ n \in 0..Len(scheduled)
  /\ \A i \in 1..n : scheduled[i].left <= 0
  /\ \A i \in n+1..Len(scheduled) : scheduled[i].left > 0

Due(n)      == [i \in 1..n |-> scheduled[i].job]

\* Slips: one scheduled copy too many removed, or none.
RemainingSkipsOne(n) == SubSeq(scheduled, n+2, Len(scheduled))

Remaining(n) == SubSeq(scheduled, n+1, Len(scheduled))

RefreshedQueue(o, n) == Restored(o) \o queue \o Due(n)

\* Slip: a restore that leaves the lease behind.
LeasesNotDeleted == processing

KeptLeases == [j \in Jobs |-> IF j \in Expired THEN None ELSE processing[j]]

RecordRestore ==
  /\ lapsed' = lapsed \cup Expired
  /\ stale' = stale \cup {processing[j].owner : j \in Expired}

------------------------------------------------------------------------------
(***************************************************************************)
(* Producers.                                                              *)
(***************************************************************************)

\* Slip: the signal left out.
WakeNobody(m) == m

\* event.set() resumes every consumer that waits in dequeue.
Wake(m) == [w \in Workers |-> IF m[w] = "waiting" THEN "woken" ELSE m[w]]

Enqueue(j) ==
  /\ j \notin sent
  /\ queue' = Append(queue, [id |-> j, attempts |-> 0])
  /\ mode' = Wake(mode)
  /\ sent' = sent \cup {j}
  /\ UNCHANGED <<processing, scheduled, held, done, dropped, lapsed, delayed,
                 stale, lapses>>

\* A copy due in delay goes behind the first k, which are due no later.
InsertAfter(k, delay) ==
  /\ \A i \in 1..k : scheduled[i].left <= delay
  /\ k < Len(scheduled) => scheduled[k+1].left > delay

\* Nobody is woken, now or when the copy becomes due.
Schedule(j, delay) ==
  /\ j \notin sent
  /\ \E k \in 0..Len(scheduled) :
       /\ InsertAfter(k, delay)
       /\ scheduled' = SubSeq(scheduled, 1, k)
                       \o <<[job |-> [id |-> j, attempts |-> 0], left |-> delay]>>
                       \o SubSeq(scheduled, k+1, Len(scheduled))
  /\ sent' = sent \cup {j}
  /\ delayed' = delayed \cup {j}
  /\ UNCHANGED <<queue, processing, held, mode, done, dropped, lapsed, stale,
                 lapses>>

------------------------------------------------------------------------------
(***************************************************************************)
(* Consumers.                                                              *)
(***************************************************************************)
\* dequeue returns a job, at once or after it was woken.  A lease that the same
\* job already has is overwritten.
Dequeue(w) ==
  /\ mode[w] \in {"idle", "woken"}
  /\ \E o \in Orderings(Expired), n \in 0..Len(scheduled) :
       /\ DueCount(n)
       /\ RefreshedQueue(o, n) # <<>>
       /\ LET copy == Head(RefreshedQueue(o, n))
              job  == [copy EXCEPT !.attempts = @ + 1]
          IN  /\ held' = [held EXCEPT ![w] = job]
              /\ processing' = [KeptLeases EXCEPT ![job.id] =
                   [attempts |-> job.attempts, left |-> Visibility, owner |-> w]]
       /\ queue' = Tail(RefreshedQueue(o, n))
       /\ scheduled' = Remaining(n)
  /\ mode' = [mode EXCEPT ![w] = "busy"]
  /\ RecordRestore
  /\ UNCHANGED <<sent, done, dropped, delayed, lapses>>

\* dequeue finds nothing and waits for the event (timeout_seconds given).  The
\* event is cleared and awaited without a suspension in between.
WaitForJob(w) ==
  /\ mode[w] \in {"idle", "woken"}
  /\ queue = <<>> /\ Expired = {} /\ DueCount(0)
  /\ mode' = [mode EXCEPT ![w] = "waiting"]
  /\ UNCHANGED <<backend, held, history>>

\* A positive timeout_seconds ran out: dequeue returns None without looking again.
DequeueTimeout(w) ==
  /\ w \notin Endless
  /\ mode[w] = "waiting"
  /\ mode' = [mode EXCEPT ![w] = "idle"]
  /\ UNCHANGED <<backend, held, history>>

\* The lease is found by the job's id, whoever received it last.
Acknowledge(w) ==
  /\ mode[w] = "busy"
  /\ processing' = [processing EXCEPT ![held[w].id] = None]
  /\ done' = done \cup {held[w].id}
  /\ held' = [held EXCEPT ![w] = None]
  /\ mode' = [mode EXCEPT ![w] = "idle"]
  /\ stale' = stale \ {w}
  /\ UNCHANGED <<queue, scheduled, sent, dropped, lapsed, delayed, lapses>>

\* Slip: one attempt too many.
MayRequeueOnceMore(job) == job.attempts <= MaxAttempts[job.id]

MayRequeue(job) == job.attempts < MaxAttempts[job.id]

\* reject puts the copy back whether or not it still had a lease.
Reject(w, requeue) ==
  /\ mode[w] = "busy"
  /\ processing' = [processing EXCEPT ![held[w].id] = None]
  /\ IF requeue /\ MayRequeue(held[w])
       THEN /\ queue' = Append(queue, held[w])
            /\ mode' = Wake([mode EXCEPT ![w] = "idle"])
            /\ UNCHANGED dropped
       ELSE /\ dropped' = dropped \cup {held[w].id}
            /\ mode' = [mode EXCEPT ![w] = "idle"]
            /\ UNCHANGED queue
  /\ held' = [held EXCEPT ![w] = None]
  /\ stale' = stale \ {w}
  /\ UNCHANGED <<scheduled, sent, done, lapsed, delayed, lapses>>

\* max(current_expiry, now) + additional_seconds, again by the job's id.
ExtendedLeft(left) == (IF left > 0 THEN left ELSE 0) + Extension

ExtendVisibility(w) ==
  /\ mode[w] = "busy"
  /\ processing[held[w].id] # None
  /\ ExtendedLeft(processing[held[w].id].left) <= MaxLeft
  /\ processing' = [processing EXCEPT ![held[w].id].left = ExtendedLeft(@)]
  /\ UNCHANGED <<queue, scheduled, held, mode, history>>

------------------------------------------------------------------------------
(***************************************************************************)
(* peek, pending_count and total_count restore and move; active_count only *)
(* restores.  None of them signals the event.                              *)
(***************************************************************************)
Refresh ==
  /\ \E o \in Orderings(Expired), n \in 0..Len(scheduled) :
       /\ DueCount(n)
       /\ queue' = RefreshedQueue(o, n)
       /\ scheduled' = Remaining(n)
  /\ processing' = KeptLeases
  /\ RecordRestore
  /\ UNCHANGED <<held, mode, sent, done, dropped, delayed, lapses>>

ActiveCount ==
  /\ \E o \in Orderings(Expired) : queue' = Restored(o) \o queue
  /\ processing' = KeptLeases
  /\ RecordRestore
  /\ UNCHANGED <<scheduled, held, mode, sent, done, dropped, delayed, lapses>>

\* One unit of time.  Within the bound, any lease may run out.
RunsOut(j) == processing[j] # None /\ processing[j].left = 0

Older(lease)  == IF lease.left < 0 THEN lease ELSE [lease EXCEPT !.left = @ - 1]
Sooner(entry) == IF entry.left > 0 THEN [entry EXCEPT !.left = @ - 1] ELSE entry

Tick ==
  /\ \A j \in Jobs : RunsOut(j) => lapses[j] < MaxLapses
  /\ processing' = [j \in Jobs |->
       IF processing[j] = None THEN None ELSE Older(processing[j])]
  /\ scheduled' = [i \in DOMAIN scheduled |-> Sooner(scheduled[i])]
  /\ lapses' = [j \in Jobs |-> IF RunsOut(j) THEN lapses[j] + 1 ELSE lapses[j]]
  /\ UNCHANGED <<queue, held, mode, sent, done, dropped, lapsed, delayed, stale>>

Finish(w) == Acknowledge(w) \/ \E requeue \in BOOLEAN : Reject(w, requeue)

Next ==
  \/ \E j \in Jobs : Enqueue(j) \/ \E d \in 1..MaxDelay : Schedule(j, d)
  \/ \E w \in Workers : \/ Dequeue(w) \/ WaitForJob(w) \/ DequeueTimeout(w)
                        \/ Finish(w) \/ ExtendVisibility(w)
  \/ Refresh \/ ActiveCount \/ Tick

Spec == Init /\ [][Next]_vars

(***************************************************************************)
(* A consumer polls again and again, a positive timeout runs out, a        *)
(* handler returns or raises, and time passes.  Nothing makes a producer   *)
(* submit, a monitor look or a heartbeat beat.                             *)
(***************************************************************************)
Fairness ==
  /\ \A w \in Workers :
       WF_vars(Dequeue(w)) /\ WF_vars(DequeueTimeout(w)) /\ WF_vars(Finish(w))
  /\ WF_vars(Tick)

FairSpec == Spec /\ Fairness

------------------------------------------------------------------------------
InQueue(j)     == {i \in DOMAIN queue : queue[i].id = j}
InScheduled(j) == {i \in DOMAIN scheduled : scheduled[i].job.id = j}
Stored(j) == InQueue(j) # {} \/ InScheduled(j) # {} \/ processing[j] # None
Settled   == done \cup dropped

TypeOK ==
  /\ queue \in Seq(Copy)
  /\ processing \in [Jobs -> Lease \cup {None}]
  /\ scheduled \in Seq([job : Copy, left : Nat])
  /\ held \in [Workers -> Copy \cup {None}]
  /\ mode \in [Workers -> {"idle", "waiting", "woken", "busy"}]
  /\ \A w \in Workers : mode[w] = "busy" <=> held[w] # None
  /\ sent \subseteq Jobs /\ done \subseteq Jobs /\ dropped \subseteq Jobs
  /\ lapsed \subseteq Jobs /\ delayed \subseteq Jobs
  /\ stale \subseteq Workers
  /\ lapses \in [Jobs -> Nat]

(***************************************************************************)
(* A job that was enqueued and that no worker has finished or given up has *)
(* a copy in one of the three structures of the backend, whatever late     *)
(* acknowledgements, late rejections, restores and moves came in between.  *)
(***************************************************************************)
NothingLost == \A j \in sent \ Settled : Stored(j)

(***************************************************************************)
(* A lease belongs to a worker that still runs that very delivery of the   *)
(* job and whose visibility timeout has not been enforced: no report of a  *)
(* worker leaves a lease behind, and no late report leaves one to nobody.  *)
(***************************************************************************)
LeaseHasRunner ==
  \A j \in Leased :
    LET w == processing[j].owner
    IN  held[w] = [id |-> j, attempts |-> processing[j].attempts] /\ w \notin stale

(***************************************************************************)
(* reject gives a job up at max_attempts, so only an expired lease, which  *)
(* _restore_expired_jobs returns without looking at the count, lets a job  *)
(* be attempted more often: once more for every lease that ran out.  What  *)
(* waits still has an attempt to spend, and so has what is about to be     *)
(* restored.                                                               *)
(***************************************************************************)
Limit(j) == MaxAttempts[j] + lapses[j]

AttemptsBounded ==
  /\ \A w \in Workers : held[w] # None => held[w].attempts <= Limit(held[w].id)
  /\ \A i \in DOMAIN queue : queue[i].attempts < Limit(queue[i].id)
  /\ \A i \in DOMAIN scheduled : scheduled[i].job.attempts < Limit(scheduled[i].job.id)
  /\ \A j \in Leased : processing[j].attempts <= Limit(j)
  /\ \A j \in Expired : processing[j].attempts < Limit(j)

(***************************************************************************)
(* While a consumer sleeps in dequeue, nothing waits that was put into the *)
(* queue by enqueue or reject: both wake every sleeper, and a woken        *)
(* consumer sleeps again only over an empty queue.  What _restore and      *)
(* _move put there wakes nobody.                                           *)
(***************************************************************************)
NoMissedWakeup ==
  (\E w \in Workers : mode[w] = "waiting") =>
    \A i \in DOMAIN queue : queue[i].id \in lapsed \cup delayed

(***************************************************************************)
(* Every job that is enqueued or scheduled is eventually finished or given *)
(* up, through failures, retries, expired leases and late reports.         *)
(***************************************************************************)
EverySettled == \A j \in Jobs : j \in sent ~> j \in Settled

(***************************************************************************)
(* The backend keeps the promise of the protocol.                          *)
(***************************************************************************)
StoredJobs == {j \in Jobs : Stored(j)}
RunningJob == [w \in Workers |-> IF held[w] = None THEN None ELSE held[w].id]

Promise == INSTANCE AtLeastOnce WITH
  Nobody <- None, stored <- StoredJobs, running <- RunningJob, settled <- Settled

KeepsPromise == Promise!Spec

==============================================================================
