----------------------------- MODULE PluginFeed -----------------------------
(***************************************************************************)
(* The runs of one plugin feed: the scheduler that turns a due feed into   *)
(* an execution row and a job (services/plugins_scheduler_service.py), the *)
(* worker that handles the job (_handle_plugin_execution_job), run_pending *)
(* behind run-now and run-pending, and the endpoint that disables the feed *)
(* (api/plugins_feeds.py).                                                 *)
(*                                                                         *)
(* An action is one transaction, or the part of one that others can see: a *)
(* row locked, a job enqueued before the commit.  The plugin resolves, is  *)
(* entitled and the feed has an owner.  The database does not fail, and    *)
(* the queue is the one AtLeastOnce promises, in any order.                *)
(***************************************************************************)
EXTENDS Integers, FiniteSets, Bags

CONSTANTS
  Workers,
  Runners,     \* calls of run_pending under way
  None,
  MaxAttempts, \* max_attempts of the job
  MaxRuns, MaxManual, MaxMishaps, MaxToggles \* bounds

Execution == 1..MaxRuns
Job       == [execution : Execution, attempts : Nat]
Active    == {"pending", "running"}

ASSUME FeedAssumption ==
  /\ MaxAttempts \in Nat \ {0}
  /\ {MaxRuns, MaxManual, MaxMishaps, MaxToggles} \subseteq Nat
  /\ None \notin Job \cup Execution

VARIABLES
  due,       \* next_run_at has come
  enabled,
  status,    \* of each execution: "flushed" while its transaction is open,
             \* "ended" for COMPLETED and FAILED, which nothing here tells apart
  made,      \* executions inserted so far
  tx,        \* the execution of the scheduler's open transaction, or None
  queuing,   \* whether that transaction has yet to enqueue the job
  spawned,   \* executions whose background task has yet to claim them
  patching,  \* whether a PATCH that disables the feed is under way
  disabling, \* the rows it has locked
  queued,    \* the waiting jobs
  held, pc,  \* the job of each worker, and where its handler is
  claimed    \* the executions each runner has marked RUNNING

\* History and counters.
VARIABLES
  lapsed,    \* workers whose lease lapsed
  byHand,    \* executions not made by the scheduler, or given back by run_pending
  orphans,   \* executions that lost the job or task that was to run them
  mishaps, toggles

feed    == <<due, enabled, patching, disabling, toggles>>
request == <<spawned, byHand>>
sched   == <<made, tx, queuing>>
worker  == <<queued, held, pc, lapsed>>
vars    == <<feed, request, sched, worker, status, claimed, orphans, mishaps>>

Init ==
  /\ due = TRUE /\ enabled = TRUE
  /\ status = [e \in Execution |-> "absent"]
  /\ made = 0 /\ tx = None /\ queuing = FALSE
  /\ spawned = {} /\ patching = FALSE /\ disabling = {}
  /\ queued = EmptyBag
  /\ held = [w \in Workers |-> None] /\ pc = [w \in Workers |-> "idle"]
  /\ claimed = [r \in Runners |-> {}]
  /\ lapsed = {} /\ byHand = {} /\ orphans = {}
  /\ mishaps = 0 /\ toggles = 0

Put(job) == queued' = queued (+) SetToBag({job})
Set(e, s) == status' = [status EXCEPT ![e] = s]
Orphan(e) == orphans' = orphans \cup {e}
\* A process that dies, a lease that lapses, a call that fails.  What a plugin
\* raises in a worker is not counted: the attempts bound it.
Mishap == mishaps < MaxMishaps /\ mishaps' = mishaps + 1

\* What FOR UPDATE SKIP LOCKED may claim.
Claimable == {e \in Execution \ disabling : status[e] = "pending"}

------------------------------------------------------------------------------
(***************************************************************************)
(* The scheduler.  The transaction of enqueue_due_schedules holds the lock *)
(* on the feed, so there is one of them at a time.                         *)
(***************************************************************************)
Elapse ==
  /\ ~due
  /\ due' = TRUE
  /\ UNCHANGED <<enabled, patching, disabling, toggles, request, sched, worker, status, claimed,
                 orphans, mishaps>>

HasActiveExecution == \E e \in Execution : status[e] \in Active

\* The window is advanced without an execution.
SkipTick ==
  /\ tx = None /\ enabled /\ due
  /\ HasActiveExecution
  /\ due' = FALSE
  /\ UNCHANGED <<enabled, patching, disabling, toggles, request, sched, worker, status, claimed,
                 orphans, mishaps>>

CreateExecution ==
  /\ tx = None /\ enabled /\ due /\ made < MaxRuns
  /\ ~HasActiveExecution
  /\ made' = made + 1
  /\ Set(made', "flushed")
  /\ tx' = made' /\ queuing' = TRUE
  /\ UNCHANGED <<feed, request, worker, claimed, orphans, mishaps>>

EnqueueExecution ==
  /\ tx # None /\ queuing
  /\ Put([execution |-> tx, attempts |-> 0])
  /\ queuing' = FALSE
  /\ UNCHANGED <<feed, request, made, tx, held, pc, lapsed, status, claimed, orphans,
                 mishaps>>

\* No backend, or a call that raises: logged, and the row is committed all the same.
EnqueueFails ==
  /\ tx # None /\ queuing /\ Mishap
  /\ Orphan(tx)
  /\ queuing' = FALSE
  /\ UNCHANGED <<feed, request, made, tx, worker, status, claimed>>

CommitTick ==
  /\ tx # None /\ ~queuing
  /\ Set(tx, "pending")
  /\ due' = FALSE
  /\ tx' = None
  /\ UNCHANGED <<enabled, patching, disabling, toggles, request, made, queuing, worker, claimed,
                 orphans, mishaps>>

RolledBack == [status EXCEPT ![tx] = "absent"]

\* The process of the scheduler dies; a job already enqueued stays.
LoseTick ==
  /\ tx # None /\ Mishap
  /\ status' = RolledBack
  /\ tx' = None /\ queuing' = FALSE
  /\ UNCHANGED <<feed, request, made, worker, claimed, orphans>>

Heartbeat(e) == \E w \in Workers : pc[w] = "run" /\ held[w].execution = e

\* Slip: the sweep looks for the wrong status.
StaleIfPending(e) == status[e] = "pending" /\ ~Heartbeat(e)

\* updated_at is old.  A run_pending has no heartbeat: its rows may be stale too.
Stale(e) == status[e] = "running" /\ ~Heartbeat(e)

CleanupStale(e) ==
  /\ Stale(e)
  /\ Set(e, "ended")
  /\ UNCHANGED <<feed, request, sched, worker, claimed, orphans, mishaps>>

------------------------------------------------------------------------------
(***************************************************************************)
(* The worker: dequeue with the first transaction of                       *)
(* _handle_plugin_execution_job, what it commits last, and the answer to   *)
(* the queue.                                                              *)
(***************************************************************************)
Goto(w, step) == pc' = [pc EXCEPT ![w] = step]
Held(w)      == held[w].execution
Exhausted(w) == held[w].attempts >= MaxAttempts

\* Slip: the row is run whatever its status.
TakeAnyway(w) ==
  /\ pc[w] = "idle"
  /\ \E job \in BagToSet(queued) :
       /\ queued' = queued (-) SetToBag({job})
       /\ held' = [held EXCEPT ![w] = [job EXCEPT !.attempts = @ + 1]]
       /\ IF status[job.execution] \notin {"absent", "flushed"}
            THEN Set(job.execution, "running") /\ Goto(w, "run")
            ELSE Goto(w, "ack") /\ UNCHANGED status
  /\ UNCHANGED <<feed, request, sched, lapsed, claimed, orphans, mishaps>>

\* A record not yet committed, locked or not PENDING ends the job.
Take(w) ==
  /\ pc[w] = "idle"
  /\ \E job \in BagToSet(queued) :
       /\ queued' = queued (-) SetToBag({job})
       /\ held' = [held EXCEPT ![w] = [job EXCEPT !.attempts = @ + 1]]
       /\ IF job.execution \in Claimable
            THEN Set(job.execution, "running") /\ Goto(w, "run")
            ELSE Goto(w, "ack") /\ UNCHANGED status
       /\ IF status[job.execution] = "flushed" THEN Orphan(job.execution) ELSE UNCHANGED orphans
  /\ UNCHANGED <<feed, request, sched, lapsed, claimed, mishaps>>

\* Preflight failures end a run too, that of a disabled feed among them.
Execute(w) ==
  /\ pc[w] = "run"
  /\ Set(Held(w), "ended")
  /\ Goto(w, "ack")
  /\ UNCHANGED <<feed, request, sched, queued, held, lapsed, claimed, orphans, mishaps>>

\* The plugin is gone: the feed is disabled in the same commit.
ExecuteUnresolved(w) ==
  /\ pc[w] = "run" /\ tx = None /\ ~patching
  /\ enabled /\ toggles < MaxToggles /\ toggles' = toggles + 1
  /\ enabled' = FALSE
  /\ Set(Held(w), "ended")
  /\ Goto(w, "ack")
  /\ UNCHANGED <<due, patching, disabling, request, sched, queued, held, lapsed, claimed,
                 orphans, mishaps>>

\* 429: back to PENDING whatever the attempt, and the job is rejected.
RateLimited(w) ==
  /\ pc[w] = "run"
  /\ Set(Held(w), "pending")
  /\ IF Exhausted(w) THEN Orphan(Held(w)) ELSE UNCHANGED orphans
  /\ Goto(w, "reject")
  /\ UNCHANGED <<feed, request, sched, queued, held, lapsed, claimed, mishaps>>

\* Slip: the last attempt is not told from the others.
PendingAgain(w) == "pending"

AfterError(w) == IF Exhausted(w) THEN "ended" ELSE "pending"

ExecuteRaises(w) ==
  /\ pc[w] = "run"
  /\ Set(Held(w), AfterError(w))
  /\ Goto(w, "reject")
  /\ UNCHANGED <<feed, request, sched, queued, held, lapsed, claimed, orphans, mishaps>>

Leave(w) ==
  /\ held' = [held EXCEPT ![w] = None]
  /\ lapsed' = lapsed \ {w}
  /\ Goto(w, "idle")

Acknowledge(w) ==
  /\ pc[w] = "ack"
  /\ Leave(w)
  /\ UNCHANGED <<feed, request, sched, queued, status, claimed, orphans, mishaps>>

Reject(w) ==
  /\ pc[w] = "reject"
  /\ IF Exhausted(w) THEN UNCHANGED queued ELSE Put(held[w])
  /\ Leave(w)
  /\ UNCHANGED <<feed, request, sched, status, claimed, orphans, mishaps>>

\* The queue delivers again: the lease lapses under a handler, or its process dies.
Lapse(w) ==
  /\ pc[w] # "idle" /\ w \notin lapsed
  /\ Mishap
  /\ Put(held[w])
  /\ lapsed' = lapsed \cup {w}
  /\ UNCHANGED <<feed, request, sched, held, pc, status, claimed, orphans>>

\* The job comes back, unless it did and was answered while this worker ran it.
Crash(w) ==
  /\ pc[w] # "idle" /\ Mishap
  /\ IF w \in lapsed THEN UNCHANGED queued ELSE Put(held[w])
  /\ IF w \in lapsed /\ pc[w] = "reject" THEN Orphan(Held(w)) ELSE UNCHANGED orphans
  /\ Leave(w)
  /\ UNCHANGED <<feed, request, sched, status, claimed>>

------------------------------------------------------------------------------
(***************************************************************************)
(* run_pending, called by the run-pending endpoint and by the background   *)
(* task of run-now.  It claims, then runs one execution after the other.   *)
(***************************************************************************)
ClaimPending(r, rows) ==
  /\ claimed[r] = {}
  /\ claimed' = [claimed EXCEPT ![r] = rows]
  /\ status' = [e \in Execution |-> IF e \in rows THEN "running" ELSE status[e]]

RunPending(r) ==
  /\ MaxManual > 0
  /\ \E rows \in SUBSET Claimable : rows # {} /\ ClaimPending(r, rows)
  /\ UNCHANGED <<feed, request, sched, worker, orphans, mishaps>>

RunSpawned(r, e) ==
  /\ e \in spawned
  /\ spawned' = spawned \ {e}
  /\ ClaimPending(r, {e} \cap Claimable)
  /\ UNCHANGED <<feed, byHand, sched, worker, orphans, mishaps>>

\* Whatever has become of the row, the outcome is written.
Outcome(r, e, s) ==
  /\ e \in claimed[r]
  /\ claimed' = [claimed EXCEPT ![r] = @ \ {e}]
  /\ Set(e, s)

Ran(r, e) ==
  /\ Outcome(r, e, "ended")
  /\ UNCHANGED <<feed, request, sched, worker, orphans, mishaps>>

\* 429: PENDING with a later started_at, for a run_pending that nobody schedules.
Deferred(r, e) ==
  /\ Mishap /\ Outcome(r, e, "pending")
  /\ Orphan(e)
  /\ byHand' = byHand \cup {e}
  /\ UNCHANGED <<feed, spawned, sched, worker>>

RunnerDies(r) ==
  /\ claimed[r] # {} /\ Mishap
  /\ claimed' = [claimed EXCEPT ![r] = {}]
  /\ UNCHANGED <<feed, request, sched, worker, status, orphans>>

\* The task dies with its process, or what it raises is swallowed.
TaskDies(e) ==
  /\ e \in spawned /\ Mishap
  /\ spawned' = spawned \ {e}
  /\ Orphan(e)
  /\ UNCHANGED <<feed, byHand, sched, worker, status, claimed>>

------------------------------------------------------------------------------
(***************************************************************************)
(* The endpoints run-now and PATCH.  Sessions do not autoflush: the feed   *)
(* is written, and its lock waited for, only by the commit.                *)
(***************************************************************************)
\* The feed was seen enabled, maybe some time ago.
InsertRunNow ==
  /\ tx = None /\ made < MaxRuns /\ Cardinality(byHand) < MaxManual
  /\ made' = made + 1
  /\ Set(made', "pending")
  /\ spawned' = spawned \cup {made'}
  /\ byHand' = byHand \cup {made'}
  /\ due' = FALSE
  /\ UNCHANGED <<enabled, patching, disabling, toggles, tx, queuing, worker, claimed, orphans, mishaps>>

CancelPending ==
  /\ enabled /\ ~patching /\ toggles < MaxToggles
  /\ patching' = TRUE
  /\ disabling' = Claimable
  /\ toggles' = toggles + 1
  /\ UNCHANGED <<due, enabled, request, sched, worker, status, claimed, orphans, mishaps>>

Disable ==
  /\ patching /\ tx = None
  /\ status' = [e \in Execution |-> IF e \in disabling THEN "ended" ELSE status[e]]
  /\ enabled' = FALSE
  /\ patching' = FALSE /\ disabling' = {}
  /\ UNCHANGED <<due, toggles, request, sched, worker, claimed, orphans, mishaps>>

\* Rolled back; who passed over a locked row meanwhile does not come back to it.
LosePatch ==
  /\ patching /\ Mishap
  /\ orphans' = orphans \cup disabling
  /\ patching' = FALSE /\ disabling' = {}
  /\ UNCHANGED <<due, enabled, toggles, request, sched, worker, status, claimed>>

Enable ==
  /\ ~enabled /\ ~patching
  /\ enabled' = TRUE
  /\ UNCHANGED <<due, patching, disabling, toggles, request, sched, worker, status, claimed,
                 orphans, mishaps>>

Tick    == SkipTick \/ CreateExecution
Queue   == EnqueueExecution \/ EnqueueFails \/ CommitTick
Cleanup == \E e \in Execution : CleanupStale(e)
Handle(w) == Execute(w) \/ ExecuteUnresolved(w) \/ RateLimited(w) \/ ExecuteRaises(w)
               \/ Acknowledge(w) \/ Reject(w)
Run(r)  == \E e \in Execution : RunSpawned(r, e) \/ Ran(r, e) \/ Deferred(r, e)

Next ==
  \/ Elapse \/ Tick \/ Queue \/ LoseTick \/ Cleanup
  \/ \E w \in Workers : Take(w) \/ Handle(w) \/ Lapse(w) \/ Crash(w)
  \/ \E r \in Runners : Run(r) \/ RunPending(r) \/ RunnerDies(r)
  \/ \E e \in Execution : TaskDies(e)
  \/ InsertRunNow \/ CancelPending \/ Disable \/ LosePatch \/ Enable

Spec == Init /\ [][Next]_vars

\* Time passes, the scheduler ticks, workers poll and plugins come back.
FairSpec ==
  /\ Spec /\ WF_vars(Elapse) /\ WF_vars(Tick) /\ WF_vars(Queue) /\ WF_vars(Disable)
  /\ \A e \in Execution : WF_vars(CleanupStale(e))
  /\ \A w \in Workers : WF_vars(Take(w)) /\ WF_vars(Handle(w))
  /\ \A r \in Runners : WF_vars(Run(r))

------------------------------------------------------------------------------
Status == Active \cup {"absent", "flushed", "ended"}

TypeOK ==
  /\ {due, enabled, queuing, patching} \subseteq BOOLEAN
  /\ status \in [Execution -> Status] /\ made \in 0..MaxRuns
  /\ tx \in Execution \cup {None}
  /\ \A e \in Execution : status[e] = "flushed" <=> tx = e
  /\ queuing => tx # None
  /\ {spawned, byHand, orphans} \subseteq SUBSET Execution
  /\ disabling \subseteq Execution /\ (disabling # {} => patching)
  /\ IsABag(queued) /\ BagToSet(queued) \subseteq Job
  /\ held \in [Workers -> Job \cup {None}]
  /\ pc \in [Workers -> {"idle", "run", "reject", "ack"}]
  /\ \A w \in Workers : held[w] = None <=> pc[w] = "idle"
  /\ claimed \in [Runners -> SUBSET Execution]
  /\ lapsed \subseteq Workers
  /\ {mishaps, toggles} \subseteq Nat

(***************************************************************************)
(* The "race guard": no execution is run by two workers or runners at      *)
(* once, whatever is delivered twice or claimed by hand.                   *)
(***************************************************************************)
Doing(e) == {w \in Workers : pc[w] = "run" /\ Held(w) = e} \cup {r \in Runners : e \in claimed[r]}

RunsAlone == \A e \in Execution : Cardinality(Doing(e)) <= 1

(***************************************************************************)
(* _has_active_execution: of the executions the scheduler made, one at a   *)
(* time is active, through retries, deaths and rolled back ticks.  Left    *)
(* out are those a run_pending gave back: it may do so after they were     *)
(* marked stale under it.                                                  *)
(***************************************************************************)
SingleActive ==
  Cardinality({e \in Execution \ byHand : status[e] \in Active}) <= 1

(***************************************************************************)
(* Neither is one execution run twice at once nor are two of the scheduler *)
(* active at once.                                                         *)
(***************************************************************************)
NoneRunsTwice == RunsAlone /\ SingleActive

(***************************************************************************)
(* An execution that is PENDING has a job or a task that will run it, or a *)
(* PATCH that fails it, unless it is one of the orphans: its job was       *)
(* answered before its row was committed, was never enqueued or had no     *)
(* attempt left at a 429, its task died, its run_pending gave it back, its *)
(* PATCH was rolled back, or its worker died between PENDING and reject    *)
(* when the job had been delivered to another one and answered.            *)
(***************************************************************************)
Coming(e) ==
  \/ e \in spawned \/ e \in disabling
  \/ \E job \in BagToSet(queued) : job.execution = e
  \/ \E w \in Workers : pc[w] = "reject" /\ Held(w) = e /\ ~Exhausted(w)

PendingHasJob == \A e \in Execution \ orphans : status[e] = "pending" => Coming(e)

(***************************************************************************)
(* An active execution ends, also when whoever ran it died: every one but  *)
(* the orphans.                                                            *)
(***************************************************************************)
EveryEnds ==
  \A e \in Execution : status[e] \in Active ~> status[e] \notin Active \/ e \in orphans

------------------------------------------------------------------------------
(***************************************************************************)
(* What a comment says and the code does not do.                           *)
(***************************************************************************)

(***************************************************************************)
(* "Advance the window anyway to avoid tight loops; next tick will         *)
(* enqueue": a feed that is due is given an execution, now or later.       *)
(***************************************************************************)
NextTickEnqueues == due /\ enabled ~> tx # None \/ ~enabled \/ made = MaxRuns

==============================================================================
