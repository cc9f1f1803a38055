---------------------------- MODULE Experiences ----------------------------
(***************************************************************************)
(* The runs of one experience: the scheduler's ExperienceSource            *)
(* (services/scheduler_service.py), the job handler of worker.py, and the  *)
(* executor (services/experience_executor.py) which both the handler and   *)
(* the stream of api/experiences.py drive.  The queue is the promise of    *)
(* AtLeastOnce: a job that is not settled is delivered again.  A user      *)
(* stands for the key of a run: a shared experience has one key, Nobody.   *)
(***************************************************************************)
EXTENDS Integers

CONSTANTS Users, RunIds, Schedulers, Workers,
          MaxAttempts, MaxTicks, MaxSetbacks,  \* the last two bound ticks and failures
          Nobody

VARIABLES run,     \* id -> [user, status], or Nobody; "flushed" is not committed yet
          job,     \* id -> [user, attempts, at]: its job, Nobody when there is none
          isDue,   \* next_run_at has come
          tick,    \* scheduler -> [todo, keys, sent]: its transaction, or Nobody
          task,    \* worker -> [job, row, at, broken], or Nobody
          stream,  \* user -> the run streamed to the user, or Nobody
          ticks, setbacks,
          early,   \* runs whose job was taken before the run could be seen
          cut      \* runs whose end could not be written

expVars == <<run, job, isDue, tick, task, stream, ticks, setbacks, early, cut>>

ExpInit ==
  /\ run = [r \in RunIds |-> Nobody] /\ job = [r \in RunIds |-> Nobody]
  /\ isDue = TRUE /\ ticks = 0 /\ setbacks = 0
  /\ tick = [s \in Schedulers |-> Nobody] /\ task = [w \in Workers |-> Nobody]
  /\ stream = [u \in Users |-> Nobody]
  /\ early = {} /\ cut = {}

With(status) == {r \in RunIds : run[r] # Nobody /\ run[r].status = status}
Seen(r) == run[r] # Nobody /\ run[r].status \notin {"flushed", "gone"}
Unused(r) == run[r] = Nobody /\ r = CHOOSE x \in RunIds : run[x] = Nobody  \* any will do
Setback == setbacks < MaxSetbacks /\ setbacks' = setbacks + 1

-----------------------------------------------------------------------------
(* enqueue_due: one transaction that holds the row of the experience. *)

\* _active_run_keys
ActiveRunKeys == {run[r].user : r \in With("queued") \cup With("running")}

\* The row is taken with SKIP LOCKED: another scheduler passes it by.
StartTick(s) ==
  /\ isDue /\ ticks < MaxTicks
  /\ \A other \in Schedulers : tick[other] = Nobody
  /\ ticks' = ticks + 1
  /\ tick' = [tick EXCEPT ![s] = [todo |-> Users, keys |-> ActiveRunKeys, sent |-> {}]]
  /\ UNCHANGED <<run, job, isDue, task, stream, setbacks, early, cut>>

Turn(s, u) == tick[s] # Nobody /\ u \in tick[s].todo

\* A run of the user is active, or the policy denies it.
PassUser(s, u) ==
  /\ Turn(s, u)
  /\ tick' = [tick EXCEPT ![s].todo = @ \ {u}]
  /\ UNCHANGED <<run, job, isDue, task, stream, ticks, setbacks, early, cut>>

Free(s, u) == Turn(s, u) /\ u \notin tick[s].keys

\* _enqueue_experience_run: the run is flushed, then its job goes to the queue.
EnqueueRun(s, u, r) ==
  /\ Free(s, u) /\ Unused(r)
  /\ run' = [run EXCEPT ![r] = [user |-> u, status |-> "flushed"]]
  /\ job' = [job EXCEPT ![r] = [user |-> u, attempts |-> 0, at |-> "queue"]]
  /\ tick' = [tick EXCEPT ![s].todo = @ \ {u}, ![s].sent = @ \cup {r}]
  /\ UNCHANGED <<isDue, task, stream, ticks, setbacks, early, cut>>

KeepFlushed(s, u, r) ==
  /\ run' = [run EXCEPT ![r] = [user |-> u, status |-> "flushed"]]
  /\ tick' = [tick EXCEPT ![s].todo = @ \ {u}, ![s].sent = @ \cup {r}]

\* The run that was flushed is deleted.
DropFlushed(s, u, r) ==
  /\ run' = [run EXCEPT ![r] = [user |-> u, status |-> "gone"]]
  /\ tick' = [tick EXCEPT ![s].todo = @ \ {u}]

\* The queue raised; the job may have reached it all the same.
EnqueueRaises(s, u, r, reached) ==
  /\ Free(s, u) /\ Unused(r) /\ Setback
  /\ DropFlushed(s, u, r)
  /\ job' = IF reached THEN [job EXCEPT ![r] = [user |-> u, attempts |-> 0, at |-> "queue"]]
            ELSE job
  /\ UNCHANGED <<isDue, task, stream, ticks, early, cut>>

\* Nothing sent leaves the schedule where it is, so that the next tick looks again.
CommitTick(s) ==
  /\ tick[s] # Nobody /\ tick[s].todo = {}
  /\ run' = [r \in RunIds |-> IF r \in tick[s].sent THEN [run[r] EXCEPT !.status = "queued"]
                            ELSE run[r]]
  /\ isDue' = (tick[s].sent = {})
  /\ tick' = [tick EXCEPT ![s] = Nobody]
  /\ UNCHANGED <<job, task, stream, ticks, setbacks, early, cut>>

TickDies(s) ==
  /\ tick[s] # Nobody /\ Setback
  /\ run' = [r \in RunIds |-> IF r \in tick[s].sent THEN [run[r] EXCEPT !.status = "gone"]
                            ELSE run[r]]
  /\ tick' = [tick EXCEPT ![s] = Nobody]
  /\ UNCHANGED <<job, isDue, task, stream, ticks, early, cut>>

\* schedule_next set a time and it has come.
ComesDue ==
  /\ ~isDue /\ isDue' = TRUE
  /\ UNCHANGED <<run, job, tick, task, stream, ticks, setbacks, early, cut>>

-----------------------------------------------------------------------------
(* _handle_experience_execution_job *)

Take(w, r) ==
  /\ task[w] = Nobody /\ job[r] # Nobody /\ job[r].at = "queue"
  /\ job' = [job EXCEPT ![r].attempts = @ + 1, ![r].at = w]
  /\ task' = [task EXCEPT ![w] = [job |-> r, row |-> Nobody, at |-> "start", broken |-> FALSE]]
  /\ early' = IF Seen(r) THEN early ELSE early \cup {r}
  /\ UNCHANGED <<run, isDue, tick, stream, ticks, setbacks, cut>>

At(w, step) == task[w] # Nobody /\ task[w].at = step
Goto(w, step) == task' = [task EXCEPT ![w].at = step]
JobDone(w) == task' = [task EXCEPT ![w] = Nobody] /\ job' = [job EXCEPT ![task[w].job] = Nobody]
EndRun(r) == run' = [run EXCEPT ![r].status = "ended"]

\* _fail_queued_run
FailQueuedRun(r) == IF r \in With("queued") THEN EndRun(r) ELSE UNCHANGED run

\* The user is gone or inactive, may not run it, or the experience is deleted.
Refuse(w) ==
  /\ At(w, "start")
  /\ FailQueuedRun(task[w].job)
  /\ JobDone(w)
  /\ UNCHANGED <<isDue, tick, stream, ticks, setbacks, early, cut>>

\* _create_or_resume_run: a run it does not see makes it start one of its own.
Resume(w) ==
  LET r == task[w].job IN
  /\ At(w, "start") /\ r \in With("queued")
  /\ run' = [run EXCEPT ![r].status = "running"]
  /\ task' = [task EXCEPT ![w].row = r, ![w].at = "execute"]
  /\ UNCHANGED <<job, isDue, tick, stream, ticks, setbacks, early, cut>>

CreateRun(w, own) ==
  /\ At(w, "start") /\ ~Seen(task[w].job) /\ Unused(own)
  /\ run' = [run EXCEPT ![own] = [user |-> job[task[w].job].user, status |-> "running"]]
  /\ task' = [task EXCEPT ![w].row = own, ![w].at = "execute"]
  /\ UNCHANGED <<job, isDue, tick, stream, ticks, setbacks, early, cut>>

CannotResume(w) ==
  /\ At(w, "start") /\ Seen(task[w].job) /\ task[w].job \notin With("queued")
  /\ Goto(w, "raised")
  /\ UNCHANGED <<run, job, isDue, tick, stream, ticks, setbacks, early, cut>>

\* An error before the run is loaded, of the database or not.
FailsAtStart(w, broken) ==
  /\ At(w, "start") /\ Setback
  /\ task' = [task EXCEPT ![w].at = "raised", ![w].broken = broken]
  /\ UNCHANGED <<run, job, isDue, tick, stream, ticks, early, cut>>

\* _finalize_run, with any result: success, no step succeeded, timeout, error.
Finalize(r) == EndRun(r)

Execute(w) ==
  /\ At(w, "execute")
  /\ Finalize(task[w].row)
  /\ JobDone(w)
  /\ UNCHANGED <<isDue, tick, stream, ticks, setbacks, early, cut>>

\* An invalid model configuration: the run ends failed but execute, which has not
\* seen it start, raises.
ConfigInvalid(w) ==
  /\ At(w, "execute")
  /\ EndRun(task[w].row)
  /\ Goto(w, "raised")
  /\ UNCHANGED <<job, isDue, tick, stream, ticks, setbacks, early, cut>>

\* A statement fails in the run, and so does the one that would write its end.
CannotFinalize(w) ==
  /\ At(w, "execute") /\ Setback
  /\ task' = [task EXCEPT ![w].at = "raised", ![w].broken = TRUE]
  /\ cut' = cut \cup {task[w].row}
  /\ UNCHANGED <<run, job, isDue, tick, stream, ticks, early>>

\* The handler raised: the job returns, or is given up after its last attempt.
Raised(w) ==
  LET r == task[w].job
      last == job[r].attempts >= MaxAttempts
  IN /\ At(w, "raised")
     /\ IF last /\ ~task[w].broken THEN FailQueuedRun(r) ELSE UNCHANGED run
     /\ job' = [job EXCEPT ![r] = IF last THEN Nobody ELSE [@ EXCEPT !.at = "queue"]]
     /\ task' = [task EXCEPT ![w] = Nobody]
     /\ cut' = IF last /\ task[w].broken THEN cut \cup {r} ELSE cut
     /\ UNCHANGED <<isDue, tick, stream, ticks, setbacks, early>>

\* The process dies; the lease lapses.
WorkerDies(w) ==
  /\ task[w] # Nobody /\ Setback
  /\ job' = [job EXCEPT ![task[w].job].at = "queue"]
  /\ cut' = IF At(w, "execute") THEN cut \cup {task[w].row} ELSE cut
  /\ task' = [task EXCEPT ![w] = Nobody]
  /\ UNCHANGED <<run, isDue, tick, stream, ticks, early>>

-----------------------------------------------------------------------------
(* run_experience: a run of its own, streamed to the user. *)

StartStream(u, r) ==
  /\ stream[u] = Nobody /\ Unused(r)
  /\ run' = [run EXCEPT ![r] = [user |-> u, status |-> "running"]]
  /\ stream' = [stream EXCEPT ![u] = r]
  /\ UNCHANGED <<job, isDue, tick, task, ticks, setbacks, early, cut>>

EndStream(u) ==
  /\ stream[u] # Nobody
  /\ Finalize(stream[u])
  /\ stream' = [stream EXCEPT ![u] = Nobody]
  /\ UNCHANGED <<job, isDue, tick, task, ticks, setbacks, early, cut>>

\* The client leaves or the server stops: the generator is cancelled, and no
\* handler of execute_streaming catches that.
LeaveStream(u) ==
  /\ stream[u] # Nobody /\ Setback
  /\ stream' = [stream EXCEPT ![u] = Nobody]
  /\ cut' = cut \cup {stream[u]}
  /\ UNCHANGED <<run, job, isDue, tick, task, ticks, early>>

ExpNext ==
  \/ \E s \in Schedulers : StartTick(s) \/ CommitTick(s) \/ TickDies(s)
  \/ \E s \in Schedulers, u \in Users : PassUser(s, u)
  \/ \E s \in Schedulers, u \in Users, r \in RunIds : EnqueueRun(s, u, r)
  \/ \E s \in Schedulers, u \in Users, r \in RunIds, reached \in BOOLEAN :
       EnqueueRaises(s, u, r, reached)
  \/ ComesDue
  \/ \E w \in Workers, r \in RunIds : Take(w, r) \/ CreateRun(w, r)
  \/ \E w \in Workers : \/ Refuse(w) \/ Resume(w) \/ CannotResume(w)
                        \/ Execute(w) \/ ConfigInvalid(w)
                        \/ CannotFinalize(w) \/ Raised(w) \/ WorkerDies(w)
  \/ \E w \in Workers, broken \in BOOLEAN : FailsAtStart(w, broken)
  \/ \E u \in Users, r \in RunIds : StartStream(u, r)
  \/ \E u \in Users : EndStream(u) \/ LeaveStream(u)

ExpSpec == ExpInit /\ [][ExpNext]_expVars

-----------------------------------------------------------------------------
InHand(r) ==
  \/ job[r] # Nobody
  \/ \E w \in Workers : task[w] # Nobody /\ task[w].row = r
  \/ \E u \in Users : stream[u] = r

\* An active run keeps its user from being scheduled again, and nothing sweeps
\* stale runs.  So an active run is in somebody's hands, except for two reasons:
\* its job was taken before the run was committed, or whoever executed it could
\* not write its end.
ActiveIsInHand ==
  \A r \in With("queued") \cup With("running") : InHand(r) \/ r \in early \cup cut
=============================================================================
