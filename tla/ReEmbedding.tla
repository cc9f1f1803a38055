----------------------------- MODULE ReEmbedding -----------------------------
(***************************************************************************)
(* The re-embedding of one knowledge base: trigger_re_embedding            *)
(* (services/knowledge_base_service.py), the jobs that share its chunks,   *)
(* the one that finishes it, and the recovery at the start of a process    *)
(* (re_embedding_handler.py).                                              *)
(*                                                                         *)
(* A batch stands for the chunks one SKIP LOCKED select returns, in order  *)
(* of their ids.  The model does not change under way, the database does   *)
(* not fail, and the queue is the one AtLeastOnce promises.  The row of    *)
(* the knowledge base is locked for more than one step by a recovery and   *)
(* by a stuck worker.                                                      *)
(***************************************************************************)
EXTENDS Integers, FiniteSets, FiniteSetsExt, Bags

CONSTANTS
  Workers,
  NumBatches,
  None,
  Concurrency, \* worker_concurrency
  MaxAttempts, \* max_attempts of the jobs
  MaxEvents    \* bound: deaths and failed calls; lapses, triggers and recoveries count twice

Batches  == 1..NumBatches
Action   == {"re_embed_chunks", "re_embed_finalize"}
Job      == [action : Action, attempts : Nat]
Progress == [total : Nat, completed : Nat, phase : {"chunks", "later"}]
Call     == [left : Nat \ {0}, status : {"stale", "error", "re_embedding"}, progress : Progress \cup {None}]
Recovery == [left : Nat, locked : BOOLEAN, read : Progress]

ASSUME ReEmbeddingAssumption ==
  /\ {NumBatches, MaxEvents} \subseteq Nat
  /\ {Concurrency, MaxAttempts} \subseteq Nat \ {0}
  /\ IsFiniteSet(Workers)
  /\ None \notin Job \cup Progress \cup Nat \cup Call \cup Recovery

VARIABLES
  status,   \* embedding_status
  progress, \* re_embedding_progress, None or what Progress keeps of it
  done,     \* batches embedded with the target model
  queued,   \* the waiting jobs
  held, pc, \* the job of each worker, and where its handler is
  batch,    \* the chunks each worker has locked, or None
  memory,   \* the progress a finalizing worker read, or None
  caller,   \* None, or what trigger_re_embedding has yet to enqueue and would restore
  recovery  \* None, or what the recovery has yet to enqueue, the progress it read and
            \* whether it holds the row

\* History and counters.
VARIABLES
  lapsed,   \* workers whose lease lapsed
  extra,    \* a job was delivered again, or joins those of an earlier start
  lost,     \* the job that was to move the knowledge base on is gone
  events

kb     == <<status, progress>>
worker == <<held, pc, batch, memory, lapsed>>
start  == <<caller, recovery>>
blame  == <<extra, lost>>
vars   == <<kb, done, queued, worker, start, blame, events>>

Init ==
  /\ status = "stale" /\ progress = None /\ done = {}
  /\ queued = EmptyBag
  /\ held = [w \in Workers |-> None] /\ pc = [w \in Workers |-> "idle"]
  /\ batch = [w \in Workers |-> None] /\ memory = [w \in Workers |-> None]
  /\ caller = None /\ recovery = None
  /\ lapsed = {} /\ extra = FALSE /\ lost = FALSE /\ events = 0

NewJob(action) == [action |-> action, attempts |-> 0]
Put(job)  == queued' = queued (+) SetToBag({job})
Event(n)  == events + n <= MaxEvents /\ events' = events + n

Goto(w, step) == pc' = [pc EXCEPT ![w] = step]
Exhausted(w)  == held[w].attempts >= MaxAttempts
Does(w, action) == held[w] # None /\ held[w].action = action

\* Nobody holds the row of the knowledge base.
RowFree ==
  /\ recovery # None => ~recovery.locked
  /\ \A w \in Workers : pc[w] # "stuck"

\* updated_at may be three minutes old: no handler's heartbeat touches it.
Stale == \A w \in Workers : pc[w] \in {"idle", "ack", "reject"}

\* Slip: the count skips the locked chunks as the select does.
RemainingUnlocked == (Batches \ done) \ {batch[w] : w \in Workers}

Remaining == Batches \ done

Waiting == BagToSet(queued) # {}
Busy    == \E w \in Workers : pc[w] # "idle"

------------------------------------------------------------------------------

(***************************************************************************)
(* trigger_re_embedding.                                                   *)
(***************************************************************************)
Started(n) == [total |-> n, completed |-> 0, phase |-> "chunks"]

NumWorkers == Min({Concurrency, Max({1, NumBatches})})

Trigger ==
  /\ Event(2) /\ caller = None /\ RowFree
  /\ status \in {"stale", "error"} \/ (status = "re_embedding" /\ Stale)
  /\ status' = "re_embedding"
  /\ progress' = Started(NumWorkers)
  /\ caller' = [left |-> NumWorkers, status |-> status, progress |-> progress]
  /\ extra' = (Waiting \/ Busy \/ recovery # None) /\ lost' = FALSE
  /\ UNCHANGED <<done, queued, worker, recovery>>

EnqueueChunks ==
  /\ caller # None
  /\ Put(NewJob("re_embed_chunks"))
  /\ caller' = IF caller.left = 1 THEN None ELSE [caller EXCEPT !.left = @ - 1]
  /\ UNCHANGED <<kb, done, worker, recovery, blame, events>>

\* The call fails.  A status that was "re_embedding" already is not written.
Revert ==
  /\ caller # None /\ RowFree /\ Event(1)
  /\ IF caller.status = "re_embedding" THEN UNCHANGED status ELSE status' = caller.status
  /\ progress' = caller.progress
  /\ caller' = None
  /\ extra' = TRUE
  /\ lost' = (caller.status = "re_embedding")
  /\ UNCHANGED <<done, queued, worker, recovery>>

CallerDies ==
  /\ caller # None /\ Event(1)
  /\ caller' = None
  /\ lost' = TRUE
  /\ UNCHANGED <<kb, done, queued, worker, recovery, extra>>

------------------------------------------------------------------------------
(***************************************************************************)
(* _recover_stuck_kbs_for_current_tenant selects all knowledge bases under *)
(* "re_embedding" and locks them; the commit for the first one releases    *)
(* the others, which it goes on with as it read them.                      *)
(***************************************************************************)
RemainingWorkers(p) == Max({1, p.total - p.completed})

Recover ==
  /\ Event(2) /\ caller = None /\ recovery = None /\ RowFree
  /\ status = "re_embedding" /\ Stale
  /\ \E locked \in BOOLEAN :
       recovery' = [left |-> IF progress.phase = "chunks" THEN RemainingWorkers(progress) ELSE 1,
                    locked |-> locked, read |-> progress]
  /\ extra' = (Waiting \/ Busy)
  /\ UNCHANGED <<kb, done, queued, worker, caller, lost>>

EnqueueRecovered ==
  /\ recovery # None /\ recovery.left > 0
  /\ Put(NewJob(IF recovery.read.phase = "chunks" THEN "re_embed_chunks" ELSE "re_embed_finalize"))
  /\ recovery' = [recovery EXCEPT !.left = @ - 1]
  /\ UNCHANGED <<kb, done, worker, caller, blame, events>>

Recovered(p) == [p EXCEPT !.completed = 0, !.total = RemainingWorkers(p)]

\* What workers counted since the read is overwritten.
CommitRecovered ==
  /\ recovery # None /\ recovery.left = 0
  /\ recovery.locked \/ RowFree
  /\ IF recovery.read.phase = "chunks"
       THEN progress' = Recovered(recovery.read) /\ lost' = (progress # recovery.read)
       ELSE lost' = FALSE /\ UNCHANGED progress
  /\ recovery' = None
  /\ UNCHANGED <<status, done, queued, worker, caller, extra, events>>

\* The process dies or a call fails; what it enqueued stays.
RecoveryFails ==
  /\ recovery # None /\ Event(1)
  /\ recovery' = None
  /\ extra' = TRUE
  /\ UNCHANGED <<kb, done, queued, worker, caller, lost>>

------------------------------------------------------------------------------
(***************************************************************************)
(* handle_re_embedding_job takes a job; one whose knowledge base is not in *)
(* "re_embedding" is acknowledged.                                         *)
(***************************************************************************)
Entry(action) == IF action = "re_embed_chunks" THEN "loop" ELSE "phases"

Take(w) ==
  /\ pc[w] = "idle"
  /\ \E job \in BagToSet(queued) :
       /\ queued' = queued (-) SetToBag({job})
       /\ held' = [held EXCEPT ![w] = [job EXCEPT !.attempts = @ + 1]]
       /\ Goto(w, IF status = "re_embedding" THEN Entry(job.action) ELSE "ack")
       /\ memory' = [memory EXCEPT ![w] =
                       IF status = "re_embedding" /\ job.action = "re_embed_finalize"
                         THEN progress ELSE None]
  /\ UNCHANGED <<kb, done, batch, lapsed, start, blame, events>>

------------------------------------------------------------------------------
(***************************************************************************)
(* _handle_re_embed_chunks_job.                                            *)
(***************************************************************************)
Claimable == Remaining \ {batch[w] : w \in Workers}

LockBatch(w) ==
  /\ pc[w] = "loop" /\ status = "re_embedding" /\ Claimable # {}
  /\ batch' = [batch EXCEPT ![w] = Min(Claimable)]
  /\ Goto(w, "embed")
  /\ UNCHANGED <<kb, done, queued, held, memory, lapsed, start, blame, events>>

StopLoop(w) ==
  /\ pc[w] = "loop"
  /\ status # "re_embedding" \/ Claimable = {}
  /\ Goto(w, "finish")
  /\ UNCHANGED <<kb, done, queued, held, batch, memory, lapsed, start, blame, events>>

\* The vectors and the count of chunks are committed under the lock of the row.
StoreBatch(w) ==
  /\ pc[w] = "embed" /\ RowFree
  /\ done' = done \cup {batch[w]}
  /\ batch' = [batch EXCEPT ![w] = None]
  /\ Goto(w, "loop")
  /\ UNCHANGED <<kb, queued, held, memory, lapsed, start, blame, events>>

\* Slip: the last worker takes itself for the last but one.
DoneTooLate(p) == p.completed > p.total

AllDone(p) == p.completed >= p.total

\* increment_workers_completed and what the last worker makes of it.
CountWorker(w, more, last) ==
  LET counted == [progress EXCEPT !.completed = @ + 1]
  IN /\ progress' = counted
     /\ IF AllDone(counted) /\ Remaining # {}
          THEN status' = "error" ELSE UNCHANGED status
     /\ Goto(w, IF AllDone(counted) /\ Remaining = {} THEN more ELSE last)

Finish(w) ==
  /\ pc[w] = "finish" /\ RowFree /\ progress # None
  /\ CountWorker(w, "enqueue", "ack")
  /\ UNCHANGED <<done, queued, held, batch, memory, lapsed, start, blame, events>>

\* Without a progress to count in, it raises with the row locked: on the last
\* attempt its own error path waits for that lock.
FinishRaises(w) ==
  /\ pc[w] = "finish" /\ RowFree /\ progress = None
  /\ Goto(w, IF Exhausted(w) THEN "stuck" ELSE "reject")
  /\ UNCHANGED <<kb, done, queued, held, batch, memory, lapsed, start, blame, events>>

EnqueueFinalize(w) ==
  /\ pc[w] \in {"enqueue", "enqueue exhausted"}
  /\ Put(NewJob("re_embed_finalize"))
  /\ Goto(w, IF pc[w] = "enqueue" THEN "ack" ELSE "reject")
  /\ batch' = [batch EXCEPT ![w] = None]
  /\ UNCHANGED <<kb, done, held, memory, lapsed, start, blame, events>>

AfterRaise(w) == IF Exhausted(w) THEN "count" ELSE "reject"

\* The session, and with it the lock of the batch, outlives the error path.
Raise(w) ==
  /\ Goto(w, AfterRaise(w))
  /\ batch' = [batch EXCEPT ![w] = IF Exhausted(w) THEN @ ELSE None]
  /\ UNCHANGED <<kb, done, queued, held, memory, lapsed, start>>

EmbedRaises(w) ==
  /\ pc[w] = "embed"
  /\ Raise(w)
  /\ UNCHANGED <<blame, events>>

\* It was counted: it will be again, by the next attempt or by the error path.
EnqueueRaises(w) ==
  /\ pc[w] = "enqueue" /\ Event(1)
  /\ Raise(w)
  /\ extra' = TRUE
  /\ UNCHANGED lost

CountExhausted(w) ==
  /\ pc[w] = "count" /\ RowFree
  /\ IF status = "re_embedding"
       THEN CountWorker(w, "enqueue exhausted", "reject")
       ELSE Goto(w, "reject") /\ UNCHANGED kb
  /\ batch' = [batch EXCEPT ![w] = None]
  /\ UNCHANGED <<done, queued, held, memory, lapsed, start, blame, events>>

\* Logged only.
EnqueueExhaustedFails(w) ==
  /\ pc[w] = "enqueue exhausted" /\ Event(1)
  /\ lost' = TRUE
  /\ Goto(w, "reject")
  /\ batch' = [batch EXCEPT ![w] = None]
  /\ UNCHANGED <<kb, done, queued, held, memory, lapsed, start, extra>>

------------------------------------------------------------------------------
(***************************************************************************)
(* _handle_re_embed_finalize_job.  It never reads the row again: a phase   *)
(* writes the progress read at the start.  Of the four phases one is kept. *)
(***************************************************************************)
UpdatePhase(w) ==
  /\ pc[w] = "phases" /\ RowFree
  /\ progress' = [memory[w] EXCEPT !.phase = "later"]
  /\ Goto(w, "complete")
  /\ memory' = [memory EXCEPT ![w] = None]
  /\ UNCHANGED <<status, done, queued, held, batch, lapsed, start, blame, events>>

CompleteStatus == "current"

Complete(w) ==
  /\ pc[w] = "complete" /\ RowFree
  /\ status' = CompleteStatus /\ progress' = None
  /\ Goto(w, "ack")
  /\ UNCHANGED <<done, queued, held, batch, memory, lapsed, start, blame, events>>

FinalizeRaises(w) ==
  /\ pc[w] = "complete"
  /\ Goto(w, IF Exhausted(w) THEN "give up" ELSE "reject")
  /\ UNCHANGED <<kb, done, queued, held, batch, memory, lapsed, start, blame, events>>

\* mark_re_embedding_failed, whatever the status is by now.  A progress of
\* nothing but the error reads as one worker, none completed, in "chunks".
GiveUp(w) ==
  /\ pc[w] = "give up" /\ RowFree
  /\ status' = "error"
  /\ progress' = IF progress = None THEN Started(1) ELSE progress
  /\ Goto(w, "reject")
  /\ UNCHANGED <<done, queued, held, batch, memory, lapsed, start, blame, events>>

------------------------------------------------------------------------------
(***************************************************************************)
(* The answer to the queue, and what makes it deliver a job again.         *)
(***************************************************************************)
Leave(w) ==
  /\ held' = [held EXCEPT ![w] = None]
  /\ batch' = [batch EXCEPT ![w] = None]
  /\ memory' = [memory EXCEPT ![w] = None]
  /\ lapsed' = lapsed \ {w}
  /\ Goto(w, "idle")

Acknowledge(w) ==
  /\ pc[w] = "ack"
  /\ Leave(w)
  /\ UNCHANGED <<kb, done, queued, start, blame, events>>

Reject(w) ==
  /\ pc[w] = "reject"
  /\ IF Exhausted(w) THEN UNCHANGED queued ELSE Put(held[w])
  /\ Leave(w)
  /\ UNCHANGED <<kb, done, start, blame, events>>

\* The heartbeat could not extend the lease, for as long as the lease lasts.
Lapse(w) ==
  /\ pc[w] # "idle" /\ w \notin lapsed
  /\ Event(2)
  /\ Put(held[w])
  /\ lapsed' = lapsed \cup {w}
  /\ extra' = TRUE
  /\ UNCHANGED <<kb, done, held, pc, batch, memory, start, lost>>

Working == {"loop", "embed", "finish", "phases", "complete", "count", "give up"}

\* Its job has yet to be counted, or to move the knowledge base on.
Uncounted(w) == pc[w] \in Working \/ (pc[w] = "reject" /\ ~Exhausted(w))

Crash(w) ==
  /\ pc[w] # "idle" /\ Event(1)
  /\ IF w \in lapsed THEN UNCHANGED queued ELSE Put(held[w])
  /\ extra' = (extra \/ ~Uncounted(w))
  /\ Leave(w)
  /\ UNCHANGED <<kb, done, start, lost>>

Handle(w) ==
  \/ LockBatch(w) \/ StopLoop(w) \/ StoreBatch(w) \/ EmbedRaises(w)
  \/ Finish(w) \/ FinishRaises(w) \/ EnqueueFinalize(w) \/ CountExhausted(w)
  \/ UpdatePhase(w) \/ Complete(w) \/ FinalizeRaises(w) \/ GiveUp(w)
  \/ Acknowledge(w) \/ Reject(w)

Next ==
  \/ Trigger \/ EnqueueChunks \/ Revert \/ CallerDies
  \/ Recover \/ EnqueueRecovered \/ CommitRecovered \/ RecoveryFails
  \/ \E w \in Workers :
       \/ Take(w) \/ Handle(w)
       \/ EnqueueRaises(w) \/ EnqueueExhaustedFails(w)
       \/ Lapse(w) \/ Crash(w)

Spec == Init /\ [][Next]_vars

\* Callers and recoveries go on, workers poll, and calls return.
FairSpec ==
  /\ Spec
  /\ WF_vars(EnqueueChunks) /\ WF_vars(EnqueueRecovered) /\ WF_vars(CommitRecovered)
  /\ \A w \in Workers : WF_vars(Take(w)) /\ WF_vars(Handle(w))

------------------------------------------------------------------------------
TypeOK ==
  /\ status \in {"stale", "re_embedding", "current", "error"}
  /\ progress \in Progress \cup {None}
  /\ status = "re_embedding" => progress # None
  /\ done \subseteq Batches
  /\ IsABag(queued) /\ BagToSet(queued) \subseteq Job
  /\ held \in [Workers -> Job \cup {None}]
  /\ pc \in [Workers -> Working \cup {"idle", "stuck", "enqueue", "enqueue exhausted",
                                       "ack", "reject"}]
  /\ \A w \in Workers : held[w] = None <=> pc[w] = "idle"
  /\ batch \in [Workers -> Batches \cup {None}]
  /\ \A v, w \in Workers : v # w /\ batch[v] # None => batch[v] # batch[w]
  /\ memory \in [Workers -> Progress \cup {None}]
  /\ caller \in Call \cup {None}
  /\ recovery \in Recovery \cup {None}
  /\ lapsed \subseteq Workers /\ {extra, lost} \subseteq BOOLEAN

(***************************************************************************)
(* A knowledge base that reads "current" has all its chunks embedded with  *)
(* the target model: searches compare vectors of one model only, however   *)
(* often jobs run again and starts overlap.                                *)
(***************************************************************************)
CurrentMeansEmbedded == status = "current" => done = Batches

QueuedFor(action) ==
  LET jobs == {job \in BagToSet(queued) : job.action = action}
  IN MapThenSumSet(LAMBDA job : queued[job], jobs)

\* Chunk jobs that have yet to be counted.
Outstanding == QueuedFor("re_embed_chunks")
                 + Cardinality({w \in Workers : Does(w, "re_embed_chunks") /\ Uncounted(w)})

(***************************************************************************)
(* The workers still to come and those completed add up to workers_total,  *)
(* through failures, deaths before the count and recoveries of what was    *)
(* lost.  Left out are starts with jobs that were counted twice or belong  *)
(* to an earlier start.                                                    *)
(***************************************************************************)
WorkersAddUp ==
  status = "re_embedding" /\ progress.phase = "chunks" /\ ~extra /\ ~lost /\ recovery = None
    => progress.completed + Outstanding + (IF caller = None THEN 0 ELSE caller.left)
         = progress.total

(***************************************************************************)
(* The progress is neither ahead of the chunks nor of the workers.         *)
(***************************************************************************)
ProgressHolds == CurrentMeansEmbedded /\ WorkersAddUp

(***************************************************************************)
(* Every re-embedding ends, in "current", in "error" or back where it was, *)
(* unless its start was cut short or the error path of a worker could not  *)
(* enqueue: finalization is not "permanently blocked".                     *)
(***************************************************************************)
EverySettles == []<>(status # "re_embedding" \/ lost)

=============================================================================
