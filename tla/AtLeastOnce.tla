----------------------------- MODULE AtLeastOnce -----------------------------
(***************************************************************************)
(* What the QueueBackend protocol of core/queue_backend.py promises to the *)
(* code that enqueues background work and to the workers that run it: a    *)
(* job handed to the queue stays deliverable until some worker that        *)
(* received it has settled it, by finishing it or by giving it up.         *)
(*                                                                         *)
(* The module says nothing of order, leases, attempts or time.  The two    *)
(* backends are shown to implement it: InMemoryQueue and RedisQueue.       *)
(***************************************************************************)

CONSTANTS Jobs,     \* the identities of the jobs (Job.id)
          Workers,  \* the consumers of the queue
          Nobody    \* what an idle worker runs

VARIABLES sent,     \* jobs handed to the queue
          stored,   \* jobs of which the queue still has a copy to deliver
          running,  \* running[w]: the job worker w received and has not settled
          settled   \* jobs some worker finished or gave up

vars == <<sent, stored, running, settled>>

Init ==
  /\ sent = {}
  /\ stored = {}
  /\ running = [w \in Workers |-> Nobody]
  /\ settled = {}

\* enqueue, schedule: the queue takes responsibility for a new job.
Submit(j) ==
  /\ j \notin sent
  /\ sent' = sent \cup {j}
  /\ stored' = stored \cup {j}
  /\ UNCHANGED <<running, settled>>

\* dequeue: the copy stays stored, for it is delivered again unless settled.
Deliver(w, j) ==
  /\ running[w] = Nobody
  /\ j \in stored
  /\ running' = [running EXCEPT ![w] = j]
  /\ UNCHANGED <<sent, stored, settled>>

\* acknowledge, or a reject that discards: only a worker that received the job
\* settles it, and only then may the queue forget it.
Settle(w, j) ==
  /\ running[w] = j
  /\ running' = [running EXCEPT ![w] = Nobody]
  /\ settled' = settled \cup {j}
  /\ stored' \in {stored, stored \ {j}}
  /\ UNCHANGED sent

\* A reject that returns the job to the queue, whether or not another copy of
\* it is stored.
Return(w, j) ==
  /\ running[w] = j
  /\ running' = [running EXCEPT ![w] = Nobody]
  /\ stored' = stored \cup {j}
  /\ UNCHANGED <<sent, settled>>

\* The process of w dies: its job is not settled and stays stored.
Abandon(w) ==
  /\ running[w] # Nobody
  /\ running' = [running EXCEPT ![w] = Nobody]
  /\ UNCHANGED <<sent, stored, settled>>

\* What is left of a settled job may go later, or never.
Forget(j) ==
  /\ j \in settled
  /\ stored' = stored \ {j}
  /\ UNCHANGED <<sent, running, settled>>

Next ==
  \/ \E j \in Jobs : Submit(j)
  \/ \E w \in Workers, j \in Jobs : Deliver(w, j) \/ Settle(w, j) \/ Return(w, j)
  \/ \E w \in Workers : Abandon(w)
  \/ \E j \in Jobs : Forget(j)

Spec == Init /\ [][Next]_vars

(***************************************************************************)
(* A job that nobody settled can still be delivered.                       *)
(***************************************************************************)
NeverLost == sent \subseteq stored \cup settled

==============================================================================
