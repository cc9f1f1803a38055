-------------------------- MODULE FeedAndChatProofs -------------------------
(***************************************************************************)
(* Safety of a plugin feed for any number of workers, runners, executions, *)
(* attempts and mishaps; of the streams of a chat for any variants,        *)
(* streams, rounds and failures; of the plugins for any packages, tools,   *)
(* requests and edits; and of the catalog of models for any providers,     *)
(* configurations, prompts, requests and calls.                            *)
(***************************************************************************)
EXTENDS PluginFeed, ChatStreams, Plugins, ModelCatalog, FiniteSetTheorems, TLAPS

(***************************************************************************)
(* A bag after one element is put in or taken out.                         *)
(***************************************************************************)
LEMMA BagPut ==
  ASSUME NEW B, IsABag(B), NEW x
  PROVE  /\ IsABag(B (+) SetToBag({x}))
         /\ BagToSet(B (+) SetToBag({x})) = BagToSet(B) \cup {x}
BY DEF IsABag, BagToSet, SetToBag, (+)

LEMMA BagTake ==
  ASSUME NEW B, IsABag(B), NEW x \in BagToSet(B)
  PROVE  /\ IsABag(B (-) SetToBag({x}))
         /\ BagToSet(B (-) SetToBag({x})) \subseteq BagToSet(B)
         /\ BagToSet(B) \subseteq BagToSet(B (-) SetToBag({x})) \cup {x}
BY DEF IsABag, BagToSet, SetToBag, (-)

LEMMA BagEmpty == IsABag(EmptyBag) /\ BagToSet(EmptyBag) = {}
BY DEF IsABag, BagToSet, SetToBag, EmptyBag

(***************************************************************************)
(* The rows.  Executions are numbered as they are inserted; a worker runs  *)
(* only what is RUNNING, since the sweep leaves alone what has a           *)
(* heartbeat; what a runner claimed may have been swept; a row that a      *)
(* PATCH has locked is PENDING.                                            *)
(***************************************************************************)
Fresh      == \A e \in Execution : e > made => status[e] = "absent"
WorkersRun == \A w \in Workers : pc[w] = "run" => status[Held(w)] = "running"
RunnersRun == \A r \in Runners : \A e \in claimed[r] : status[e] \in {"running", "ended"}
LockedRows == \A e \in disabling : status[e] = "pending"

\* Whoever runs an execution is alone in it.
Apart ==
  /\ \A v, w \in Workers : pc[v] = "run" /\ pc[w] = "run" /\ Held(v) = Held(w) => v = w
  /\ \A q, r \in Runners : \A e \in claimed[q] \cap claimed[r] : q = r
  /\ \A w \in Workers, r \in Runners : pc[w] = "run" => Held(w) \notin claimed[r]

RowInv == TypeOK /\ Fresh /\ WorkersRun /\ RunnersRun /\ LockedRows /\ Apart

\* TypeOK in the parts that steps disturb apart from each other.
Flags == /\ due \in BOOLEAN /\ enabled \in BOOLEAN
         /\ queuing \in BOOLEAN /\ patching \in BOOLEAN
Rows  == /\ status \in [Execution -> Status] /\ made \in 0..MaxRuns
         /\ tx \in Execution \cup {None}
         /\ \A e \in Execution : status[e] = "flushed" <=> tx = e
         /\ queuing => tx # None
Marks == /\ spawned \subseteq Execution /\ byHand \subseteq Execution /\ orphans \subseteq Execution
         /\ disabling \subseteq Execution /\ (disabling # {} => patching)
         /\ claimed \in [Runners -> SUBSET Execution]
Hands == /\ IsABag(queued) /\ BagToSet(queued) \subseteq Job
         /\ held \in [Workers -> Job \cup {None}]
         /\ pc \in [Workers -> {"idle", "run", "reject", "ack"}]
         /\ \A w \in Workers : held[w] = None <=> pc[w] = "idle"
         /\ lapsed \subseteq Workers
Counts == mishaps \in Nat /\ toggles \in Nat

LEMMA TypeParts == TypeOK <=> Flags /\ Rows /\ Marks /\ Hands /\ Counts
BY DEF TypeOK, Flags, Rows, Marks, Hands, Counts

LEMMA TypePartsNext == TypeOK' <=> Flags' /\ Rows' /\ Marks' /\ Hands' /\ Counts'
BY DEF TypeOK, Flags, Rows, Marks, Hands, Counts

LEMMA RowInit == Init => RowInv
<1> SUFFICES ASSUME Init PROVE RowInv
  OBVIOUS
<1> USE DEF Init
<1>1. Flags /\ Counts
  BY DEF Flags, Counts
<1>2. Rows
  BY FeedAssumption DEF Rows, Status, Execution
<1>3. Marks
  BY DEF Marks
<1>4. Hands
  BY FeedAssumption, BagEmpty DEF Hands
<1>5. Fresh /\ WorkersRun /\ RunnersRun /\ LockedRows /\ Apart
  BY DEF Fresh, WorkersRun, RunnersRun, LockedRows, Apart
<1> QED
  BY <1>1, <1>2, <1>3, <1>4, <1>5, TypeParts DEF RowInv

LEMMA HeldJob ==
  ASSUME Hands, NEW w \in Workers, pc[w] # "idle"
  PROVE  held[w] \in Job /\ held[w] # None /\ Held(w) \in Execution
BY FeedAssumption DEF Hands, Job, Held

LEMMA PutType ==
  ASSUME Hands, NEW job \in Job, Put(job)
  PROVE  IsABag(queued') /\ BagToSet(queued') = BagToSet(queued) \cup {job}
         /\ BagToSet(queued') \subseteq Job
<1>1. IsABag(queued)
  BY DEF Hands
<1>2. queued' = queued (+) SetToBag({job})
  BY DEF Put
<1>3. IsABag(queued') /\ BagToSet(queued') = BagToSet(queued) \cup {job}
  BY <1>1, <1>2, BagPut
<1> QED BY <1>3 DEF Hands

LEMMA MishapCounts ==
  ASSUME Counts, Mishap, toggles' = toggles PROVE Counts'
BY DEF Counts, Mishap

\* A plugin that comes back, in whatever way: its row is COMPLETED, FAILED or
\* PENDING again, and PENDING only with an attempt left or with no job.
LEMMA RunComesBack ==
  ASSUME RowInv, NEW w \in Workers, pc[w] = "run", Handle(w)
  PROVE  /\ Held(w) \in Execution /\ status[Held(w)] = "running"
         /\ \E s \in {"ended", "pending"} :
              /\ status' = [status EXCEPT ![Held(w)] = s]
              /\ s = "pending" => Held(w) \in orphans' \/ (pc'[w] = "reject" /\ ~Exhausted(w))
         /\ \E t \in {"ack", "reject"} : pc' = [pc EXCEPT ![w] = t]
         /\ orphans \subseteq orphans' /\ orphans' \subseteq Execution
         /\ enabled' \in BOOLEAN /\ toggles' \in Nat
         /\ UNCHANGED <<due, patching, disabling, request, sched, queued, held, lapsed, claimed, mishaps>>
<1>t. Flags /\ Marks /\ Hands /\ Counts
  BY TypeParts DEF RowInv
<1>1. Held(w) \in Execution /\ status[Held(w)] = "running"
  BY <1>t, HeldJob DEF RowInv, WorkersRun
<1>2. CASE Execute(w)
  BY <1>1, <1>2, <1>t DEF Execute, Set, Goto, Flags, Marks, Counts, feed
<1>3. CASE ExecuteUnresolved(w)
  <2>1. toggles' \in Nat
    BY <1>3, <1>t DEF ExecuteUnresolved, Counts
  <2>2. enabled' \in BOOLEAN
    BY <1>3, Zenon DEF ExecuteUnresolved
  <2> QED BY <1>1, <1>3, <1>t, <2>1, <2>2 DEF ExecuteUnresolved, Set, Goto, Marks
<1>4. CASE RateLimited(w)
  BY <1>1, <1>4, <1>t DEF RateLimited, Set, Goto, Orphan, Flags, Marks, Hands, Counts, feed
<1>5. CASE ExecuteRaises(w)
  BY <1>1, <1>5, <1>t DEF ExecuteRaises, Set, Goto, AfterError, Flags, Marks, Hands, Counts, feed
<1> QED
  BY <1>2, <1>3, <1>4, <1>5 DEF Handle, Acknowledge, Reject

\* A worker that answers the queue, or dies.
LEMMA WorkerLeaves ==
  ASSUME RowInv, NEW w \in Workers, (pc[w] # "run" /\ Handle(w)) \/ Crash(w)
  PROVE  /\ Held(w) \in Execution /\ pc[w] # "idle"
         /\ queued' = queued \/ (held[w] \in Job /\ Put(held[w]))
         /\ pc[w] = "reject" /\ ~Exhausted(w) => Put(held[w]) \/ Held(w) \in orphans'
         /\ orphans \subseteq orphans' /\ orphans' \subseteq Execution
         /\ Counts' /\ Leave(w)
         /\ UNCHANGED <<feed, request, sched, status, claimed>>
<1>t. Marks /\ Hands /\ Counts
  BY TypeParts DEF RowInv
<1>1. pc[w] # "idle"
  BY DEF Handle, Execute, ExecuteUnresolved, RateLimited, ExecuteRaises, Acknowledge, Reject, Crash
<1>2. Held(w) \in Execution /\ held[w] \in Job
  BY <1>t, <1>1, HeldJob
<1>3. CASE Acknowledge(w)
  BY <1>1, <1>2, <1>3, <1>t DEF Acknowledge, Marks, Counts, feed
<1>4. CASE Reject(w)
  BY <1>1, <1>2, <1>4, <1>t DEF Reject, Marks, Counts, feed
<1>5. CASE Crash(w)
  <2>1. Counts'
    BY <1>5, <1>t, MishapCounts DEF Crash, feed
  <2> QED BY <1>1, <1>2, <1>5, <1>t, <2>1 DEF Crash, Orphan, Marks
<1> QED
  BY <1>3, <1>4, <1>5 DEF Handle, Execute, ExecuteUnresolved, RateLimited, ExecuteRaises

\* A step of something other than workers and runners that leaves their rows be.
LEMMA ApartKept ==
  ASSUME Apart, UNCHANGED <<pc, held, claimed>> PROVE Apart'
BY DEF Apart, Held

LEMMA RowStep ==
  ASSUME RowInv, Next PROVE RowInv'
<1>t. Flags /\ Rows /\ Marks /\ Hands /\ Counts
  BY TypeParts DEF RowInv
<1> DEFINE Goal == /\ Flags /\ Rows /\ Marks /\ Hands /\ Counts
                   /\ Fresh /\ WorkersRun /\ RunnersRun /\ LockedRows /\ Apart
<1> SUFFICES Goal'
  BY TypePartsNext DEF RowInv
<1> USE <1>t DEF RowInv
<1>1. CASE Elapse
  BY <1>1, ApartKept DEF Elapse, Flags, Rows, Marks, Hands, Counts, Fresh, WorkersRun, RunnersRun, LockedRows, request, sched, worker, Held
<1>2. CASE SkipTick
  BY <1>2, ApartKept DEF SkipTick, Flags, Rows, Marks, Hands, Counts, Fresh, WorkersRun, RunnersRun, LockedRows, request, sched, worker, Held
<1>3. CASE CreateExecution
  <2>1. Flags' /\ Marks' /\ Hands' /\ Counts' /\ Apart'
    BY <1>3, ApartKept DEF CreateExecution, feed, request, worker, Flags, Marks, Hands, Counts
  <2>2. Rows' /\ Fresh'
    BY <1>3, FeedAssumption DEF CreateExecution, Rows, Fresh, Set, Execution, Status
  <2>3. WorkersRun'
    BY <1>3, FeedAssumption, HeldJob DEF CreateExecution, Rows, Hands, Fresh, WorkersRun, worker, Held, Execution, Set
  <2>4. RunnersRun' /\ LockedRows'
    BY <1>3, FeedAssumption DEF CreateExecution, Rows, Marks, Fresh, RunnersRun, LockedRows, feed, Execution, Set
  <2> QED BY <2>1, <2>2, <2>3, <2>4
<1>4. CASE EnqueueExecution
  <2>1. Flags' /\ Rows' /\ Marks' /\ Counts'
    BY <1>4 DEF EnqueueExecution, feed, request, Flags, Rows, Marks, Counts
  <2>2. [execution |-> tx, attempts |-> 0] \in Job
    BY <1>4 DEF EnqueueExecution, Rows, Job
  <2>3. Hands'
    BY <1>4, <2>2, PutType DEF EnqueueExecution, Hands
  <2>4. (Fresh /\ WorkersRun /\ RunnersRun /\ LockedRows)' /\ Apart'
    BY <1>4, ApartKept DEF EnqueueExecution, Fresh, WorkersRun, RunnersRun, LockedRows, feed, Held
  <2> QED BY <2>1, <2>3, <2>4
<1>5. CASE EnqueueFails
  <2>1. Counts' /\ Flags'
    BY <1>5, MishapCounts DEF EnqueueFails, Flags, feed
  <2>2. Rows' /\ Marks' /\ Hands'
    BY <1>5 DEF EnqueueFails, Orphan, Rows, Marks, Hands, feed, request, worker
  <2>3. (Fresh /\ WorkersRun /\ RunnersRun /\ LockedRows)' /\ Apart'
    BY <1>5, ApartKept DEF EnqueueFails, Fresh, WorkersRun, RunnersRun, LockedRows, feed, worker, Held
  <2> QED BY <2>1, <2>2, <2>3
<1>6. CASE CommitTick
  <2>1. Flags' /\ Marks' /\ Hands' /\ Counts' /\ Apart'
    BY <1>6, ApartKept DEF CommitTick, Flags, Marks, Hands, Counts, request, worker
  <2>2. Rows'
    BY <1>6, FeedAssumption DEF CommitTick, Set, Rows, Status, Active
  <2>3. (Fresh /\ RunnersRun /\ LockedRows)'
    BY <1>6, FeedAssumption DEF CommitTick, Rows, Marks, Fresh, RunnersRun, LockedRows, Set
  <2>4. WorkersRun'
    BY <1>6, FeedAssumption, HeldJob DEF CommitTick, Rows, WorkersRun, worker, Held, Set
  <2> QED BY <2>1, <2>2, <2>3, <2>4
<1>7. CASE LoseTick
  <2>1. Flags' /\ Counts' /\ Marks' /\ Hands' /\ Apart'
    BY <1>7, MishapCounts, ApartKept DEF LoseTick, Flags, Marks, Hands, feed, request, worker
  <2>2. Rows'
    BY <1>7, FeedAssumption DEF LoseTick, RolledBack, Rows, Status, Active
  <2>3. (Fresh /\ RunnersRun /\ LockedRows)'
    BY <1>7, FeedAssumption DEF LoseTick, RolledBack, Rows, Marks, Fresh, RunnersRun, LockedRows, feed
  <2>4. WorkersRun'
    BY <1>7, FeedAssumption, HeldJob DEF LoseTick, RolledBack, Rows, WorkersRun, worker, Held
  <2> QED BY <2>1, <2>2, <2>3, <2>4
<1>8. CASE Cleanup
  <2> PICK e \in Execution : CleanupStale(e)
    BY <1>8 DEF Cleanup
  <2>1. Flags' /\ Marks' /\ Hands' /\ Counts' /\ Apart'
    BY ApartKept DEF CleanupStale, feed, request, sched, worker, Flags, Marks, Hands, Counts
  <2>2. (Rows /\ Fresh /\ RunnersRun /\ LockedRows)'
    BY FeedAssumption DEF CleanupStale, Stale, Set, sched, feed, Rows, Marks, Fresh, RunnersRun, LockedRows, Status
  <2>3. WorkersRun'
    BY HeldJob DEF CleanupStale, Stale, Heartbeat, Set, Rows, WorkersRun, worker, Held
  <2> QED BY <2>1, <2>2, <2>3
<1>9. ASSUME NEW w \in Workers, Take(w) PROVE Goal'
  <2> USE <1>9
  <2> PICK job \in BagToSet(queued) :
         /\ queued' = queued (-) SetToBag({job})
         /\ held' = [held EXCEPT ![w] = [job EXCEPT !.attempts = @ + 1]]
         /\ IF job.execution \in Claimable
              THEN Set(job.execution, "running") /\ Goto(w, "run")
              ELSE Goto(w, "ack") /\ UNCHANGED status
         /\ IF status[job.execution] = "flushed" THEN Orphan(job.execution) ELSE UNCHANGED orphans
    BY DEF Take
  <2>1. /\ job \in Job /\ [job EXCEPT !.attempts = @ + 1] \in Job
        /\ [job EXCEPT !.attempts = @ + 1].execution = job.execution
        /\ job.execution \in Execution
    BY DEF Hands, Job
  <2>2. Flags' /\ Counts' /\ Marks'
    BY <2>1 DEF Take, Flags, Counts, Marks, feed, request, sched, Orphan
  <2>3. Rows' /\ Fresh' /\ RunnersRun' /\ LockedRows'
    BY <2>1, FeedAssumption DEF Take, Rows, Marks, Fresh, RunnersRun, LockedRows, Claimable, Set, sched, feed, Status, Active
  <2>4. PICK t \in {"run", "ack"} : pc' = [pc EXCEPT ![w] = t]
    BY DEF Goto
  <2>5. /\ held' \in [Workers -> Job \cup {None}] /\ held'[w] \in Job
        /\ \A v \in Workers \ {w} : held'[v] = held[v]
        /\ held'[w].execution = job.execution
    BY <2>1 DEF Hands
  <2>6. Hands'
    <3>1. IsABag(queued') /\ BagToSet(queued') \subseteq Job
      BY BagTake DEF Hands
    <3> QED BY <3>1, <2>4, <2>5, FeedAssumption DEF Hands, Take
  <2>7. t = "run" => /\ status[job.execution] = "pending"
                     /\ status' = [status EXCEPT ![job.execution] = "running"]
    BY <2>4 DEF Goto, Hands, Set, Claimable
  <2>8. t # "run" => status' = status
    BY <2>4 DEF Goto, Hands, Set, Claimable
  <2>9. WorkersRun'
    BY <2>1, <2>4, <2>5, <2>7, <2>8, HeldJob DEF Hands, Rows, WorkersRun, Held
  <2>10. Apart'
    BY <2>1, <2>4, <2>5, <2>7, HeldJob DEF Take, Hands, Marks, WorkersRun, RunnersRun, Apart, Held
  <2> QED BY <2>2, <2>3, <2>6, <2>9, <2>10
<1>10. ASSUME NEW w \in Workers, Handle(w), pc[w] = "run" PROVE Goal'
  <2> USE <1>10
  <2> PICK s \in {"ended", "pending"}, t \in {"ack", "reject"} :
         /\ status' = [status EXCEPT ![Held(w)] = s]
         /\ pc' = [pc EXCEPT ![w] = t]
    BY RunComesBack
  <2>1. /\ Held(w) \in Execution /\ status[Held(w)] = "running"
        /\ orphans' \subseteq Execution /\ enabled' \in BOOLEAN /\ toggles' \in Nat
        /\ UNCHANGED <<due, patching, disabling, request, sched, queued, held, lapsed, claimed, mishaps>>
    BY RunComesBack
  <2>2. Flags' /\ Counts' /\ Marks'
    BY <2>1 DEF Flags, Counts, Marks, request, sched
  <2>3. Rows' /\ Fresh'
    BY <2>1, FeedAssumption DEF Rows, Fresh, sched, Status, Active
  <2>4. RunnersRun' /\ LockedRows'
    BY <2>1, FeedAssumption DEF Rows, Marks, RunnersRun, LockedRows, Apart
  <2>5. Hands'
    BY <2>1 DEF Hands
  <2>6. WorkersRun' /\ Apart'
    BY <2>1 DEF WorkersRun, Hands, Held, Apart, Rows
  <2> QED BY <2>2, <2>3, <2>4, <2>5, <2>6
<1>11. ASSUME NEW w \in Workers, (pc[w] # "run" /\ Handle(w)) \/ Crash(w) PROVE Goal'
  <2> USE <1>11
  <2>1. /\ Held(w) \in Execution /\ pc[w] # "idle"
        /\ queued' = queued \/ (held[w] \in Job /\ Put(held[w]))
        /\ orphans' \subseteq Execution /\ Counts' /\ Leave(w)
        /\ UNCHANGED <<feed, request, sched, status, claimed>>
    BY WorkerLeaves
  <2>2. Flags' /\ Rows' /\ Fresh' /\ Marks' /\ RunnersRun' /\ LockedRows'
    BY <2>1 DEF Flags, Rows, Fresh, Marks, RunnersRun, LockedRows, feed, request, sched
  <2>3. Hands'
    <3>1. IsABag(queued') /\ BagToSet(queued') \subseteq Job
      BY <2>1, PutType DEF Hands
    <3> QED BY <3>1, <2>1 DEF Hands, Leave, Goto
  <2>4. WorkersRun' /\ Apart'
    BY <2>1 DEF Leave, Goto, Hands, WorkersRun, Apart, Held
  <2> QED BY <2>1, <2>2, <2>3, <2>4
<1>12. ASSUME NEW w \in Workers, Lapse(w) PROVE Goal'
  <2>1. Counts'
    BY <1>12, MishapCounts DEF Lapse, feed
  <2>2. Hands'
    BY <1>12, PutType, HeldJob DEF Lapse, Hands
  <2>3. Flags' /\ Rows' /\ Fresh' /\ Marks' /\ RunnersRun' /\ LockedRows'
    BY <1>12 DEF Lapse, Flags, Rows, Fresh, Marks, RunnersRun, LockedRows, feed, request, sched
  <2>4. WorkersRun' /\ Apart'
    BY <1>12, ApartKept DEF Lapse, WorkersRun, Held
  <2> QED BY <2>1, <2>2, <2>3, <2>4
<1>13. ASSUME NEW r \in Runners, NEW rows \in SUBSET Claimable, ClaimPending(r, rows),
              spawned' \in {spawned} \cup {spawned \ {e} : e \in Execution},
              UNCHANGED <<feed, byHand, sched, worker, orphans, mishaps>>
       PROVE  Goal'
  <2> USE <1>13
  <2>1. /\ rows \subseteq Execution /\ rows \cap disabling = {}
        /\ \A e \in rows : status[e] = "pending"
        /\ status' = [e \in Execution |-> IF e \in rows THEN "running" ELSE status[e]]
        /\ claimed[r] = {} /\ claimed' = [claimed EXCEPT ![r] = rows]
    BY DEF Claimable, ClaimPending
  <2>2. Flags' /\ Hands' /\ Counts'
    BY DEF feed, sched, worker, Flags, Hands, Counts
  <2>3. Marks'
    BY <2>1 DEF feed, Marks
  <2>4. Rows' /\ Fresh'
    BY <2>1, FeedAssumption DEF Rows, Fresh, sched, Status, Active
  <2>5. WorkersRun'
    BY <2>1, HeldJob DEF WorkersRun, worker, Held
  <2>6. RunnersRun' /\ LockedRows'
    BY <2>1 DEF RunnersRun, LockedRows, Marks, feed
  <2>7. Apart'
    BY <2>1 DEF Apart, RunnersRun, WorkersRun, Held, Marks, worker
  <2> QED BY <2>2, <2>3, <2>4, <2>5, <2>6, <2>7
<1>14. ASSUME NEW r \in Runners, NEW e \in Execution, NEW s \in {"ended", "pending"}, Outcome(r, e, s),
              orphans' \subseteq Execution, byHand' \subseteq Execution, Counts',
              UNCHANGED <<feed, spawned, sched, worker>>
       PROVE  Goal'
  <2> USE <1>14
  <2>1. /\ e \in claimed[r] /\ status[e] \in {"running", "ended"}
        /\ status' = [status EXCEPT ![e] = s]
        /\ claimed' = [claimed EXCEPT ![r] = @ \ {e}]
    BY DEF Outcome, Set, RunnersRun
  <2>2. Flags' /\ Hands' /\ Counts'
    BY DEF feed, sched, worker, Flags, Hands
  <2>3. Marks'
    BY <2>1 DEF feed, Marks
  <2>4. Rows' /\ Fresh'
    BY <2>1, FeedAssumption DEF Rows, Fresh, sched, Status, Active
  <2>5. WorkersRun'
    BY <2>1, HeldJob DEF WorkersRun, worker, Held, Apart, Rows
  <2>6. RunnersRun' /\ LockedRows'
    BY <2>1 DEF RunnersRun, LockedRows, Marks, feed, Apart, Rows
  <2>7. Apart'
    BY <2>1 DEF Apart, Held, Marks, worker
  <2> QED BY <2>2, <2>3, <2>4, <2>5, <2>6, <2>7
<1>15. ASSUME NEW r \in Runners, Run(r) PROVE Goal'
  <2> PICK e \in Execution : RunSpawned(r, e) \/ Ran(r, e) \/ Deferred(r, e)
    BY <1>15 DEF Run
  <2>1. CASE RunSpawned(r, e)
    <3> HIDE DEF Goal
    <3> QED BY <2>1, <1>13 DEF RunSpawned
  <2>2. CASE Ran(r, e)
    <3>1. orphans' \subseteq Execution /\ byHand' \subseteq Execution /\ Counts'
      BY <2>2 DEF Ran, feed, request, Marks, Counts
    <3> HIDE DEF Goal
    <3> QED BY <2>2, <3>1, <1>14 DEF Ran, request
  <2>3. CASE Deferred(r, e)
    <3>1. orphans' \subseteq Execution /\ byHand' \subseteq Execution /\ Counts'
      BY <2>3, MishapCounts DEF Deferred, Orphan, feed, Marks
    <3> HIDE DEF Goal
    <3> QED BY <2>3, <3>1, <1>14 DEF Deferred
  <2> QED BY <2>1, <2>2, <2>3
<1>16. ASSUME NEW r \in Runners, RunPending(r) PROVE Goal'
  <2> HIDE DEF Goal
  <2> QED BY <1>13, <1>16 DEF RunPending, request
<1>17. ASSUME NEW r \in Runners, RunnerDies(r) PROVE Goal'
  <2>1. Counts'
    BY <1>17, MishapCounts DEF RunnerDies, feed
  <2>2. Flags' /\ Rows' /\ Hands' /\ Fresh' /\ LockedRows' /\ WorkersRun'
    BY <1>17 DEF RunnerDies, feed, sched, worker, Flags, Rows, Hands, Fresh, LockedRows, WorkersRun, Held
  <2>3. Marks' /\ RunnersRun' /\ Apart'
    BY <1>17 DEF RunnerDies, feed, request, worker, Marks, RunnersRun, Apart, Held
  <2> QED BY <2>1, <2>2, <2>3
<1>18. ASSUME NEW e \in Execution, TaskDies(e) PROVE Goal'
  <2>1. Counts' /\ Marks'
    BY <1>18, MishapCounts DEF TaskDies, feed, Orphan, Marks
  <2>2. Flags' /\ Rows' /\ Hands' /\ Fresh' /\ LockedRows' /\ WorkersRun' /\ RunnersRun'
    BY <1>18 DEF TaskDies, feed, sched, worker, Flags, Rows, Hands, Fresh, LockedRows, WorkersRun, RunnersRun, Held
  <2>3. Apart'
    BY <1>18, ApartKept DEF TaskDies, worker
  <2> QED BY <2>1, <2>2, <2>3
<1>19. CASE InsertRunNow
  <2>1. Flags' /\ Hands' /\ Counts' /\ Apart'
    BY <1>19, ApartKept DEF InsertRunNow, worker, Flags, Hands, Counts
  <2>2. made' \in Execution /\ status[made'] = "absent"
    BY <1>19, FeedAssumption DEF InsertRunNow, Rows, Execution, Fresh
  <2>3. Marks'
    BY <1>19, <2>2 DEF InsertRunNow, Marks
  <2>4. Rows' /\ Fresh'
    BY <1>19, FeedAssumption DEF InsertRunNow, Rows, Fresh, Set, Execution, Status, Active
  <2>5. WorkersRun'
    BY <1>19, <2>2, HeldJob DEF InsertRunNow, Set, Rows, WorkersRun, worker, Held
  <2>6. RunnersRun' /\ LockedRows'
    BY <1>19, <2>2 DEF InsertRunNow, Set, Rows, Marks, RunnersRun, LockedRows
  <2> QED BY <2>1, <2>3, <2>4, <2>5, <2>6
<1>20. CASE CancelPending
  <2>1. Counts'
    BY <1>20 DEF CancelPending, Counts
  <2>2. Flags' /\ Marks' /\ LockedRows'
    BY <1>20 DEF CancelPending, Flags, Marks, LockedRows, Claimable, request, sched
  <2>3. Rows' /\ Hands' /\ Fresh' /\ WorkersRun' /\ RunnersRun' /\ Apart'
    BY <1>20, ApartKept DEF CancelPending, sched, worker, Rows, Hands, Fresh, WorkersRun, RunnersRun, Held
  <2> QED BY <2>1, <2>2, <2>3
<1>21. CASE Disable
  <2>1. Flags' /\ Counts' /\ Hands' /\ Marks' /\ LockedRows' /\ Apart'
    BY <1>21, ApartKept DEF Disable, Flags, Counts, Hands, Marks, LockedRows, request, sched, worker
  <2>2. status' = [e \in Execution |-> IF e \in disabling THEN "ended" ELSE status[e]]
    BY <1>21 DEF Disable
  <2>3. Rows' /\ Fresh'
    BY <1>21, <2>2, FeedAssumption DEF Disable, Rows, Fresh, LockedRows, sched, Status, Active
  <2>4. WorkersRun' /\ RunnersRun'
    BY <1>21, <2>2, HeldJob DEF Disable, Marks, LockedRows, WorkersRun, RunnersRun, worker, Held
  <2> QED BY <2>1, <2>3, <2>4
<1>22. CASE LosePatch
  <2>1. Counts'
    BY <1>22, MishapCounts DEF LosePatch
  <2>2. Flags' /\ Marks' /\ LockedRows'
    BY <1>22 DEF LosePatch, Flags, Marks, LockedRows, request, sched
  <2>3. Rows' /\ Hands' /\ Fresh' /\ WorkersRun' /\ RunnersRun' /\ Apart'
    BY <1>22, ApartKept DEF LosePatch, sched, worker, Rows, Hands, Fresh, WorkersRun, RunnersRun, Held
  <2> QED BY <2>1, <2>2, <2>3
<1>23. CASE Enable
  <2>1. Counts' /\ Flags' /\ Marks' /\ LockedRows'
    BY <1>23 DEF Enable, Counts, Flags, Marks, LockedRows, request, sched
  <2>2. Rows' /\ Hands' /\ Fresh' /\ WorkersRun' /\ RunnersRun' /\ Apart'
    BY <1>23, ApartKept DEF Enable, sched, worker, Rows, Hands, Fresh, WorkersRun, RunnersRun, Held
  <2> QED BY <2>1, <2>2
<1> HIDE DEF Goal
<1> QED
  BY <1>1, <1>2, <1>3, <1>4, <1>5, <1>6, <1>7, <1>8, <1>9, <1>10, <1>11, <1>12, <1>15, <1>16,
     <1>17, <1>18, <1>19, <1>20, <1>21, <1>22, <1>23
  DEF Next, Tick, Queue

------------------------------------------------------------------------------
(***************************************************************************)
(* What the scheduler made.  While the transaction of a tick is open       *)
(* nothing it made before is active, and nothing becomes active that was   *)
(* not, except what a run_pending gives back.                              *)
(***************************************************************************)
Scheduled(e) == e \notin byHand /\ status[e] \in Active

OneActive == \A d, e \in Execution : Scheduled(d) /\ Scheduled(e) => d = e
TickAlone == tx # None => \A e \in Execution : ~Scheduled(e)

ActiveInv == OneActive /\ TickAlone

\* A step that makes nothing of the scheduler's active and opens no transaction.
LEMMA ActiveKept ==
  ASSUME ActiveInv, UNCHANGED tx \/ tx' = None, byHand \subseteq byHand',
         \A e \in Execution : status'[e] \in Active => status[e] \in Active \/ e \in byHand'
  PROVE  ActiveInv'
BY DEF ActiveInv, OneActive, TickAlone, Scheduled

LEMMA ActiveStep ==
  ASSUME RowInv, ActiveInv, Next PROVE ActiveInv'
<1>t. Flags /\ Rows /\ Marks /\ Hands /\ Counts
  BY TypeParts DEF RowInv
<1>1. CASE Elapse \/ SkipTick \/ EnqueueExecution \/ EnqueueFails \/ CancelPending \/ LosePatch \/ Enable
  BY <1>1, ActiveKept DEF Elapse, SkipTick, EnqueueExecution, EnqueueFails, CancelPending, LosePatch,
     Enable, feed, request, sched
<1>2. CASE CreateExecution
  BY <1>2, <1>t DEF CreateExecution, HasActiveExecution, Set, Rows, request, ActiveInv, OneActive,
     TickAlone, Scheduled, Active
<1>3. CASE CommitTick
  BY <1>3, <1>t DEF CommitTick, Set, Rows, request, ActiveInv, OneActive, TickAlone, Scheduled, Active
<1>4. CASE LoseTick \/ Cleanup \/ Disable
  BY <1>4, <1>t, ActiveKept DEF LoseTick, RolledBack, Cleanup, CleanupStale, Disable, Set, Rows, request,
     sched, Active
<1>5. ASSUME NEW w \in Workers, Take(w) PROVE ActiveInv'
  <2>1. \A e \in Execution : status'[e] \in Active => status[e] \in Active
    BY <1>5, <1>t DEF Take, Claimable, Set, Rows, Active
  <2> QED BY <1>5, <2>1, ActiveKept DEF Take, request, sched
<1>6. ASSUME NEW w \in Workers, Handle(w), pc[w] = "run" PROVE ActiveInv'
  <2>1. \A e \in Execution : status'[e] \in Active => status[e] \in Active
    BY <1>6, <1>t, RunComesBack DEF Rows, Active
  <2> QED BY <1>6, <2>1, RunComesBack, ActiveKept DEF request, sched
<1>7. ASSUME NEW w \in Workers, (pc[w] # "run" /\ Handle(w)) \/ Crash(w) \/ Lapse(w) PROVE ActiveInv'
  <2>1. UNCHANGED <<request, sched, status>>
    BY <1>7, WorkerLeaves DEF Lapse
  <2> QED BY <2>1, ActiveKept DEF request, sched
<1>8. ASSUME NEW r \in Runners, Run(r) PROVE ActiveInv'
  <2> PICK e \in Execution : RunSpawned(r, e) \/ Ran(r, e) \/ Deferred(r, e)
    BY <1>8 DEF Run
  <2>1. CASE RunSpawned(r, e)
    BY <2>1, ActiveKept DEF RunSpawned, ClaimPending, Claimable, Active, sched
  <2>2. CASE Ran(r, e)
    BY <2>2, <1>t, ActiveKept DEF Ran, Outcome, Set, Rows, Active, request, sched
  <2>3. CASE Deferred(r, e)
    BY <2>3, <1>t, ActiveKept DEF Deferred, Outcome, Set, Rows, Active, sched
  <2> QED BY <2>1, <2>2, <2>3
<1>9. ASSUME NEW r \in Runners, RunPending(r) PROVE ActiveInv'
  BY <1>9, ActiveKept DEF RunPending, ClaimPending, Claimable, Active, request, sched
<1>10. ASSUME NEW r \in Runners, RunnerDies(r) PROVE ActiveInv'
  BY <1>10, ActiveKept DEF RunnerDies, request, sched
<1>11. ASSUME NEW e \in Execution, TaskDies(e) PROVE ActiveInv'
  BY <1>11, ActiveKept DEF TaskDies, sched
<1>12. CASE InsertRunNow
  BY <1>12, <1>t, ActiveKept DEF InsertRunNow, Set, Rows
<1> QED
  BY <1>1, <1>2, <1>3, <1>4, <1>5, <1>6, <1>7, <1>8, <1>9, <1>10, <1>11, <1>12
  DEF Next, Tick, Queue

------------------------------------------------------------------------------
(***************************************************************************)
(* What is to run.  The job of an open transaction is in the queue: one    *)
(* that a worker took before the commit is an orphan.                      *)
(***************************************************************************)
Waits(e) == \E job \in BagToSet(queued) : job.execution = e

TickHasJob == tx # None /\ ~queuing /\ tx \notin orphans => Waits(tx)

JobInv == TickHasJob /\ PendingHasJob

\* A step that takes no job and no task away.
LEMMA JobsKept ==
  ASSUME RowInv, JobInv,
         UNCHANGED <<tx, queuing>> \/ tx' = None,
         orphans \subseteq orphans', spawned \subseteq spawned',
         BagToSet(queued) \subseteq BagToSet(queued'),
         \A e \in disabling : e \in disabling' \/ e \in orphans' \/ status'[e] # "pending",
         \A w \in Workers : pc[w] = "reject" /\ ~Exhausted(w)
            => \/ pc'[w] = "reject" /\ held'[w] = held[w]
               \/ \E job \in BagToSet(queued') : job.execution = Held(w)
               \/ Held(w) \in orphans',
         \A e \in Execution : status'[e] = "pending"
            => status[e] = "pending" \/ Coming(e)' \/ e \in orphans'
  PROVE  JobInv'
<1>1. TickHasJob'
  BY DEF JobInv, TickHasJob, Waits
<1>2. ASSUME NEW e \in Execution \ orphans', status'[e] = "pending" PROVE Coming(e)'
  <2>1. CASE status[e] # "pending"
    BY <1>2, <2>1
  <2>2. CASE status[e] = "pending"
    <3>1. Coming(e)
      BY <1>2, <2>2 DEF JobInv, PendingHasJob
    <3>2. CASE e \in spawned \/ e \in disabling \/ Waits(e)
      BY <1>2, <3>2 DEF Coming, Waits
    <3>3. ASSUME NEW w \in Workers, pc[w] = "reject" /\ Held(w) = e /\ ~Exhausted(w)
          PROVE  Coming(e)'
      BY <1>2, <3>3 DEF Coming, Held, Exhausted
    <3> QED BY <3>1, <3>2, <3>3 DEF Coming, Waits
  <2> QED BY <2>1, <2>2
<1> QED BY <1>1, <1>2 DEF JobInv, PendingHasJob

LEMMA JobStep ==
  ASSUME RowInv, JobInv, Next PROVE JobInv'
<1>t. Flags /\ Rows /\ Marks /\ Hands /\ Counts
  BY TypeParts DEF RowInv
<1>1. CASE Elapse \/ SkipTick \/ Enable
  BY <1>1, JobsKept DEF Elapse, SkipTick, Enable, sched, request, worker
<1>2. CASE CreateExecution
  <2>1. \A e \in Execution : status'[e] = "pending" => status[e] = "pending"
    BY <1>2, <1>t DEF CreateExecution, Set, Rows
  <2>2. TickHasJob'
    BY <1>2 DEF CreateExecution, TickHasJob
  <2> QED BY <1>2, <2>1, <2>2 DEF CreateExecution, feed, request, worker, JobInv, PendingHasJob, Coming, Held, Exhausted
<1>3. CASE EnqueueExecution
  <2>1. [execution |-> tx, attempts |-> 0] \in Job
    BY <1>3, <1>t DEF EnqueueExecution, Rows, Job
  <2>2. BagToSet(queued') = BagToSet(queued) \cup {[execution |-> tx, attempts |-> 0]}
    BY <1>3, <1>t, <2>1, PutType DEF EnqueueExecution
  <2>3. TickHasJob'
    BY <1>3, <2>2 DEF EnqueueExecution, TickHasJob, Waits
  <2> QED BY <1>3, <2>2, <2>3 DEF EnqueueExecution, feed, request, JobInv, PendingHasJob, Coming, Held, Exhausted
<1>4. CASE EnqueueFails
  <2>1. TickHasJob'
    BY <1>4 DEF EnqueueFails, Orphan, TickHasJob
  <2> QED BY <1>4, <2>1 DEF EnqueueFails, Orphan, feed, request, worker, JobInv, PendingHasJob, Coming, Held, Exhausted
<1>5. CASE CommitTick
  <2>1. \A e \in Execution : status'[e] = "pending" => status[e] = "pending" \/ Coming(e)' \/ e \in orphans'
    BY <1>5, <1>t DEF CommitTick, Set, Rows, JobInv, TickHasJob, Waits, Coming, worker
  <2> QED BY <1>5, <2>1, JobsKept DEF CommitTick, request, worker
<1>6. CASE LoseTick
  <2>1. \A e \in Execution : status'[e] = "pending" => status[e] = "pending"
    BY <1>6, <1>t DEF LoseTick, RolledBack, Rows
  <2> QED BY <1>6, <2>1, JobsKept DEF LoseTick, feed, request, worker
<1>7. CASE Cleanup
  <2>1. \A e \in Execution : status'[e] = "pending" => status[e] = "pending"
    BY <1>7, <1>t DEF Cleanup, CleanupStale, Set, Rows
  <2> QED BY <1>7, <2>1, JobsKept DEF Cleanup, CleanupStale, feed, request, sched, worker
<1>8. ASSUME NEW w \in Workers, Take(w) PROVE JobInv'
  <2> USE <1>8
  <2> PICK job \in BagToSet(queued) :
         /\ queued' = queued (-) SetToBag({job})
         /\ held' = [held EXCEPT ![w] = [job EXCEPT !.attempts = @ + 1]]
         /\ IF job.execution \in Claimable
              THEN Set(job.execution, "running") /\ Goto(w, "run")
              ELSE Goto(w, "ack") /\ UNCHANGED status
         /\ IF status[job.execution] = "flushed" THEN Orphan(job.execution) ELSE UNCHANGED orphans
    BY DEF Take
  <2>1. job.execution \in Execution /\ pc[w] = "idle"
    BY <1>t DEF Hands, Job, Take
  <2>2. BagToSet(queued) \subseteq BagToSet(queued') \cup {job}
    BY <1>t, BagTake DEF Hands
  <2>3. orphans \subseteq orphans'
    BY DEF Orphan
  <2>4. TickHasJob'
    <3>1. UNCHANGED <<tx, queuing>>
      BY DEF Take, sched
    <3>2. job.execution = tx => tx \in orphans'
      BY <1>t, <2>1 DEF Orphan, Rows
    <3> QED BY <2>2, <2>3, <3>1, <3>2 DEF JobInv, TickHasJob, Waits
  <2>5. ASSUME NEW e \in Execution \ orphans', status'[e] = "pending" PROVE Coming(e)'
    <3>1. status[e] = "pending" /\ (e = job.execution => e \in disabling)
      BY <1>t, <2>1, <2>5 DEF Set, Rows, Claimable
    <3>2. Coming(e)
      BY <2>3, <2>5, <3>1 DEF JobInv, PendingHasJob
    <3>3. CASE e \in spawned \/ e \in disabling \/ Waits(e)
      BY <2>2, <3>1, <3>3 DEF Coming, Waits, Take, request, feed
    <3>4. ASSUME NEW v \in Workers, pc[v] = "reject" /\ Held(v) = e /\ ~Exhausted(v)
          PROVE  Coming(e)'
      BY <1>t, <2>1, <3>4 DEF Coming, Held, Exhausted, Hands, Goto
    <3> QED BY <3>2, <3>3, <3>4 DEF Coming, Waits
  <2> QED BY <2>4, <2>5 DEF JobInv, PendingHasJob
<1>9. ASSUME NEW w \in Workers, Handle(w), pc[w] = "run" PROVE JobInv'
  <2>1. \A e \in Execution : status'[e] = "pending" => status[e] = "pending" \/ Coming(e)' \/ e \in orphans'
    BY <1>9, <1>t, RunComesBack DEF Rows, Coming, Held, Exhausted
  <2> QED BY <1>9, <1>t, <2>1, RunComesBack, JobsKept DEF Hands, request, sched
<1>10. ASSUME NEW w \in Workers, (pc[w] # "run" /\ Handle(w)) \/ Crash(w) PROVE JobInv'
  <2> USE <1>10
  <2>1. BagToSet(queued) \subseteq BagToSet(queued')
    BY <1>t, WorkerLeaves, PutType
  <2>2. pc[w] = "reject" /\ ~Exhausted(w) => \/ \E job \in BagToSet(queued') : job.execution = Held(w)
                                            \/ Held(w) \in orphans'
    BY <1>t, WorkerLeaves, PutType, HeldJob DEF Held
  <2>3. \A v \in Workers \ {w} : pc'[v] = pc[v] /\ held'[v] = held[v]
    BY <1>t, WorkerLeaves DEF Hands, Leave, Goto
  <2> QED BY <2>1, <2>2, <2>3, WorkerLeaves, JobsKept DEF feed, request, sched
<1>11. ASSUME NEW w \in Workers, Lapse(w) PROVE JobInv'
  <2>1. BagToSet(queued) \subseteq BagToSet(queued')
    BY <1>11, <1>t, HeldJob, PutType DEF Lapse
  <2> QED BY <1>11, <2>1, JobsKept DEF Lapse, feed, request, sched
<1>12. ASSUME NEW r \in Runners, Run(r) PROVE JobInv'
  <2> PICK e \in Execution : RunSpawned(r, e) \/ Ran(r, e) \/ Deferred(r, e)
    BY <1>12 DEF Run
  <2>1. CASE RunSpawned(r, e)
    <3>1. TickHasJob'
      BY <2>1 DEF RunSpawned, JobInv, TickHasJob, Waits, sched, worker
    <3>2. ASSUME NEW d \in Execution \ orphans', status'[d] = "pending" PROVE Coming(d)'
      <4>1. status[d] = "pending" /\ (d = e => d \in disabling)
        BY <2>1, <3>2 DEF RunSpawned, ClaimPending, Claimable
      <4> QED BY <2>1, <3>2, <4>1 DEF RunSpawned, JobInv, PendingHasJob, Coming, feed, worker, Held, Exhausted
    <3> QED BY <3>1, <3>2 DEF JobInv, PendingHasJob
  <2>2. CASE Ran(r, e)
    <3>1. \A d \in Execution : status'[d] = "pending" => status[d] = "pending"
      BY <2>2, <1>t DEF Ran, Outcome, Set, Rows
    <3> QED BY <2>2, <3>1, JobsKept DEF Ran, feed, request, sched, worker
  <2>3. CASE Deferred(r, e)
    <3>1. \A d \in Execution : status'[d] = "pending" => status[d] = "pending" \/ d \in orphans'
      BY <2>3, <1>t DEF Deferred, Outcome, Set, Rows, Orphan
    <3> QED BY <2>3, <3>1, JobsKept DEF Deferred, Orphan, feed, sched, worker
  <2> QED BY <2>1, <2>2, <2>3
<1>13. ASSUME NEW r \in Runners, RunPending(r) PROVE JobInv'
  <2>1. \A e \in Execution : status'[e] = "pending" => status[e] = "pending"
    BY <1>13 DEF RunPending, ClaimPending
  <2> QED BY <1>13, <2>1, JobsKept DEF RunPending, feed, request, sched, worker
<1>14. ASSUME NEW r \in Runners, RunnerDies(r) PROVE JobInv'
  BY <1>14, JobsKept DEF RunnerDies, feed, request, sched, worker
<1>15. ASSUME NEW e \in Execution, TaskDies(e) PROVE JobInv'
  BY <1>15 DEF TaskDies, Orphan, feed, sched, worker, JobInv, TickHasJob, PendingHasJob, Coming, Waits,
     Held, Exhausted
<1>16. CASE InsertRunNow
  <2>1. \A e \in Execution : status'[e] = "pending" => status[e] = "pending" \/ Coming(e)'
    BY <1>16, <1>t DEF InsertRunNow, Set, Rows, Coming
  <2> QED BY <1>16, <2>1, JobsKept DEF InsertRunNow, worker
<1>17. CASE CancelPending
  <2>1. disabling = {}
    BY <1>17, <1>t DEF CancelPending, Marks
  <2> QED BY <1>17, <2>1, JobsKept DEF CancelPending, request, sched, worker
<1>18. CASE Disable
  <2>1. \A e \in Execution : status'[e] = "pending" => status[e] = "pending" /\ e \notin disabling
    BY <1>18 DEF Disable
  <2> QED BY <1>18, <1>t, <2>1, JobsKept DEF Disable, Marks, request, sched, worker
<1>19. CASE LosePatch
  BY <1>19, JobsKept DEF LosePatch, request, sched, worker
<1> QED
  BY <1>1, <1>2, <1>3, <1>4, <1>5, <1>6, <1>7, <1>8, <1>9, <1>10, <1>11, <1>12, <1>13, <1>14, <1>15,
     <1>16, <1>17, <1>18, <1>19
  DEF Next, Tick, Queue

------------------------------------------------------------------------------
(***************************************************************************)
(* The invariant, and what follows from it.                                *)
(***************************************************************************)
Inv == RowInv /\ ActiveInv /\ JobInv

LEMMA InvHolds == Spec => []Inv
<1>1. Init => Inv
  <2> SUFFICES ASSUME Init PROVE ActiveInv /\ JobInv
    BY RowInit DEF Inv
  <2> QED BY DEF Init, ActiveInv, OneActive, TickAlone, Scheduled, Active, JobInv, TickHasJob, PendingHasJob
<1>2. Inv /\ [Next]_vars => Inv'
  <2> SUFFICES ASSUME Inv, [Next]_vars PROVE Inv'
    OBVIOUS
  <2>1. CASE Next
    BY <2>1, RowStep, ActiveStep, JobStep DEF Inv
  <2>2. CASE UNCHANGED vars
    <3> USE <2>2 DEF Inv, vars, feed, request, sched, worker
    <3>1. RowInv'
      BY ApartKept DEF RowInv, TypeOK, Fresh, WorkersRun, RunnersRun, LockedRows, Held
    <3>2. ActiveInv' /\ JobInv'
      BY ActiveKept, JobsKept
    <3> QED BY <3>1, <3>2
  <2> QED BY <2>1, <2>2
<1> QED BY <1>1, <1>2, PTL DEF Spec

(***************************************************************************)
(* The rows, the queue and the hands of workers and runners are what they  *)
(* should be after any number of runs, deaths and deliveries.              *)
(***************************************************************************)
THEOREM TypeCorrect == Spec => []TypeOK
<1>1. Inv => TypeOK
  BY DEF Inv, RowInv
<1> QED BY <1>1, InvHolds, PTL

\* A set whose members are all the same has at most one.
LEMMA AtMostOne ==
  ASSUME NEW S, \A x, y \in S : x = y
  PROVE  Cardinality(S) <= 1
<1>1. CASE S = {}
  BY <1>1, FS_EmptySet
<1>2. ASSUME NEW x \in S PROVE Cardinality(S) <= 1
  <2>1. S = {x}
    OBVIOUS
  <2> QED BY <2>1, FS_Singleton
<1> QED BY <1>1, <1>2

(***************************************************************************)
(* No execution is run by two workers or runners at once, and of those     *)
(* the scheduler made one at a time is active: whatever is delivered       *)
(* twice, swept as stale, given back after a 429 or run by hand.           *)
(***************************************************************************)
THEOREM RunsOnce == Spec => []NoneRunsTwice
<1>1. ASSUME Inv PROVE NoneRunsTwice
  <2>1. ASSUME NEW e \in Execution PROVE Cardinality(Doing(e)) <= 1
    <3>1. \A x, y \in Doing(e) : x = y
      BY <1>1 DEF Inv, RowInv, Apart, Doing
    <3> QED BY <3>1, AtMostOne
  <2>2. \A d, e \in {e \in Execution \ byHand : status[e] \in Active} : d = e
    BY <1>1 DEF Inv, ActiveInv, OneActive, Scheduled
  <2> QED BY <2>1, <2>2, AtMostOne DEF NoneRunsTwice, RunsAlone, SingleActive
<1> QED BY <1>1, InvHolds, PTL

(***************************************************************************)
(* An execution left PENDING by a retry, a rolled back PATCH or a death    *)
(* still has the job, the task or the PATCH that ends it, unless it is one *)
(* of the orphans.                                                         *)
(***************************************************************************)
THEOREM PendingIsRun == Spec => []PendingHasJob
<1>1. Inv => PendingHasJob
  BY DEF Inv, JobInv
<1> QED BY <1>1, InvHolds, PTL

------------------------------------------------------------------------------
(***************************************************************************)
(* ChatStreams.                                                            *)
(***************************************************************************)
Stops == {"user_terminated", "shutdown"}
Reasons == {"complete", "client_disconnected"} \cup Stops

Task == [at : {"idle", "call", "stream", "early", "drain", "finalize", "error", "done"},
         whole : BOOLEAN, woken : BOOLEAN, early : BOOLEAN, index : Nat \cup {Unset},
         attempts : Nat, state : Reasons, rounds : Nat]

\* A layout says of every variant which stream it belongs to, if any; messages of others
\* are told from those of the variants, and an index from none.
ChatConstants ==
  /\ Layouts \subseteq [of : [Variants -> Streams \cup {Unset}], regen : SUBSET Streams]
  /\ Unset \notin Variants \cup Streams \cup Nat

ChatTyped ==
  /\ conn \in [Streams -> {"new", "prepared", "registered", "open", "closed"}]
  /\ reason \in [Streams -> Reasons]
  /\ var \in [Variants -> Task]
  /\ usage \in [Variants -> Nat] /\ ended \in [Variants -> Nat] /\ failed \subseteq Variants

\* What a task at its place knows.  Only a message written early is found again; an index
\* is for the one attempt to write; an answer that is cut short knows a stop.
TaskKnows(v, t) ==
  /\ t.at # "idle" => StreamOf(v) \in Streams /\ conn[StreamOf(v)] \in {"open", "closed"}
  /\ t.early => t.at \in {"drain", "finalize", "done"}
  /\ t.index # Unset /\ ~t.early => t.at \in {"early", "finalize", "done"}
  /\ t.at = "early" => t.state \in Stops
  /\ t.at \in {"early", "drain", "finalize"} /\ ~t.early /\ ~t.whole => reason[StreamOf(v)] \in Stops
  /\ t.at = "finalize" /\ t.index # Unset /\ ~t.early /\ ~t.whole => t.state \in Stops

\* Regenerations are numbered without a gap, and who is about to write has the number of
\* one that is there, or the next.
UpTo(k) == Indexes = 1..k
NextToOne(v, t) == Regen(v) /\ t.index # Unset => t.index > 0 /\ (t.index = 1 \/ t.index - 1 \in Indexes)

OneMessage(v) == \E r \in messages : RowsOf(v) = {r}

\* What a variant has left behind, before it is over and then.
Leaves(v) ==
  IF var[v].at # "done"
  THEN /\ usage[v] = 0 /\ ended[v] = 0
       /\ IF var[v].early THEN OneMessage(v) ELSE RowsOf(v) = {}
  ELSE /\ ended[v] = 1 /\ usage[v] <= 1 /\ (RowsOf(v) = {} \/ OneMessage(v))
       /\ v \notin failed => usage[v] = 1 /\ OneMessage(v)

ChatInv ==
  /\ ChatTyped /\ PartialNamesStop
  /\ \E k \in Nat : UpTo(k)
  /\ \A v \in Variants : TaskKnows(v, var[v]) /\ NextToOne(v, var[v]) /\ Leaves(v)


LEMMA MaxIndexIs == ASSUME NEW k \in Nat, UpTo(k) PROVE MaxIndex = k
<1>1. k \in Indexes \cup {0} /\ \A j \in Indexes : j <= k
  BY DEF UpTo
<1>2. ASSUME NEW i \in Indexes \cup {0}, \A j \in Indexes : j <= i PROVE i = k
  BY <1>2 DEF UpTo
<1> QED
  BY <1>1, <1>2 DEF MaxIndex

LEMMA ChatInitially == ASSUME ChatConstants, ChatInit PROVE ChatInv
<1>1. var = [v \in Variants |-> NewTask]
  BY DEF ChatInit
<1>2. NewTask \in Task /\ NewTask.at = "idle" /\ ~NewTask.early /\ NewTask.index = Unset
  BY DEF NewTask, Task, Reasons
<1>3. ChatTyped
  BY <1>1, <1>2 DEF ChatInit, ChatTyped, Reasons
<1>4. PartialNamesStop /\ Indexes = {} /\ \A v \in Variants : RowsOf(v) = {}
  BY DEF ChatInit, PartialNamesStop, Indexes, RowsOf
<1>5. UpTo(0)
  BY <1>4 DEF UpTo
<1>6. ASSUME NEW v \in Variants PROVE TaskKnows(v, var[v]) /\ NextToOne(v, var[v])
  BY <1>1, <1>2 DEF TaskKnows, NextToOne
<1>7. ASSUME NEW v \in Variants PROVE Leaves(v)
  BY <1>1, <1>2, <1>4 DEF Leaves, ChatInit
<1> QED
  BY <1>3, <1>4, <1>5, <1>6, <1>7 DEF ChatInv

(* A task goes on. *)

LEMMA TaskGoesOn ==
  ASSUME ChatTyped, NEW v \in Variants, NEW t \in Task, Step(v, t)
  PROVE  /\ var' \in [Variants -> Task] /\ var'[v] = t
         /\ \A u \in Variants \ {v} : var'[u] = var[u]
         /\ layout' = layout /\ conn' = conn /\ reason' = reason
BY DEF ChatTyped, Step, connVars, signalVars

\* Numbers that are there stay there.
LEMMA KnowsOn ==
  ASSUME ChatInv, NEW v \in Variants, NEW t \in Task, Step(v, t), TaskKnows(v, t), NextToOne(v, t),
         Indexes \subseteq Indexes'
  PROVE  \A u \in Variants : TaskKnows(u, var[u])' /\ NextToOne(u, var[u])'
<1> SUFFICES ASSUME NEW u \in Variants PROVE TaskKnows(u, var[u])' /\ NextToOne(u, var[u])'
  OBVIOUS
<1>1. PICK d \in Task : d = var'[u] /\ d = (IF u = v THEN t ELSE var[u])
  BY TaskGoesOn DEF ChatInv, ChatTyped
<1>2. layout' = layout /\ conn' = conn /\ reason' = reason
  BY TaskGoesOn DEF ChatInv
<1>3. TaskKnows(u, d) /\ NextToOne(u, d)
  BY <1>1 DEF ChatInv
<1>4. TaskKnows(u, var[u])'
  BY <1>1, <1>2, <1>3 DEF TaskKnows, StreamOf
<1>5. NextToOne(u, var[u])'
  BY <1>1, <1>2, <1>3 DEF NextToOne, Regen, StreamOf
<1> QED
  BY <1>4, <1>5

\* Nothing is written.
LEMMA QuietStep ==
  ASSUME ChatInv, NEW v \in Variants, NEW t \in Task, Step(v, t), UNCHANGED dataVars,
         failed' \subseteq Variants, failed \subseteq failed',
         var[v].at # "done", t.at # "done", t.early = var[v].early,
         TaskKnows(v, t), NextToOne(v, t)
  PROVE  ChatInv'
<1>1. messages' = messages /\ usage' = usage /\ ended' = ended
  BY DEF dataVars
<1>2. Indexes' = Indexes /\ \A u \in Variants : RowsOf(u)' = RowsOf(u)
  BY <1>1 DEF Indexes, RowsOf
<1>3. ChatTyped'
  BY <1>1, TaskGoesOn DEF ChatInv, ChatTyped
<1>4. PartialNamesStop' /\ \E k \in Nat : UpTo(k)'
  BY <1>1, <1>2 DEF ChatInv, PartialNamesStop, UpTo
<1>5. ASSUME NEW u \in Variants PROVE Leaves(u)'
  <2>1. var'[u].at = "done" <=> var[u].at = "done"
    BY TaskGoesOn DEF ChatInv
  <2>2. var'[u].early = var[u].early
    BY TaskGoesOn DEF ChatInv
  <2>3. (OneMessage(u))' <=> OneMessage(u)
    BY <1>1 DEF OneMessage, RowsOf
  <2> QED
    BY <1>1, <1>2, <2>1, <2>2, <2>3 DEF ChatInv, Leaves
<1> QED
  BY <1>2, <1>3, <1>4, <1>5, KnowsOn DEF ChatInv

\* A message comes in; if it is a regeneration it has the next number.
LEMMA MessageComes ==
  ASSUME ChatInv, NEW m, messages' = messages \cup {m}, m.regen \in BOOLEAN,
         m.kind # "error" /\ ~m.whole => m.state \in Stops,
         m.regen => m.index = MaxIndex + 1
  PROVE  /\ PartialNamesStop' /\ Indexes \subseteq Indexes'
         /\ \E k \in Nat : UpTo(k)'
<1>1. PICK k \in Nat : UpTo(k)
  BY DEF ChatInv
<1>2. MaxIndex = k
  BY <1>1, MaxIndexIs
<1>3. PartialNamesStop'
  BY DEF ChatInv, PartialNamesStop, Stops
<1>4. Indexes' = Indexes \cup (IF m.regen THEN {k + 1} ELSE {})
  BY <1>2 DEF Indexes
<1>5. UpTo(IF m.regen THEN k + 1 ELSE k)'
  BY <1>1, <1>4 DEF UpTo
<1> QED
  BY <1>3, <1>4, <1>5

\* What is not taken is next.
LEMMA FreeIsNext ==
  ASSUME ChatInv, NEW v \in Variants, var[v].index # Unset, ~Taken(v), Regen(v)
  PROVE  var[v].index = MaxIndex + 1
<1>1. PICK k \in Nat : UpTo(k)
  BY DEF ChatInv
<1>2. PICK i \in Nat : i = var[v].index
  BY DEF ChatInv, ChatTyped, Task
<1>3. i > 0 /\ (i = 1 \/ i - 1 \in 1..k) /\ i \notin 1..k
  BY <1>1, <1>2 DEF ChatInv, NextToOne, Taken, UpTo
<1>4. i = k + 1
  BY <1>3
<1> QED
  BY <1>1, <1>2, <1>4, MaxIndexIs

\* The one message of a variant is written.
LEMMA MessageOf ==
  ASSUME NEW v \in Variants, RowsOf(v) = {}, NEW m, m.variant = v, messages' = messages \cup {m}
  PROVE  /\ OneMessage(v)'
         /\ \A u \in Variants \ {v} : RowsOf(u)' = RowsOf(u)
<1>1. RowsOf(v)' = {m}
  BY DEF RowsOf
<1>2. \A u \in Variants \ {v} : RowsOf(u)' = RowsOf(u)
  BY DEF RowsOf
<1> QED
  BY <1>1, <1>2 DEF OneMessage


\* The message of a variant is written early, to be found when it is over.
LEMMA EarlyStep ==
  ASSUME ChatInv, NEW v \in Variants, NEW t \in Task, Step(v, t), NEW m, messages' = messages \cup {m},
         m.variant = v, m.regen \in BOOLEAN, m.kind # "error" /\ ~m.whole => m.state \in Stops,
         m.regen => m.index = MaxIndex + 1,
         usage' = usage, ended' = ended, failed' = failed,
         var[v].at # "done", ~var[v].early, t.at # "done", t.early, TaskKnows(v, t), NextToOne(v, t)
  PROVE  ChatInv'
<1>1. RowsOf(v) = {} /\ usage[v] = 0 /\ ended[v] = 0
  BY DEF ChatInv, Leaves
<1>2. PartialNamesStop' /\ Indexes \subseteq Indexes' /\ \E k \in Nat : UpTo(k)'
  BY MessageComes
<1>3. OneMessage(v)' /\ \A u \in Variants \ {v} : RowsOf(u)' = RowsOf(u)
  BY <1>1, MessageOf
<1>4. ChatTyped'
  BY TaskGoesOn DEF ChatInv, ChatTyped
<1>5. \A u \in Variants : TaskKnows(u, var[u])' /\ NextToOne(u, var[u])'
  BY <1>2, KnowsOn
<1>6. Leaves(v)'
  <2>1. var'[v] = t
    BY TaskGoesOn DEF ChatInv
  <2> QED
    BY <1>1, <1>3, <2>1 DEF Leaves
<1>7. ASSUME NEW u \in Variants \ {v} PROVE Leaves(u)'
  <2>1. var'[u] = var[u]
    BY TaskGoesOn DEF ChatInv
  <2>2. RowsOf(u)' = RowsOf(u)
    BY <1>3
  <2>3. OneMessage(u)' <=> \E r \in messages' : RowsOf(u)' = {r}
    BY DEF OneMessage
  <2>4. OneMessage(u) => OneMessage(u)'
    BY <2>2, <2>3 DEF OneMessage
  <2> QED
    BY <2>1, <2>2, <2>4 DEF ChatInv, Leaves
<1> QED
  BY <1>2, <1>4, <1>5, <1>6, <1>7 DEF ChatInv

\* A variant is over, with its message and usage or not.
LEMMA LastStep ==
  ASSUME ChatInv, NEW v \in Variants, Finish(v), var[v].at # "done", var[v].at # "idle",
         failed' \subseteq Variants, failed \subseteq failed',
         PartialNamesStop', Indexes \subseteq Indexes', \E k \in Nat : UpTo(k)',
         RowsOf(v)' = {} \/ OneMessage(v)',
         \A u \in Variants \ {v} : RowsOf(u)' = RowsOf(u), messages \subseteq messages',
         (usage' = usage /\ v \in failed') \/ (Bill(v) /\ OneMessage(v)')
  PROVE  ChatInv'
<1>a. PICK c \in Task : c = var[v]
  BY DEF ChatInv, ChatTyped
<1>b. PICK t : t = [c EXCEPT !.at = "done"]
  OBVIOUS
<1>1. t \in Task /\ t = [var[v] EXCEPT !.at = "done"] /\ t.at = "done" /\ t.index = c.index /\ t.early = c.early
  BY <1>a, <1>b DEF Task
<1>2. Step(v, t)
  BY <1>1 DEF Finish
<1>3. var'[v] = t /\ \A u \in Variants \ {v} : var'[u] = var[u]
  BY <1>1, <1>2, TaskGoesOn DEF ChatInv
<1>4. usage[v] = 0 /\ ended[v] = 0
  BY DEF ChatInv, Leaves
<1>5. /\ ended' \in [Variants -> Nat] /\ ended'[v] = 1
      /\ \A u \in Variants \ {v} : ended'[u] = ended[u]
  BY <1>4 DEF Finish, ChatInv, ChatTyped
<1>6. /\ usage' \in [Variants -> Nat] /\ usage'[v] <= 1
      /\ v \notin failed' => usage'[v] = 1 /\ OneMessage(v)'
      /\ \A u \in Variants \ {v} : usage'[u] = usage[u]
  <2>1. CASE usage' = usage /\ v \in failed'
    BY <1>4, <2>1 DEF ChatInv, ChatTyped
  <2>2. CASE Bill(v) /\ OneMessage(v)'
    BY <1>4, <2>2 DEF Bill, ChatInv, ChatTyped
  <2> QED
    BY <2>1, <2>2
<1>7. ChatTyped'
  BY <1>1, <1>2, <1>5, <1>6, TaskGoesOn DEF ChatInv, ChatTyped
<1>8. TaskKnows(v, t) /\ NextToOne(v, t)
  BY <1>1, <1>a DEF ChatInv, TaskKnows, NextToOne
<1>9. \A u \in Variants : TaskKnows(u, var[u])' /\ NextToOne(u, var[u])'
  BY <1>1, <1>2, <1>8, KnowsOn
<1>10. Leaves(v)'
  BY <1>1, <1>3, <1>5, <1>6 DEF Leaves
<1>11. ASSUME NEW u \in Variants \ {v} PROVE Leaves(u)'
  <2>1. var'[u] = var[u] /\ usage'[u] = usage[u] /\ ended'[u] = ended[u] /\ RowsOf(u)' = RowsOf(u)
    BY <1>3, <1>5, <1>6
  <2>2. OneMessage(u) => OneMessage(u)'
    BY <2>1 DEF OneMessage
  <2> QED
    BY <2>1, <2>2 DEF ChatInv, Leaves
<1> QED
  BY <1>7, <1>9, <1>10, <1>11 DEF ChatInv

(* The steps of a task. *)

LEMMA StopKeeps ==
  ASSUME ChatInv, NEW v \in Variants, At(v, "stream"), Intentional(StreamOf(v)), Stop(v), Quiet
  PROVE  ChatInv'
<1>1. PICK c \in Task : c = var[v] /\ c.at = "stream" /\ ~c.early /\ c.index = Unset
  BY DEF ChatInv, ChatTyped, At, TaskKnows
<1>2. reason[StreamOf(v)] \in Stops
  BY DEF Intentional, Stops
<1>3. PICK p \in {"finalize", "early"} : p = IF reason[StreamOf(v)] = "shutdown" \/ StreamOf(v) \in shut THEN "finalize" ELSE "early"
  OBVIOUS
<1>4. PICK t : t = [c EXCEPT !.woken = TRUE, !.whole = FALSE, !.state = reason[StreamOf(v)], !.at = p]
  OBVIOUS
<1>5. t \in Task
  BY <1>1, <1>2, <1>4 DEF Task, Reasons
<1>6. t.at = p /\ t.state = reason[StreamOf(v)] /\ t.index = Unset /\ t.early = c.early /\ t.whole = FALSE
  BY <1>1, <1>4 DEF Task
<1>7. Step(v, t)
  BY <1>1, <1>3, <1>4 DEF Stop
<1>8. TaskKnows(v, t)
  BY <1>1, <1>2, <1>3, <1>5, <1>6 DEF TaskKnows, ChatInv
<1>9. NextToOne(v, t)
  BY <1>6 DEF NextToOne
<1> QED
  BY <1>1, <1>3, <1>5, <1>6, <1>7, <1>8, <1>9, QuietStep DEF Quiet, NoFault, ChatInv, ChatTyped

LEMMA StreamStepsKeep ==
  ASSUME ChatInv, NEW v \in Variants,
         \/ CallProvider(v) \/ Final(v) \/ Tools(v) \/ SeesStop(v) \/ Wake(v)
         \/ ProviderEnds(v) \/ ProviderFails(v) \/ Drained(v)
  PROVE  ChatInv'
<1>1. PICK c \in Task : c = var[v]
  BY DEF ChatInv, ChatTyped
<1>2. TaskKnows(v, c) /\ NextToOne(v, c)
  BY <1>1 DEF ChatInv
<1>3. ASSUME NEW t \in Task, Step(v, t), Quiet, c.at # "done", t.at # "done", t.early = c.early,
             TaskKnows(v, t), NextToOne(v, t)
      PROVE  ChatInv'
  BY <1>1, <1>3, QuietStep DEF Quiet, NoFault, ChatInv, ChatTyped
<1>4. CASE CallProvider(v)
  <2>1. PICK t : t = [c EXCEPT !.at = "stream", !.woken = FALSE]
    OBVIOUS
  <2>2. t \in Task /\ t.at = "stream" /\ t.early = c.early /\ t.index = c.index
    BY <2>1 DEF Task
  <2>3. c.at = "call" /\ Step(v, t) /\ Quiet
    BY <1>1, <1>4, <2>1 DEF CallProvider, At
  <2> QED
    BY <1>2, <1>3, <2>2, <2>3 DEF TaskKnows, NextToOne
<1>5. CASE Final(v)
  <2>1. PICK t : t = [c EXCEPT !.whole = TRUE]
    OBVIOUS
  <2>2. t \in Task /\ t.at = c.at /\ t.early = c.early /\ t.index = c.index
    BY <2>1 DEF Task
  <2>3. c.at = "stream" /\ Step(v, t) /\ Quiet
    BY <1>1, <1>5, <2>1 DEF Final, At
  <2> QED
    BY <1>2, <1>3, <2>2, <2>3 DEF TaskKnows, NextToOne
<1>6. CASE Tools(v)
  <2>n. PICK n \in Nat : n = c.rounds + 1
    BY DEF Task
  <2>1. PICK t : t = [c EXCEPT !.at = "call", !.rounds = n]
    OBVIOUS
  <2>2. t \in Task /\ t.at = "call" /\ t.early = c.early /\ t.index = c.index
    BY <2>1 DEF Task
  <2>3. c.at = "stream" /\ Step(v, t) /\ Quiet
    BY <1>1, <1>6, <2>1, <2>n DEF Tools, At
  <2> QED
    BY <1>2, <1>3, <2>2, <2>3 DEF TaskKnows, NextToOne
<1>7. CASE SeesStop(v)
  BY <1>7, StopKeeps DEF SeesStop
<1>8. CASE Wake(v)
  <2>1. CASE Intentional(StreamOf(v))
    BY <1>8, <2>1, StopKeeps DEF Wake
  <2>2. CASE ~Intentional(StreamOf(v))
    <3>1. PICK t : t = [c EXCEPT !.woken = TRUE]
      OBVIOUS
    <3>2. t \in Task /\ t.at = c.at /\ t.early = c.early /\ t.index = c.index
      BY <3>1 DEF Task
    <3>3. c.at = "stream" /\ Step(v, t) /\ Quiet
      BY <1>1, <1>8, <2>2, <3>1 DEF Wake, At
    <3> QED
      BY <1>2, <1>3, <3>2, <3>3 DEF TaskKnows, NextToOne
  <2> QED
    BY <2>1, <2>2
<1>9. CASE ProviderEnds(v)
  <2>1. PICK t : t = [c EXCEPT !.at = "finalize"]
    OBVIOUS
  <2>2. t \in Task /\ t.at = "finalize" /\ t.early = c.early /\ t.index = c.index /\ t.whole = c.whole
    BY <2>1 DEF Task
  <2>3. c.at = "stream" /\ c.whole /\ Step(v, t) /\ Quiet
    BY <1>1, <1>9, <2>1 DEF ProviderEnds, At
  <2> QED
    BY <1>2, <1>3, <2>2, <2>3 DEF TaskKnows, NextToOne
<1>10. CASE ProviderFails(v)
  <2>1. PICK t : t = [c EXCEPT !.at = "error"]
    OBVIOUS
  <2>2. t \in Task /\ t.at = "error" /\ t.early = c.early /\ t.index = c.index
    BY <2>1 DEF Task
  <2>3. c.at \in {"call", "stream"} /\ Step(v, t) /\ Quiet
    BY <1>1, <1>10, <2>1 DEF ProviderFails, At
  <2> QED
    BY <1>2, <1>3, <2>2, <2>3 DEF TaskKnows, NextToOne
<1>11. CASE Drained(v)
  <2>1. PICK t : t = [c EXCEPT !.at = "finalize"]
    OBVIOUS
  <2>2. t \in Task /\ t.at = "finalize" /\ t.early = c.early /\ t.index = c.index /\ t.whole = c.whole
    BY <2>1 DEF Task
  <2>3. c.at = "drain" /\ Step(v, t) /\ Quiet
    BY <1>1, <1>11, <2>1 DEF Drained, At
  <2> QED
    BY <1>2, <1>3, <2>2, <2>3 DEF TaskKnows, NextToOne
<1> QED
  BY <1>4, <1>5, <1>6, <1>7, <1>8, <1>9, <1>10, <1>11

LEMMA ReadIndexKeeps ==
  ASSUME ChatInv, NEW v \in Variants, ReadIndex(v)
  PROVE  ChatInv'
<1>1. PICK c \in Task : c = var[v]
  BY DEF ChatInv, ChatTyped
<1>2. TaskKnows(v, c)
  BY <1>1 DEF ChatInv
<1>3. c.at \in {"early", "finalize"} /\ ~c.early /\ c.index = Unset
  BY <1>1 DEF ReadIndex
<1>4. PICK k \in Nat : UpTo(k)
  BY DEF ChatInv
<1>5. PICK i \in Nat : i = IF StreamOf(v) \in layout.regen THEN MaxIndex + 1 ELSE 0
  BY <1>4, MaxIndexIs
<1>6. PICK s \in Reasons : s = IF c.at = "finalize" THEN reason[StreamOf(v)] ELSE c.state
  BY <1>2, <1>3 DEF ChatInv, ChatTyped, TaskKnows, Task
<1>n. PICK n \in Nat : n = c.attempts + 1
  BY DEF Task
<1>7. PICK t : t = [c EXCEPT !.index = i, !.attempts = n, !.state = s]
  OBVIOUS
<1>8. t \in Task
  BY <1>7 DEF Task
<1>9. t.at = c.at /\ t.early = c.early /\ t.index = i /\ t.state = s /\ t.whole = c.whole
  BY <1>7 DEF Task
<1>10. Step(v, t)
  BY <1>1, <1>5, <1>6, <1>7, <1>n DEF ReadIndex
<1>11. TaskKnows(v, t)
  BY <1>2, <1>3, <1>6, <1>9 DEF TaskKnows
<1>12. NextToOne(v, t)
  <2>1. Regen(v) => i = k + 1
    BY <1>4, <1>5, MaxIndexIs DEF Regen
  <2>2. Regen(v) => i > 0 /\ (i = 1 \/ i - 1 \in 1..k)
    BY <2>1
  <2> QED
    BY <1>4, <1>9, <2>2 DEF NextToOne, UpTo
<1>13. Quiet
  BY DEF ReadIndex
<1> QED
  BY <1>1, <1>3, <1>8, <1>9, <1>10, <1>11, <1>12, <1>13, QuietStep DEF Quiet, NoFault, ChatInv, ChatTyped


LEMMA WriteStepsKeep ==
  ASSUME ChatInv, NEW v \in Variants,
         \/ EarlyPersist(v) \/ EarlyFails(v) \/ EarlyConflicts(v)
         \/ Conflict(v, "early") \/ Conflict(v, "finalize")
  PROVE  ChatInv'
<1>1. PICK c \in Task : c = var[v]
  BY DEF ChatInv, ChatTyped
<1>2. TaskKnows(v, c) /\ NextToOne(v, c)
  BY <1>1 DEF ChatInv
<1>3. PICK u \in Task : u = [c EXCEPT !.at = "drain", !.index = Unset, !.attempts = 0]
  BY DEF Task
<1>4. u.at = "drain" /\ u.early = c.early /\ u.index = Unset /\ u.whole = c.whole
  BY <1>3 DEF Task
<1>5. c.at = "early" /\ ~c.early => TaskKnows(v, u) /\ NextToOne(v, u)
  BY <1>2, <1>4 DEF TaskKnows, NextToOne
<1>6. CASE EarlyPersist(v)
  <2>1. PICK t : t = [c EXCEPT !.at = "drain", !.early = TRUE]
    OBVIOUS
  <2>2. t \in Task /\ t.at = "drain" /\ t.early /\ t.index = c.index
    BY <2>1 DEF Task
  <2>3. c.at = "early" /\ ~c.early /\ c.index # Unset /\ ~Taken(v) /\ Step(v, t)
    BY <1>1, <1>6, <2>1 DEF EarlyPersist, Writing, At, Stamp
  <2>4. PICK m : m = Row(v, "early")
    OBVIOUS
  <2>5. /\ m.variant = v /\ m.regen = Regen(v) /\ m.state = c.state /\ m.index = c.index
        /\ messages' = messages \cup {m}
    BY <1>1, <1>6, <2>4 DEF EarlyPersist, Row
  <2>6. m.regen \in BOOLEAN /\ m.state \in Stops
    BY <1>2, <2>3, <2>5 DEF Regen, TaskKnows
  <2>7. m.regen => m.index = MaxIndex + 1
    BY <1>1, <2>3, <2>5, FreeIsNext
  <2>8. TaskKnows(v, t) /\ NextToOne(v, t)
    BY <1>2, <2>2, <2>3 DEF TaskKnows, NextToOne
  <2>9. usage' = usage /\ ended' = ended /\ failed' = failed
    BY <1>6 DEF EarlyPersist, NoFault
  <2> QED
    BY <1>1, <2>2, <2>3, <2>5, <2>6, <2>7, <2>8, <2>9, EarlyStep
<1>7. CASE EarlyFails(v)
  <2>1. c.at = "early" /\ ~c.early /\ Step(v, u)
    BY <1>1, <1>3, <1>7 DEF EarlyFails, Writing, At, Unstamped
  <2>2. failed' = failed \cup {v} /\ UNCHANGED dataVars
    BY <1>7 DEF EarlyFails, Fault
  <2> QED
    BY <1>1, <1>4, <1>5, <2>1, <2>2, QuietStep DEF ChatInv, ChatTyped
<1>8. CASE EarlyConflicts(v)
  <2>1. c.at = "early" /\ ~c.early /\ Step(v, u) /\ Quiet
    BY <1>1, <1>3, <1>8 DEF EarlyConflicts, Writing, At, Unstamped
  <2> QED
    BY <1>1, <1>4, <1>5, <2>1, QuietStep DEF ChatInv, ChatTyped, Quiet, NoFault
<1>9. ASSUME NEW p \in {"early", "finalize"}, Conflict(v, p) PROVE ChatInv'
  <2>1. PICK t \in Task : t = [c EXCEPT !.index = Unset]
    BY DEF Task
  <2>2. t.at = c.at /\ t.early = c.early /\ t.index = Unset /\ t.whole = c.whole /\ t.state = c.state
    BY <2>1 DEF Task
  <2>3. c.at = p /\ Step(v, t) /\ Quiet
    BY <1>1, <1>9, <2>1 DEF Conflict, Writing, At
  <2>4. TaskKnows(v, t) /\ NextToOne(v, t)
    BY <1>2, <2>2 DEF TaskKnows, NextToOne
  <2> QED
    BY <1>1, <2>2, <2>3, <2>4, QuietStep DEF ChatInv, ChatTyped, Quiet, NoFault
<1> QED
  BY <1>6, <1>7, <1>8, <1>9

LEMMA LastStepsKeep ==
  ASSUME ChatInv, NEW v \in Variants,
         \/ Persist(v) \/ PersistEarly(v) \/ PersistError(v)
         \/ PersistConflicts(v) \/ PersistFails(v)
  PROVE  ChatInv'
<1>1. PICK c \in Task : c = var[v]
  BY DEF ChatInv, ChatTyped
<1>2. TaskKnows(v, c) /\ NextToOne(v, c)
  BY <1>1 DEF ChatInv
<1>3. c.at # "done" => IF c.early THEN OneMessage(v) ELSE RowsOf(v) = {}
  BY <1>1 DEF ChatInv, Leaves
<1>4. c.at \in {"finalize", "error"} /\ Finish(v)
  BY <1>1 DEF Persist, PersistEarly, PersistError, PersistConflicts, PersistFails, Writing, At
<1>5. ASSUME messages' = messages, failed' \subseteq Variants, failed \subseteq failed',
             (usage' = usage /\ v \in failed') \/ (Bill(v) /\ c.early)
      PROVE  ChatInv'
  <2>1. \A u \in Variants : RowsOf(u)' = RowsOf(u) /\ (OneMessage(u)' <=> OneMessage(u))
    BY <1>5 DEF RowsOf, OneMessage
  <2>2. PartialNamesStop' /\ Indexes' = Indexes /\ \E k \in Nat : UpTo(k)'
    BY <1>5 DEF ChatInv, PartialNamesStop, Indexes, UpTo
  <2> QED
    BY <1>1, <1>3, <1>4, <1>5, <2>1, <2>2, LastStep
<1>6. ASSUME ~c.early, NEW m, messages' = messages \cup {m}, m.variant = v, m.regen \in BOOLEAN,
             m.kind # "error" /\ ~m.whole => m.state \in Stops, m.regen => m.index = MaxIndex + 1,
             Bill(v), failed' = failed
      PROVE  ChatInv'
  <2>1. RowsOf(v) = {}
    BY <1>3, <1>4, <1>6
  <2>2. OneMessage(v)' /\ \A u \in Variants \ {v} : RowsOf(u)' = RowsOf(u)
    BY <1>6, <2>1, MessageOf
  <2>3. PartialNamesStop' /\ Indexes \subseteq Indexes' /\ \E k \in Nat : UpTo(k)'
    BY <1>6, MessageComes
  <2> QED
    BY <1>1, <1>4, <1>6, <2>2, <2>3, LastStep DEF ChatInv, ChatTyped
<1>7. CASE Persist(v)
  <2>1. c.at = "finalize" /\ ~c.early /\ c.index # Unset /\ ~Taken(v)
    BY <1>1, <1>7 DEF Persist, Writing, At
  <2>2. PICK m : m = Row(v, "final")
    OBVIOUS
  <2>3. /\ m.variant = v /\ m.regen = Regen(v) /\ m.state = c.state /\ m.index = c.index /\ m.whole = c.whole
        /\ messages' = messages \cup {m}
    BY <1>1, <1>7, <2>2 DEF Persist, Row
  <2>4. m.regen \in BOOLEAN /\ (~m.whole => m.state \in Stops)
    BY <1>2, <2>1, <2>3 DEF Regen, TaskKnows
  <2>5. m.regen => m.index = MaxIndex + 1
    BY <1>1, <2>1, <2>3, FreeIsNext
  <2> QED
    BY <1>6, <1>7, <2>1, <2>3, <2>4, <2>5 DEF Persist, NoFault
<1>8. CASE PersistError(v)
  <2>1. ~c.early
    BY <1>1, <1>2, <1>8 DEF PersistError, At, TaskKnows
  <2>2. PICK r : r = Row(v, "error")
    OBVIOUS
  <2>3. PICK m : m = [r EXCEPT !.index = Unset, !.regen = FALSE, !.whole = FALSE, !.state = reason[StreamOf(v)]]
    OBVIOUS
  <2>4. m.variant = v /\ m.regen = FALSE /\ m.kind = "error" /\ messages' = messages \cup {m}
    BY <1>8, <2>2, <2>3 DEF PersistError, ErrorRow, Row
  <2> QED
    BY <1>6, <1>8, <2>1, <2>4 DEF PersistError, NoFault
<1>9. CASE PersistEarly(v)
  BY <1>1, <1>5, <1>9 DEF PersistEarly, NoFault, ChatInv, ChatTyped
<1>10. CASE PersistConflicts(v)
  BY <1>5, <1>10 DEF PersistConflicts, ChatInv, ChatTyped
<1>11. CASE PersistFails(v)
  BY <1>5, <1>11 DEF PersistFails, Fault, ChatInv, ChatTyped
<1> QED
  BY <1>7, <1>8, <1>9, <1>10, <1>11

(* Signals and connections. *)

LEMMA SignalsStay ==
  ASSUME ChatTyped, NEW streams, NEW new \in Reasons, reason' = Signalled(streams, new)
  PROVE  /\ reason' \in [Streams -> Reasons]
         /\ \A s \in Streams : reason[s] \in Stops => reason'[s] \in Stops
BY DEF ChatTyped, Signalled, Resolve, Priority, Reasons, Stops

\* The tasks stand still.
LEMMA OthersKeep ==
  ASSUME ChatInv, UNCHANGED <<layout, var, usage, ended, failed>>,
         conn' \in [Streams -> {"new", "prepared", "registered", "open", "closed"}],
         \A s \in Streams : conn[s] \in {"open", "closed"} => conn'[s] \in {"open", "closed"},
         reason' \in [Streams -> Reasons],
         \A s \in Streams : reason[s] \in Stops => reason'[s] \in Stops,
         PartialNamesStop', Indexes \subseteq Indexes', \E k \in Nat : UpTo(k)',
         \A v \in Variants : RowsOf(v)' = RowsOf(v)
  PROVE  ChatInv'
<1>1. ChatTyped'
  BY DEF ChatInv, ChatTyped
<1>2. ASSUME NEW v \in Variants PROVE TaskKnows(v, var[v])' /\ NextToOne(v, var[v])' /\ Leaves(v)'
  <2>1. TaskKnows(v, var[v])'
    BY DEF ChatInv, TaskKnows, StreamOf
  <2>2. NextToOne(v, var[v])'
    BY DEF ChatInv, NextToOne, Regen, StreamOf
  <2>3. RowsOf(v)' = RowsOf(v)
    OBVIOUS
  <2>4. OneMessage(v) => OneMessage(v)'
    BY <2>3 DEF OneMessage, RowsOf
  <2>5. Leaves(v)'
    BY <2>3, <2>4 DEF ChatInv, Leaves
  <2> QED
    BY <2>1, <2>2, <2>5
<1> QED
  BY <1>1, <1>2 DEF ChatInv

LEMMA StreamsMove ==
  ASSUME ChatInv, UNCHANGED <<layout, var, messages, usage, ended, failed>>,
         conn' \in [Streams -> {"new", "prepared", "registered", "open", "closed"}],
         \A s \in Streams : conn[s] \in {"open", "closed"} => conn'[s] \in {"open", "closed"},
         reason' = reason \/ \E streams : \E new \in Reasons : reason' = Signalled(streams, new)
  PROVE  ChatInv'
<1>1. /\ reason' \in [Streams -> Reasons]
      /\ \A s \in Streams : reason[s] \in Stops => reason'[s] \in Stops
  BY SignalsStay DEF ChatInv, ChatTyped
<1>2. Indexes' = Indexes /\ \A v \in Variants : RowsOf(v)' = RowsOf(v)
  BY DEF Indexes, RowsOf
<1>3. PartialNamesStop' /\ \E k \in Nat : UpTo(k)'
  BY <1>2 DEF ChatInv, PartialNamesStop, UpTo
<1> QED
  BY <1>1, <1>2, <1>3, OthersKeep

LEMMA SpawnKeeps ==
  ASSUME ChatInv, NEW s \in Streams, Spawn(s)
  PROVE  ChatInv'
<1>1. /\ conn[s] = "registered" /\ conn' = [conn EXCEPT ![s] = "open"]
      /\ layout' = layout /\ reason' = reason /\ messages' = messages /\ usage' = usage
      /\ ended' = ended /\ failed' = failed
  BY DEF Spawn, signalVars, dataVars
<1>2. /\ conn' \in [Streams -> {"new", "prepared", "registered", "open", "closed"}] /\ conn'[s] = "open"
      /\ \A q \in Streams : conn[q] \in {"open", "closed"} => conn'[q] \in {"open", "closed"}
  BY <1>1 DEF ChatInv, ChatTyped
<1>3. Indexes' = Indexes /\ \A v \in Variants : RowsOf(v)' = RowsOf(v) /\ (OneMessage(v)' <=> OneMessage(v))
  BY <1>1 DEF Indexes, RowsOf, OneMessage
<1>4. PartialNamesStop' /\ \E k \in Nat : UpTo(k)'
  BY <1>1, <1>3 DEF ChatInv, PartialNamesStop, UpTo
<1>5. ASSUME NEW v \in Variants
      PROVE  /\ var'[v] \in Task /\ TaskKnows(v, var[v])' /\ NextToOne(v, var[v])'
             /\ (var'[v].at = "done" <=> var[v].at = "done") /\ (var'[v].early <=> var[v].early)
  <2>1. PICK c \in Task : c = var[v] /\ TaskKnows(v, c) /\ NextToOne(v, c)
    BY DEF ChatInv, ChatTyped
  <2>2. PICK d : d = [c EXCEPT !.at = "call"]
    OBVIOUS
  <2>3. d \in Task /\ d.at = "call" /\ d.early = c.early /\ d.index = c.index
    BY <2>2 DEF Task
  <2>4. var'[v] = IF StreamOf(v) = s THEN d ELSE c
    BY <2>1, <2>2 DEF Spawn
  <2>5. CASE StreamOf(v) = s
    <3>1. c.at = "idle" /\ ~c.early /\ c.index = Unset
      BY <1>1, <2>1, <2>5 DEF TaskKnows
    <3>2. var'[v] = d
      BY <2>4, <2>5
    <3>3. TaskKnows(v, d)' /\ NextToOne(v, d)'
      BY <1>1, <1>2, <2>3, <2>5, <3>1 DEF TaskKnows, NextToOne, StreamOf
    <3>4. TaskKnows(v, var[v])' /\ NextToOne(v, var[v])'
      BY <3>2, <3>3 DEF TaskKnows, NextToOne, Regen, StreamOf
    <3> QED
      BY <2>1, <2>3, <3>1, <3>2, <3>4
  <2>6. CASE StreamOf(v) # s
    <3>1. var'[v] = c
      BY <2>4, <2>6
    <3>2. TaskKnows(v, var[v])' /\ NextToOne(v, var[v])'
      BY <1>1, <1>2, <1>3, <2>1, <3>1 DEF TaskKnows, NextToOne, Regen, StreamOf
    <3> QED
      BY <2>1, <3>1, <3>2
  <2> QED
    BY <2>5, <2>6
<1>6. var' \in [Variants -> Task]
  <2>1. var' = [v \in Variants |-> var'[v]]
    BY DEF Spawn
  <2> QED
    BY <1>5, <2>1
<1>7. ChatTyped'
  BY <1>1, <1>2, <1>6 DEF ChatInv, ChatTyped
<1>8. ASSUME NEW v \in Variants PROVE Leaves(v)'
  BY <1>1, <1>3, <1>5 DEF ChatInv, Leaves
<1> QED
  BY <1>3, <1>4, <1>5, <1>7, <1>8 DEF ChatInv

LEMMA OtherRegeneratesKeeps == ASSUME ChatConstants, ChatInv, OtherRegenerates PROVE ChatInv'
<1>1. PICK m : m = [variant |-> Unset, kind |-> "other", index |-> MaxIndex + 1,
                    regen |-> TRUE, state |-> "complete", whole |-> TRUE]
  OBVIOUS
<1>2. messages' = messages \cup {m}
  BY <1>1 DEF OtherRegenerates
<1>3. m.variant = Unset /\ m.regen = TRUE /\ m.whole = TRUE /\ m.index = MaxIndex + 1
  BY <1>1
<1>4. PartialNamesStop' /\ Indexes \subseteq Indexes' /\ \E k \in Nat : UpTo(k)'
  BY <1>2, <1>3, MessageComes
<1>5. \A v \in Variants : RowsOf(v)' = RowsOf(v)
  BY <1>2, <1>3 DEF RowsOf, ChatConstants
<1> QED
  BY <1>4, <1>5, OthersKeep DEF OtherRegenerates, connVars, signalVars, ChatInv, ChatTyped

LEMMA ConnectionStepsKeep ==
  ASSUME ChatInv,
         \/ \E s \in Streams, ok \in BOOLEAN : Prepare(s, ok)
         \/ \E s \in Streams : \/ Register(s) \/ EndStream(s) \/ ClientLeaves(s)
                               \/ Supervised(s) \/ Terminate(s)
         \/ Sigterm \/ DrainStreams \/ Exit
  PROVE  ChatInv'
<1> USE DEF connVars, signalVars, dataVars
<1>1. conn \in [Streams -> {"new", "prepared", "registered", "open", "closed"}]
  BY DEF ChatInv, ChatTyped
<1>2. ASSUME NEW s \in Streams, NEW ok \in BOOLEAN, Prepare(s, ok) PROVE ChatInv'
  BY <1>1, <1>2, StreamsMove DEF Prepare
<1>3. ASSUME NEW s \in Streams, Register(s) PROVE ChatInv'
  BY <1>1, <1>3, StreamsMove DEF Register
<1>4. ASSUME NEW s \in Streams, Close(s), conn[s] \in {"registered", "open"} PROVE ChatInv'
  <2>1. "client_disconnected" \in Reasons
    BY DEF Reasons
  <2> QED
    BY <1>1, <1>4, <2>1, StreamsMove DEF Close
<1>5. ASSUME NEW s \in Streams, Supervised(s) PROVE ChatInv'
  BY <1>1, <1>5, StreamsMove DEF Supervised
<1>6. ASSUME NEW s \in Streams, Terminate(s) PROVE ChatInv'
  <2>1. "user_terminated" \in Reasons
    BY DEF Reasons, Stops
  <2> QED
    BY <1>1, <1>6, <2>1, StreamsMove DEF Terminate
<1>7. CASE SignalShutdown
  <2>1. "shutdown" \in Reasons
    BY DEF Reasons, Stops
  <2> QED
    BY <1>1, <1>7, <2>1, StreamsMove DEF SignalShutdown
<1>8. CASE Exit
  BY <1>1, <1>8, StreamsMove DEF Exit
<1> QED
  BY <1>2, <1>3, <1>4, <1>5, <1>6, <1>7, <1>8 DEF EndStream, ClientLeaves, Sigterm, DrainStreams

LEMMA ChatStep == ASSUME ChatConstants, ChatInv, [ChatNext]_chatVars PROVE ChatInv'
<1>1. CASE UNCHANGED chatVars
  BY <1>1, StreamsMove DEF chatVars, ChatInv, ChatTyped
<1>2. CASE ChatNext
  BY <1>2, StreamStepsKeep, ReadIndexKeeps, WriteStepsKeep, LastStepsKeep, SpawnKeeps, OtherRegeneratesKeeps,
     ConnectionStepsKeep DEF ChatNext, ServerStep, ProviderStep
<1> QED
  BY <1>1, <1>2

LEMMA ChatInvHolds == ASSUME ChatConstants PROVE ChatSpec => []ChatInv
BY ChatInitially, ChatStep, PTL DEF ChatSpec

\* What a variant leaves behind, whatever signals, failures and regenerations come in
\* between: at most one message and one usage record, both when it is over and none of
\* its transactions failed; and a partial message names the stop that cut it.
THEOREM AnswersSavedHolds == ASSUME ChatConstants PROVE ChatSpec => []AnswersSaved
<1>1. ASSUME ChatInv PROVE AnswersSaved
  <2>1. ASSUME NEW v \in Variants
        PROVE  LET n == Cardinality(RowsOf(v)) IN
               /\ n <= 1 /\ usage[v] <= 1
               /\ ended[v] = IF var[v].at = "done" THEN 1 ELSE 0
               /\ var[v].at = "done" /\ v \notin failed => n = 1 /\ usage[v] = 1
    <3>1. Leaves(v) /\ usage[v] \in Nat
      BY <1>1 DEF ChatInv, ChatTyped
    <3>2. RowsOf(v) = {} => Cardinality(RowsOf(v)) = 0
      BY FS_EmptySet
    <3>3. OneMessage(v) => Cardinality(RowsOf(v)) = 1
      BY FS_Singleton DEF OneMessage
    <3> QED
      BY <3>1, <3>2, <3>3 DEF Leaves
  <2> QED
    BY <1>1, <2>1 DEF AnswersSaved, SavedOnce, ChatInv
<1> QED
  BY <1>1, ChatInvHolds, PTL

------------------------------------------------------------------------------
(***************************************************************************)
(* The plugins.  A look-up of what is off gets no further than the database; *)
(* a tool known to be off is off in the connection, in what is cached and in *)
(* what anybody has read and may still write or cache.                     *)
(***************************************************************************)
\* The marker of what is not there is no mode and no state of a row.
PluginConstants == NoValue \notin Modes \cup {"on"}

Words ==
  {"idle", "refresh", "records", "merge", "rows", "edit", "discover", "find", "cached", "load",
   "headers", "ran", "chat", "feed", "on", "off", NoValue}

ErrandRow(S) ==
  [at : S, kind : S, name : S, op : S, id : S, config : [OfferedTools -> S], record : S, names : S,
   read : BOOLEAN, sure : BOOLEAN, never : BOOLEAN, known : BOOLEAN]

\* All values are among S.
PluginsTyped(S) ==
  /\ Words \cup Names \cup OfferedTools \subseteq S
  /\ row \in [Names -> S] /\ cache \in [Names -> [OfferedTools -> S] \cup {NoValue}]
  /\ connection \in [id : S, enabled : BOOLEAN, config : [OfferedTools -> S]]
  /\ errand \in [Errands -> ErrandRow(S)]

\* A look-up of what has been off since it began gets no further than to the database; a
\* tool known to be off is one that is off.
NeverRuns(c) ==
  /\ c.at \in {"find", "cached", "load"} /\ c.never => ~On(c.name)
  /\ c.at \in {"headers", "ran"} => ~c.never
KnownOff(c) ==
  /\ c.at \in {"find", "cached", "load", "headers"} /\ c.known => c.name = Server /\ c.op \in off
  /\ c.at = "ran" => ~c.known
Looks(c) ==
  /\ c.at \in {"find", "cached", "load", "headers"} => c.name \in Names
  /\ c.at = "headers" => c.name = Server
  /\ c.at \in {"edit", "discover"} => c.id > 0

\* Who has read the connection and may still write or cache what was read.
HoldsModes(c) == c.at \in {"edit", "discover", "headers"}
SettledOff(t) ==
  /\ t \in OfferedTools /\ connection.config[t] = "off"
  /\ \A q \in Errands : HoldsModes(errand[q]) => errand[q].config[t] = "off"
OffEverywhere == \A t \in off : SettledOff(t) /\ (cache[Server] # NoValue => cache[Server][t] = "off")
SureOnes == \A r \in Errands : errand[r].sure => errand[r].at = "refresh" /\ SettledOff(errand[r].op)

PlugInv ==
  /\ \E S : PluginsTyped(S)
  /\ \A r \in Errands : NeverRuns(errand[r]) /\ KnownOff(errand[r]) /\ Looks(errand[r])
  /\ OffEverywhere /\ SureOnes
  /\ HasConnection \/ connection.config = NoModes

------------------------------------------------------------------------------
LEMMA PlugWidened ==
  ASSUME PlugInv, NEW x
  PROVE  \E S : PluginsTyped(S) /\ x \in S
<1>1. PICK T : PluginsTyped(T)
  BY DEF PlugInv
<1>2. PICK S : S = T \cup {x}
  OBVIOUS
<1>3. ErrandRow(T) \subseteq ErrandRow(S)
  BY <1>2 DEF ErrandRow
<1>4. [OfferedTools -> T] \subseteq [OfferedTools -> S]
  BY <1>2
<1>5. row \in [Names -> S] /\ cache \in [Names -> [OfferedTools -> S] \cup {NoValue}]
  BY <1>1, <1>2, <1>4 DEF PluginsTyped
<1>6. connection \in [id : S, enabled : BOOLEAN, config : [OfferedTools -> S]]
  BY <1>1, <1>2, <1>4 DEF PluginsTyped
<1>7. errand \in [Errands -> ErrandRow(S)]
  BY <1>1, <1>3 DEF PluginsTyped
<1> QED
  BY <1>1, <1>2, <1>5, <1>6, <1>7 DEF PluginsTyped

\* What one request does alone, without writing the connection.
LEMMA QuietErrand ==
  ASSUME PluginConstants, PlugInv, NEW S, PluginsTyped(S), NEW r \in Errands, NEW t \in ErrandRow(S),
         errand' = [errand EXCEPT ![r] = t], UNCHANGED <<connection, off>>, t.sure = FALSE,
         NeverRuns(t), KnownOff(t), Looks(t),
         HoldsModes(t) => \/ t.config = connection.config
                          \/ (HoldsModes(errand[r]) /\ t.config = errand[r].config),
         row' \in [Names -> S], \A n \in Names : On(n)' => On(n),
         cache' \in [Names -> [OfferedTools -> S] \cup {NoValue}],
         \/ cache'[Server] \in {NoValue, cache[Server]}
         \/ (HoldsModes(errand[r]) /\ cache'[Server] = errand[r].config)
  PROVE  PlugInv'
<1>1. errand \in [Errands -> ErrandRow(S)]
  BY DEF PluginsTyped
<1>2. errand' \in [Errands -> ErrandRow(S)] /\ errand'[r] = t
      /\ \A q \in Errands \ {r} : errand'[q] = errand[q]
  BY <1>1
<1>3. PluginsTyped(S)'
  BY <1>2 DEF PluginsTyped
<1>4. ASSUME NEW q \in Errands PROVE (NeverRuns(errand[q]) /\ KnownOff(errand[q]) /\ Looks(errand[q]))'
  <2>1. NeverRuns(errand'[q]) /\ KnownOff(errand'[q]) /\ Looks(errand'[q])
    BY <1>2 DEF PlugInv
  <2>2. NeverRuns(errand[q])'
    BY <2>1 DEF NeverRuns, Looks
  <2> QED
    BY <2>1, <2>2 DEF KnownOff, Looks
<1>5. \A k : SettledOff(k) => SettledOff(k)'
  <2> SUFFICES ASSUME NEW k, SettledOff(k) PROVE SettledOff(k)'
    OBVIOUS
  <2>1. ASSUME NEW q \in Errands, HoldsModes(errand'[q]) PROVE errand'[q].config[k] = "off"
    BY <1>2, <2>1 DEF SettledOff
  <2> QED
    BY <2>1 DEF SettledOff, HoldsModes
<1>6. OffEverywhere'
  BY <1>5 DEF PlugInv, OffEverywhere, SettledOff
<1>7. SureOnes'
  BY <1>2, <1>5 DEF PlugInv, SureOnes
<1>8. (HasConnection \/ connection.config = NoModes)'
  BY DEF PlugInv, HasConnection
<1> QED
  BY <1>3, <1>4, <1>6, <1>7, <1>8 DEF PlugInv

\* What changes no request and writes no connection.
LEMMA QuietPlugins ==
  ASSUME PluginConstants, PlugInv, UNCHANGED <<connection, off, errand>>,
         NEW S, PluginsTyped(S), row' \in [Names -> S], \A n \in Names : On(n)' => On(n),
         cache' \in [Names -> [OfferedTools -> S] \cup {NoValue}], cache'[Server] \in {NoValue, cache[Server]}
  PROVE  PlugInv'
<1>1. PluginsTyped(S)'
  BY DEF PluginsTyped
<1>2. ASSUME NEW q \in Errands PROVE (NeverRuns(errand[q]) /\ KnownOff(errand[q]) /\ Looks(errand[q]))'
  <2>1. NeverRuns(errand[q]) /\ KnownOff(errand[q]) /\ Looks(errand[q])
    BY DEF PlugInv
  <2>2. NeverRuns(errand[q])'
    BY <2>1 DEF NeverRuns, Looks
  <2> QED
    BY <2>1, <2>2 DEF KnownOff, Looks
<1>3. \A k : SettledOff(k) => SettledOff(k)'
  BY DEF SettledOff, HoldsModes
<1>4. OffEverywhere' /\ SureOnes'
  BY <1>3 DEF PlugInv, OffEverywhere, SureOnes
<1>5. (HasConnection \/ connection.config = NoModes)'
  BY DEF PlugInv, HasConnection
<1> QED
  BY <1>1, <1>2, <1>4, <1>5 DEF PlugInv


------------------------------------------------------------------------------
\* What a request may make of rows and cache: no plugin is switched on, and of the
\* connection's plugin nothing is cached but what the request r has read.
Registers(r) ==
  /\ \A S : PluginsTyped(S) => /\ row' \in [Names -> S]
                               /\ cache' \in [Names -> [OfferedTools -> S] \cup {NoValue}]
  /\ \A n \in Names : On(n)' => On(n)
  /\ \/ cache'[Server] \in {NoValue, cache[Server]}
     \/ (HoldsModes(errand[r]) /\ cache'[Server] = errand[r].config)

LEMMA UnchangedRegisters ==
  ASSUME NEW r \in Errands, UNCHANGED <<row, connection, cache>> PROVE Registers(r)
BY DEF Registers, PluginsTyped, On, Live, HasConnection

\* All words are told from each other, and no value of a field is missing.
LEMMA IdleTyped ==
  ASSUME PlugInv
  PROVE  \E S : PluginsTyped(S) /\ Idle \in ErrandRow(S)
<1>1. PICK R : PluginsTyped(R) /\ {} \in R
  BY PlugWidened
<1>2. PICK S : S = R \cup {0}
  OBVIOUS
<1>3. PluginsTyped(S)
  <2>1. ErrandRow(R) \subseteq ErrandRow(S)
    BY <1>2 DEF ErrandRow
  <2>2. [OfferedTools -> R] \subseteq [OfferedTools -> S]
    BY <1>2
  <2>3. row \in [Names -> S] /\ cache \in [Names -> [OfferedTools -> S] \cup {NoValue}]
    BY <1>1, <1>2, <2>2 DEF PluginsTyped
  <2>4. connection \in [id : S, enabled : BOOLEAN, config : [OfferedTools -> S]]
    BY <1>1, <1>2, <2>2 DEF PluginsTyped
  <2>5. errand \in [Errands -> ErrandRow(S)]
    BY <1>1, <2>1 DEF PluginsTyped
  <2> QED
    BY <1>1, <1>2, <2>3, <2>4, <2>5 DEF PluginsTyped
<1>4. NoModes \in [OfferedTools -> S]
  BY <1>3 DEF NoModes, PluginsTyped, Words
<1>5. Idle \in ErrandRow(S)
  BY <1>1, <1>2, <1>3, <1>4 DEF Idle, ErrandRow, PluginsTyped, Words
<1> QED
  BY <1>3, <1>5

LEMMA FinishKeeps ==
  ASSUME PluginConstants, PlugInv, NEW r \in Errands, Finishes(r), UNCHANGED <<connection, off>>, Registers(r)
  PROVE  PlugInv'
<1>1. PICK S : PluginsTyped(S) /\ Idle \in ErrandRow(S)
  BY IdleTyped
<1>2. errand' = [errand EXCEPT ![r] = Idle]
  BY DEF Finishes
<1>3. PICK t \in ErrandRow(S) : t = Idle
  BY <1>1
<1>4. t.sure = FALSE /\ t.at = "idle"
  BY <1>3 DEF Idle
<1>5. NeverRuns(t) /\ KnownOff(t) /\ Looks(t) /\ ~HoldsModes(t)
  BY <1>4 DEF NeverRuns, KnownOff, Looks, HoldsModes
<1> QED
  BY <1>1, <1>2, <1>3, <1>4, <1>5, QuietErrand DEF Registers

\* A plugin runs whose modes are read or cached, if it is on now or was when they were read.
LEMMA CallKeeps ==
  ASSUME PluginConstants, PlugInv, NEW r \in Errands, NEW modes, CallTool(r, modes),
         UNCHANGED <<connection, off>>, Registers(r), errand[r].at \in {"cached", "load", "headers"},
         errand[r].at # "headers" => On(errand[r].name),
         errand[r].name = Server => \A t \in off : modes[t] = "off"
  PROVE  PlugInv'
<1>1. CASE ~Callable(r, modes)
  BY <1>1, FinishKeeps DEF CallTool
<1>2. CASE Callable(r, modes)
  <2>1. PICK S : PluginsTyped(S) /\ Idle \in ErrandRow(S)
    BY IdleTyped
  <2>2. PICK c \in ErrandRow(S) : c = errand[r]
    BY <2>1 DEF PluginsTyped
  <2>3. NoModes \in [OfferedTools -> S] /\ "ran" \in S
    BY <2>1 DEF NoModes, PluginsTyped, Words
  <2>4. PICK k \in [OfferedTools -> S] : k = NoModes
    BY <2>3
  <2>5. PICK t : t = [c EXCEPT !.at = "ran", !.config = k]
    OBVIOUS
  <2>6. t \in ErrandRow(S) /\ t.at = "ran" /\ t.sure = c.sure /\ t.never = c.never /\ t.known = c.known
    BY <2>3, <2>5 DEF ErrandRow
  <2>7. errand' = [errand EXCEPT ![r] = t]
    BY <1>2, <2>2, <2>4, <2>5 DEF CallTool
  <2>8. NeverRuns(c) /\ KnownOff(c) /\ Looks(c)
    BY <2>2 DEF PlugInv
  <2>9. ~c.never
    BY <2>2, <2>8 DEF NeverRuns
  <2>10. ~c.known
    <3> SUFFICES ASSUME c.known PROVE FALSE
      OBVIOUS
    <3>1. c.name = Server /\ c.op \in off
      BY <2>2, <2>8 DEF KnownOff
    <3>2. modes[errand[r].op] = "off"
      BY <2>2, <3>1
    <3> QED
      BY <1>2, <2>2, <3>1, <3>2 DEF Callable
  <2>11. NeverRuns(t) /\ KnownOff(t) /\ Looks(t) /\ ~HoldsModes(t)
    BY <2>6, <2>9, <2>10 DEF NeverRuns, KnownOff, Looks, HoldsModes
  <2>12. t.sure = FALSE
    BY <2>2, <2>6 DEF PlugInv, SureOnes, ErrandRow
  <2> QED
    BY <2>1, <2>6, <2>7, <2>11, <2>12, QuietErrand DEF Registers
<1> QED
  BY <1>1, <1>2

LEMMA FinishingKeeps ==
  ASSUME PluginConstants, PlugInv, NEW r \in Errands,
         SyncFails(r) \/ EditRefused(r) \/ DiscoverFails(r) \/ CacheGone(r) \/ HandsOver(r)
  PROVE  PlugInv'
BY FinishKeeps, UnchangedRegisters DEF SyncFails, EditRefused, DiscoverFails, CacheGone, HandsOver, loadedPlugins

LEMMA TakeCachedKeeps ==
  ASSUME PluginConstants, PlugInv, NEW r \in Errands, TakeCached(r)
  PROVE  PlugInv'
<1>1. errand[r].at = "cached" /\ On(errand[r].name) /\ CallTool(r, cache[errand[r].name])
      /\ cache[errand[r].name] # NoValue /\ UNCHANGED <<connection, off, row, cache>>
  BY DEF TakeCached, Stands, Enabled, loadedPlugins
<1>2. errand[r].name = Server => \A t \in off : cache[errand[r].name][t] = "off"
  BY <1>1 DEF PlugInv, OffEverywhere
<1> QED
  BY <1>1, <1>2, CallKeeps, UnchangedRegisters

LEMMA EvictKeeps ==
  ASSUME PluginConstants, PlugInv, NEW r \in Errands, Evict(r)
  PROVE  PlugInv'
<1>1. cache' = [cache EXCEPT ![errand[r].name] = NoValue] /\ Finishes(r) /\ UNCHANGED <<connection, off, row>>
  BY DEF Evict, Refuse
<1>2. Registers(r)
  <2>1. \A n \in Names : On(n)' => On(n)
    BY <1>1 DEF On, Live, HasConnection
  <2>2. ASSUME NEW S, PluginsTyped(S)
        PROVE  row' \in [Names -> S] /\ cache' \in [Names -> [OfferedTools -> S] \cup {NoValue}]
               /\ cache'[Server] \in {NoValue, cache[Server]}
    <3>1. cache \in [Names -> [OfferedTools -> S] \cup {NoValue}] /\ row \in [Names -> S] /\ Server \in Names
      BY <2>2 DEF PluginsTyped, Names
    <3> QED
      BY <1>1, <3>1
  <2>3. \E S : PluginsTyped(S)
    BY DEF PlugInv
  <2> QED
    BY <2>1, <2>2, <2>3 DEF Registers
<1> QED
  BY <1>1, <1>2, FinishKeeps

LEMMA LoadKeeps ==
  ASSUME PluginConstants, PlugInv, NEW r \in Errands, LoadPackage(r)
  PROVE  PlugInv'
<1>1. errand[r].at = "load" /\ errand[r].name # Server /\ UNCHANGED <<connection, off, row>>
  BY DEF LoadPackage, Stands
<1>2. \E S : PluginsTyped(S)
  BY DEF PlugInv
<1>3. Registers(r)
  <2>1. \A n \in Names : On(n)' => On(n)
    BY <1>1 DEF On, Live, HasConnection
  <2>2. ASSUME NEW S, PluginsTyped(S)
        PROVE  row' \in [Names -> S] /\ cache' \in [Names -> [OfferedTools -> S] \cup {NoValue}]
               /\ cache'[Server] \in {NoValue, cache[Server]}
    <3>1. cache \in [Names -> [OfferedTools -> S] \cup {NoValue}] /\ row \in [Names -> S] /\ Server \in Names
      BY <2>2 DEF PluginsTyped, Names
    <3>2. NoModes \in [OfferedTools -> S]
      BY <2>2 DEF NoModes, PluginsTyped, Words
    <3>3. cache' = cache \/ cache' = [cache EXCEPT ![errand[r].name] = NoModes]
      BY DEF LoadPackage
    <3> QED
      BY <1>1, <3>1, <3>2, <3>3
  <2> QED
    BY <1>2, <2>1, <2>2 DEF Registers
<1>4. CASE Finishes(r)
  BY <1>1, <1>3, <1>4, FinishKeeps
<1>5. CASE ~Finishes(r)
  <2>1. CallTool(r, NoModes) /\ On(errand[r].name)
    BY <1>5 DEF LoadPackage, Refuse
  <2> QED
    BY <1>1, <1>3, <2>1, CallKeeps
<1> QED
  BY <1>4, <1>5

LEMMA CacheAdapterKeeps ==
  ASSUME PluginConstants, PlugInv, NEW r \in Errands, CacheAdapter(r)
  PROVE  PlugInv'
<1>1. errand[r].at = "headers" /\ UNCHANGED <<connection, off, row>> /\ CallTool(r, errand[r].config)
      /\ cache' = [cache EXCEPT ![Server] = errand[r].config]
  BY DEF CacheAdapter, Stands
<1>2. Registers(r)
  <2>1. \A n \in Names : On(n)' => On(n)
    BY <1>1 DEF On, Live, HasConnection
  <2>2. ASSUME NEW S, PluginsTyped(S)
        PROVE  row' \in [Names -> S] /\ cache' \in [Names -> [OfferedTools -> S] \cup {NoValue}]
               /\ cache'[Server] = errand[r].config
    <3>1. cache \in [Names -> [OfferedTools -> S] \cup {NoValue}] /\ row \in [Names -> S] /\ Server \in Names
      BY <2>2 DEF PluginsTyped, Names
    <3>2. errand[r].config \in [OfferedTools -> S]
      BY <2>2 DEF PluginsTyped, ErrandRow
    <3> QED
      BY <1>1, <3>1, <3>2
  <2>3. \E S : PluginsTyped(S)
    BY DEF PlugInv
  <2> QED
    BY <1>1, <2>1, <2>2, <2>3 DEF Registers, HoldsModes
<1>3. \A t \in off : errand[r].config[t] = "off"
  BY <1>1 DEF PlugInv, OffEverywhere, SettledOff, HoldsModes
<1> QED
  BY <1>1, <1>2, <1>3, CallKeeps


------------------------------------------------------------------------------
\* Steps of a sync and of a look-up that write nothing but the request.
LEMMA OnlyErrand ==
  ASSUME PluginConstants, PlugInv, NEW S, PluginsTyped(S), NEW r \in Errands, NEW t \in ErrandRow(S),
         errand' = [errand EXCEPT ![r] = t], UNCHANGED <<connection, off, row, cache>>, t.sure = FALSE,
         NeverRuns(t), KnownOff(t), Looks(t), HoldsModes(t) => t.config = connection.config
  PROVE  PlugInv'
<1>1. Registers(r)
  BY UnchangedRegisters
<1> QED
  BY <1>1, QuietErrand DEF Registers

LEMMA NotSure ==
  ASSUME PlugInv, NEW r \in Errands, errand[r].at # "refresh" PROVE errand[r].sure = FALSE
BY DEF PlugInv, SureOnes, PluginsTyped, ErrandRow

LEMMA ReadRecordsKeeps ==
  ASSUME PluginConstants, PlugInv, NEW r \in Errands, NEW ok \in BOOLEAN, ReadRecords(r, ok)
  PROVE  PlugInv'
<1>1. PICK S : PluginsTyped(S) /\ (IF ok THEN ServerRecord ELSE NoValue) \in S
  BY PlugWidened
<1>2. PICK c \in ErrandRow(S) : c = errand[r]
  BY <1>1 DEF PluginsTyped
<1>3. PICK x \in S : x = IF ok THEN ServerRecord ELSE NoValue
  BY <1>1
<1>4. PICK t : t = [c EXCEPT !.at = "merge", !.read = ok, !.record = x]
  OBVIOUS
<1>5. "merge" \in S
  BY <1>1 DEF PluginsTyped, Words
<1>6. t \in ErrandRow(S) /\ t.at = "merge" /\ t.sure = c.sure
  BY <1>4, <1>5 DEF ErrandRow
<1>7. errand' = [errand EXCEPT ![r] = t] /\ errand[r].at = "records" /\ UNCHANGED <<connection, off, row, cache>>
  BY <1>2, <1>3, <1>4 DEF ReadRecords, Stands, loadedPlugins
<1>8. NeverRuns(t) /\ KnownOff(t) /\ Looks(t) /\ ~HoldsModes(t)
  BY <1>6 DEF NeverRuns, KnownOff, Looks, HoldsModes
<1> QED
  BY <1>1, <1>2, <1>6, <1>7, <1>8, NotSure, OnlyErrand

LEMMA MergeRecordsKeeps ==
  ASSUME PluginConstants, PlugInv, NEW r \in Errands, MergeRecords(r)
  PROVE  PlugInv'
<1>1. PICK S : PluginsTyped(S) /\ {n \in Names : manifest'[n] # NoValue} \in S
  BY PlugWidened
<1>2. PICK c \in ErrandRow(S) : c = errand[r]
  BY <1>1 DEF PluginsTyped
<1>3. PICK x \in S : x = {n \in Names : manifest'[n] # NoValue}
  BY <1>1
<1>4. PICK t : t = [c EXCEPT !.at = "rows", !.names = x]
  OBVIOUS
<1>5. "rows" \in S
  BY <1>1 DEF PluginsTyped, Words
<1>6. t \in ErrandRow(S) /\ t.at = "rows" /\ t.sure = c.sure
  BY <1>4, <1>5 DEF ErrandRow
<1>7. errand' = [errand EXCEPT ![r] = t] /\ errand[r].at = "merge" /\ UNCHANGED <<connection, off, row, cache>>
  BY <1>2, <1>3, <1>4 DEF MergeRecords, Stands
<1>8. NeverRuns(t) /\ KnownOff(t) /\ Looks(t) /\ ~HoldsModes(t)
  BY <1>6 DEF NeverRuns, KnownOff, Looks, HoldsModes
<1> QED
  BY <1>1, <1>2, <1>6, <1>7, <1>8, NotSure, OnlyErrand

\* A row that is new is on for a live connection only, which is on anyway.
LEMMA WriteRowsKeeps ==
  ASSUME PluginConstants, PlugInv, NEW r \in Errands, NEW purged \in BOOLEAN, WriteRows(r, purged)
  PROVE  PlugInv'
<1>1. Finishes(r) /\ UNCHANGED <<connection, off, cache>>
  BY DEF WriteRows, loadedPlugins
<1>2. \A n \in Names : row'[n] \in {NoValue, "off", row[n]} \/ (n = Server /\ Live /\ row'[n] = "on")
  BY DEF WriteRows
<1>3. row' = [n \in Names |-> row'[n]]
  BY DEF WriteRows
<1>4. Registers(r)
  <2>1. ASSUME NEW n \in Names, On(n)' PROVE On(n)
    <3>1. NoValue # "on"
      BY DEF PluginConstants, Modes
    <3> QED
      BY <1>1, <1>2, <2>1, <3>1 DEF On, Live, HasConnection
  <2>2. ASSUME NEW S, PluginsTyped(S)
        PROVE  row' \in [Names -> S] /\ cache' \in [Names -> [OfferedTools -> S] \cup {NoValue}]
    <3>1. \A n \in Names : row'[n] \in S
      BY <1>2, <2>2 DEF PluginsTyped, Words
    <3> QED
      BY <1>1, <1>3, <2>2, <3>1 DEF PluginsTyped
  <2> QED
    BY <1>1, <2>1, <2>2 DEF Registers
<1> QED
  BY <1>1, <1>4, FinishKeeps

LEMMA SyncKeeps ==
  ASSUME PluginConstants, PlugInv, NEW r \in Errands, Sync(r)
  PROVE  PlugInv'
<1>1. PICK S : PluginsTyped(S)
  BY DEF PlugInv
<1>2. PICK c \in ErrandRow(S) : c = errand[r]
  BY <1>1 DEF PluginsTyped
<1>3. PICK t : t = [c EXCEPT !.at = "refresh"]
  OBVIOUS
<1>4. "refresh" \in S
  BY <1>1 DEF PluginsTyped, Words
<1>5. t \in ErrandRow(S) /\ t.at = "refresh" /\ t.sure = c.sure
  BY <1>3, <1>4 DEF ErrandRow
<1>6. errand' = [errand EXCEPT ![r] = t] /\ errand[r].at = "idle" /\ UNCHANGED <<connection, off, row, cache>>
  BY <1>2, <1>3 DEF Sync, Stands, loadedPlugins
<1>7. NeverRuns(t) /\ KnownOff(t) /\ Looks(t) /\ ~HoldsModes(t)
  BY <1>5 DEF NeverRuns, KnownOff, Looks, HoldsModes
<1> QED
  BY <1>1, <1>2, <1>5, <1>6, <1>7, NotSure, OnlyErrand

LEMMA BeginKeeps ==
  ASSUME PluginConstants, PlugInv, NEW r \in Errands, NEW kind \in {"edit", "discover"}, Begin(r, kind)
  PROVE  PlugInv'
<1>1. PICK S : PluginsTyped(S)
  BY DEF PlugInv
<1>2. PICK c \in ErrandRow(S) : c = errand[r]
  BY <1>1 DEF PluginsTyped
<1>3. PICK d \in [id : S, enabled : BOOLEAN, config : [OfferedTools -> S]] : d = connection
  BY <1>1 DEF PluginsTyped
<1>4. PICK t : t = [c EXCEPT !.at = kind, !.id = d.id, !.config = d.config]
  OBVIOUS
<1>5. kind \in S
  BY <1>1 DEF PluginsTyped, Words
<1>6. t \in ErrandRow(S) /\ t.at = kind /\ t.sure = c.sure /\ t.config = d.config /\ t.id = d.id
  BY <1>3, <1>4, <1>5 DEF ErrandRow
<1>7. errand' = [errand EXCEPT ![r] = t] /\ errand[r].at = "idle" /\ UNCHANGED <<connection, off, row, cache>>
  BY <1>2, <1>3, <1>4 DEF Begin, Stands, loadedPlugins
<1>8. NeverRuns(t) /\ KnownOff(t) /\ Looks(t)
  BY <1>3, <1>6 DEF NeverRuns, KnownOff, Looks, Begin, HasConnection
<1> QED
  BY <1>1, <1>2, <1>3, <1>6, <1>7, <1>8, NotSure, OnlyErrand

\* A call knows what is off when it begins.
LEMMA StartKeeps ==
  ASSUME PluginConstants, PlugInv, NEW r \in Errands, NEW kind \in {"chat", "feed"}, NEW name \in Names,
         NEW op, Start(r, kind, name, op)
  PROVE  PlugInv'
<1>1. PICK S : PluginsTyped(S) /\ op \in S
  BY PlugWidened
<1>2. PICK c \in ErrandRow(S) : c = errand[r]
  BY <1>1 DEF PluginsTyped
<1>3. PICK x \in BOOLEAN : x = ~On(name)
  OBVIOUS
<1>4. PICK y \in BOOLEAN : y = (name = Server /\ op \in off)
  OBVIOUS
<1>5. PICK t : t = [c EXCEPT !.at = "find", !.kind = kind, !.name = name, !.op = op, !.never = x, !.known = y]
  OBVIOUS
<1>6. {"find", kind, name} \subseteq S
  BY <1>1 DEF PluginsTyped, Words
<1>7. /\ t \in ErrandRow(S) /\ t.at = "find" /\ t.sure = c.sure
      /\ t.name = name /\ t.op = op /\ t.never = x /\ t.known = y
  BY <1>1, <1>5, <1>6 DEF ErrandRow
<1>8. errand' = [errand EXCEPT ![r] = t]
  BY <1>2, <1>3, <1>4, <1>5 DEF Start
<1>9. errand[r].at = "idle" /\ UNCHANGED <<connection, off, row, cache>>
  BY DEF Start, Stands, loadedPlugins
<1>10. NeverRuns(t) /\ KnownOff(t) /\ Looks(t) /\ ~HoldsModes(t)
  BY <1>3, <1>4, <1>7 DEF NeverRuns, KnownOff, Looks, HoldsModes
<1> QED
  BY <1>1, <1>2, <1>7, <1>8, <1>9, <1>10, NotSure, OnlyErrand

LEMMA FindKeeps ==
  ASSUME PluginConstants, PlugInv, NEW r \in Errands, Find(r)
  PROVE  PlugInv'
<1>1. PICK S : PluginsTyped(S)
  BY DEF PlugInv
<1>2. PICK c \in ErrandRow(S) : c = errand[r]
  BY <1>1 DEF PluginsTyped
<1>3. errand[r].at = "find" /\ UNCHANGED <<connection, off, row, cache>>
  BY DEF Find, Stands, loadedPlugins
<1>4. CASE Finishes(r)
  BY <1>3, <1>4, FinishKeeps, UnchangedRegisters
<1>5. CASE ~Finishes(r)
  <2>1. PICK step \in {"cached", "load"} : Go(r, step)
    BY <1>5 DEF Find, Refuse
  <2>2. PICK t : t = [c EXCEPT !.at = step]
    OBVIOUS
  <2>3. step \in S
    BY <1>1 DEF PluginsTyped, Words
  <2>4. /\ t \in ErrandRow(S) /\ t.at = step /\ t.sure = c.sure
        /\ t.name = c.name /\ t.op = c.op /\ t.never = c.never /\ t.known = c.known
    BY <2>2, <2>3 DEF ErrandRow
  <2>5. errand' = [errand EXCEPT ![r] = t]
    BY <1>2, <2>1, <2>2 DEF Go
  <2>6. NeverRuns(c) /\ KnownOff(c) /\ Looks(c)
    BY <1>2 DEF PlugInv
  <2>7. NeverRuns(t) /\ KnownOff(t) /\ Looks(t) /\ ~HoldsModes(t)
    BY <1>2, <1>3, <2>4, <2>6 DEF NeverRuns, KnownOff, Looks, HoldsModes
  <2> QED
    BY <1>1, <1>2, <1>3, <2>4, <2>5, <2>7, NotSure, OnlyErrand
<1> QED
  BY <1>4, <1>5

LEMMA ReadConnectionKeeps ==
  ASSUME PluginConstants, PlugInv, NEW r \in Errands, ReadConnection(r)
  PROVE  PlugInv'
<1>1. PICK S : PluginsTyped(S)
  BY DEF PlugInv
<1>2. PICK c \in ErrandRow(S) : c = errand[r]
  BY <1>1 DEF PluginsTyped
<1>3. errand[r].at = "load" /\ errand[r].name = Server /\ UNCHANGED <<connection, off, row, cache>>
  BY DEF ReadConnection, Stands, loadedPlugins
<1>4. CASE Finishes(r)
  BY <1>3, <1>4, FinishKeeps, UnchangedRegisters
<1>5. CASE ~Finishes(r)
  <2>1. PICK k \in [OfferedTools -> S] : k = connection.config
    BY <1>1 DEF PluginsTyped
  <2>2. PICK t : t = [c EXCEPT !.at = "headers", !.config = k]
    OBVIOUS
  <2>3. "headers" \in S
    BY <1>1 DEF PluginsTyped, Words
  <2>4. /\ t \in ErrandRow(S) /\ t.at = "headers" /\ t.sure = c.sure /\ t.config = k
        /\ t.name = c.name /\ t.op = c.op /\ t.never = c.never /\ t.known = c.known
    BY <2>2, <2>3 DEF ErrandRow
  <2>5. Live /\ errand' = [errand EXCEPT ![r] = t]
    BY <1>2, <1>5, <2>1, <2>2 DEF ReadConnection, Refuse
  <2>6. NeverRuns(c) /\ KnownOff(c) /\ Looks(c)
    BY <1>2 DEF PlugInv
  <2>7. On(c.name)
    BY <1>2, <1>3, <2>5 DEF On
  <2>8. NeverRuns(t) /\ KnownOff(t) /\ Looks(t)
    BY <1>2, <1>3, <2>4, <2>6, <2>7 DEF NeverRuns, KnownOff, Looks
  <2> QED
    BY <1>1, <1>2, <1>3, <2>1, <2>4, <2>5, <2>8, NotSure, OnlyErrand
<1> QED
  BY <1>4, <1>5


------------------------------------------------------------------------------
\* What the edits of the administrators do to all requests at once.
LEMMA EveryErrand ==
  ASSUME PluginConstants, PlugInv, NEW S, PluginsTyped(S), NEW f \in [Errands -> ErrandRow(S)], errand' = f,
         row' \in [Names -> S], cache' = cache,
         connection' \in [id : S, enabled : BOOLEAN, config : [OfferedTools -> S]],
         \A q \in Errands :
           \/ f[q].at = "refresh"
           \/ /\ f[q].at = errand[q].at /\ f[q].name = errand[q].name /\ f[q].op = errand[q].op
              /\ f[q].config = errand[q].config /\ f[q].id = errand[q].id
              /\ f[q].never => errand[q].never
              /\ f[q].at \in {"find", "cached", "load", "headers", "ran"} /\ f[q].known => errand[q].known /\ f[q].op \in off',
         \/ \A q \in Errands : ~f[q].never
         \/ \A n \in Names : On(n)' => On(n),
         off' \subseteq off, \A k \in off' : connection'.config[k] = "off",
         \A q \in Errands : f[q].sure =>
           /\ f[q].at = "refresh" /\ f[q].op \in OfferedTools /\ connection'.config[f[q].op] = "off"
           /\ SettledOff(f[q].op) \/ \A p \in Errands : ~HoldsModes(f[p]),
         (HasConnection \/ connection.config = NoModes)'
  PROVE  PlugInv'
<1>1. PluginsTyped(S)'
  BY DEF PluginsTyped
<1>2. ASSUME NEW q \in Errands PROVE (NeverRuns(errand[q]) /\ KnownOff(errand[q]) /\ Looks(errand[q]))'
  <2>1. NeverRuns(errand[q]) /\ KnownOff(errand[q]) /\ Looks(errand[q])
    BY DEF PlugInv
  <2>2. CASE f[q].at = "refresh"
    BY <2>2 DEF NeverRuns, KnownOff, Looks
  <2>3. CASE f[q].at # "refresh"
    <3>1. /\ f[q].at = errand[q].at /\ f[q].name = errand[q].name /\ f[q].op = errand[q].op
          /\ f[q].id = errand[q].id /\ (f[q].never => errand[q].never)
          /\ f[q].at \in {"find", "cached", "load", "headers", "ran"} /\ f[q].known => errand[q].known /\ f[q].op \in off'
      BY <2>3
    <3>2. Looks(f[q])
      BY <2>1, <3>1 DEF Looks
    <3>3. NeverRuns(errand[q])'
      BY <2>1, <3>1, <3>2 DEF NeverRuns, Looks
    <3>4. KnownOff(errand[q])'
      BY <2>1, <3>1 DEF KnownOff
    <3> QED
      BY <3>2, <3>3, <3>4 DEF Looks
  <2> QED
    BY <2>2, <2>3
<1>3. ASSUME NEW k, SettledOff(k), connection'.config[k] = "off" PROVE SettledOff(k)'
  <2>1. ASSUME NEW q \in Errands, HoldsModes(f[q]) PROVE f[q].config[k] = "off"
    BY <1>3, <2>1 DEF SettledOff, HoldsModes
  <2> QED
    BY <1>3, <2>1 DEF SettledOff, HoldsModes
<1>4. OffEverywhere'
  BY <1>3 DEF PlugInv, OffEverywhere
<1>5. SureOnes'
  <2> SUFFICES ASSUME NEW q \in Errands, f[q].sure PROVE f[q].at = "refresh" /\ SettledOff(f[q].op)'
    BY DEF SureOnes
  <2>1. CASE SettledOff(f[q].op)
    BY <1>3, <2>1
  <2>2. CASE \A p \in Errands : ~HoldsModes(f[p])
    BY <2>2 DEF SettledOff, HoldsModes
  <2> QED
    BY <2>1, <2>2
<1> QED
  BY <1>1, <1>2, <1>4, <1>5 DEF PlugInv

\* A sync forgets what is loaded, and from here on an edit is to be seen.
LEMMA FullRefreshKeeps ==
  ASSUME PluginConstants, PlugInv, NEW r \in Errands, FullRefresh(r)
  PROVE  PlugInv'
<1>1. PICK S : PluginsTyped(S) /\ Idle \in ErrandRow(S)
  BY IdleTyped
<1>2. PICK i \in ErrandRow(S) : i = Idle
  BY <1>1
<1>3. PICK t : t = [i EXCEPT !.at = "records"]
  OBVIOUS
<1>4. "records" \in S /\ NoValue \in S
  BY <1>1 DEF PluginsTyped, Words
<1>5. t \in ErrandRow(S) /\ t.at = "records" /\ t.sure = FALSE
  <2>1. i.sure = FALSE
    BY <1>2 DEF Idle
  <2> QED
    BY <1>3, <1>4, <2>1 DEF ErrandRow
<1>6. errand' = [errand EXCEPT ![r] = t] /\ UNCHANGED <<row, connection>>
  BY <1>2, <1>3 DEF FullRefresh
<1>7. cache' = [n \in Names |-> NoValue] /\ Server \in Names
  BY DEF FullRefresh, Refreshed, Names
<1>8. errand \in [Errands -> ErrandRow(S)]
  BY <1>1 DEF PluginsTyped
<1>9. errand' \in [Errands -> ErrandRow(S)] /\ errand'[r] = t /\ \A q \in Errands \ {r} : errand'[q] = errand[q]
  BY <1>5, <1>6, <1>8
<1>10. PluginsTyped(S)'
  BY <1>1, <1>6, <1>7, <1>9 DEF PluginsTyped
<1>11. off \subseteq off' /\ \A k \in off' : SettledOff(k)
  BY DEF FullRefresh, PlugInv, OffEverywhere, SureOnes
<1>12. \A k : SettledOff(k) => SettledOff(k)'
  <2> SUFFICES ASSUME NEW k, SettledOff(k) PROVE SettledOff(k)'
    OBVIOUS
  <2>1. ASSUME NEW q \in Errands, HoldsModes(errand'[q]) PROVE errand'[q].config[k] = "off"
    BY <1>5, <1>9, <2>1 DEF SettledOff, HoldsModes
  <2> QED
    BY <1>6, <2>1 DEF SettledOff, HoldsModes
<1>13. ASSUME NEW q \in Errands PROVE (NeverRuns(errand[q]) /\ KnownOff(errand[q]) /\ Looks(errand[q]))'
  <2>1. NeverRuns(errand'[q]) /\ KnownOff(errand'[q]) /\ Looks(errand'[q])
    BY <1>5, <1>9 DEF PlugInv, NeverRuns, KnownOff, Looks
  <2>2. NeverRuns(errand[q])'
    BY <1>6, <2>1 DEF NeverRuns, On, Live, HasConnection
  <2>3. KnownOff(errand[q])'
    BY <1>11, <2>1 DEF KnownOff
  <2> QED
    BY <2>1, <2>2, <2>3 DEF Looks
<1>14. OffEverywhere'
  BY <1>7, <1>11, <1>12 DEF OffEverywhere
<1>15. SureOnes'
  BY <1>5, <1>9, <1>12 DEF PlugInv, SureOnes
<1>16. (HasConnection \/ connection.config = NoModes)'
  BY <1>6 DEF PlugInv, HasConnection
<1> QED
  BY <1>10, <1>13, <1>14, <1>15, <1>16 DEF PlugInv

LEMMA RestartKeeps ==
  ASSUME PluginConstants, PlugInv, Restart
  PROVE  PlugInv'
<1>1. PICK S : PluginsTyped(S) /\ Idle \in ErrandRow(S)
  BY IdleTyped
<1>2. /\ errand' = [r \in Errands |-> Idle] /\ cache' = [n \in Names |-> NoValue]
      /\ UNCHANGED <<row, connection, off>> /\ Server \in Names
  BY DEF Restart, Names
<1>3. Idle.at = "idle" /\ Idle.sure = FALSE
  BY DEF Idle
<1>4. NoValue \in S /\ PluginsTyped(S)'
  BY <1>1, <1>2 DEF PluginsTyped, Words
<1>5. \A q \in Errands : (NeverRuns(errand[q]) /\ KnownOff(errand[q]) /\ Looks(errand[q]))'
  BY <1>2, <1>3 DEF NeverRuns, KnownOff, Looks
<1>6. \A k \in off : SettledOff(k)'
  BY <1>2, <1>3 DEF PlugInv, OffEverywhere, SettledOff, HoldsModes
<1>7. OffEverywhere' /\ SureOnes'
  BY <1>2, <1>3, <1>6 DEF OffEverywhere, SureOnes
<1>8. (HasConnection \/ connection.config = NoModes)'
  BY <1>2 DEF PlugInv, HasConnection
<1> QED
  BY <1>4, <1>5, <1>7, <1>8 DEF PlugInv

LEMMA PackagesKeep ==
  ASSUME PluginConstants, PlugInv,
         \/ \E p \in Uploaded : Upload(p)
         \/ \E name \in Names : DeletePlugin(name)
         \/ \E name \in Fed : DeleteFeed(name) \/ \E on \in BOOLEAN : SetFeed(name, on)
  PROVE  PlugInv'
<1>1. PICK S : PluginsTyped(S)
  BY DEF PlugInv
<1>2. UNCHANGED <<connection, off, errand>>
  BY DEF Upload, DeletePlugin, DeleteFeed, SetFeed
<1>3. row' = row \/ \E name \in Names : row' = [row EXCEPT ![name] = NoValue]
  BY DEF Upload, DeletePlugin, DeleteFeed, SetFeed
<1>4. cache' = cache \/ cache' = [n \in Names |-> NoValue]
  BY DEF Upload, DeletePlugin, DeleteFeed, SetFeed, loadedPlugins
<1>5. row \in [Names -> S] /\ NoValue \in S /\ Server \in Names
      /\ cache \in [Names -> [OfferedTools -> S] \cup {NoValue}]
  BY <1>1 DEF PluginsTyped, Words, Names
<1>6. row' \in [Names -> S] /\ \A n \in Names : row'[n] \in {NoValue, row[n]}
  BY <1>3, <1>5
<1>7. \A n \in Names : On(n)' => On(n)
  BY <1>2, <1>6 DEF On, Live, HasConnection, PluginConstants
<1>8. cache' \in [Names -> [OfferedTools -> S] \cup {NoValue}] /\ cache'[Server] \in {NoValue, cache[Server]}
  BY <1>4, <1>5
<1> QED
  BY <1>1, <1>2, <1>6, <1>7, <1>8, QuietPlugins

\* The requests q after a plugin may have been switched on.
LEMMA TurnedTyped ==
  ASSUME NEW S, NEW e \in [Errands -> ErrandRow(S)]
  PROVE  /\ TurnedOn(e) \in [Errands -> ErrandRow(S)]
         /\ \A q \in Errands :
              /\ TurnedOn(e)[q].at = e[q].at /\ TurnedOn(e)[q].name = e[q].name /\ TurnedOn(e)[q].op = e[q].op
              /\ TurnedOn(e)[q].config = e[q].config /\ TurnedOn(e)[q].id = e[q].id
              /\ TurnedOn(e)[q].known = e[q].known /\ TurnedOn(e)[q].sure = e[q].sure
              /\ TurnedOn(e)[q].never = FALSE
<1>1. ASSUME NEW q \in Errands
      PROVE  /\ TurnedOn(e)[q] \in ErrandRow(S)
             /\ TurnedOn(e)[q].at = e[q].at /\ TurnedOn(e)[q].name = e[q].name /\ TurnedOn(e)[q].op = e[q].op
             /\ TurnedOn(e)[q].config = e[q].config /\ TurnedOn(e)[q].id = e[q].id
             /\ TurnedOn(e)[q].known = e[q].known /\ TurnedOn(e)[q].sure = e[q].sure
             /\ TurnedOn(e)[q].never = FALSE
  <2>1. PICK c \in ErrandRow(S) : c = e[q]
    OBVIOUS
  <2>2. PICK t : t = [c EXCEPT !.never = FALSE]
    OBVIOUS
  <2>3. TurnedOn(e)[q] = t
    BY <2>1, <2>2 DEF TurnedOn
  <2>4. /\ t \in ErrandRow(S) /\ t.at = c.at /\ t.name = c.name /\ t.op = c.op /\ t.config = c.config
        /\ t.id = c.id /\ t.known = c.known /\ t.sure = c.sure /\ t.never = FALSE
    BY <2>2 DEF ErrandRow
  <2> QED
    BY <2>1, <2>3, <2>4
<1>2. TurnedOn(e) = [q \in Errands |-> TurnedOn(e)[q]]
  BY DEF TurnedOn
<1> QED
  BY <1>1, <1>2

\* What a switch makes of all requests, of which e are those after what one did itself.
LEMMA SwitchKeeps ==
  ASSUME PluginConstants, PlugInv, NEW S, PluginsTyped(S), NEW e \in [Errands -> ErrandRow(S)],
         NEW on \in BOOLEAN, errand' = IF on THEN TurnedOn(e) ELSE e,
         \A q \in Errands : e[q] = errand[q] \/ (e[q].at = "refresh" /\ e[q].sure = FALSE /\ e[q].never = FALSE),
         row' \in [Names -> S], UNCHANGED <<cache, off>>,
         connection' \in [id : S, enabled : BOOLEAN, config : [OfferedTools -> S]],
         connection'.config = connection.config, (HasConnection \/ connection.config = NoModes)',
         ~on => \A n \in Names : On(n)' => On(n)
  PROVE  PlugInv'
<1>1. PICK f : f = errand'
  OBVIOUS
<1>2. f \in [Errands -> ErrandRow(S)]
      /\ \A q \in Errands :
           /\ f[q].at = e[q].at /\ f[q].name = e[q].name /\ f[q].op = e[q].op
           /\ f[q].config = e[q].config /\ f[q].id = e[q].id
           /\ f[q].known = e[q].known /\ f[q].sure = e[q].sure
           /\ f[q].never => e[q].never
           /\ on => ~f[q].never
  <2>1. CASE on
    <3>1. f = TurnedOn(e)
      BY <1>1, <2>1
    <3>2. f \in [Errands -> ErrandRow(S)]
      BY <3>1, TurnedTyped
    <3>3. ASSUME NEW q \in Errands
          PROVE  /\ f[q].at = e[q].at /\ f[q].name = e[q].name /\ f[q].op = e[q].op
                 /\ f[q].config = e[q].config /\ f[q].id = e[q].id
                 /\ f[q].known = e[q].known /\ f[q].sure = e[q].sure /\ ~f[q].never
      <4>1. /\ TurnedOn(e)[q].at = e[q].at /\ TurnedOn(e)[q].name = e[q].name /\ TurnedOn(e)[q].op = e[q].op
            /\ TurnedOn(e)[q].config = e[q].config /\ TurnedOn(e)[q].id = e[q].id
            /\ TurnedOn(e)[q].known = e[q].known /\ TurnedOn(e)[q].sure = e[q].sure
            /\ TurnedOn(e)[q].never = FALSE
        BY TurnedTyped
      <4>2. f[q] = TurnedOn(e)[q]
        BY <3>1
      <4> QED
        BY <4>1, <4>2, Zenon
    <3>4. \A q \in Errands : ~f[q].never
      BY <3>3
    <3> QED
      BY <3>2, <3>3, <3>4, Zenon
  <2>2. CASE ~on
    BY <1>1, <2>2
  <2> QED
    BY <2>1, <2>2
<1>3. \A k \in off : SettledOff(k)
  BY DEF PlugInv, OffEverywhere
<1>4. ASSUME NEW q \in Errands
      PROVE  \/ f[q].at = "refresh"
             \/ /\ f[q].at = errand[q].at /\ f[q].name = errand[q].name /\ f[q].op = errand[q].op
                /\ f[q].config = errand[q].config /\ f[q].id = errand[q].id
                /\ f[q].never => errand[q].never
                /\ f[q].at \in {"find", "cached", "load", "headers", "ran"} /\ f[q].known => errand[q].known /\ f[q].op \in off'
  <2>1. CASE e[q].at = "refresh"
    BY <1>2, <2>1
  <2>2. CASE e[q].at # "refresh"
    <3>1. e[q] = errand[q] /\ KnownOff(errand[q])
      BY <2>2 DEF PlugInv
    <3> QED
      BY <1>2, <3>1 DEF KnownOff
  <2> QED
    BY <2>1, <2>2
<1>5. ASSUME NEW q \in Errands, f[q].sure
      PROVE  /\ f[q].at = "refresh" /\ f[q].op \in OfferedTools /\ connection'.config[f[q].op] = "off"
             /\ SettledOff(f[q].op)
  <2>1. e[q] = errand[q] /\ errand[q].sure
    BY <1>2, <1>5
  <2>2. errand[q].at = "refresh" /\ SettledOff(errand[q].op)
    BY <2>1 DEF PlugInv, SureOnes
  <2> QED
    BY <1>2, <2>1, <2>2 DEF SettledOff
<1>6. \A k \in off' : connection'.config[k] = "off"
  BY <1>3 DEF SettledOff
<1>7. (\A q \in Errands : ~f[q].never) \/ \A n \in Names : On(n)' => On(n)
  BY <1>2
<1> QED
  BY <1>1, <1>2, <1>4, <1>5, <1>6, <1>7, EveryErrand


------------------------------------------------------------------------------
LEMMA SetPluginEnabledKeeps ==
  ASSUME PluginConstants, PlugInv, NEW name \in Names, NEW on \in BOOLEAN, SetPluginEnabled(name, on)
  PROVE  PlugInv'
<1>1. PICK S : PluginsTyped(S)
  BY DEF PlugInv
<1>2. PICK e \in [Errands -> ErrandRow(S)] : e = errand
  BY <1>1 DEF PluginsTyped
<1>3. errand' = (IF on THEN TurnedOn(e) ELSE e) /\ UNCHANGED <<cache, off, connection>>
  BY <1>2 DEF SetPluginEnabled, loadedPlugins
<1>4. row' = [row EXCEPT ![name] = IF on THEN "on" ELSE "off"]
  BY DEF SetPluginEnabled
<1>5. row \in [Names -> S] /\ {"on", "off"} \subseteq S
      /\ connection \in [id : S, enabled : BOOLEAN, config : [OfferedTools -> S]]
  BY <1>1 DEF PluginsTyped, Words
<1>6. row' \in [Names -> S]
  BY <1>4, <1>5
<1>7. ASSUME ~on, NEW n \in Names, On(n)' PROVE On(n)
  <2>1. row'[n] \in {row[n], "off"}
    BY <1>4, <1>5, <1>7
  <2> QED
    BY <1>3, <1>7, <2>1 DEF On, Live, HasConnection
<1>8. (HasConnection \/ connection.config = NoModes)'
  BY <1>3 DEF PlugInv, HasConnection
<1> QED
  BY <1>1, <1>2, <1>3, <1>5, <1>6, <1>7, <1>8, SwitchKeeps

LEMMA CreateConnectionKeeps ==
  ASSUME PluginConstants, PlugInv, NEW on \in BOOLEAN, CreateConnection(on)
  PROVE  PlugInv'
<1>1. PICK S : PluginsTyped(S) /\ altered + 2 \in S
  BY PlugWidened
<1>2. PICK e \in [Errands -> ErrandRow(S)] : e = errand
  BY <1>1 DEF PluginsTyped
<1>3. errand' = (IF on THEN TurnedOn(e) ELSE e) /\ UNCHANGED <<cache, off, row>>
  BY <1>2 DEF CreateConnection, loadedPlugins
<1>4. NoModes \in [OfferedTools -> S]
  BY <1>1 DEF NoModes, PluginsTyped, Words
<1>5. /\ connection' \in [id : S, enabled : BOOLEAN, config : [OfferedTools -> S]]
      /\ connection'.config = NoModes /\ connection'.enabled = on
  <2>1. PICK k \in [OfferedTools -> S] : k = NoModes
    BY <1>4
  <2>2. PICK n \in S : n = altered + 2
    BY <1>1
  <2>3. connection' = [id |-> n, enabled |-> on, config |-> k]
    BY <2>1, <2>2 DEF CreateConnection, NoConn
  <2> QED
    BY <2>1, <2>3
<1>6. connection.config = NoModes
  BY DEF PlugInv, CreateConnection
<1>7. ASSUME ~on, NEW n \in Names, On(n)' PROVE On(n)
  BY <1>3, <1>5, <1>7 DEF On, Live
<1>8. (HasConnection \/ connection.config = NoModes)'
  BY <1>5
<1>9. row' \in [Names -> S]
  BY <1>1, <1>3 DEF PluginsTyped
<1> QED
  BY <1>1, <1>2, <1>3, <1>5, <1>6, <1>7, <1>8, <1>9, SwitchKeeps

LEMMA UpdateConnectionKeeps ==
  ASSUME PluginConstants, PlugInv, NEW r \in Errands, NEW on \in BOOLEAN, UpdateConnection(r, on)
  PROVE  PlugInv'
<1>1. PICK S : PluginsTyped(S) /\ Idle \in ErrandRow(S)
  BY IdleTyped
<1>2. PICK i \in ErrandRow(S) : i = Idle
  BY <1>1
<1>3. PICK t : t = [i EXCEPT !.at = "refresh"]
  OBVIOUS
<1>4. t \in ErrandRow(S) /\ t.at = "refresh" /\ t.sure = FALSE /\ t.never = FALSE
  <2>1. i.sure = FALSE /\ i.never = FALSE
    BY <1>2 DEF Idle
  <2>2. "refresh" \in S
    BY <1>1 DEF PluginsTyped, Words
  <2> QED
    BY <1>3, <2>1, <2>2 DEF ErrandRow
<1>5. PICK a \in [Errands -> ErrandRow(S)] : a = errand
  BY <1>1 DEF PluginsTyped
<1>6. PICK q \in [Errands -> ErrandRow(S)] : q = IF on THEN TurnedOn(a) ELSE a
  <2>1. TurnedOn(a) \in [Errands -> ErrandRow(S)]
    BY TurnedTyped
  <2> QED
    BY <2>1
<1>7. errand' = [q EXCEPT ![r] = t]
  BY <1>2, <1>3, <1>5, <1>6 DEF UpdateConnection
<1>8. PICK e \in [Errands -> ErrandRow(S)] : e = [a EXCEPT ![r] = t]
  BY <1>4
<1>9. connection' = [connection EXCEPT !.enabled = on] /\ HasConnection /\ UNCHANGED <<cache, off>>
  BY DEF UpdateConnection, loadedPlugins
<1>10. /\ connection' \in [id : S, enabled : BOOLEAN, config : [OfferedTools -> S]]
       /\ connection'.config = connection.config /\ connection'.id = connection.id
       /\ connection'.enabled = on
  <2>1. PICK c \in [id : S, enabled : BOOLEAN, config : [OfferedTools -> S]] : c = connection
    BY <1>1 DEF PluginsTyped
  <2> QED
    BY <1>9, <2>1
<1>11. row' = [row EXCEPT ![Server] = IF row[Server] = NoValue THEN NoValue ELSE IF on THEN "on" ELSE "off"]
  BY DEF UpdateConnection
<1>12. row' \in [Names -> S] /\ \A n \in Names : n # Server => row'[n] = row[n]
  BY <1>1, <1>11 DEF PluginsTyped, Words
<1>13. ASSUME ~on, NEW n \in Names, On(n)' PROVE On(n)
  BY <1>10, <1>12, <1>13 DEF On, Live
<1>14. (HasConnection \/ connection.config = NoModes)'
  BY <1>9, <1>10 DEF HasConnection
<1>15. \A p \in Errands : e[p] = errand[p] \/ (e[p].at = "refresh" /\ e[p].sure = FALSE /\ e[p].never = FALSE)
  BY <1>4, <1>5, <1>8
<1>16. CASE on
  \* The request itself is none of those that may find the plugin on: it has been set aside.
  <2>1. errand' = TurnedOn(e)
    <3>1. q = TurnedOn(a)
      BY <1>6, <1>16
    <3>2. [t EXCEPT !.never = FALSE] = t
      BY <1>4 DEF ErrandRow
    <3>3. \A p \in Errands : [q EXCEPT ![r] = t][p] = TurnedOn(e)[p]
      BY <1>6, <1>8, <3>1, <3>2 DEF TurnedOn
    <3>4. TurnedOn(e) = [p \in Errands |-> TurnedOn(e)[p]]
      BY DEF TurnedOn
    <3>5. [q EXCEPT ![r] = t] = [p \in Errands |-> [q EXCEPT ![r] = t][p]]
      BY <1>4
    <3> QED
      BY <1>7, <3>3, <3>4, <3>5
  <2> QED
    BY <1>1, <1>8, <1>9, <1>10, <1>12, <1>14, <1>15, <1>16, <2>1, SwitchKeeps
<1>17. CASE ~on
  <2>1. errand' = e
    BY <1>6, <1>7, <1>8, <1>17
  <2> QED
    BY <1>1, <1>8, <1>9, <1>10, <1>12, <1>13, <1>14, <1>15, <1>17, <2>1, SwitchKeeps
<1> QED
  BY <1>16, <1>17


------------------------------------------------------------------------------
\* The requests e after an edit of the connection that keeps the tools off' switched off.
LEMMA DoubtedTyped ==
  ASSUME NEW S, NEW e \in [Errands -> ErrandRow(S)], NEW q \in Errands
  PROVE  /\ Doubted(e)[q] \in ErrandRow(S)
         /\ Doubted(e)[q].at = e[q].at /\ Doubted(e)[q].name = e[q].name /\ Doubted(e)[q].op = e[q].op
         /\ Doubted(e)[q].config = e[q].config /\ Doubted(e)[q].id = e[q].id
         /\ Doubted(e)[q].never = e[q].never
         /\ Doubted(e)[q].known => e[q].known /\ e[q].op \in off'
         /\ Doubted(e)[q].sure => e[q].sure /\ connection'.config[e[q].op] = "off"
<1>1. PICK c \in ErrandRow(S) : c = e[q]
  OBVIOUS
<1>2. PICK x \in BOOLEAN : x <=> c.known /\ c.op \in off'
  OBVIOUS
<1>3. PICK y \in BOOLEAN : y <=> c.sure /\ connection'.config[c.op] = "off"
  OBVIOUS
<1>4. PICK t : t = [c EXCEPT !.known = x, !.sure = y]
  OBVIOUS
<1>5. x = (c.known /\ c.op \in off') /\ y = (c.sure /\ connection'.config[c.op] = "off")
  BY <1>2, <1>3 DEF ErrandRow
<1>6. Doubted(e)[q] = t
  BY <1>1, <1>4, <1>5 DEF Doubted
<1>7. /\ t \in ErrandRow(S) /\ t.at = c.at /\ t.name = c.name /\ t.op = c.op /\ t.config = c.config
      /\ t.id = c.id /\ t.never = c.never /\ t.known = x /\ t.sure = y
  BY <1>4 DEF ErrandRow
<1> QED
  BY <1>1, <1>2, <1>3, <1>6, <1>7

LEMMA DoubtedKeeps ==
  ASSUME PluginConstants, PlugInv, NEW S, PluginsTyped(S), NEW r \in Errands, NEW t \in ErrandRow(S),
         errand' = Doubted([errand EXCEPT ![r] = t]), t.at = "refresh",
         t.sure => t.op \in OfferedTools /\ ~Crossed(r),
         row' \in [Names -> S], cache' = cache,
         connection' \in [id : S, enabled : BOOLEAN, config : [OfferedTools -> S]],
         \A n \in Names : On(n)' => On(n), off' \subseteq off,
         \A k \in off' : connection'.config[k] = "off", (HasConnection \/ connection.config = NoModes)'
  PROVE  PlugInv'
<1>1. PICK e \in [Errands -> ErrandRow(S)] : e = [errand EXCEPT ![r] = t]
  BY DEF PluginsTyped
<1>2. e[r] = t /\ \A q \in Errands \ {r} : e[q] = errand[q]
  BY <1>1 DEF PluginsTyped
<1>3. PICK f : f = errand'
  OBVIOUS
<1>4. f = Doubted(e)
  BY <1>1, <1>3
<1>5. f \in [Errands -> ErrandRow(S)]
  <2>1. Doubted(e) = [q \in Errands |-> Doubted(e)[q]]
    BY DEF Doubted
  <2>2. \A q \in Errands : Doubted(e)[q] \in ErrandRow(S)
    BY DoubtedTyped
  <2> QED
    BY <1>4, <2>1, <2>2
<1>6. ASSUME NEW q \in Errands
      PROVE  /\ f[q].at = e[q].at /\ f[q].name = e[q].name /\ f[q].op = e[q].op
             /\ f[q].config = e[q].config /\ f[q].id = e[q].id
             /\ f[q].never => e[q].never
             /\ f[q].known => e[q].known /\ e[q].op \in off'
             /\ f[q].sure => e[q].sure /\ connection'.config[e[q].op] = "off"
  <2>1. f[q] = Doubted(e)[q]
    BY <1>4
  <2>2. /\ Doubted(e)[q].at = e[q].at /\ Doubted(e)[q].name = e[q].name /\ Doubted(e)[q].op = e[q].op
        /\ Doubted(e)[q].config = e[q].config /\ Doubted(e)[q].id = e[q].id
        /\ Doubted(e)[q].never = e[q].never
        /\ Doubted(e)[q].known => e[q].known /\ e[q].op \in off'
        /\ Doubted(e)[q].sure => e[q].sure /\ connection'.config[e[q].op] = "off"
    BY DoubtedTyped
  <2> QED
    BY <2>1, <2>2, Zenon
<1>7. ASSUME NEW q \in Errands
      PROVE  \/ f[q].at = "refresh"
             \/ /\ f[q].at = errand[q].at /\ f[q].name = errand[q].name /\ f[q].op = errand[q].op
                /\ f[q].config = errand[q].config /\ f[q].id = errand[q].id
                /\ f[q].never => errand[q].never
                /\ f[q].at \in {"find", "cached", "load", "headers", "ran"} /\ f[q].known =>
                     errand[q].known /\ f[q].op \in off'
  <2>1. CASE q = r
    BY <1>2, <1>6, <2>1
  <2>2. CASE q # r
    <3>1. e[q] = errand[q]
      BY <1>2, <2>2
    <3> QED
      BY <1>6, <3>1
  <2> QED
    BY <2>1, <2>2
<1>8. ASSUME NEW q \in Errands, f[q].sure
      PROVE  /\ f[q].at = "refresh" /\ f[q].op \in OfferedTools /\ connection'.config[f[q].op] = "off"
             /\ SettledOff(f[q].op) \/ \A p \in Errands : ~HoldsModes(f[p])
  <2>1. e[q].sure /\ connection'.config[e[q].op] = "off" /\ f[q].op = e[q].op /\ f[q].at = e[q].at
    BY <1>6, <1>8
  <2>2. CASE q = r
    <3>1. \A p \in Errands \ {r} : ~HoldsModes(errand[p])
      BY <1>2, <2>1, <2>2 DEF Crossed, HoldsModes
    <3>2. \A p \in Errands : f[p].at = e[p].at
      BY <1>6
    <3>3. \A p \in Errands : ~HoldsModes(f[p])
      BY <1>2, <3>1, <3>2 DEF HoldsModes
    <3> QED
      BY <1>2, <2>1, <2>2, <3>3
  <2>3. CASE q # r
    <3>1. e[q] = errand[q]
      BY <1>2, <2>3
    <3>2. errand[q].at = "refresh" /\ SettledOff(errand[q].op)
      BY <2>1, <3>1 DEF PlugInv, SureOnes
    <3> QED
      BY <2>1, <3>1, <3>2 DEF SettledOff
  <2> QED
    BY <2>2, <2>3
<1> QED
  BY <1>3, <1>5, <1>7, <1>8, EveryErrand

LEMMA DeleteConnectionKeeps ==
  ASSUME PluginConstants, PlugInv, NEW r \in Errands, DeleteConnection(r)
  PROVE  PlugInv'
<1>1. PICK S : PluginsTyped(S) /\ 0 \in S
  BY PlugWidened
<1>2. PICK c \in ErrandRow(S) : c = errand[r]
  BY <1>1 DEF PluginsTyped
<1>3. PICK t : t = [c EXCEPT !.at = "refresh"]
  OBVIOUS
<1>4. {"refresh", NoValue} \subseteq S
  BY <1>1 DEF PluginsTyped, Words
<1>5. t \in ErrandRow(S) /\ t.at = "refresh" /\ t.sure = c.sure
  BY <1>3, <1>4 DEF ErrandRow
<1>6. errand' = Doubted([errand EXCEPT ![r] = t]) /\ errand[r].at = "idle"
  BY <1>2, <1>3 DEF DeleteConnection, Stands
<1>7. ~t.sure
  BY <1>2, <1>5, <1>6, NotSure
<1>8. connection' = NoConn /\ cache' = cache /\ off' = {} /\ row' = [row EXCEPT ![Server] = NoValue]
  BY DEF DeleteConnection, loadedPlugins
<1>9. NoModes \in [OfferedTools -> S]
  BY <1>4 DEF NoModes
<1>10. /\ connection' \in [id : S, enabled : BOOLEAN, config : [OfferedTools -> S]]
       /\ connection'.config = NoModes /\ connection'.enabled = FALSE
  BY <1>1, <1>8, <1>9 DEF NoConn
<1>11. row' \in [Names -> S] /\ \A n \in Names : n # Server => row'[n] = row[n]
  BY <1>1, <1>4, <1>8 DEF PluginsTyped
<1>12. \A n \in Names : On(n)' => On(n)
  BY <1>10, <1>11 DEF On, Live
<1> QED
  BY <1>1, <1>5, <1>6, <1>7, <1>8, <1>10, <1>11, <1>12, DoubtedKeeps

LEMMA EditToolKeeps ==
  ASSUME PluginConstants, PlugInv, NEW r \in Errands, NEW k \in OfferedTools, NEW mode \in Modes,
         EditTool(r, k, mode)
  PROVE  PlugInv'
<1>1. PICK S : PluginsTyped(S) /\ Idle \in ErrandRow(S)
  BY IdleTyped
<1>2. PICK sure \in BOOLEAN : sure = ~Crossed(r)
  OBVIOUS
<1>3. PICK i, t : i \in ErrandRow(S) /\ i = Idle /\ t = [i EXCEPT !.at = "refresh", !.op = k, !.sure = sure]
  BY <1>1
<1>4. k \in S /\ mode \in S /\ "refresh" \in S
  BY <1>1 DEF PluginsTyped, Words, Modes
<1>5. t \in ErrandRow(S) /\ t.at = "refresh" /\ t.op = k /\ t.sure = sure
  BY <1>2, <1>3, <1>4 DEF ErrandRow
<1>6. errand' = Doubted([errand EXCEPT ![r] = t]) /\ UNCHANGED <<row, cache>> /\ errand[r].at = "edit"
      /\ off' = off \ {k}
  BY <1>2, <1>3 DEF EditTool, Stands, loadedPlugins
<1>7. PICK d \in [OfferedTools -> S] : d = errand[r].config
  BY <1>1 DEF PluginsTyped, ErrandRow
<1>8. connection' = [connection EXCEPT !.config = [d EXCEPT ![k] = mode]]
  BY <1>7 DEF EditTool
<1>9. [d EXCEPT ![k] = mode] \in [OfferedTools -> S]
  BY <1>4
<1>10. /\ connection' \in [id : S, enabled : BOOLEAN, config : [OfferedTools -> S]]
       /\ connection'.config = [d EXCEPT ![k] = mode]
       /\ connection'.id = connection.id /\ connection'.enabled = connection.enabled
  <2>1. PICK c \in [id : S, enabled : BOOLEAN, config : [OfferedTools -> S]] : c = connection
    BY <1>1 DEF PluginsTyped
  <2> QED
    BY <1>8, <1>9, <2>1
<1>11. \A n \in Names : On(n)' => On(n)
  BY <1>6, <1>10 DEF On, Live, HasConnection
<1>12. ASSUME NEW j \in off' PROVE connection'.config[j] = "off"
  <2>1. j \in OfferedTools /\ j # k /\ d[j] = "off"
    BY <1>6, <1>7 DEF PlugInv, OffEverywhere, SettledOff, HoldsModes
  <2> QED
    BY <1>10, <2>1
<1>13. HasConnection'
  <2>1. errand[r].id > 0 /\ errand[r].id = connection.id
    BY <1>6 DEF PlugInv, Looks, EditTool
  <2> QED
    BY <1>10, <2>1 DEF HasConnection
<1> QED
  BY <1>1, <1>2, <1>5, <1>6, <1>10, <1>11, <1>12, <1>13, DoubtedKeeps DEF PluginsTyped

LEMMA DiscoverKeeps ==
  ASSUME PluginConstants, PlugInv, NEW r \in Errands, NEW tools \in SUBSET OfferedTools, Discover(r, tools)
  PROVE  PlugInv'
<1>1. PICK S : PluginsTyped(S) /\ Idle \in ErrandRow(S)
  BY IdleTyped
<1>2. PICK i \in ErrandRow(S) : i = Idle
  BY <1>1
<1>3. PICK t : t = [i EXCEPT !.at = "refresh"]
  OBVIOUS
<1>4. {"refresh", "chat", NoValue} \subseteq S
  BY <1>1 DEF PluginsTyped, Words
<1>5. t \in ErrandRow(S) /\ t.at = "refresh" /\ ~t.sure
  <2>1. i.sure = FALSE
    BY <1>2 DEF Idle
  <2> QED
    BY <1>3, <1>4, <2>1 DEF ErrandRow
<1>6. errand' = Doubted([errand EXCEPT ![r] = t]) /\ UNCHANGED <<row, cache>> /\ errand[r].at = "discover"
      /\ off' = off \cap tools
  BY <1>2, <1>3 DEF Discover, Stands, loadedPlugins
<1>7. PICK d \in [OfferedTools -> S] : d = errand[r].config
  BY <1>1 DEF PluginsTyped, ErrandRow
<1>8. PICK m : m = Merged(d, tools)
  OBVIOUS
<1>9. m \in [OfferedTools -> S] /\ \A j \in tools : d[j] = "off" => m[j] = "off"
  <2>1. NoValue # "off"
    BY DEF PluginConstants, Modes
  <2> QED
    BY <1>4, <1>8, <2>1 DEF Merged
<1>10. connection' = [connection EXCEPT !.config = m]
  BY <1>7, <1>8 DEF Discover
<1>11. /\ connection' \in [id : S, enabled : BOOLEAN, config : [OfferedTools -> S]]
       /\ connection'.config = m /\ connection'.id = connection.id /\ connection'.enabled = connection.enabled
  <2>1. PICK c \in [id : S, enabled : BOOLEAN, config : [OfferedTools -> S]] : c = connection
    BY <1>1 DEF PluginsTyped
  <2> QED
    BY <1>9, <1>10, <2>1
<1>12. \A n \in Names : On(n)' => On(n)
  BY <1>6, <1>11 DEF On, Live, HasConnection
<1>13. ASSUME NEW j \in off' PROVE connection'.config[j] = "off"
  <2>1. j \in tools /\ d[j] = "off"
    BY <1>6, <1>7 DEF PlugInv, OffEverywhere, SettledOff, HoldsModes
  <2> QED
    BY <1>9, <1>11, <2>1
<1>14. HasConnection'
  <2>1. errand[r].id > 0 /\ errand[r].id = connection.id
    BY <1>6 DEF PlugInv, Looks, Discover
  <2> QED
    BY <1>11, <2>1 DEF HasConnection
<1> QED
  BY <1>1, <1>5, <1>6, <1>11, <1>12, <1>13, <1>14, DoubtedKeeps DEF PluginsTyped


\* A fresh installation: one connection, all of its tools for chats, and nobody at work.
LEMMA PlugInvInit ==
  ASSUME PluginConstants, PluginsInit
  PROVE  PlugInv
<1>1. PICK S : S = Words \cup Names \cup OfferedTools \cup {0, 1, {}}
  OBVIOUS
<1>2. /\ Words \cup Names \cup OfferedTools \subseteq S /\ {0, 1, {}} \subseteq S
      /\ {"on", "off", "chat", "idle", NoValue} \subseteq S
  BY <1>1 DEF Words
<1>3. NoModes \in [OfferedTools -> S]
  BY <1>2 DEF NoModes
<1>4. PICK i : i = Idle
  OBVIOUS
<1>5. i \in ErrandRow(S) /\ i.at = "idle" /\ ~i.sure /\ ~i.never /\ ~i.known
  BY <1>2, <1>3, <1>4 DEF Idle, ErrandRow
<1>6. errand = [r \in Errands |-> i]
  BY <1>4 DEF PluginsInit
<1>7. errand \in [Errands -> ErrandRow(S)] /\ \A r \in Errands : errand[r] = i
  BY <1>5, <1>6
<1>8. row \in [Names -> S] /\ cache \in [Names -> [OfferedTools -> S] \cup {NoValue}]
  BY <1>2 DEF PluginsInit
<1>9. PICK modes : modes = [t \in OfferedTools |-> "chat"]
  OBVIOUS
<1>10. connection = [id |-> 1, enabled |-> TRUE, config |-> modes]
  BY <1>9 DEF PluginsInit
<1>11. modes \in [OfferedTools -> S]
  BY <1>2, <1>9
<1>12. connection \in [id : S, enabled : BOOLEAN, config : [OfferedTools -> S]] /\ connection.id = 1
  BY <1>2, <1>10, <1>11
<1>13. PluginsTyped(S)
  BY <1>2, <1>7, <1>8, <1>12 DEF PluginsTyped
<1>14. \A r \in Errands : NeverRuns(errand[r]) /\ KnownOff(errand[r]) /\ Looks(errand[r])
  BY <1>5, <1>7 DEF NeverRuns, KnownOff, Looks
<1>15. OffEverywhere /\ SureOnes
  BY <1>5, <1>7 DEF PluginsInit, OffEverywhere, SureOnes
<1>16. HasConnection
  BY <1>12 DEF HasConnection
<1> QED
  BY <1>13, <1>14, <1>15, <1>16 DEF PlugInv

LEMMA PlugInvNext ==
  ASSUME PluginConstants, PlugInv, PluginsNext
  PROVE  PlugInv'
<1>1. CASE Restart
  BY <1>1, RestartKeeps
<1>2. ASSUME NEW r \in Errands,
             \/ FullRefresh(r) \/ MergeRecords(r) \/ Sync(r) \/ DeleteConnection(r)
             \/ Begin(r, "edit") \/ Begin(r, "discover") \/ Find(r) \/ TakeCached(r) \/ Evict(r)
             \/ LoadPackage(r) \/ ReadConnection(r) \/ CacheAdapter(r)
      PROVE  PlugInv'
  <2>1. CASE FullRefresh(r)
    BY <2>1, FullRefreshKeeps
  <2>2. CASE MergeRecords(r)
    BY <2>2, MergeRecordsKeeps
  <2>3. CASE Sync(r)
    BY <2>3, SyncKeeps
  <2>4. CASE DeleteConnection(r)
    BY <2>4, DeleteConnectionKeeps
  <2>5. CASE Begin(r, "edit")
    BY <2>5, BeginKeeps
  <2>6. CASE Begin(r, "discover")
    BY <2>6, BeginKeeps
  <2>7. CASE Find(r)
    BY <2>7, FindKeeps
  <2>8. CASE TakeCached(r)
    BY <2>8, TakeCachedKeeps
  <2>9. CASE Evict(r)
    BY <2>9, EvictKeeps
  <2>10. CASE LoadPackage(r)
    BY <2>10, LoadKeeps
  <2>11. CASE ReadConnection(r)
    BY <2>11, ReadConnectionKeeps
  <2>12. CASE CacheAdapter(r)
    BY <2>12, CacheAdapterKeeps
  <2> QED
    BY <1>2, <2>1, <2>2, <2>3, <2>4, <2>5, <2>6, <2>7, <2>8, <2>9, <2>10, <2>11, <2>12
<1>3. ASSUME NEW r \in Errands,
             SyncFails(r) \/ EditRefused(r) \/ DiscoverFails(r) \/ CacheGone(r) \/ HandsOver(r)
      PROVE  PlugInv'
  BY <1>3, FinishingKeeps
<1>4. ASSUME NEW r \in Errands, NEW ok \in BOOLEAN,
             ReadRecords(r, ok) \/ WriteRows(r, ok) \/ UpdateConnection(r, ok)
      PROVE  PlugInv'
  BY <1>4, ReadRecordsKeeps, WriteRowsKeeps, UpdateConnectionKeeps
<1>5. ASSUME NEW r \in Errands, NEW t \in OfferedTools, NEW mode \in Modes, EditTool(r, t, mode)
      PROVE  PlugInv'
  BY <1>5, EditToolKeeps
<1>6. ASSUME NEW r \in Errands, NEW tools \in SUBSET OfferedTools, Discover(r, tools)
      PROVE  PlugInv'
  BY <1>6, DiscoverKeeps
<1>7. ASSUME NEW r \in Errands, NEW name \in Names, NEW op, StartChat(r, name, op) \/ StartFeed(r, name, op)
      PROVE  PlugInv'
  <2>1. PICK kind \in {"chat", "feed"} : Start(r, kind, name, op)
    BY <1>7 DEF StartChat, StartFeed
  <2> QED
    BY <2>1, StartKeeps
<1>8. ASSUME \/ \E p \in Uploaded : Upload(p)
             \/ \E name \in Names : DeletePlugin(name)
             \/ \E name \in Fed : DeleteFeed(name) \/ \E on \in BOOLEAN : SetFeed(name, on)
      PROVE  PlugInv'
  BY <1>8, PackagesKeep
<1>9. ASSUME NEW name \in Names, NEW on \in BOOLEAN, SetPluginEnabled(name, on)
      PROVE  PlugInv'
  BY <1>9, SetPluginEnabledKeeps
<1>10. ASSUME NEW on \in BOOLEAN, CreateConnection(on)
       PROVE  PlugInv'
  BY <1>10, CreateConnectionKeeps
<1> QED
  BY <1>1, <1>2, <1>3, <1>4, <1>5, <1>6, <1>7, <1>8, <1>9, <1>10 DEF PluginsNext

LEMMA PlugInvStutter ==
  ASSUME PlugInv, UNCHANGED pluginVars
  PROVE  PlugInv'
<1>1. UNCHANGED <<row, connection, cache, errand, off>>
  BY DEF pluginVars
<1>2. (\E S : PluginsTyped(S))'
  BY <1>1 DEF PlugInv, PluginsTyped
<1>3. \A r \in Errands : (NeverRuns(errand[r]) /\ KnownOff(errand[r]) /\ Looks(errand[r]))'
  BY <1>1 DEF PlugInv, NeverRuns, KnownOff, Looks, On, Live, HasConnection
<1>4. OffEverywhere' /\ SureOnes'
  BY <1>1 DEF PlugInv, OffEverywhere, SureOnes, SettledOff, HoldsModes
<1>5. (HasConnection \/ connection.config = NoModes)'
  BY <1>1 DEF PlugInv, HasConnection
<1> QED
  BY <1>2, <1>3, <1>4, <1>5 DEF PlugInv

LEMMA PlugFollows ==
  ASSUME PlugInv
  PROVE  OffStaysOff
BY DEF PlugInv, NeverRuns, KnownOff, OffStaysOff, OffIsNotRun, EditedToolIsOff, Stands

\* What an administrator has switched off does not run: no call of a plugin that was off
\* before it began and until it ends (PluginExecutor, resolve and the cache of the
\* registry), and no call of a tool begun after the edit that switched it off, whatever
\* edits, discoveries, refreshes, restarts and other calls happen in between.
THEOREM OffStaysOffHolds == ASSUME PluginConstants PROVE PluginsSpec => []OffStaysOff
<1>1. PluginsInit => PlugInv
  BY PlugInvInit
<1>2. PlugInv /\ [PluginsNext]_pluginVars => PlugInv'
  BY PlugInvNext, PlugInvStutter
<1>3. PlugInv => OffStaysOff
  BY PlugFollows
<1> QED
  BY <1>1, <1>2, <1>3, PTL DEF PluginsSpec

------------------------------------------------------------------------------
(***************************************************************************)
(* The catalog of models.  The rows are in order: whatever a configuration *)
(* names is there.  Calls have numbers of their own, only an answered one is *)
(* at its record, and the bill has nothing of a call that is under way.    *)
(***************************************************************************)
ModelRecord == [of : Providers, name : ModelNames, live : BOOLEAN, chat : BOOLEAN]
PromptRecord == [live : BOOLEAN, system : BOOLEAN, entities : SUBSET Entities]
ConfigRecord ==
  [of : Providers, name : ModelNames, prompt : Prompts \cup {Missing}, kbs : SUBSET Bases,
   given : [Bases -> Prompts \cup {Missing}], on : SUBSET Bases, active : BOOLEAN]
DoingRecord ==
  [op : {"none", "sync", "create", "update"} \cup PointerRoles,
   at : {"none", "read", "add", "prompts", "load", "rest", "client", "out", "record"} \cup PointerRoles,
   cfg : Configurations \cup {Missing}, of : Providers \cup {Missing}, row : ModelRows \cup {Missing},
   call : Nat, input : Inputs \cup {Missing}, saw : SUBSET PointerRoles, names : SUBSET ModelNames,
   active : BOOLEAN, wire : BOOLEAN]

\* What the marker of nothing is not, and what updates may ask.
CatalogConstants ==
  /\ Managed \subseteq Providers
  /\ Missing \notin Prompts /\ Missing \notin PromptRecord
  /\ \A in \in Inputs : /\ in.of \in Providers \cup {Missing} /\ in.kbs \in (SUBSET Bases) \cup {Missing}
                       /\ in.assign \in Prompts \cup {Missing} /\ in.active \in BOOLEAN

CatalogTyped ==
  /\ provider \in [Providers -> {"none", "active", "inactive", "gone"}]
  /\ models \in [ModelRows -> ModelRecord \cup {Missing}]
  /\ configs \in [Configurations -> ConfigRecord \cup {Missing}]
  /\ prompt \in [Prompts -> PromptRecord \cup {Missing}]
  /\ pointer \in [PointerRoles -> Configurations \cup {Missing}]

\* What is named is there.
Rests(cfg) ==
  /\ Stored(cfg.of) /\ (cfg.prompt # Missing => prompt[cfg.prompt] # Missing)
  /\ \A k \in cfg.on : cfg.given[k] # Missing /\ prompt[cfg.given[k]] # Missing
CatalogStands == CatalogTyped /\ \A c \in Configurations : Configured(c) => Rests(configs[c])

CallKnows(d) ==
  /\ d.op = "sync" => d.of \in Providers
  /\ d.op \in {"create", "update"} => d.cfg \in Configurations /\ d.input \in Inputs
  /\ d.op \in PointerRoles <=> d.call > 0
  /\ d.at = "record" => d.op \in PointerRoles

CallsStand ==
  /\ doing \in [CatalogRequests -> DoingRecord] /\ \A r \in CatalogRequests : CallKnows(doing[r])
  /\ counts \in [edits : Nat, calls : Nat]
  /\ \A r \in CatalogRequests : doing[r].call <= counts.calls
  /\ \A r, q \in CatalogRequests : doing[r].call = doing[q].call /\ doing[r].call > 0 => r = q
  /\ \A r \in CatalogRequests : doing[r].at = "record" => \E a \in answered : a.call = doing[r].call
  /\ \A a \in answered :
       /\ a.call \in Nat /\ 0 < a.call /\ a.call <= counts.calls
       /\ \A r \in CatalogRequests : doing[r].call = a.call =>
            doing[r].at = "record" /\ a.row = doing[r].row /\ a.wire = doing[r].wire
  /\ \A u \in llmUsage :
       /\ u.call \in Nat /\ 0 < u.call /\ u.call <= counts.calls
       /\ \A r \in CatalogRequests : doing[r].call # u.call
  /\ AnswersBilled

CatInv == CatalogStands /\ CallsStand

------------------------------------------------------------------------------
\* The rows, as far as one of their tables moves.
LEMMA CatalogStill ==
  ASSUME CatalogStands, UNCHANGED <<provider, models, configs, prompt, pointer>>
  PROVE  CatalogStands'
BY DEF CatalogStands, CatalogTyped, Configured, Rests, Stored

LEMMA ModelsMove ==
  ASSUME CatalogStands, UNCHANGED <<provider, configs, prompt>>,
         models' \in [ModelRows -> ModelRecord \cup {Missing}],
         pointer' \in [PointerRoles -> Configurations \cup {Missing}]
  PROVE  CatalogStands'
BY DEF CatalogStands, CatalogTyped, Configured, Rests, Stored

LEMMA ProvidersMove ==
  ASSUME CatalogStands, UNCHANGED <<models, configs, prompt, pointer>>,
         provider' \in [Providers -> {"none", "active", "inactive", "gone"}],
         \A p \in Providers : Stored(p) => Stored(p)'
  PROVE  CatalogStands'
<1>1. CatalogTyped'
  BY DEF CatalogStands, CatalogTyped
<1>2. ASSUME NEW c \in Configurations, Configured(c) PROVE Rests(configs[c])'
  <2>1. configs[c] \in ConfigRecord /\ Rests(configs[c])
    BY <1>2 DEF CatalogStands, CatalogTyped, Configured
  <2>2. Stored(configs[c].of)'
    BY <2>1 DEF Rests, ConfigRecord, Stored
  <2> QED
    BY <2>1, <2>2 DEF Rests, Stored
<1> QED
  BY <1>1, <1>2 DEF CatalogStands, Configured

LEMMA PromptsMove ==
  ASSUME CatalogStands, UNCHANGED <<provider, models, configs, pointer>>,
         prompt' \in [Prompts -> PromptRecord \cup {Missing}],
         \A p \in Prompts : prompt[p] # Missing => prompt'[p] # Missing
  PROVE  CatalogStands'
<1>1. CatalogTyped'
  BY DEF CatalogStands, CatalogTyped
<1>2. ASSUME NEW c \in Configurations, Configured(c) PROVE Rests(configs[c])'
  <2>1. configs[c] \in ConfigRecord /\ Rests(configs[c])
    BY <1>2 DEF CatalogStands, CatalogTyped, Configured
  <2>2. configs[c].prompt # Missing => prompt'[configs[c].prompt] # Missing
    BY <2>1 DEF Rests, ConfigRecord
  <2>3. ASSUME NEW k \in configs[c].on
        PROVE  configs[c].given[k] # Missing /\ prompt'[configs[c].given[k]] # Missing
    <3>1. k \in Bases /\ configs[c].given[k] \in Prompts \cup {Missing}
      BY <2>1 DEF ConfigRecord
    <3>2. configs[c].given[k] # Missing /\ prompt[configs[c].given[k]] # Missing
      BY <2>1, <2>3 DEF Rests
    <3> QED
      BY <3>1, <3>2
  <2> QED
    BY <2>1, <2>2, <2>3 DEF Rests, Stored
<1> QED
  BY <1>1, <1>2 DEF CatalogStands, Configured

\* One configuration is written.
LEMMA ConfigMoves ==
  ASSUME CatalogStands, NEW c \in Configurations, NEW d \in ConfigRecord, Rests(d),
         configs' = [configs EXCEPT ![c] = d], UNCHANGED <<provider, models, prompt>>,
         pointer' \in [PointerRoles -> Configurations \cup {Missing}]
  PROVE  CatalogStands'
<1>1. configs \in [Configurations -> ConfigRecord \cup {Missing}]
  BY DEF CatalogStands, CatalogTyped
<1>2. /\ configs' \in [Configurations -> ConfigRecord \cup {Missing}] /\ configs'[c] = d
      /\ \A b \in Configurations \ {c} : configs'[b] = configs[b]
  BY <1>1
<1>3. CatalogTyped'
  BY <1>2 DEF CatalogStands, CatalogTyped
<1>4. ASSUME NEW b \in Configurations, Configured(b)' PROVE Rests(configs[b])'
  <2>1. Rests(configs'[b])
    BY <1>2, <1>4 DEF CatalogStands, Configured
  <2> QED
    BY <2>1 DEF Rests, Stored
<1> QED
  BY <1>3, <1>4 DEF CatalogStands

------------------------------------------------------------------------------
\* The calls, when nobody begins, answers or records one.
LEMMA CallsStill ==
  ASSUME CallsStand, UNCHANGED <<doing, llmUsage, answered>>,
         counts' \in [edits : Nat, calls : Nat], counts'.calls = counts.calls
  PROVE  CallsStand'
<1>1. AnswersBilled'
  BY DEF CallsStand, AnswersBilled
<1>2. \A r \in CatalogRequests : CallKnows(doing[r])'
  BY DEF CallsStand, CallKnows
<1>3. (\A r \in CatalogRequests : doing[r].at = "record" => \E a \in answered : a.call = doing[r].call)'
  BY DEF CallsStand
<1>4. (\A a \in answered :
        /\ a.call \in Nat /\ 0 < a.call /\ a.call <= counts.calls
        /\ \A r \in CatalogRequests : doing[r].call = a.call =>
             doing[r].at = "record" /\ a.row = doing[r].row /\ a.wire = doing[r].wire)'
  BY DEF CallsStand
<1>5. (\A u \in llmUsage :
        /\ u.call \in Nat /\ 0 < u.call /\ u.call <= counts.calls
        /\ \A r \in CatalogRequests : doing[r].call # u.call)'
  BY DEF CallsStand
<1> QED
  BY <1>1, <1>2, <1>3, <1>4, <1>5 DEF CallsStand

LEMMA CallsStep ==
  ASSUME CallsStand, NEW r \in CatalogRequests, NEW d \in DoingRecord, doing' = [doing EXCEPT ![r] = d],
         UNCHANGED <<llmUsage, answered>>, counts' \in [edits : Nat, calls : Nat],
         counts'.calls = counts.calls, doing[r].at # "record", d.at # "record", CallKnows(d),
         d.call \in {0, doing[r].call}
  PROVE  CallsStand'
<1>1. doing \in [CatalogRequests -> DoingRecord]
  BY DEF CallsStand
<1>2. /\ doing' \in [CatalogRequests -> DoingRecord] /\ doing'[r] = d
      /\ \A q \in CatalogRequests \ {r} : doing'[q] = doing[q]
  BY <1>1
<1>3. \A q \in CatalogRequests : doing[q].call \in Nat /\ doing'[q].call \in Nat /\ counts.calls \in Nat
  BY <1>1, <1>2 DEF DoingRecord, CallsStand
<1>4. \A q \in CatalogRequests : CallKnows(doing'[q])
  BY <1>2 DEF CallsStand
<1>5. \A q \in CatalogRequests : doing'[q].call <= counts.calls
  BY <1>2, <1>3 DEF CallsStand
<1>6. \A p, q \in CatalogRequests : doing'[p].call = doing'[q].call /\ doing'[p].call > 0 => p = q
  BY <1>2, <1>3 DEF CallsStand
<1>7. \A q \in CatalogRequests : doing'[q].at = "record" => \E a \in answered : a.call = doing'[q].call
  BY <1>2 DEF CallsStand
<1>8. ASSUME NEW a \in answered
      PROVE  /\ a.call \in Nat /\ 0 < a.call /\ a.call <= counts.calls /\ doing[r].call # a.call
             /\ \A q \in CatalogRequests : doing'[q].call = a.call =>
                  doing'[q].at = "record" /\ a.row = doing'[q].row /\ a.wire = doing'[q].wire
  BY <1>2, <1>3 DEF CallsStand
<1>9. ASSUME NEW u \in llmUsage
      PROVE  /\ u.call \in Nat /\ 0 < u.call /\ u.call <= counts.calls
             /\ \A q \in CatalogRequests : doing'[q].call # u.call
  BY <1>2, <1>3 DEF CallsStand
<1>10. AnswersBilled'
  <2>1. ASSUME NEW a \in answered
        PROVE  \/ \E q \in CatalogRequests : doing'[q].call = a.call
               \/ {u \in llmUsage : u.call = a.call} = {UsageRow(a.call, a.row, TRUE, Resolved(a.row, a.wire))}
    <3>1. CASE \E q \in CatalogRequests : doing[q].call = a.call
      BY <1>2, <1>8, <3>1
    <3>2. CASE ~\E q \in CatalogRequests : doing[q].call = a.call
      BY <3>2 DEF CallsStand, AnswersBilled
    <3> QED
      BY <3>1, <3>2
  <2> QED
    BY <2>1 DEF CallsStand, AnswersBilled
<1> QED
  BY <1>2, <1>4, <1>5, <1>6, <1>7, <1>8, <1>9, <1>10 DEF CallsStand, CallKnows

LEMMA EditCounts ==
  ASSUME CallsStand, Edit
  PROVE  counts' \in [edits : Nat, calls : Nat] /\ counts'.calls = counts.calls
BY DEF CallsStand, Edit

------------------------------------------------------------------------------
\* Edits of providers, models, prompts and pointers.
LEMMA ProviderEdited ==
  ASSUME CatInv, NEW p \in Providers, CreateProvider(p) \/ UpdateProvider(p)
  PROVE  CatInv'
<1>1. provider \in [Providers -> {"none", "active", "inactive", "gone"}]
  BY DEF CatInv, CatalogStands, CatalogTyped
<1>2. PICK s \in {"active", "inactive"} : provider' = [provider EXCEPT ![p] = s]
  BY DEF CreateProvider, UpdateProvider
<1>3. /\ provider' \in [Providers -> {"none", "active", "inactive", "gone"}]
      /\ \A q \in Providers : Stored(q) => Stored(q)'
  BY <1>1, <1>2 DEF Stored
<1>4. Edit /\ UNCHANGED <<models, configs, prompt, pointer, doing, llmUsage, answered>>
  BY DEF CreateProvider, UpdateProvider
<1>5. CatalogStands'
  BY <1>3, <1>4, ProvidersMove DEF CatInv
<1>6. CallsStand'
  BY <1>4, EditCounts, CallsStill DEF CatInv
<1> QED
  BY <1>5, <1>6 DEF CatInv

\* The configurations go with their provider.
LEMMA DeleteProviderKeeps ==
  ASSUME CatInv, NEW p \in Providers, DeleteProvider(p)
  PROVE  CatInv'
<1>1. CatalogTyped
  BY DEF CatInv, CatalogStands
<1>2. /\ provider' = [provider EXCEPT ![p] = "gone"] /\ configs' = Cascaded(p) /\ Edit
      /\ UNCHANGED <<prompt, pointer, doing, llmUsage, answered>>
  BY DEF DeleteProvider, KeptUsage
<1>3. models' \in [ModelRows -> ModelRecord \cup {Missing}]
  BY <1>1 DEF CatalogTyped, DeleteProvider, SetModels
<1>4. /\ provider' \in [Providers -> {"none", "active", "inactive", "gone"}]
      /\ \A q \in Providers \ {p} : provider'[q] = provider[q]
  BY <1>1, <1>2 DEF CatalogTyped
<1>5. ASSUME NEW c \in Configurations
      PROVE  /\ configs'[c] \in {configs[c], Missing}
             /\ configs'[c] # Missing => configs[c] # Missing /\ configs'[c] = configs[c] /\ configs[c].of # p
  BY <1>2 DEF Cascaded
<1>6. configs' \in [Configurations -> ConfigRecord \cup {Missing}]
  BY <1>1, <1>2 DEF CatalogTyped, Cascaded
<1>7. ASSUME NEW c \in Configurations, Configured(c)' PROVE Rests(configs[c])'
  <2>1. Configured(c) /\ configs'[c] = configs[c] /\ configs[c].of # p
    BY <1>5, <1>7 DEF Configured
  <2>2. Rests(configs[c]) /\ configs[c] \in ConfigRecord
    BY <1>1, <2>1 DEF CatInv, CatalogStands, CatalogTyped, Configured
  <2>3. provider'[configs[c].of] = provider[configs[c].of]
    BY <1>4, <2>1, <2>2 DEF ConfigRecord
  <2> QED
    BY <1>2, <2>1, <2>2, <2>3 DEF Rests, Stored
<1>8. CatalogTyped'
  BY <1>1, <1>2, <1>3, <1>4, <1>6 DEF CatalogTyped
<1>9. CatalogStands'
  BY <1>7, <1>8 DEF CatalogStands
<1>10. CallsStand'
  BY <1>2, EditCounts, CallsStill DEF CatInv
<1> QED
  BY <1>9, <1>10 DEF CatInv

LEMMA ModelEdited ==
  ASSUME CatInv, \/ \E p \in Providers, m \in ModelRows, n \in ModelNames, chat \in BOOLEAN : CreateModel(p, m, n, chat)
                 \/ \E m \in ModelRows : DisableModel(m)
  PROVE  CatInv'
<1>1. models \in [ModelRows -> ModelRecord \cup {Missing}]
  BY DEF CatInv, CatalogStands, CatalogTyped
<1>2. PICK m \in ModelRows, d \in ModelRecord : SetModels({m}, d)
  <2>1. CASE \E p \in Providers, m \in ModelRows, n \in ModelNames, chat \in BOOLEAN : CreateModel(p, m, n, chat)
    <3>1. PICK p \in Providers, m \in ModelRows, n \in ModelNames, chat \in BOOLEAN : CreateModel(p, m, n, chat)
      BY <2>1
    <3>2. NewModel(p, n, chat) \in ModelRecord
      BY DEF NewModel, ModelRecord
    <3> QED
      BY <3>1, <3>2 DEF CreateModel
  <2>2. CASE \E m \in ModelRows : DisableModel(m)
    <3>1. PICK m \in ModelRows : DisableModel(m)
      BY <2>2
    <3>2. [models[m] EXCEPT !.live = FALSE] \in ModelRecord
      BY <1>1, <3>1 DEF DisableModel, ModelRecord
    <3> QED
      BY <3>1, <3>2 DEF DisableModel
  <2> QED
    BY <2>1, <2>2
<1>3. models' \in [ModelRows -> ModelRecord \cup {Missing}]
  BY <1>1, <1>2 DEF SetModels
<1>4. Edit /\ UNCHANGED <<provider, configs, prompt, pointer, doing, llmUsage, answered>>
  BY DEF CreateModel, DisableModel
<1>5. CatalogStands'
  BY <1>3, <1>4, ModelsMove DEF CatInv, CatalogStands, CatalogTyped
<1>6. CallsStand'
  BY <1>4, EditCounts, CallsStill DEF CatInv
<1> QED
  BY <1>5, <1>6 DEF CatInv

LEMMA PromptEdited ==
  ASSUME CatalogConstants, CatInv, NEW p \in Prompts,
         \/ CreatePrompt(p) \/ UpdatePrompt(p) \/ CpUpsertPrompt(p)
         \/ \E e \in Entities : AssignPrompt(p, e) \/ UnassignPrompt(p, e)
  PROVE  CatInv'
<1>1. prompt \in [Prompts -> PromptRecord \cup {Missing}]
  BY DEF CatInv, CatalogStands, CatalogTyped
<1>2. Edit /\ UNCHANGED <<provider, models, configs, pointer, doing, llmUsage, answered>>
  BY DEF CreatePrompt, UpdatePrompt, CpUpsertPrompt, AssignPrompt, UnassignPrompt
<1>3. PICK d \in PromptRecord : prompt' = [prompt EXCEPT ![p] = d]
  <2>1. CASE CreatePrompt(p)
    <3>1. NewPrompt \in PromptRecord
      BY DEF NewPrompt, PromptRecord
    <3> QED
      BY <2>1, <3>1 DEF CreatePrompt
  <2>2. CASE UpdatePrompt(p)
    <3>1. prompt[p] \in PromptRecord
      BY <1>1, <2>2 DEF UpdatePrompt, Editable
    <3>2. PICK a \in PromptRecord : a = prompt[p]
      BY <3>1
    <3>3. [a EXCEPT !.live = ~a.live] \in PromptRecord
      BY DEF PromptRecord
    <3>4. prompt' = [prompt EXCEPT ![p] = [a EXCEPT !.live = ~a.live]]
      BY <1>1, <2>2, <3>2 DEF UpdatePrompt
    <3> QED
      BY <3>3, <3>4
  <2>3. CASE CpUpsertPrompt(p)
    <3>1. PICK s \in SUBSET Entities : s = IF prompt[p] = Missing THEN {} ELSE prompt[p].entities
      BY <1>1 DEF PromptRecord
    <3>2. [live |-> TRUE, system |-> TRUE, entities |-> s] \in PromptRecord
      BY DEF PromptRecord
    <3>3. prompt' = [prompt EXCEPT ![p] = [live |-> TRUE, system |-> TRUE, entities |-> s]]
      BY <1>1, <2>3, <3>1 DEF CpUpsertPrompt
    <3> QED
      BY <3>2, <3>3
  <2>4. CASE \E e \in Entities : AssignPrompt(p, e) \/ UnassignPrompt(p, e)
    <3>1. PICK e \in Entities : AssignPrompt(p, e) \/ UnassignPrompt(p, e)
      BY <2>4
    <3>2. prompt[p] \in PromptRecord
      BY <1>1, <3>1 DEF AssignPrompt, UnassignPrompt
    <3>3. PICK a \in PromptRecord : a = prompt[p]
      BY <3>2
    <3>4. PICK s \in SUBSET Entities : prompt' = [prompt EXCEPT ![p] = [a EXCEPT !.entities = s]]
      BY <1>1, <3>1, <3>3 DEF AssignPrompt, UnassignPrompt, PromptRecord
    <3>5. [a EXCEPT !.entities = s] \in PromptRecord
      BY DEF PromptRecord
    <3> QED
      BY <3>4, <3>5
  <2> QED
    BY <2>1, <2>2, <2>3, <2>4
<1>4. d # Missing
  BY DEF CatalogConstants
<1>5. /\ prompt' \in [Prompts -> PromptRecord \cup {Missing}]
      /\ \A q \in Prompts : prompt[q] # Missing => prompt'[q] # Missing
  BY <1>1, <1>3, <1>4
<1>6. CatalogStands'
  BY <1>2, <1>5, PromptsMove DEF CatInv
<1>7. CallsStand'
  BY <1>2, EditCounts, CallsStill DEF CatInv
<1> QED
  BY <1>6, <1>7 DEF CatInv

\* The configurations forget a prompt that is deleted.
LEMMA DeletePromptKeeps ==
  ASSUME CatalogConstants, CatInv, NEW p \in Prompts, DeletePrompt(p)
  PROVE  CatInv'
<1>1. CatalogTyped
  BY DEF CatInv, CatalogStands
<1>2. /\ prompt' = [prompt EXCEPT ![p] = Missing] /\ configs' = [c \in Configurations |-> Without(c, p)]
      /\ Edit /\ UNCHANGED <<provider, models, pointer, doing, llmUsage, answered>>
  BY DEF DeletePrompt
<1>3. /\ prompt' \in [Prompts -> PromptRecord \cup {Missing}]
      /\ \A q \in Prompts \ {p} : prompt'[q] = prompt[q]
  BY <1>1, <1>2 DEF CatalogTyped
<1>4. ASSUME NEW c \in Configurations, configs[c] # Missing
      PROVE  \E b \in ConfigRecord : b = Without(c, p) /\ Rests(b)'
  <2>1. PICK a \in ConfigRecord : a = configs[c]
    BY <1>1, <1>4 DEF CatalogTyped
  <2>2. PICK g : g = [k \in Bases |-> IF a.given[k] = p THEN Missing ELSE a.given[k]]
    OBVIOUS
  <2>3. PICK d : d = IF a.prompt = p THEN Missing ELSE a.prompt
    OBVIOUS
  <2>4. PICK s : s = {k \in a.on : a.given[k] # p}
    OBVIOUS
  <2>5. PICK b : b = [a EXCEPT !.prompt = d, !.given = g, !.on = s]
    OBVIOUS
  <2>6. Without(c, p) = b
    BY <1>4, <2>1, <2>2, <2>3, <2>4, <2>5 DEF Without
  <2>7. g \in [Bases -> Prompts \cup {Missing}] /\ d \in Prompts \cup {Missing} /\ s \in SUBSET Bases
    BY <2>2, <2>3, <2>4 DEF ConfigRecord
  <2>8. b \in ConfigRecord /\ b.prompt = d /\ b.given = g /\ b.on = s /\ b.of = a.of
    BY <2>5, <2>7 DEF ConfigRecord
  <2>9. Rests(a)
    BY <1>4, <2>1 DEF CatInv, CatalogStands, Configured
  <2>10. d # Missing => prompt'[d] # Missing
    BY <1>3, <2>3, <2>7, <2>9 DEF Rests
  <2>11. ASSUME NEW k \in s PROVE g[k] # Missing /\ prompt'[g[k]] # Missing
    <3>1. k \in a.on /\ k \in Bases /\ a.given[k] # p /\ g[k] = a.given[k] /\ a.given[k] \in Prompts \cup {Missing}
      BY <2>2, <2>4, <2>7, <2>11 DEF ConfigRecord
    <3>2. a.given[k] # Missing /\ prompt[a.given[k]] # Missing
      BY <2>9, <3>1 DEF Rests
    <3> QED
      BY <1>3, <3>1, <3>2
  <2>12. Stored(b.of)'
    BY <1>2, <2>8, <2>9 DEF Rests, Stored
  <2>13. b.prompt # Missing => prompt'[b.prompt] # Missing
    BY <2>8, <2>10
  <2>14. \A k \in b.on : b.given[k] # Missing /\ prompt'[b.given[k]] # Missing
    BY <2>8, <2>11
  <2>15. Rests(b)'
    BY <2>12, <2>13, <2>14 DEF Rests
  <2> QED
    BY <2>6, <2>8, <2>15
<1>5. ASSUME NEW c \in Configurations
      PROVE  /\ configs'[c] \in ConfigRecord \cup {Missing}
             /\ configs'[c] # Missing => Rests(configs[c])'
  <2>1. CASE configs[c] = Missing
    BY <1>2, <2>1 DEF Without
  <2>2. CASE configs[c] # Missing
    <3>1. PICK b \in ConfigRecord : b = Without(c, p) /\ Rests(b)'
      BY <1>4, <2>2
    <3>2. configs'[c] = b
      BY <1>2, <3>1
    <3> QED
      BY <3>1, <3>2 DEF Rests, Stored
  <2> QED
    BY <2>1, <2>2
<1>6. configs' \in [Configurations -> ConfigRecord \cup {Missing}]
  BY <1>2, <1>5
<1>7. CatalogStands'
  BY <1>1, <1>2, <1>3, <1>5, <1>6 DEF CatalogStands, CatalogTyped, Configured
<1>8. CallsStand'
  BY <1>2, EditCounts, CallsStill DEF CatInv
<1> QED
  BY <1>7, <1>8 DEF CatInv

------------------------------------------------------------------------------
\* What is written to a configuration is in order.
LEMMA AssignedRests ==
  ASSUME CatalogConstants, NEW a \in ConfigRecord, Rests(a), NEW k \in Bases, NEW p, MayAssign(a, k, p)
  PROVE  Assigned(a, k, p) \in ConfigRecord /\ Rests(Assigned(a, k, p))
<1>1. p \in Prompts /\ prompt[p] # Missing /\ p # Missing
  BY DEF MayAssign, ActivePrompts, WrittenPrompts, CatalogConstants
<1>2. PICK g : g = [a.given EXCEPT ![k] = p]
  OBVIOUS
<1>3. /\ g \in [Bases -> Prompts \cup {Missing}] /\ g[k] = p
      /\ \A j \in Bases \ {k} : g[j] = a.given[j]
  BY <1>1, <1>2 DEF ConfigRecord
<1>4. PICK s : s = a.on \cup {k}
  OBVIOUS
<1>5. s \in SUBSET Bases
  BY <1>4 DEF ConfigRecord
<1>6. PICK b : b = [a EXCEPT !.given = g, !.on = s]
  OBVIOUS
<1>7. b \in ConfigRecord /\ b.of = a.of /\ b.prompt = a.prompt /\ b.given = g /\ b.on = s
  BY <1>3, <1>5, <1>6 DEF ConfigRecord
<1>8. Assigned(a, k, p) = b
  BY <1>2, <1>4, <1>6 DEF Assigned
<1>9. ASSUME NEW j \in b.on PROVE b.given[j] # Missing /\ prompt[b.given[j]] # Missing
  BY <1>1, <1>3, <1>4, <1>5, <1>7, <1>9 DEF Rests
<1>10. Rests(b)
  BY <1>7, <1>9 DEF Rests
<1> QED
  BY <1>7, <1>8, <1>10

LEMMA NewRests ==
  ASSUME NEW p \in Providers, Stored(p), NEW n \in ModelNames, NEW d \in WrittenPrompts \cup {Missing},
         NEW kbs \in SUBSET Bases, NEW active \in BOOLEAN
  PROVE  NewConfig(p, n, d, kbs, active) \in ConfigRecord /\ Rests(NewConfig(p, n, d, kbs, active))
<1>1. PICK g : g = [k \in Bases |-> Missing]
  OBVIOUS
<1>2. PICK b : b = [of |-> p, name |-> n, prompt |-> d, kbs |-> kbs, given |-> g, on |-> {}, active |-> active]
  OBVIOUS
<1>3. NewConfig(p, n, d, kbs, active) = b
  BY <1>1, <1>2 DEF NewConfig
<1>4. g \in [Bases -> Prompts \cup {Missing}] /\ d \in Prompts \cup {Missing}
  BY <1>1 DEF WrittenPrompts
<1>5. b \in ConfigRecord /\ b.of = p /\ b.prompt = d /\ b.on = {}
  BY <1>2, <1>4 DEF ConfigRecord
<1>6. Rests(b)
  BY <1>5 DEF Rests, WrittenPrompts
<1> QED
  BY <1>3, <1>5, <1>6

LEMMA MovedRests ==
  ASSUME CatalogConstants, NEW a \in ConfigRecord, Rests(a), NEW in \in Inputs,
         in.of = Missing \/ Stored(in.of)
  PROVE  Moved(a, in) \in ConfigRecord /\ Rests(Moved(a, in))
<1>1. PICK p : p = IF in.of = Missing THEN a.of ELSE in.of
  OBVIOUS
<1>2. PICK kbs : kbs = Attached(in, a.kbs)
  OBVIOUS
<1>3. PICK s : s = IF in.assign = Missing THEN a.on ELSE {}
  OBVIOUS
<1>4. PICK b : b = [a EXCEPT !.of = p, !.kbs = kbs, !.on = s]
  OBVIOUS
<1>5. Moved(a, in) = b
  BY <1>1, <1>2, <1>3, <1>4 DEF Moved
<1>6. p \in Providers /\ kbs \in SUBSET Bases /\ s \subseteq a.on /\ s \in SUBSET Bases
  BY <1>1, <1>2, <1>3 DEF CatalogConstants, ConfigRecord, Attached
<1>7. b \in ConfigRecord /\ b.of = p /\ b.prompt = a.prompt /\ b.given = a.given /\ b.on = s
  BY <1>4, <1>6 DEF ConfigRecord
<1>8. Stored(p)
  BY <1>1 DEF Rests
<1>9. Rests(b)
  BY <1>6, <1>7, <1>8 DEF Rests
<1> QED
  BY <1>5, <1>7, <1>9

\* A pointer is moved or taken away.
LEMMA PointerTyped ==
  ASSUME CatalogStands, NEW k \in PointerRoles, NEW c \in Configurations, SetRole(k, c) \/ ClearRole(k)
  PROVE  pointer' \in [PointerRoles -> Configurations \cup {Missing}]
BY DEF CatalogStands, CatalogTyped, SetRole, ClearRole

LEMMA PointerEdited ==
  ASSUME CatInv, NEW k \in PointerRoles,
         (\E c \in Configurations : SetSideCallConfig(k, c)) \/ ClearSideCallConfig(k)
  PROVE  CatInv'
<1>1. Edit /\ UNCHANGED <<provider, models, configs, prompt, doing, llmUsage, answered>>
  BY DEF SetSideCallConfig, ClearSideCallConfig
<1>2. pointer' \in [PointerRoles -> Configurations \cup {Missing}]
  BY DEF CatInv, CatalogStands, CatalogTyped, SetSideCallConfig, ClearSideCallConfig, SetRole, ClearRole
<1>3. CatalogStands'
  BY <1>1, <1>2, ModelsMove DEF CatInv, CatalogStands, CatalogTyped
<1>4. CallsStand'
  BY <1>1, EditCounts, CallsStill DEF CatInv
<1> QED
  BY <1>3, <1>4 DEF CatInv

LEMMA ConfigEdited ==
  ASSUME CatalogConstants, CatInv, NEW c \in Configurations,
         \/ \E k \in Bases : RemoveKbPrompt(c, k) \/ \E p \in Prompts : AssignKbPrompt(c, k, p)
         \/ \E p \in Providers, n \in ModelNames, d \in Prompts \cup {Missing}, roles \in {{}, PointerRoles} :
              CpUpsertConfig(c, p, n, d, roles)
  PROVE  CatInv'
<1>1. configs \in [Configurations -> ConfigRecord \cup {Missing}]
  BY DEF CatInv, CatalogStands, CatalogTyped
<1>2. configs[c] # Missing => configs[c] \in ConfigRecord /\ Rests(configs[c])
  BY <1>1 DEF CatInv, CatalogStands, Configured
<1>3. Edit /\ UNCHANGED <<provider, models, prompt, doing, llmUsage, answered>>
  BY DEF RemoveKbPrompt, AssignKbPrompt, CpUpsertConfig
<1>4. pointer' \in [PointerRoles -> Configurations \cup {Missing}]
  BY DEF CatInv, CatalogStands, CatalogTyped, RemoveKbPrompt, AssignKbPrompt, CpUpsertConfig
<1>5. \E b \in ConfigRecord : Rests(b) /\ configs' = [configs EXCEPT ![c] = b]
  <2>1. ASSUME NEW k \in Bases, RemoveKbPrompt(c, k)
        PROVE  \E b \in ConfigRecord : Rests(b) /\ configs' = [configs EXCEPT ![c] = b]
    <3>1. PICK a \in ConfigRecord : a = configs[c] /\ Rests(a)
      BY <1>2, <2>1 DEF RemoveKbPrompt, Configured
    <3>2. PICK s : s = a.on \ {k}
      OBVIOUS
    <3>3. PICK b : b = [a EXCEPT !.on = s]
      OBVIOUS
    <3>4. b \in ConfigRecord /\ b.of = a.of /\ b.prompt = a.prompt /\ b.given = a.given /\ b.on = s
      BY <3>2, <3>3 DEF ConfigRecord
    <3>5. Rests(b)
      BY <3>1, <3>2, <3>4 DEF Rests
    <3>6. configs' = [configs EXCEPT ![c] = b]
      BY <1>1, <2>1, <3>1, <3>2, <3>3 DEF RemoveKbPrompt
    <3> QED
      BY <3>4, <3>5, <3>6
  <2>2. ASSUME NEW k \in Bases, NEW p \in Prompts, AssignKbPrompt(c, k, p)
        PROVE  \E b \in ConfigRecord : Rests(b) /\ configs' = [configs EXCEPT ![c] = b]
    <3>1. PICK a \in ConfigRecord : a = configs[c] /\ Rests(a)
      BY <1>2, <2>2 DEF AssignKbPrompt, Configured
    <3>2. PICK b : b = Assigned(a, k, p)
      OBVIOUS
    <3>3. MayAssign(a, k, p)
      BY <2>2, <3>1 DEF AssignKbPrompt
    <3>4. b \in ConfigRecord /\ Rests(b)
      BY <3>1, <3>2, <3>3, AssignedRests
    <3>5. configs' = [configs EXCEPT ![c] = b]
      BY <1>1, <2>2, <3>1, <3>2 DEF AssignKbPrompt
    <3> QED
      BY <3>4, <3>5
  <2>3. ASSUME NEW p \in Providers, NEW n \in ModelNames, NEW d \in Prompts \cup {Missing}, NEW roles,
               CpUpsertConfig(c, p, n, d, roles)
        PROVE  \E b \in ConfigRecord : Rests(b) /\ configs' = [configs EXCEPT ![c] = b]
    <3>1. Stored(p) /\ d \in WrittenPrompts \cup {Missing}
      BY <2>3 DEF CpUpsertConfig, ActiveProvider, Stored
    <3>2. CASE configs[c] = Missing
      <4>1. PICK b : b = NewConfig(p, n, d, {}, TRUE)
        OBVIOUS
      <4>2. b \in ConfigRecord /\ Rests(b)
        BY <3>1, <4>1, NewRests
      <4>3. configs' = [configs EXCEPT ![c] = b]
        BY <1>1, <2>3, <3>2, <4>1 DEF CpUpsertConfig
      <4> QED
        BY <4>2, <4>3
    <3>3. CASE configs[c] # Missing
      <4>1. PICK a \in ConfigRecord : a = configs[c] /\ Rests(a)
        BY <1>2, <3>3
      <4>2. PICK b : b = [a EXCEPT !.of = p, !.name = n, !.prompt = d]
        OBVIOUS
      <4>3. b \in ConfigRecord /\ b.of = p /\ b.prompt = d /\ b.given = a.given /\ b.on = a.on
        BY <4>2 DEF ConfigRecord
      <4>4. Rests(b)
        BY <3>1, <4>1, <4>3 DEF Rests, WrittenPrompts
      <4>5. configs' = [configs EXCEPT ![c] = b]
        BY <1>1, <2>3, <3>3, <4>1, <4>2 DEF CpUpsertConfig
      <4> QED
        BY <4>3, <4>4, <4>5
    <3> QED
      BY <3>2, <3>3
  <2> QED
    BY <2>1, <2>2, <2>3
<1>6. CatalogStands'
  BY <1>3, <1>4, <1>5, ConfigMoves DEF CatInv
<1>7. CallsStand'
  BY <1>3, EditCounts, CallsStill DEF CatInv
<1> QED
  BY <1>6, <1>7 DEF CatInv

LEMMA DeleteConfigKeeps ==
  ASSUME CatInv, NEW c \in Configurations, DeleteConfig(c)
  PROVE  CatInv'
<1>1. CatalogTyped
  BY DEF CatInv, CatalogStands
<1>2. configs' = [configs EXCEPT ![c] = Missing] /\ Edit
      /\ UNCHANGED <<provider, models, prompt, pointer, doing, llmUsage, answered>>
  BY DEF DeleteConfig
<1>3. /\ configs' \in [Configurations -> ConfigRecord \cup {Missing}]
      /\ \A b \in Configurations : configs'[b] # Missing => configs'[b] = configs[b]
  BY <1>1, <1>2 DEF CatalogTyped
<1>4. ASSUME NEW b \in Configurations, Configured(b)' PROVE Rests(configs[b])'
  <2>1. configs'[b] = configs[b] /\ Rests(configs[b])
    BY <1>3, <1>4 DEF CatInv, CatalogStands, Configured
  <2> QED
    BY <1>2, <2>1 DEF Rests, Stored
<1>5. CatalogStands'
  BY <1>1, <1>2, <1>3, <1>4 DEF CatalogStands, CatalogTyped
<1>6. CallsStand'
  BY <1>2, EditCounts, CallsStill DEF CatInv
<1> QED
  BY <1>5, <1>6 DEF CatInv

------------------------------------------------------------------------------
\* The requests.
LEMMA RestingTyped ==
  \E i \in DoingRecord : i = Resting /\ i.op = "none" /\ i.at = "none" /\ i.call = 0
<1>1. PICK i : i = Resting
  OBVIOUS
<1>2. i \in DoingRecord /\ i.op = "none" /\ i.at = "none" /\ i.call = 0
  BY <1>1 DEF Resting, DoingRecord
<1> QED
  BY <1>1, <1>2

LEMMA CallsFinish ==
  ASSUME CallsStand, NEW r \in CatalogRequests, Becomes(r, Resting), UNCHANGED <<llmUsage, answered>>,
         counts' \in [edits : Nat, calls : Nat], counts'.calls = counts.calls, doing[r].at # "record"
  PROVE  CallsStand'
<1>1. PICK i \in DoingRecord : i = Resting /\ i.op = "none" /\ i.at = "none" /\ i.call = 0
  BY RestingTyped
<1>2. doing' = [doing EXCEPT ![r] = i] /\ CallKnows(i)
  BY <1>1 DEF Becomes, CallKnows, PointerRoles
<1> QED
  BY <1>1, <1>2, CallsStep

LEMMA SyncModelsKeeps ==
  ASSUME CatInv, NEW r \in CatalogRequests, NEW p \in Providers, SyncModels(r, p)
  PROVE  CatInv'
<1>1. PICK i \in DoingRecord : i = Resting /\ i.op = "none" /\ i.at = "none" /\ i.call = 0
  BY RestingTyped
<1>2. PICK d : d = [i EXCEPT !.op = "sync", !.at = "read", !.of = p]
  OBVIOUS
<1>3. d \in DoingRecord /\ d.op = "sync" /\ d.at = "read" /\ d.of = p /\ d.call = 0
  BY <1>1, <1>2 DEF DoingRecord
<1>4. CallKnows(d)
  BY <1>3 DEF CallKnows, PointerRoles
<1>5. doing' = [doing EXCEPT ![r] = d] /\ doing[r] = i /\ Edit
      /\ UNCHANGED <<provider, models, configs, prompt, pointer, llmUsage, answered>>
  BY <1>1, <1>2 DEF SyncModels, Becomes
<1>6. CallsStand'
  BY <1>1, <1>3, <1>4, <1>5, EditCounts, CallsStep DEF CatInv
<1>7. CatalogStands'
  BY <1>5, CatalogStill DEF CatInv
<1> QED
  BY <1>6, <1>7 DEF CatInv

LEMMA CountsStay ==
  ASSUME CallsStand, UNCHANGED counts
  PROVE  counts' \in [edits : Nat, calls : Nat] /\ counts'.calls = counts.calls
BY DEF CallsStand

LEMMA FinishingRequests ==
  ASSUME CatInv, NEW r \in CatalogRequests, DiscoveryFails(r) \/ RefuseUpdate(r)
  PROVE  CatInv'
<1>1. /\ Becomes(r, Resting) /\ UNCHANGED <<provider, models, configs, prompt, pointer, llmUsage, answered>>
      /\ UNCHANGED counts /\ doing[r].op \in {"sync", "update"}
  BY DEF DiscoveryFails, RefuseUpdate, Proceeds
<1>2. doing[r].at # "record"
  BY <1>1 DEF CatInv, CallsStand, CallKnows, PointerRoles
<1>3. CallsStand'
  BY <1>1, <1>2, CountsStay, CallsFinish DEF CatInv
<1>4. CatalogStands'
  BY <1>1, CatalogStill DEF CatInv
<1> QED
  BY <1>3, <1>4 DEF CatInv

LEMMA ReadExistingKeeps ==
  ASSUME CatInv, NEW r \in CatalogRequests, ReadExisting(r)
  PROVE  CatInv'
<1>1. PICK c \in DoingRecord : c = doing[r]
  BY DEF CatInv, CallsStand
<1>2. PICK n : n = {models[m].name : m \in LiveModels(doing[r].of)}
  OBVIOUS
<1>3. n \in SUBSET ModelNames
  <2>1. ASSUME NEW m \in LiveModels(doing[r].of) PROVE models[m].name \in ModelNames
    BY DEF LiveModels, ModelsOf, CatInv, CatalogStands, CatalogTyped, ModelRecord
  <2> QED
    BY <1>2, <2>1
<1>4. PICK d : d = [c EXCEPT !.at = "add", !.names = n]
  OBVIOUS
<1>5. d \in DoingRecord /\ d.op = c.op /\ d.at = "add" /\ d.of = c.of /\ d.call = c.call
  BY <1>3, <1>4 DEF DoingRecord
<1>6. doing' = [doing EXCEPT ![r] = d] /\ c.op = "sync" /\ c.at = "read" /\ UNCHANGED counts
      /\ UNCHANGED <<provider, models, configs, prompt, pointer, llmUsage, answered>>
  BY <1>1, <1>2, <1>4 DEF ReadExisting, Becomes, Proceeds
<1>7. CallKnows(c)
  BY <1>1 DEF CatInv, CallsStand
<1>8. CallKnows(d)
  BY <1>5, <1>6, <1>7 DEF CallKnows, PointerRoles
<1>9. CallsStand'
  BY <1>1, <1>5, <1>6, <1>8, CountsStay, CallsStep DEF CatInv
<1>10. CatalogStands'
  BY <1>6, CatalogStill DEF CatInv
<1> QED
  BY <1>9, <1>10 DEF CatInv

LEMMA AddDiscoveredKeeps ==
  ASSUME CatInv, NEW r \in CatalogRequests, AddDiscovered(r)
  PROVE  CatInv'
<1>1. /\ Becomes(r, Resting) /\ UNCHANGED <<provider, configs, prompt, pointer, llmUsage, answered>>
      /\ UNCHANGED counts /\ doing[r].op = "sync" /\ doing[r].at = "add"
  BY DEF AddDiscovered, Proceeds
<1>2. PICK p \in Providers : p = doing[r].of
  BY <1>1 DEF CatInv, CallsStand, CallKnows
<1>3. models \in [ModelRows -> ModelRecord \cup {Missing}]
  BY DEF CatInv, CatalogStands, CatalogTyped
<1>4. ASSUME NEW new \in SUBSET ModelNames, NEW f \in [new -> ModelRows]
      PROVE  AddedAs(p, f) \in [ModelRows -> ModelRecord \cup {Missing}]
  <2>1. ASSUME NEW m \in ModelRows, \E n \in DOMAIN f : f[n] = m
        PROVE  NewModel(p, CHOOSE n \in DOMAIN f : f[n] = m, TRUE) \in ModelRecord
    <3>1. PICK x : x = CHOOSE n \in DOMAIN f : f[n] = m
      OBVIOUS
    <3>2. x \in ModelNames
      BY <2>1, <3>1
    <3>3. NewModel(p, x, TRUE) \in ModelRecord
      BY <3>2 DEF NewModel, ModelRecord
    <3> QED
      BY <3>1, <3>3
  <2> QED
    BY <1>3, <2>1 DEF AddedAs
<1>5. models' \in [ModelRows -> ModelRecord \cup {Missing}]
  <2>1. CASE UNCHANGED models
    BY <1>3, <2>1
  <2>2. CASE ~UNCHANGED models
    <3>1. PICK f \in [ModelNames \ doing[r].names -> {m \in ModelRows : models[m] = Missing}] :
            models' = AddedAs(doing[r].of, f)
      BY <2>2 DEF AddDiscovered
    <3> QED
      BY <1>2, <1>4, <3>1
  <2> QED
    BY <2>1, <2>2
<1>6. CallsStand'
  BY <1>1, CountsStay, CallsFinish DEF CatInv
<1>7. CatalogStands'
  BY <1>1, <1>5, ModelsMove DEF CatInv, CatalogStands, CatalogTyped
<1> QED
  BY <1>6, <1>7 DEF CatInv

\* An update or a creation goes on: its request, and at most one configuration.
LEMMA CallsAdvance ==
  ASSUME CallsStand, NEW r \in CatalogRequests, NEW c \in DoingRecord, c = doing[r], NEW at,
         c.op \in {"create", "update"}, at \in {"side", "profiling", "rest"}, UNCHANGED counts,
         Becomes(r, [c EXCEPT !.at = at]), UNCHANGED <<llmUsage, answered>>
  PROVE  CallsStand'
<1>1. PICK d : d = [c EXCEPT !.at = at]
  OBVIOUS
<1>2. /\ d \in DoingRecord /\ d.op = c.op /\ d.at = at /\ d.of = c.of /\ d.call = c.call /\ d.cfg = c.cfg
      /\ d.input = c.input
  BY <1>1 DEF DoingRecord, PointerRoles
<1>3. CallKnows(c)
  BY DEF CallsStand
<1>4. CallKnows(d) /\ c.at # "record"
  BY <1>2, <1>3 DEF CallKnows, PointerRoles
<1>5. doing' = [doing EXCEPT ![r] = d]
  BY <1>1 DEF Becomes
<1> QED
  BY <1>2, <1>4, <1>5, CountsStay, CallsStep

LEMMA CreateConfigKeeps ==
  ASSUME CatalogConstants, CatInv, NEW r \in CatalogRequests, NEW c \in Configurations, NEW p \in Providers,
         NEW n \in ModelNames, NEW d \in Prompts \cup {Missing}, NEW in \in Inputs,
         CreateConfig(r, c, p, n, d, in)
  PROVE  CatInv'
<1>1. PICK i \in DoingRecord : i = Resting /\ i.op = "none" /\ i.at = "none" /\ i.call = 0
  BY RestingTyped
<1>2. PICK e : e = [i EXCEPT !.op = "create", !.at = "prompts", !.cfg = c, !.input = in]
  OBVIOUS
<1>3. /\ e \in DoingRecord /\ e.op = "create" /\ e.at = "prompts" /\ e.cfg = c /\ e.input = in
      /\ e.call = 0
  BY <1>1, <1>2 DEF DoingRecord
<1>4. CallKnows(e)
  BY <1>3 DEF CallKnows, PointerRoles
<1>5. doing' = [doing EXCEPT ![r] = e] /\ doing[r] = i /\ Edit
      /\ UNCHANGED <<provider, models, prompt, pointer, llmUsage, answered>>
  BY <1>1, <1>2 DEF CreateConfig, Becomes
<1>6. CallsStand'
  BY <1>1, <1>3, <1>4, <1>5, EditCounts, CallsStep DEF CatInv
<1>7. PICK kbs : kbs = Attached(in, {})
  OBVIOUS
<1>8. kbs \in SUBSET Bases /\ in.active \in BOOLEAN
  BY <1>7 DEF CatalogConstants, Attached
<1>9. PICK a : a = NewConfig(p, n, d, kbs, in.active)
  OBVIOUS
<1>10. Stored(p) /\ d \in WrittenPrompts \cup {Missing}
  BY DEF CreateConfig, ActiveProvider, Stored, ActivePrompts
<1>11. a \in ConfigRecord /\ Rests(a)
  BY <1>8, <1>9, <1>10, NewRests
<1>12. configs' = [configs EXCEPT ![c] = a]
  BY <1>7, <1>9 DEF CreateConfig
<1>13. CatalogStands'
  BY <1>5, <1>11, <1>12, ConfigMoves DEF CatInv, CatalogStands, CatalogTyped
<1> QED
  BY <1>6, <1>13 DEF CatInv

LEMMA OpenUpdateKeeps ==
  ASSUME CatInv, NEW r \in CatalogRequests, NEW c \in Configurations, NEW in \in Inputs, OpenUpdate(r, c, in)
  PROVE  CatInv'
<1>1. PICK i \in DoingRecord : i = Resting /\ i.op = "none" /\ i.at = "none" /\ i.call = 0
  BY RestingTyped
<1>2. PICK s \in SUBSET PointerRoles : s = {k \in PointerRoles : Designated(k) = c}
  OBVIOUS
<1>3. PICK e : e = [i EXCEPT !.op = "update", !.at = "load", !.cfg = c, !.input = in, !.saw = s]
  OBVIOUS
<1>4. e \in DoingRecord /\ e.op = "update" /\ e.at = "load" /\ e.cfg = c /\ e.input = in /\ e.call = 0
  BY <1>1, <1>2, <1>3 DEF DoingRecord
<1>5. CallKnows(e)
  BY <1>4 DEF CallKnows, PointerRoles
<1>6. doing' = [doing EXCEPT ![r] = e] /\ doing[r] = i /\ Edit
      /\ UNCHANGED <<provider, models, configs, prompt, pointer, llmUsage, answered>>
  BY <1>1, <1>2, <1>3 DEF OpenUpdate, Becomes
<1>7. CallsStand'
  BY <1>1, <1>4, <1>5, <1>6, EditCounts, CallsStep DEF CatInv
<1>8. CatalogStands'
  BY <1>6, CatalogStill DEF CatInv
<1> QED
  BY <1>7, <1>8 DEF CatInv

LEMMA RequestHolds ==
  ASSUME CatInv, NEW r \in CatalogRequests, doing[r].op \in {"create", "update"}
  PROVE  \E c \in DoingRecord : c = doing[r] /\ c.cfg \in Configurations /\ c.input \in Inputs
BY DEF CatInv, CallsStand, CallKnows

LEMMA AssignNewKeeps ==
  ASSUME CatalogConstants, CatInv, NEW r \in CatalogRequests, AssignNew(r)
  PROVE  CatInv'
<1>1. doing[r].op = "create" /\ UNCHANGED counts /\ UNCHANGED <<provider, models, prompt, pointer, llmUsage, answered>>
      /\ Becomes(r, [doing[r] EXCEPT !.at = "side"])
  BY DEF AssignNew, Proceeds
<1>2. PICK d \in DoingRecord : d = doing[r] /\ d.cfg \in Configurations /\ d.input \in Inputs
  BY <1>1, RequestHolds
<1>3. CallsStand'
  BY <1>1, <1>2, CallsAdvance DEF CatInv
<1>4. PICK c \in Configurations : c = d.cfg
  BY <1>2
<1>5. PICK p : p = d.input.assign
  OBVIOUS
<1>6. CASE p # Missing /\ Configured(c) /\ \E k \in Bases : MayAssign(configs[c], k, p)
  <2>1. PICK k \in Bases : k = CHOOSE j \in Bases : MayAssign(configs[c], j, p)
    BY <1>6
  <2>2. MayAssign(configs[c], k, p)
    BY <1>6, <2>1
  <2>3. configs \in [Configurations -> ConfigRecord \cup {Missing}]
    BY DEF CatInv, CatalogStands, CatalogTyped
  <2>4. PICK a \in ConfigRecord : a = configs[c] /\ Rests(a)
    BY <1>6, <2>3 DEF CatInv, CatalogStands, Configured
  <2>5. PICK b : b = Assigned(a, k, p)
    OBVIOUS
  <2>6. b \in ConfigRecord /\ Rests(b)
    BY <2>2, <2>4, <2>5, AssignedRests
  <2>7. configs' = [configs EXCEPT ![c] = b]
    BY <1>2, <1>4, <1>5, <1>6, <2>1, <2>3, <2>4, <2>5 DEF AssignNew
  <2>8. CatalogStands'
    BY <1>1, <2>6, <2>7, ConfigMoves DEF CatInv, CatalogStands, CatalogTyped
  <2> QED
    BY <1>3, <2>8 DEF CatInv
<1>7. CASE ~(p # Missing /\ Configured(c) /\ \E k \in Bases : MayAssign(configs[c], k, p))
  <2>1. UNCHANGED configs
    BY <1>2, <1>4, <1>5, <1>7 DEF AssignNew
  <2>2. CatalogStands'
    BY <1>1, <2>1, CatalogStill DEF CatInv
  <2> QED
    BY <1>3, <2>2 DEF CatInv
<1> QED
  BY <1>6, <1>7

\* What an acceptable update has moved is in order.
LEMMA AcceptedRests ==
  ASSUME CatalogConstants, CatInv, NEW r \in CatalogRequests, doing[r].op = "update", Acceptable(r)
  PROVE  \E b \in ConfigRecord : b = Moved(configs[doing[r].cfg], doing[r].input) /\ Rests(b)
<1>1. PICK d \in DoingRecord : d = doing[r] /\ d.cfg \in Configurations /\ d.input \in Inputs
  BY RequestHolds
<1>2. PICK a \in ConfigRecord : a = configs[d.cfg] /\ Rests(a)
  BY <1>1 DEF Acceptable, Configured, CatInv, CatalogStands, CatalogTyped
<1>3. d.input.of = Missing \/ Stored(d.input.of)
  BY <1>1 DEF Acceptable, ProviderAfter, ActiveProvider, Stored
<1>4. Moved(a, d.input) \in ConfigRecord /\ Rests(Moved(a, d.input))
  BY <1>1, <1>2, <1>3, MovedRests
<1> QED
  BY <1>1, <1>2, <1>4

LEMMA WriteAssignmentsKeeps ==
  ASSUME CatalogConstants, CatInv, NEW r \in CatalogRequests, WriteAssignments(r)
  PROVE  CatInv'
<1>1. doing[r].op = "update" /\ UNCHANGED counts /\ UNCHANGED <<provider, models, prompt, pointer, llmUsage, answered>>
      /\ Becomes(r, [doing[r] EXCEPT !.at = "rest"]) /\ Acceptable(r)
  BY DEF WriteAssignments, Proceeds
<1>2. PICK d \in DoingRecord : d = doing[r] /\ d.cfg \in Configurations /\ d.input \in Inputs
  BY <1>1, RequestHolds
<1>3. CallsStand'
  BY <1>1, <1>2, CallsAdvance DEF CatInv
<1>4. PICK moved \in ConfigRecord : moved = Moved(configs[d.cfg], d.input) /\ Rests(moved)
  BY <1>1, <1>2, AcceptedRests
<1>5. PICK p : p = d.input.assign
  OBVIOUS
<1>6. \E k \in Bases : MayAssign(moved, k, p)
  BY <1>2, <1>4, <1>5 DEF WriteAssignments
<1>7. PICK k \in Bases : k = CHOOSE j \in Bases : MayAssign(moved, j, p)
  BY <1>6
<1>8. MayAssign(moved, k, p)
  BY <1>6, <1>7
<1>9. PICK b : b = Assigned(moved, k, p)
  OBVIOUS
<1>10. b \in ConfigRecord /\ Rests(b)
  BY <1>4, <1>8, <1>9, AssignedRests
<1>11. configs' = [configs EXCEPT ![d.cfg] = b]
  BY <1>2, <1>4, <1>5, <1>7, <1>9 DEF WriteAssignments
<1>12. CatalogStands'
  BY <1>1, <1>2, <1>10, <1>11, ConfigMoves DEF CatInv, CatalogStands, CatalogTyped
<1> QED
  BY <1>3, <1>12 DEF CatInv

LEMMA WriteFieldsKeeps ==
  ASSUME CatalogConstants, CatInv, NEW r \in CatalogRequests, WriteFields(r)
  PROVE  CatInv'
<1>1. doing[r].op = "update" /\ UNCHANGED counts /\ UNCHANGED <<provider, models, prompt, pointer, llmUsage, answered>>
      /\ Becomes(r, [doing[r] EXCEPT !.at = "side"]) /\ Configured(doing[r].cfg)
  BY DEF WriteFields, Proceeds
<1>2. PICK d \in DoingRecord : d = doing[r] /\ d.cfg \in Configurations /\ d.input \in Inputs
  BY <1>1, RequestHolds
<1>3. CallsStand'
  BY <1>1, <1>2, CallsAdvance DEF CatInv
<1>4. configs \in [Configurations -> ConfigRecord \cup {Missing}]
  BY DEF CatInv, CatalogStands, CatalogTyped
<1>5. PICK active \in BOOLEAN : active = d.input.active
  BY <1>2 DEF CatalogConstants
<1>6. PICK a \in ConfigRecord : Rests(a) /\ configs' = [configs EXCEPT ![d.cfg] = [a EXCEPT !.active = active]]
  <2>1. CASE NoneToAssign(r) /\ configs' = [configs EXCEPT
               ![d.cfg] = [Moved(configs[d.cfg], d.input) EXCEPT !.active = d.input.active]]
    <3>1. Acceptable(r)
      BY <2>1 DEF NoneToAssign
    <3>2. PICK b \in ConfigRecord : b = Moved(configs[d.cfg], d.input) /\ Rests(b)
      BY <1>1, <1>2, <3>1, AcceptedRests
    <3> QED
      BY <1>5, <2>1, <3>2
  <2>2. CASE configs' = [configs EXCEPT ![d.cfg].active = d.input.active]
    <3>1. PICK b \in ConfigRecord : b = configs[d.cfg] /\ Rests(b)
      BY <1>1, <1>2, <1>4 DEF CatInv, CatalogStands, Configured
    <3>2. configs' = [configs EXCEPT ![d.cfg] = [b EXCEPT !.active = active]]
      BY <1>2, <1>4, <1>5, <2>2, <3>1
    <3> QED
      BY <3>1, <3>2
  <2> QED
    BY <1>2, <2>1, <2>2 DEF WriteFields
<1>7. PICK b : b = [a EXCEPT !.active = active]
  OBVIOUS
<1>8. b \in ConfigRecord /\ b.of = a.of /\ b.prompt = a.prompt /\ b.given = a.given /\ b.on = a.on
  BY <1>7 DEF ConfigRecord
<1>9. Rests(b)
  BY <1>6, <1>8 DEF Rests
<1>10. CatalogStands'
  BY <1>1, <1>2, <1>6, <1>7, <1>8, <1>9, ConfigMoves DEF CatInv, CatalogStands, CatalogTyped
<1> QED
  BY <1>3, <1>10 DEF CatInv

LEMMA ApplyRoleKeeps ==
  ASSUME CatInv, NEW r \in CatalogRequests, ApplyRole(r)
  PROVE  CatInv'
<1>1. /\ doing[r].op \in {"create", "update"} /\ doing[r].at \in PointerRoles /\ UNCHANGED counts
      /\ UNCHANGED <<provider, models, configs, prompt, llmUsage, answered>>
      /\ Becomes(r, IF doing[r].at = "side" THEN [doing[r] EXCEPT !.at = After("side")] ELSE Resting)
      /\ \/ SetRole(doing[r].at, doing[r].cfg) \/ ClearRole(doing[r].at) \/ UNCHANGED pointer
  BY DEF ApplyRole, Proceeds
<1>2. PICK d \in DoingRecord : d = doing[r] /\ d.cfg \in Configurations /\ d.input \in Inputs
  BY <1>1, RequestHolds
<1>3. pointer' \in [PointerRoles -> Configurations \cup {Missing}]
  <2>1. CASE UNCHANGED pointer
    BY <2>1 DEF CatInv, CatalogStands, CatalogTyped
  <2>2. CASE SetRole(d.at, d.cfg) \/ ClearRole(d.at)
    BY <1>1, <1>2, <2>2, PointerTyped DEF CatInv
  <2> QED
    BY <1>1, <1>2, <2>1, <2>2
<1>4. CatalogStands'
  BY <1>1, <1>3, ModelsMove DEF CatInv, CatalogStands, CatalogTyped
<1>5. CallsStand'
  <2>1. CASE doing[r].at = "side"
    BY <1>1, <1>2, <2>1, CallsAdvance DEF CatInv, After
  <2>2. CASE doing[r].at # "side"
    BY <1>1, <2>2, CountsStay, CallsFinish DEF CatInv, PointerRoles
  <2> QED
    BY <2>1, <2>2
<1> QED
  BY <1>4, <1>5 DEF CatInv

------------------------------------------------------------------------------
\* The calls.
LEMMA ResolvedIsThere ==
  ASSUME CatalogStands, NEW k \in PointerRoles, RoleConfig(k) # Missing
  PROVE  \E c \in Configurations : c = RoleConfig(k) /\ configs[c] \in ConfigRecord
<1>1. \A j \in PointerRoles : Designated(j) # Missing => Designated(j) \in Configurations /\ Configured(Designated(j))
  BY DEF CatalogStands, CatalogTyped, Designated, InUse
<1>2. PICK c \in Configurations : c = RoleConfig(k) /\ Configured(c)
  BY <1>1 DEF RoleConfig, ForProfiling, PointerRoles
<1> QED
  BY <1>2 DEF CatalogStands, CatalogTyped, Configured

LEMMA BeginCallKeeps ==
  ASSUME CatInv, NEW r \in CatalogRequests, NEW k \in PointerRoles, BeginCall(r, k)
  PROVE  CatInv'
<1>1. PICK i \in DoingRecord : i = Resting /\ i.op = "none" /\ i.at = "none" /\ i.call = 0
  BY RestingTyped
<1>2. PICK c \in Configurations : c = RoleConfig(k) /\ configs[c] \in ConfigRecord
  BY ResolvedIsThere DEF BeginCall, CatInv
<1>3. PICK of \in Providers, name \in ModelNames : of = configs[c].of /\ name = configs[c].name
  BY <1>2 DEF ConfigRecord
<1>4. PICK on \in BOOLEAN : on = ActiveProvider(of)
  BY DEF ActiveProvider
<1>5. PICK n \in Nat : n = counts.calls /\ counts \in [edits : Nat, calls : Nat]
  BY DEF CatInv, CallsStand
<1>6. PICK d : d = [i EXCEPT !.op = k, !.at = "client", !.cfg = c, !.of = of, !.names = {name},
                             !.active = on, !.call = n + 1]
  OBVIOUS
<1>7. d \in DoingRecord /\ d.op = k /\ d.at = "client" /\ d.of = of /\ d.call = n + 1
  <2>1. PICK ns \in SUBSET ModelNames : ns = {name}
    OBVIOUS
  <2>2. PICK next \in Nat : next = n + 1
    OBVIOUS
  <2>3. PICK b : b = [i EXCEPT !.op = k, !.at = "client", !.cfg = c, !.of = of]
    OBVIOUS
  <2>4. b \in DoingRecord /\ b.op = k /\ b.at = "client" /\ b.of = of
    BY <1>1, <1>3, <2>3 DEF DoingRecord
  <2>5. PICK e : e = [b EXCEPT !.names = ns, !.active = on]
    OBVIOUS
  <2>6. e \in DoingRecord /\ e.op = b.op /\ e.at = b.at /\ e.of = b.of
    BY <2>4, <2>5 DEF DoingRecord
  <2>7. d = [e EXCEPT !.call = next]
    BY <1>1, <1>6, <2>1, <2>2, <2>3, <2>5 DEF DoingRecord
  <2> QED
    BY <2>2, <2>4, <2>6, <2>7 DEF DoingRecord
<1>8. doing' = [doing EXCEPT ![r] = d] /\ doing[r] = i /\ counts' = [counts EXCEPT !.calls = n + 1]
      /\ UNCHANGED <<provider, models, configs, prompt, pointer, llmUsage, answered>>
  BY <1>1, <1>2, <1>3, <1>4, <1>5, <1>6 DEF BeginCall, Becomes
<1>9. doing \in [CatalogRequests -> DoingRecord]
  BY DEF CatInv, CallsStand
<1>10. /\ doing' \in [CatalogRequests -> DoingRecord] /\ doing'[r] = d
       /\ \A q \in CatalogRequests \ {r} : doing'[q] = doing[q]
  BY <1>7, <1>8, <1>9
<1>11. counts' \in [edits : Nat, calls : Nat] /\ counts'.calls = n + 1
  BY <1>5, <1>8
<1>12. CallKnows(d)
  BY <1>7 DEF CallKnows, PointerRoles
<1>13. \A q \in CatalogRequests : CallKnows(doing'[q])
  BY <1>10, <1>12 DEF CatInv, CallsStand
<1>14. \A q \in CatalogRequests : doing[q].call \in Nat /\ doing[q].call <= n
  BY <1>5, <1>9 DEF CatInv, CallsStand, DoingRecord
<1>15. \A q \in CatalogRequests : doing'[q].call <= n + 1
  BY <1>7, <1>10, <1>14
<1>16. \A p, q \in CatalogRequests : doing'[p].call = doing'[q].call /\ doing'[p].call > 0 => p = q
  BY <1>7, <1>10, <1>14 DEF CatInv, CallsStand
<1>17. \A q \in CatalogRequests : doing'[q].at = "record" => \E a \in answered : a.call = doing'[q].call
  BY <1>7, <1>10 DEF CatInv, CallsStand
<1>18. ASSUME NEW a \in answered
       PROVE  /\ a.call \in Nat /\ 0 < a.call /\ a.call <= n + 1 /\ d.call # a.call /\ i.call # a.call
              /\ \A q \in CatalogRequests : doing'[q].call = a.call =>
                   doing'[q].at = "record" /\ a.row = doing'[q].row /\ a.wire = doing'[q].wire
  <2>1. a.call \in Nat /\ 0 < a.call /\ a.call <= n
    BY <1>5 DEF CatInv, CallsStand
  <2>2. d.call # a.call /\ i.call # a.call
    BY <1>1, <1>7, <2>1
  <2>3. ASSUME NEW q \in CatalogRequests, doing'[q].call = a.call
        PROVE  doing'[q].at = "record" /\ a.row = doing'[q].row /\ a.wire = doing'[q].wire
    BY <1>10, <2>2, <2>3 DEF CatInv, CallsStand
  <2> QED
    BY <2>1, <2>2, <2>3
<1>19. ASSUME NEW u \in llmUsage
       PROVE  /\ u.call \in Nat /\ 0 < u.call /\ u.call <= n + 1
              /\ \A q \in CatalogRequests : doing'[q].call # u.call
  <2>1. u.call \in Nat /\ 0 < u.call /\ u.call <= n
    BY <1>5 DEF CatInv, CallsStand
  <2> QED
    BY <1>7, <1>10, <2>1 DEF CatInv, CallsStand
<1>20. AnswersBilled'
  <2>1. ASSUME NEW a \in answered
        PROVE  \/ \E q \in CatalogRequests : doing'[q].call = a.call
               \/ {u \in llmUsage : u.call = a.call} = {UsageRow(a.call, a.row, TRUE, Resolved(a.row, a.wire))}
    <3>1. CASE \E q \in CatalogRequests : doing[q].call = a.call
      BY <1>8, <1>10, <1>18, <3>1
    <3>2. CASE ~\E q \in CatalogRequests : doing[q].call = a.call
      BY <3>2 DEF CatInv, CallsStand, AnswersBilled
    <3> QED
      BY <3>1, <3>2
  <2> QED
    BY <1>8, <2>1 DEF CatInv, CallsStand, AnswersBilled
<1>21. CallsStand'
  BY <1>8, <1>10, <1>11, <1>13, <1>15, <1>16, <1>17, <1>18, <1>19, <1>20 DEF CallsStand, CallKnows
<1>22. CatalogStands'
  BY <1>8, CatalogStill DEF CatInv
<1> QED
  BY <1>21, <1>22 DEF CatInv

LEMMA FindModelKeeps ==
  ASSUME CatInv, NEW r \in CatalogRequests, FindModel(r)
  PROVE  CatInv'
<1>1. PICK c \in DoingRecord : c = doing[r] /\ CallKnows(c)
  BY DEF CatInv, CallsStand
<1>2. c.op \in PointerRoles /\ c.at = "client" /\ UNCHANGED counts
      /\ UNCHANGED <<provider, models, configs, prompt, pointer, llmUsage, answered>>
  BY <1>1 DEF FindModel
<1>3. CallsStand'
  <2>1. ASSUME NEW m \in Servable(r), Becomes(r, [c EXCEPT !.at = "out", !.row = m])
        PROVE  CallsStand'
    <3>1. m \in ModelRows
      BY DEF Servable, LiveModels, ModelsOf
    <3>2. PICK d : d = [c EXCEPT !.at = "out", !.row = m]
      OBVIOUS
    <3>3. d \in DoingRecord /\ d.op = c.op /\ d.at = "out" /\ d.call = c.call /\ d.row = m
      BY <3>1, <3>2 DEF DoingRecord
    <3>4. CallKnows(d)
      BY <1>1, <1>2, <3>3 DEF CallKnows, PointerRoles
    <3>5. doing' = [doing EXCEPT ![r] = d]
      BY <2>1, <3>2 DEF Becomes
    <3> QED
      BY <1>1, <1>2, <3>3, <3>4, <3>5, CountsStay, CallsStep DEF CatInv
  <2>2. CASE Becomes(r, Resting)
    BY <1>1, <1>2, <2>2, CountsStay, CallsFinish DEF CatInv
  <2> QED
    BY <1>1, <2>1, <2>2 DEF FindModel
<1>4. CatalogStands'
  BY <1>2, CatalogStill DEF CatInv
<1> QED
  BY <1>3, <1>4 DEF CatInv

LEMMA AnswerCallKeeps ==
  ASSUME CatInv, NEW r \in CatalogRequests, NEW wire \in BOOLEAN, AnswerCall(r, wire)
  PROVE  CatInv'
<1>1. PICK c \in DoingRecord : c = doing[r] /\ CallKnows(c)
  BY DEF CatInv, CallsStand
<1>2. PICK new : new = [call |-> c.call, row |-> c.row, wire |-> wire]
  OBVIOUS
<1>3. PICK d : d = [c EXCEPT !.at = "record", !.wire = wire]
  OBVIOUS
<1>4. d \in DoingRecord /\ d.op = c.op /\ d.at = "record" /\ d.call = c.call /\ d.row = c.row /\ d.wire = wire
  BY <1>1, <1>3 DEF DoingRecord
<1>5. /\ c.op \in PointerRoles /\ c.at = "out" /\ doing' = [doing EXCEPT ![r] = d]
      /\ answered' = answered \cup {new}
      /\ UNCHANGED <<counts, provider, models, configs, prompt, pointer, llmUsage>>
  BY <1>1, <1>2, <1>3 DEF AnswerCall, Becomes
<1>6. doing \in [CatalogRequests -> DoingRecord]
  BY DEF CatInv, CallsStand
<1>7. /\ doing' \in [CatalogRequests -> DoingRecord] /\ doing'[r] = d
      /\ \A q \in CatalogRequests \ {r} : doing'[q] = doing[q]
  BY <1>4, <1>5, <1>6
<1>8. \A q \in CatalogRequests : doing'[q].call = doing[q].call
  BY <1>1, <1>4, <1>7
<1>9. c.call \in Nat /\ c.call > 0 /\ c.call <= counts.calls
  BY <1>1, <1>5 DEF CatInv, CallsStand, CallKnows, DoingRecord
<1>10. CallKnows(d)
  BY <1>1, <1>4, <1>5 DEF CallKnows, PointerRoles
<1>11. \A q \in CatalogRequests : CallKnows(doing'[q])
  BY <1>7, <1>10 DEF CatInv, CallsStand
<1>12. ASSUME NEW q \in CatalogRequests, doing'[q].at = "record"
       PROVE  \E a \in answered' : a.call = doing'[q].call
  <2>1. CASE q = r
    BY <1>2, <1>4, <1>5, <1>7, <2>1
  <2>2. CASE q # r
    BY <1>5, <1>7, <1>12, <2>2 DEF CatInv, CallsStand
  <2> QED
    BY <2>1, <2>2
<1>13. ASSUME NEW a \in answered'
       PROVE  /\ a.call \in Nat /\ 0 < a.call /\ a.call <= counts.calls
              /\ \A q \in CatalogRequests : doing'[q].call = a.call =>
                   doing'[q].at = "record" /\ a.row = doing'[q].row /\ a.wire = doing'[q].wire
  <2>1. CASE a = new
    <3>1. a.call = c.call /\ a.row = d.row /\ a.wire = d.wire
      BY <1>2, <1>4, <2>1
    <3>2. ASSUME NEW q \in CatalogRequests, doing'[q].call = a.call PROVE q = r
      BY <1>1, <1>8, <1>9, <3>1, <3>2 DEF CatInv, CallsStand
    <3> QED
      BY <1>4, <1>7, <1>9, <3>1, <3>2
  <2>2. CASE a \in answered
    <3>1. a.call # c.call
      BY <1>1, <1>5, <2>2 DEF CatInv, CallsStand
    <3>2. ASSUME NEW q \in CatalogRequests, doing'[q].call = a.call
          PROVE  doing'[q].at = "record" /\ a.row = doing'[q].row /\ a.wire = doing'[q].wire
      BY <1>4, <1>7, <2>2, <3>1, <3>2 DEF CatInv, CallsStand
    <3> QED
      BY <2>2, <3>2 DEF CatInv, CallsStand
  <2> QED
    BY <1>5, <2>1, <2>2
<1>14. AnswersBilled'
  <2>1. ASSUME NEW a \in answered'
        PROVE  \/ \E q \in CatalogRequests : doing'[q].call = a.call
               \/ {u \in llmUsage : u.call = a.call} = {UsageRow(a.call, a.row, TRUE, Resolved(a.row, a.wire))}
    <3>1. CASE a = new
      BY <1>2, <1>4, <1>7, <3>1
    <3>2. CASE a \in answered /\ \E q \in CatalogRequests : doing[q].call = a.call
      BY <1>8, <3>2
    <3>3. CASE a \in answered /\ ~\E q \in CatalogRequests : doing[q].call = a.call
      BY <3>3 DEF CatInv, CallsStand, AnswersBilled
    <3> QED
      BY <1>5, <3>1, <3>2, <3>3
  <2>2. \A u \in llmUsage : u.ok => \E a \in answered' : a.call = u.call
    BY <1>5 DEF CatInv, CallsStand, AnswersBilled
  <2> QED
    BY <1>5, <2>1, <2>2 DEF AnswersBilled
<1>15. /\ counts' \in [edits : Nat, calls : Nat]
       /\ \A q \in CatalogRequests : doing'[q].call <= counts'.calls
       /\ \A p, q \in CatalogRequests : doing'[p].call = doing'[q].call /\ doing'[p].call > 0 => p = q
       /\ \A u \in llmUsage' :
            /\ u.call \in Nat /\ 0 < u.call /\ u.call <= counts'.calls
            /\ \A q \in CatalogRequests : doing'[q].call # u.call
  BY <1>5, <1>8 DEF CatInv, CallsStand
<1>16. CallsStand'
  BY <1>5, <1>7, <1>11, <1>12, <1>13, <1>14, <1>15 DEF CallsStand, CallKnows
<1>17. CatalogStands'
  BY <1>5, CatalogStill DEF CatInv
<1> QED
  BY <1>16, <1>17 DEF CatInv

\* A request ends its call: what it knew of the call becomes the bill's, or nobody's.
LEMMA CallEnds ==
  ASSUME CallsStand, NEW r \in CatalogRequests, Becomes(r, Resting), UNCHANGED counts,
         doing[r].call > 0, NEW kept \in SUBSET answered, answered' = kept,
         \A a \in answered : a.call # doing[r].call => a \in kept,
         NEW rows, llmUsage' = llmUsage \cup rows, \A u \in rows : u.call = doing[r].call,
         \A a \in kept : a.call = doing[r].call =>
           rows = {UsageRow(a.call, a.row, TRUE, Resolved(a.row, a.wire))},
         \A u \in rows : u.ok => \E a \in kept : a.call = u.call
  PROVE  CallsStand'
<1>1. PICK i \in DoingRecord : i = Resting /\ i.op = "none" /\ i.at = "none" /\ i.call = 0
  BY RestingTyped
<1>2. doing \in [CatalogRequests -> DoingRecord]
  BY DEF CallsStand
<1>3. /\ doing' \in [CatalogRequests -> DoingRecord] /\ doing'[r] = i
      /\ \A q \in CatalogRequests \ {r} : doing'[q] = doing[q]
  BY <1>1, <1>2 DEF Becomes
<1>4. PICK n \in Nat : n = doing[r].call /\ n > 0 /\ n <= counts.calls
  BY <1>2 DEF CallsStand, DoingRecord
<1>5. \A q \in CatalogRequests : doing[q].call \in Nat /\ doing'[q].call \in Nat /\ counts.calls \in Nat
  BY <1>2, <1>3 DEF DoingRecord, CallsStand
<1>6. \A q \in CatalogRequests : q # r => doing'[q].call # n
  BY <1>3, <1>4 DEF CallsStand
<1>7. \A q \in CatalogRequests : doing'[q].call = 0 \/ (q # r /\ doing'[q] = doing[q])
  BY <1>1, <1>3
<1>8. \A q \in CatalogRequests : CallKnows(doing'[q])
  <2>1. CallKnows(i)
    BY <1>1 DEF CallKnows, PointerRoles
  <2> QED
    BY <1>3, <2>1 DEF CallsStand
<1>9. /\ \A q \in CatalogRequests : doing'[q].call <= counts.calls
      /\ \A p, q \in CatalogRequests : doing'[p].call = doing'[q].call /\ doing'[p].call > 0 => p = q
  BY <1>5, <1>7 DEF CallsStand
<1>10. ASSUME NEW q \in CatalogRequests, doing'[q].at = "record"
       PROVE  \E a \in kept : a.call = doing'[q].call
  <2>1. q # r /\ doing'[q] = doing[q]
    BY <1>1, <1>3, <1>10
  <2>2. PICK a \in answered : a.call = doing[q].call
    BY <1>10, <2>1 DEF CallsStand
  <2> QED
    BY <1>4, <1>6, <2>1, <2>2
<1>11. ASSUME NEW a \in kept
       PROVE  /\ a.call \in Nat /\ 0 < a.call /\ a.call <= counts.calls
              /\ \A q \in CatalogRequests : doing'[q].call = a.call =>
                   doing'[q].at = "record" /\ a.row = doing'[q].row /\ a.wire = doing'[q].wire
  <2>1. a.call \in Nat /\ 0 < a.call /\ a.call <= counts.calls
    BY DEF CallsStand
  <2>2. ASSUME NEW q \in CatalogRequests, doing'[q].call = a.call
        PROVE  doing'[q].at = "record" /\ a.row = doing'[q].row /\ a.wire = doing'[q].wire
    BY <1>7, <2>1, <2>2 DEF CallsStand
  <2> QED
    BY <2>1, <2>2
<1>12. ASSUME NEW u \in llmUsage \cup rows
       PROVE  /\ u.call \in Nat /\ 0 < u.call /\ u.call <= counts.calls
              /\ \A q \in CatalogRequests : doing'[q].call # u.call
  <2>1. CASE u \in llmUsage
    <3>1. u.call \in Nat /\ 0 < u.call /\ u.call <= counts.calls
      BY <2>1 DEF CallsStand
    <3> QED
      BY <1>7, <2>1, <3>1 DEF CallsStand
  <2>2. CASE u \in rows
    BY <1>1, <1>3, <1>4, <1>6, <2>2
  <2> QED
    BY <2>1, <2>2
<1>13. ASSUME NEW a \in kept
       PROVE  \/ \E q \in CatalogRequests : doing'[q].call = a.call
              \/ {u \in llmUsage \cup rows : u.call = a.call} =
                   {UsageRow(a.call, a.row, TRUE, Resolved(a.row, a.wire))}
  <2>1. CASE a.call = n
    <3>1. rows = {UsageRow(a.call, a.row, TRUE, Resolved(a.row, a.wire))}
      BY <1>4, <2>1
    <3>2. \A u \in llmUsage : u.call # a.call
      BY <1>4, <2>1 DEF CallsStand
    <3>3. \A u \in rows : u.call = a.call
      BY <1>4, <2>1
    <3> QED
      BY <3>1, <3>2, <3>3
  <2>2. CASE a.call # n /\ \E q \in CatalogRequests : doing[q].call = a.call
    BY <1>3, <1>4, <2>2
  <2>3. CASE a.call # n /\ ~\E q \in CatalogRequests : doing[q].call = a.call
    <3>1. {u \in llmUsage : u.call = a.call} = {UsageRow(a.call, a.row, TRUE, Resolved(a.row, a.wire))}
      BY <2>3 DEF CallsStand, AnswersBilled
    <3>2. \A u \in rows : u.call # a.call
      BY <1>4, <2>3
    <3>3. {u \in llmUsage \cup rows : u.call = a.call} = {u \in llmUsage : u.call = a.call}
      BY <3>2
    <3> QED
      BY <3>1, <3>3
  <2> QED
    BY <2>1, <2>2, <2>3
<1>14. ASSUME NEW u \in llmUsage \cup rows, u.ok PROVE \E a \in kept : a.call = u.call
  <2>1. CASE u \in llmUsage
    <3>1. PICK a \in answered : a.call = u.call
      BY <1>14, <2>1 DEF CallsStand, AnswersBilled
    <3> QED
      BY <2>1, <3>1 DEF CallsStand
  <2>2. CASE u \in rows
    BY <1>14, <2>2
  <2> QED
    BY <2>1, <2>2
<1>15. AnswersBilled'
  BY <1>13, <1>14 DEF AnswersBilled
<1>16. counts' \in [edits : Nat, calls : Nat]
  BY DEF CallsStand
<1> QED
  BY <1>3, <1>8, <1>9, <1>10, <1>11, <1>12, <1>15, <1>16 DEF CallsStand, CallKnows

LEMMA RecordCallKeeps ==
  ASSUME CatInv, NEW r \in CatalogRequests, NEW fails \in BOOLEAN, RecordCall(r, fails)
  PROVE  CatInv'
<1>1. PICK c \in DoingRecord : c = doing[r] /\ CallKnows(c)
  BY DEF CatInv, CallsStand
<1>2. PICK entry : entry = UsageRow(c.call, c.row, TRUE, Resolved(c.row, c.wire))
  OBVIOUS
<1>3. PICK kept \in SUBSET answered :
        kept = IF Writable(c.row, fails) THEN answered ELSE {a \in answered : a.call # c.call}
  OBVIOUS
<1>4. PICK rows : rows = IF Writable(c.row, fails) THEN {entry} ELSE {}
  OBVIOUS
<1>5. /\ c.op \in PointerRoles /\ c.at = "record" /\ Becomes(r, Resting) /\ answered' = kept
      /\ UNCHANGED <<counts, provider, models, configs, prompt, pointer>>
  BY <1>1, <1>3 DEF RecordCall, Forgotten
<1>6. llmUsage' = llmUsage \cup rows
  BY <1>1, <1>2, <1>4 DEF RecordCall, LogUsage, Writable
<1>7. c.call > 0
  BY <1>1, <1>5 DEF CallKnows
<1>8. entry.call = c.call
  BY <1>2 DEF UsageRow
<1>9. \A a \in answered : a.call = c.call => a.row = c.row /\ a.wire = c.wire
  BY <1>1 DEF CatInv, CallsStand
<1>10. \E a \in answered : a.call = c.call
  BY <1>1, <1>5 DEF CatInv, CallsStand
<1>11. \A a \in kept : a.call = c.call => rows = {UsageRow(a.call, a.row, TRUE, Resolved(a.row, a.wire))}
  BY <1>2, <1>3, <1>4, <1>9
<1>12. \A u \in rows : u.call = c.call /\ \E a \in kept : a.call = u.call
  BY <1>3, <1>4, <1>8, <1>10
<1>13. \A a \in answered : a.call # c.call => a \in kept
  BY <1>3
<1>14. CallsStand'
  <2>1. /\ CallsStand /\ UNCHANGED counts /\ doing[r].call > 0
        /\ \A a \in answered : a.call # doing[r].call => a \in kept
        /\ \A u \in rows : u.call = doing[r].call
        /\ \A a \in kept : a.call = doing[r].call =>
             rows = {UsageRow(a.call, a.row, TRUE, Resolved(a.row, a.wire))}
        /\ \A u \in rows : u.ok => \E a \in kept : a.call = u.call
    BY <1>1, <1>5, <1>7, <1>11, <1>12, <1>13 DEF CatInv
  <2> QED
    BY <1>5, <1>6, <2>1, CallEnds
<1>15. CatalogStands'
  BY <1>5, CatalogStill DEF CatInv
<1> QED
  BY <1>14, <1>15 DEF CatInv

LEMMA RequestDiesKeeps ==
  ASSUME CatInv, NEW r \in CatalogRequests, RequestDies(r)
  PROVE  CatInv'
<1>1. PICK c \in DoingRecord : c = doing[r] /\ CallKnows(c)
  BY DEF CatInv, CallsStand
<1>2. Becomes(r, Resting) /\ UNCHANGED <<counts, provider, models, configs, prompt, pointer, llmUsage>>
  BY DEF RequestDies
<1>3. ASSUME c.at # "record" PROVE CallsStand'
  <2>1. UNCHANGED answered
    BY <1>1, <1>3 DEF RequestDies
  <2>2. CallsStand /\ counts' \in [edits : Nat, calls : Nat] /\ counts'.calls = counts.calls
    BY <1>2 DEF CatInv, CallsStand
  <2>3. Becomes(r, Resting) /\ UNCHANGED <<llmUsage, answered>> /\ doing[r].at # "record"
    BY <1>1, <1>2, <1>3, <2>1
  <2> QED
    BY <2>2, <2>3, CallsFinish
<1>4. ASSUME c.at = "record" PROVE CallsStand'
  <2>1. PICK kept \in SUBSET answered : kept = {a \in answered : a.call # c.call}
    OBVIOUS
  <2>2. answered' = kept
    BY <1>1, <1>4, <2>1 DEF RequestDies, Forgotten
  <2>3. doing[r].call > 0
    BY <1>1, <1>4 DEF CallKnows
  <2>4. /\ \A a \in answered : a.call # doing[r].call => a \in kept
        /\ \A a \in kept : a.call # doing[r].call
    BY <1>1, <2>1
  <2>5. PICK rows : rows = {}
    OBVIOUS
  <2>6. llmUsage' = llmUsage \cup rows
    BY <1>2, <2>5
  <2>7. /\ CallsStand /\ Becomes(r, Resting) /\ UNCHANGED counts /\ doing[r].call > 0
        /\ kept \in SUBSET answered /\ answered' = kept
        /\ \A a \in answered : a.call # doing[r].call => a \in kept
        /\ llmUsage' = llmUsage \cup rows /\ \A u \in rows : u.call = doing[r].call
        /\ \A a \in kept : a.call = doing[r].call =>
             rows = {UsageRow(a.call, a.row, TRUE, Resolved(a.row, a.wire))}
        /\ \A u \in rows : u.ok => \E a \in kept : a.call = u.call
    BY <1>2, <2>1, <2>2, <2>3, <2>4, <2>5, <2>6 DEF CatInv
  <2> QED
    BY ONLY r \in CatalogRequests, <2>7, CallEnds
<1>5. CatalogStands'
  BY <1>2, CatalogStill DEF CatInv
<1>6. CallsStand'
  BY <1>3, <1>4
<1> QED
  BY <1>5, <1>6 DEF CatInv

LEMMA CallFailsKeeps ==
  ASSUME CatInv, NEW r \in CatalogRequests, NEW fails \in BOOLEAN, CallFails(r, fails)
  PROVE  CatInv'
<1>1. PICK c \in DoingRecord : c = doing[r] /\ CallKnows(c)
  BY DEF CatInv, CallsStand
<1>2. PICK entry : entry = UsageRow(c.call, c.row, FALSE, "nothing")
  OBVIOUS
<1>3. PICK rows : rows \in SUBSET {entry} /\ llmUsage' = llmUsage \cup rows
  <2>1. CASE llmUsage' = llmUsage \cup {entry}
    BY <2>1
  <2>2. CASE llmUsage' = llmUsage
    <3>1. {} \in SUBSET {entry} /\ llmUsage' = llmUsage \cup {}
      BY <2>2
    <3> QED
      BY <3>1
  <2> QED
    BY <1>1, <1>2, <2>1, <2>2 DEF CallFails, LogUsage
<1>4. /\ c.op \in PointerRoles /\ c.at = "out" /\ Becomes(r, Resting)
      /\ UNCHANGED <<counts, provider, models, configs, prompt, pointer, answered>>
  BY <1>1 DEF CallFails
<1>5. c.call > 0
  BY <1>1, <1>4 DEF CallKnows
<1>6. entry.call = c.call /\ ~entry.ok
  BY <1>2 DEF UsageRow
<1>7. \A a \in answered : a.call # c.call
  BY <1>1, <1>4 DEF CatInv, CallsStand
<1>8. \A u \in rows : u.call = c.call /\ ~u.ok
  BY <1>3, <1>6
<1>9. CallsStand'
  BY <1>1, <1>3, <1>4, <1>5, <1>7, <1>8, CallEnds DEF CatInv
<1>10. CatalogStands'
  BY <1>4, CatalogStill DEF CatInv
<1> QED
  BY <1>9, <1>10 DEF CatInv

------------------------------------------------------------------------------
\* The invariant holds at first, and no step breaks it.
LEMMA CatInvInit ==
  ASSUME CatalogConstants, CatalogInit
  PROVE  CatInv
<1>1. PICK i \in DoingRecord : i = Resting /\ i.op = "none" /\ i.at = "none" /\ i.call = 0
  BY RestingTyped
<1>2. \A r \in CatalogRequests : doing[r] = i
  BY <1>1 DEF CatalogInit
<1>3. CallKnows(i)
  BY <1>1 DEF CallKnows, PointerRoles
<1>4. doing \in [CatalogRequests -> DoingRecord]
  BY <1>1 DEF CatalogInit
<1>5. AnswersBilled
  BY DEF CatalogInit, AnswersBilled
<1>6. counts \in [edits : Nat, calls : Nat] /\ counts.calls = 0 /\ answered = {} /\ llmUsage = {}
  BY DEF CatalogInit
<1>7. CallsStand
  BY <1>1, <1>2, <1>3, <1>4, <1>5, <1>6 DEF CallsStand
<1>8. models \in [ModelRows -> ModelRecord \cup {Missing}]
  <2>1. PICK p \in Providers, n \in ModelNames :
          models = [m \in ModelRows |-> IF m = Shipped THEN NewModel(p, n, TRUE) ELSE Missing]
    BY DEF CatalogInit, CatalogConstants
  <2>2. NewModel(p, n, TRUE) \in ModelRecord
    BY DEF NewModel, ModelRecord
  <2> QED
    BY <2>1, <2>2
<1>9. prompt \in [Prompts -> PromptRecord \cup {Missing}]
  <2>1. NewPrompt \in PromptRecord
    BY DEF NewPrompt, PromptRecord
  <2> QED
    BY <2>1 DEF CatalogInit
<1>10. /\ provider \in [Providers -> {"none", "active", "inactive", "gone"}]
       /\ configs \in [Configurations -> ConfigRecord \cup {Missing}]
       /\ pointer \in [PointerRoles -> Configurations \cup {Missing}]
       /\ \A c \in Configurations : ~Configured(c)
  BY DEF CatalogInit, Configured
<1>11. CatalogStands
  BY <1>8, <1>9, <1>10 DEF CatalogStands, CatalogTyped
<1> QED
  BY <1>7, <1>11 DEF CatInv

LEMMA CatInvNext ==
  ASSUME CatalogConstants, CatInv, CatalogNext
  PROVE  CatInv'
<1>1. CASE \E p \in Providers :
             \/ CreateProvider(p) \/ UpdateProvider(p) \/ DeleteProvider(p)
             \/ \E m \in ModelRows, n \in ModelNames, chat \in BOOLEAN : CreateModel(p, m, n, chat)
             \/ \E r \in CatalogRequests : SyncModels(r, p)
  BY <1>1, ProviderEdited, DeleteProviderKeeps, ModelEdited, SyncModelsKeeps
<1>2. CASE \E m \in ModelRows : DisableModel(m)
  BY <1>2, ModelEdited
<1>3. CASE \E p \in Prompts :
             \/ CreatePrompt(p) \/ UpdatePrompt(p) \/ DeletePrompt(p) \/ CpUpsertPrompt(p)
             \/ \E e \in Entities : AssignPrompt(p, e) \/ UnassignPrompt(p, e)
  BY <1>3, PromptEdited, DeletePromptKeeps
<1>4. ASSUME NEW c \in Configurations,
             \/ DeleteConfig(c)
             \/ \E k \in Bases : RemoveKbPrompt(c, k) \/ \E p \in Prompts : AssignKbPrompt(c, k, p)
             \/ \E k \in PointerRoles : SetSideCallConfig(k, c)
      PROVE  CatInv'
  BY <1>4, DeleteConfigKeeps, ConfigEdited, PointerEdited
<1>5. ASSUME NEW c \in Configurations, NEW p \in Providers, NEW n \in ModelNames,
             NEW d \in Prompts \cup {Missing},
             \/ \E roles \in {{}, PointerRoles} : CpUpsertConfig(c, p, n, d, roles)
             \/ \E r \in CatalogRequests, in \in Inputs : CreateConfig(r, c, p, n, d, in)
      PROVE  CatInv'
  <2>1. ASSUME NEW roles \in {{}, PointerRoles}, CpUpsertConfig(c, p, n, d, roles) PROVE CatInv'
    BY <2>1, ConfigEdited
  <2> QED
    BY <1>5, <2>1, CreateConfigKeeps
<1>6. ASSUME NEW c \in Configurations, NEW r \in CatalogRequests, NEW in \in Inputs, OpenUpdate(r, c, in)
      PROVE  CatInv'
  BY <1>6, OpenUpdateKeeps
<1>7. CASE \E k \in PointerRoles : ClearSideCallConfig(k)
  BY <1>7, PointerEdited
<1>8. ASSUME NEW r \in CatalogRequests,
             \/ DiscoveryFails(r) \/ ReadExisting(r) \/ AddDiscovered(r) \/ AssignNew(r)
             \/ WriteAssignments(r) \/ WriteFields(r) \/ RefuseUpdate(r) \/ ApplyRole(r)
             \/ \E k \in PointerRoles : BeginCall(r, k)
             \/ FindModel(r) \/ RequestDies(r) \/ \E wire \in BOOLEAN : AnswerCall(r, wire)
             \/ \E fails \in BOOLEAN : RecordCall(r, fails) \/ CallFails(r, fails)
      PROVE  CatInv'
  BY <1>8, FinishingRequests, ReadExistingKeeps, AddDiscoveredKeeps, AssignNewKeeps,
     WriteAssignmentsKeeps, WriteFieldsKeeps, ApplyRoleKeeps, BeginCallKeeps, FindModelKeeps,
     RecordCallKeeps, RequestDiesKeeps, CallFailsKeeps, AnswerCallKeeps
<1> QED
  BY <1>1, <1>2, <1>3, <1>4, <1>5, <1>6, <1>7, <1>8 DEF CatalogNext

LEMMA CatInvStutter ==
  ASSUME CatInv, UNCHANGED catalogVars
  PROVE  CatInv'
<1>1. CatalogStands'
  BY CatalogStill DEF CatInv, catalogVars
<1>2. CallsStand'
  BY CountsStay, CallsStill DEF CatInv, catalogVars
<1> QED
  BY <1>1, <1>2 DEF CatInv

LEMMA CatalogFollows ==
  ASSUME CatInv
  PROVE  CatalogHolds
<1>1. ASSUME NEW c \in Configurations, Configured(c)
      PROVE  /\ configs[c].of \in Providers /\ Stored(configs[c].of)
             /\ configs[c].prompt # Missing => prompt[configs[c].prompt] # Missing
             /\ \A k \in DOMAIN KbPrompts(c) :
                  KbPrompts(c)[k] # Missing /\ prompt[KbPrompts(c)[k]] # Missing
  <2>1. configs[c] \in ConfigRecord /\ Rests(configs[c])
    BY <1>1 DEF CatInv, CatalogStands, CatalogTyped, Configured
  <2>2. DOMAIN KbPrompts(c) = configs[c].on /\ \A k \in configs[c].on : KbPrompts(c)[k] = configs[c].given[k]
    BY DEF KbPrompts
  <2> QED
    BY <2>1, <2>2 DEF Rests, ConfigRecord
<1>2. ASSUME NEW u \in DOMAIN Reads
      PROVE  /\ ValidForUse(u) \subseteq ListedTo(u, TRUE) /\ ListedTo(u, FALSE) = GetConfig(u)
             /\ \A c \in ValidForUse(u) : configs[c].of \in ListProviders
  <2>1. ValidForUse(u) \subseteq ListedTo(u, TRUE)
    BY DEF ValidForUse, ListedTo, ListConfigs
  <2>2. ListedTo(u, FALSE) = GetConfig(u)
    BY DEF ListedTo, ListConfigs, GetConfig
  <2>3. ASSUME NEW c \in ValidForUse(u) PROVE configs[c].of \in ListProviders
    <3>1. c \in Configurations /\ Configured(c) /\ ActiveProvider(configs[c].of)
      BY DEF ValidForUse, Readable
    <3> QED
      BY <1>1, <3>1 DEF ListProviders
  <2> QED
    BY <2>1, <2>2, <2>3
<1>3. \A m \in ListModels : models[m].of \in ListProviders
  BY DEF ListModels, LiveModels, ModelsOf, ListProviders
<1>4. CatalogAgrees
  BY <1>1, <1>2, <1>3 DEF CatalogAgrees
<1> QED
  BY <1>4 DEF CatalogHolds, CatInv, CallsStand

\* What the catalog promises (ModelConfigurationService, PromptService, SideCallService,
\* UsageRecorder): however administrators, the control plane and side calls take turns, fail and
\* die, an answered call ends in one row of llm_usage, under its model and at its cost, that
\* outlives what it names, or, when its row could not be written, in none, and no failed call is
\* billed as answered; every configuration's provider is there, and
\* every prompt that it uses or gives for a knowledge base; and what a user may chat with is
\* listed to that user, of an active provider.
THEOREM CatalogHoldsAlways ==
  ASSUME CatalogConstants
  PROVE  CatalogSpec => []CatalogHolds
<1>1. CatalogInit => CatInv
  BY CatInvInit
<1>2. CatInv /\ [CatalogNext]_catalogVars => CatInv'
  BY CatInvNext, CatInvStutter
<1>3. CatInv => CatalogHolds
  BY CatalogFollows
<1> QED
  BY <1>1, <1>2, <1>3, PTL DEF CatalogSpec
==============================================================================
