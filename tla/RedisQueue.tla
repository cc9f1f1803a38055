----------------------------- MODULE RedisQueue -----------------------------
(***************************************************************************)
(* RedisQueueBackend (core/queue_backend.py): one named queue kept in      *)
(* Redis, and the workers of all processes that share it.                  *)
(*                                                                         *)
(* Redis runs one command at a time and the backend sends its commands one *)
(* by one, without MULTI, WATCH or a script.  So an action is one command, *)
(* the others interleave between any two, and a process may die, or a      *)
(* connection fail, before any of them.                                    *)
(*                                                                         *)
(* Timers hold what remains of them, as in InMemoryQueue; here a lease     *)
(* whose score is reached counts as expired, so 0 is expired or due.       *)
(***************************************************************************)
EXTENDS Integers, Sequences, FiniteSets

CONSTANTS Jobs, Workers, None,
          MaxAttempts,  \* Job.max_attempts
          Visibility,   \* Job.visibility_timeout
          Buffer,       \* the 60 seconds a payload outlives its lease
          Extension,    \* additional_seconds of a heartbeat, 0 for no heartbeat
          MaxDelay,     \* bound: delay_seconds of schedule, 0 for no schedule
          MaxLeft,      \* bound: how far ahead heartbeats may push a lease
          MaxLapses,    \* bound: leases that may run out under a working handler
          CrashAt,      \* where a worker's process may die
          MaxCrashes,   \* bound: processes that die
          MaxFaults,    \* bound: commands that raise
          Unpolled      \* whether nobody may look for longer than Buffer

Copy == [id : Jobs, attempts : Nat]

ASSUME RedisAssumption ==
  /\ MaxAttempts \in Nat \ {0} /\ Visibility \in Nat \ {0} /\ Buffer \in Nat \ {0}
  /\ {Extension, MaxDelay, MaxLeft, MaxLapses, MaxCrashes, MaxFaults} \subseteq Nat
  /\ Unpolled \in BOOLEAN /\ IsFiniteSet(Workers)
  /\ None \notin Jobs /\ None \notin Copy /\ None \notin Int
  /\ None \notin [copy : Copy, ttl : Nat]

VARIABLES
  list,       \* queue:{name}, from its right end, where RPOP takes
  processing, \* queue:{name}:processing: what is left of each lease, or None
  payload,    \* queue:{name}:job:{id}: the copy and its TTL, or None
  scheduled   \* queue:{name}:scheduled: what is left of each delay, or None

VARIABLES
  at,   \* the next command of each worker
  todo, \* the ids its last ZRANGEBYSCORE returned and it has not dealt with
  cur,  \* the id it is dealing with
  copy, \* the copy it read for that id, or received for itself
  beat  \* the expiry its heartbeat is about to set, or None

\* History, read by no command.
VARIABLES
  sent, done, dropped, \* jobs handed over, finished, and given up
  risked,              \* jobs in a hand that failed where no lease covered them
  lapses, crashes, faults

redis   == <<list, processing, payload, scheduled>>
local   == <<at, todo, cur, copy, beat>>
counts  == <<lapses, crashes, faults>>
settled == <<done, dropped>>
vars    == <<redis, local, sent, settled, risked, counts>>

Init ==
  /\ list = <<>>
  /\ processing = [j \in Jobs |-> None]
  /\ payload = [j \in Jobs |-> None]
  /\ scheduled = [j \in Jobs |-> None]
  /\ at = [w \in Workers |-> "idle"]
  /\ todo = [w \in Workers |-> {}]
  /\ cur = [w \in Workers |-> None]
  /\ copy = [w \in Workers |-> None]
  /\ beat = [w \in Workers |-> None]
  /\ sent = {} /\ done = {} /\ dropped = {} /\ risked = {}
  /\ lapses = 0 /\ crashes = 0 /\ faults = 0

Goto(w, next) == at' = [at EXCEPT ![w] = next]

\* The worker has returned from its call and holds nothing.
Return(w) ==
  /\ at' = [at EXCEPT ![w] = "idle"]
  /\ todo' = [todo EXCEPT ![w] = {}]
  /\ cur' = [cur EXCEPT ![w] = None]
  /\ copy' = [copy EXCEPT ![w] = None]
  /\ beat' = [beat EXCEPT ![w] = None]

------------------------------------------------------------------------------
(***************************************************************************)
(* Producers.                                                              *)
(***************************************************************************)
Enqueue(j) ==
  /\ j \notin sent
  /\ list' = Append(list, [id |-> j, attempts |-> 0])
  /\ sent' = sent \cup {j}
  /\ UNCHANGED <<processing, payload, scheduled, local, settled, risked, counts>>

Schedule(j, delay) ==
  /\ j \notin sent
  /\ scheduled' = [scheduled EXCEPT ![j] = delay]
  /\ sent' = sent \cup {j}
  /\ UNCHANGED <<list, processing, payload, local, settled, risked, counts>>

------------------------------------------------------------------------------
(***************************************************************************)
(* _restore_expired_jobs: ZRANGEBYSCORE, then GET, RPUSH, ZREM and DEL for *)
(* every id it returned.  dequeue and the inspections begin with it.       *)
(***************************************************************************)

\* Slip: an exclusive range.
ReachedExclusive(timer) == {j \in Jobs : timer[j] # None /\ timer[j] < 0}

Reached(timer) == {j \in Jobs : timer[j] # None /\ timer[j] <= 0}

\* After the last id of a scan, the call goes on.
OrNext(w, ids, step, next) ==
  /\ todo' = [todo EXCEPT ![w] = ids]
  /\ at' = [at EXCEPT ![w] = IF ids = {} THEN next ELSE step]

ScanExpired(w) ==
  /\ at[w] = "idle"
  /\ OrNext(w, Reached(processing), "get", "scan due")
  /\ UNCHANGED <<redis, cur, copy, beat, sent, settled, risked, counts>>

GetPayload(w) ==
  /\ at[w] = "get"
  /\ \E j \in todo[w] :
       /\ cur' = [cur EXCEPT ![w] = j]
       /\ IF payload[j] = None
            THEN Goto(w, "zrem") /\ UNCHANGED copy
            ELSE Goto(w, "rpush") /\ copy' = [copy EXCEPT ![w] = payload[j].copy]
  /\ UNCHANGED <<redis, todo, beat, sent, settled, risked, counts>>

Rpush(w) ==
  /\ at[w] = "rpush"
  /\ list' = <<copy[w]>> \o list
  /\ copy' = [copy EXCEPT ![w] = None]
  /\ Goto(w, "zrem")
  /\ UNCHANGED <<processing, payload, scheduled, todo, cur, beat, sent, settled,
                 risked, counts>>

\* Whatever lease and payload the id has by now.
ZremExpired(w) ==
  /\ at[w] = "zrem"
  /\ processing' = [processing EXCEPT ![cur[w]] = None]
  /\ Goto(w, "del")
  /\ UNCHANGED <<list, payload, scheduled, todo, cur, copy, beat, sent, settled,
                 risked, counts>>

DelExpired(w) ==
  /\ at[w] = "del"
  /\ payload' = [payload EXCEPT ![cur[w]] = None]
  /\ cur' = [cur EXCEPT ![w] = None]
  /\ OrNext(w, todo[w] \ {cur[w]}, "get", "scan due")
  /\ UNCHANGED <<list, processing, scheduled, copy, beat, sent, settled, risked, counts>>

------------------------------------------------------------------------------
(***************************************************************************)
(* _move_scheduled_jobs: ZRANGEBYSCORE, then LPUSH and ZREM for each.      *)
(***************************************************************************)
ScanDue(w) ==
  /\ at[w] = "scan due"
  /\ OrNext(w, Reached(scheduled), "lpush", "rpop")
  /\ UNCHANGED <<redis, cur, copy, beat, sent, settled, risked, counts>>

Lpush(w) ==
  /\ at[w] = "lpush"
  /\ \E j \in todo[w] :
       /\ list' = Append(list, [id |-> j, attempts |-> 0])
       /\ cur' = [cur EXCEPT ![w] = j]
       /\ todo' = [todo EXCEPT ![w] = @ \ {j}]
  /\ Goto(w, "unschedule")
  /\ UNCHANGED <<processing, payload, scheduled, copy, beat, sent, settled, risked, counts>>

Unschedule(w) ==
  /\ at[w] = "unschedule"
  /\ scheduled' = [scheduled EXCEPT ![cur[w]] = None]
  /\ cur' = [cur EXCEPT ![w] = None]
  /\ OrNext(w, todo[w], "lpush", "rpop")
  /\ UNCHANGED <<list, processing, payload, copy, beat, sent, settled, risked, counts>>

\* peek and the counts end here, as does a dequeue that finds the list empty;
\* active_count ends before the move.
EndInspection(w) ==
  /\ at[w] \in {"scan due", "rpop"}
  /\ Return(w)
  /\ UNCHANGED <<redis, sent, settled, risked, counts>>

------------------------------------------------------------------------------
(***************************************************************************)
(* dequeue: RPOP, ZADD, SET.                                               *)
(***************************************************************************)
Rpop(w) ==
  /\ at[w] = "rpop" /\ list # <<>>
  /\ copy' = [copy EXCEPT ![w] = [Head(list) EXCEPT !.attempts = @ + 1]]
  /\ list' = Tail(list)
  /\ Goto(w, "lease")
  /\ UNCHANGED <<processing, payload, scheduled, todo, cur, beat, sent, settled,
                 risked, counts>>

AddLease(w) ==
  /\ at[w] = "lease"
  /\ processing' = [processing EXCEPT ![copy[w].id] = Visibility]
  /\ Goto(w, "store")
  /\ UNCHANGED <<list, payload, scheduled, todo, cur, copy, beat, sent, settled,
                 risked, counts>>

StorePayload(w) ==
  /\ at[w] = "store"
  /\ payload' = [payload EXCEPT ![copy[w].id] =
                   [copy |-> copy[w], ttl |-> Visibility + Buffer]]
  /\ Goto(w, "handling")
  /\ UNCHANGED <<list, processing, scheduled, todo, cur, copy, beat, sent, settled,
                 risked, counts>>

------------------------------------------------------------------------------
(***************************************************************************)
(* acknowledge: ZREM, DEL.  reject: ZREM, DEL and, if the job is retried,  *)
(* LPUSH.  Both find the lease by the id of the job.                       *)
(***************************************************************************)

HandlerReturns(w) ==
  /\ at[w] = "handling"
  /\ done' = done \cup {copy[w].id}
  /\ beat' = [beat EXCEPT ![w] = None]
  /\ Goto(w, "ack")
  /\ UNCHANGED <<redis, todo, cur, copy, sent, dropped, risked, counts>>

AckZrem(w) ==
  /\ at[w] = "ack"
  /\ processing' = [processing EXCEPT ![copy[w].id] = None]
  /\ Goto(w, "ack del")
  /\ UNCHANGED <<list, payload, scheduled, todo, cur, copy, beat, sent, settled,
                 risked, counts>>

AckDel(w) ==
  /\ at[w] = "ack del"
  /\ payload' = [payload EXCEPT ![copy[w].id] = None]
  /\ Return(w)
  /\ UNCHANGED <<list, processing, scheduled, sent, settled, risked, counts>>

\* The worker asks for a retry only while attempts are left.
MayRetry(w) == copy[w].attempts < MaxAttempts
Rejecting == {"retry", "retry del", "retry push", "drop", "drop del"}

Decide(w, again) ==
  /\ again => MayRetry(w)
  /\ dropped' = IF again THEN dropped ELSE dropped \cup {copy[w].id}
  /\ beat' = [beat EXCEPT ![w] = None]
  /\ Goto(w, IF again THEN "retry" ELSE "drop")

HandlerRaises(w, again) ==
  /\ at[w] = "handling"
  /\ Decide(w, again)
  /\ UNCHANGED <<redis, todo, cur, copy, sent, done, risked, counts>>

RejectZrem(w) ==
  /\ at[w] \in {"retry", "drop"}
  /\ processing' = [processing EXCEPT ![copy[w].id] = None]
  /\ Goto(w, IF at[w] = "retry" THEN "retry del" ELSE "drop del")
  /\ UNCHANGED <<list, payload, scheduled, todo, cur, copy, beat, sent, settled,
                 risked, counts>>

RejectDel(w) ==
  /\ at[w] \in {"retry del", "drop del"}
  /\ payload' = [payload EXCEPT ![copy[w].id] = None]
  /\ IF at[w] = "retry del"
       THEN Goto(w, "retry push") /\ UNCHANGED <<todo, cur, copy, beat>>
       ELSE Return(w)
  /\ UNCHANGED <<list, processing, scheduled, sent, settled, risked, counts>>

\* Slip: a retry that is never pushed.
RejectForgets(w) ==
  /\ at[w] = "retry push"
  /\ Return(w)
  /\ UNCHANGED <<redis, sent, settled, risked, counts>>

RejectPush(w) ==
  /\ at[w] = "retry push"
  /\ list' = Append(list, copy[w])
  /\ Return(w)
  /\ UNCHANGED <<processing, payload, scheduled, sent, settled, risked, counts>>

------------------------------------------------------------------------------
(***************************************************************************)
(* extend_visibility: ZSCORE, ZADD XX, EXPIRE, from a heartbeat that runs  *)
(* beside the handler and is cancelled when the handler ends.              *)
(***************************************************************************)
ReadScore(w) ==
  /\ Extension > 0 /\ at[w] = "handling" /\ beat[w] = None
  /\ processing[copy[w].id] # None
  /\ processing[copy[w].id] + Extension <= MaxLeft
  /\ beat' = [beat EXCEPT ![w] =
       [left |-> processing[copy[w].id] + Extension, set |-> FALSE]]
  /\ UNCHANGED <<redis, at, todo, cur, copy, sent, settled, risked, counts>>

\* Whoever holds the lease by now; without a lease there is nothing to update.
SetScore(w) ==
  /\ at[w] = "handling" /\ beat[w] # None /\ ~beat[w].set
  /\ IF processing[copy[w].id] = None
       THEN beat' = [beat EXCEPT ![w] = None] /\ UNCHANGED processing
       ELSE /\ processing' = [processing EXCEPT ![copy[w].id] = beat[w].left]
            /\ beat' = [beat EXCEPT ![w].set = TRUE]
  /\ UNCHANGED <<list, payload, scheduled, at, todo, cur, copy, sent, settled,
                 risked, counts>>

RefreshTTL(w) ==
  /\ at[w] = "handling" /\ beat[w] # None /\ beat[w].set
  /\ payload' = IF payload[copy[w].id] = None THEN payload
                ELSE [payload EXCEPT ![copy[w].id].ttl = beat[w].left + Buffer]
  /\ beat' = [beat EXCEPT ![w] = None]
  /\ UNCHANGED <<list, processing, scheduled, at, todo, cur, copy, sent, settled,
                 risked, counts>>

------------------------------------------------------------------------------
(***************************************************************************)
(* Time, failures.                                                         *)
(***************************************************************************)
Sooner(left) == IF left = None \/ left <= 0 THEN left ELSE left - 1

\* Redis drops a payload when its TTL is over.
Aged(entry) ==
  IF entry = None \/ entry.ttl = 1 THEN None ELSE [entry EXCEPT !.ttl = @ - 1]

\* Leases that run out, and those of them somebody still works under: a dead
\* worker's lease runs out whatever the bound.
RunsOut == {j \in Jobs : processing[j] = 1}
HasCopy(w, j) == copy[w] # None /\ copy[w].id = j
Lapsing == {j \in RunsOut : \E w \in Workers : HasCopy(w, j)}

Tick ==
  /\ lapses + Cardinality(Lapsing) <= MaxLapses
  /\ ~Unpolled => \A j \in Jobs : payload[j] # None => payload[j].ttl > 1
  /\ processing' = [j \in Jobs |-> Sooner(processing[j])]
  /\ scheduled' = [j \in Jobs |-> Sooner(scheduled[j])]
  /\ payload' = [j \in Jobs |-> Aged(payload[j])]
  /\ beat' = [w \in Workers |->
       IF beat[w] = None THEN None ELSE [beat[w] EXCEPT !.left = Sooner(@)]]
  /\ lapses' = lapses + Cardinality(Lapsing)
  /\ UNCHANGED <<list, at, todo, cur, copy, sent, settled, risked, crashes, faults>>

\* The next command of the worker, or of its heartbeat in the middle of its work.
Position(w) == IF beat[w] # None /\ beat[w].set THEN "expire" ELSE at[w]

Restoring == {"get", "rpush", "zrem", "del"}

\* Where a received job has left the list and is not yet, or no longer, under a
\* lease; where its lease or payload is gone, or goes before its lease: a heartbeat was
\* cut off between ZADD and EXPIRE; and where another worker's restore is about to
\* remove them.
Exposed == {"lease", "store", "retry del", "retry push"}
Outlived(j) == processing[j] = None \/ payload[j] = None \/ payload[j].ttl <= processing[j]
Removing(v, j) == at[v] \in Restoring /\ j \in todo[v]
Uncovered(w, j) == at[w] \in Exposed \/ Outlived(j) \/ \E v \in Workers \ {w} : Removing(v, j)

Risk(w) == risked' =
  IF copy[w] # None /\ Uncovered(w, copy[w].id) THEN risked \cup {copy[w].id} ELSE risked

\* The process dies and its replacement starts with nothing.
Crash(w) ==
  /\ crashes < MaxCrashes /\ Position(w) \in CrashAt
  /\ crashes' = crashes + 1
  /\ Risk(w)
  /\ Return(w)
  /\ UNCHANGED <<redis, sent, settled, lapses, faults>>

\* The next command raises.  The restore and the move swallow it and the call
\* goes on; dequeue raises to the worker, which only logs it; an acknowledge
\* that raises is answered with a reject; a reject that raises ends the worker,
\* whose place another takes.
Raise(w) ==
  /\ faults < MaxFaults /\ faults' = faults + 1
  /\ Risk(w)
  /\ \/ /\ at[w] \in Restoring
        /\ at' = [at EXCEPT ![w] = "scan due"]
        /\ todo' = [todo EXCEPT ![w] = {}]
        /\ cur' = [cur EXCEPT ![w] = None]
        /\ copy' = [copy EXCEPT ![w] = None]
        /\ UNCHANGED <<beat, dropped>>
     \/ /\ at[w] \in {"lpush", "unschedule"}
        /\ at' = [at EXCEPT ![w] = "rpop"]
        /\ todo' = [todo EXCEPT ![w] = {}]
        /\ cur' = [cur EXCEPT ![w] = None]
        /\ UNCHANGED <<copy, beat, dropped>>
     \/ /\ at[w] \in {"rpop", "lease", "store"} \cup Rejecting
        /\ Return(w)
        /\ UNCHANGED dropped
     \/ /\ at[w] \in {"ack", "ack del"}
        /\ Decide(w, MayRetry(w))
        /\ UNCHANGED <<todo, cur, copy>>
  /\ UNCHANGED <<redis, sent, done, lapses, crashes>>

Call(w) ==
  \/ ScanExpired(w) \/ GetPayload(w) \/ Rpush(w) \/ ZremExpired(w) \/ DelExpired(w)
  \/ ScanDue(w) \/ Lpush(w) \/ Unschedule(w)
  \/ Rpop(w) \/ AddLease(w) \/ StorePayload(w)
  \/ AckZrem(w) \/ AckDel(w) \/ RejectZrem(w) \/ RejectDel(w) \/ RejectPush(w)

Handle(w) == HandlerReturns(w) \/ \E again \in BOOLEAN : HandlerRaises(w, again)
Heartbeat(w) == ReadScore(w) \/ SetScore(w) \/ RefreshTTL(w)

Next ==
  \/ \E j \in Jobs : Enqueue(j) \/ \E d \in 1..MaxDelay : Schedule(j, d)
  \/ \E w \in Workers : \/ Call(w) \/ EndInspection(w) \/ Handle(w) \/ Heartbeat(w)
                        \/ Crash(w) \/ Raise(w)
  \/ Tick

Spec == Init /\ [][Next]_vars

\* Commands and handlers come back and time passes; and whatever else a worker
\* inspects, it also calls dequeue again and again.
FairSpec ==
  /\ Spec
  /\ \A w \in Workers :
       /\ WF_vars(Call(w)) /\ WF_vars(Handle(w)) /\ WF_vars(EndInspection(w))
       /\ SF_vars(ScanDue(w)) /\ SF_vars(Rpop(w))
  /\ WF_vars(Tick)

------------------------------------------------------------------------------
Received == {"lease", "store", "handling", "ack", "ack del"} \cup Rejecting

TypeOK ==
  /\ list \in Seq(Copy)
  /\ processing \in [Jobs -> Nat \cup {None}]
  /\ scheduled \in [Jobs -> Nat \cup {None}]
  /\ payload \in [Jobs -> [copy : Copy, ttl : Nat \ {0}] \cup {None}]
  /\ at \in [Workers -> {"idle", "get", "rpush", "zrem", "del", "scan due", "lpush",
                         "unschedule", "rpop"} \cup Received]
  /\ todo \in [Workers -> SUBSET Jobs]
  /\ cur \in [Workers -> Jobs \cup {None}]
  /\ copy \in [Workers -> Copy \cup {None}]
  /\ beat \in [Workers -> [left : Nat, set : BOOLEAN] \cup {None}]
  /\ \A w \in Workers : copy[w] # None <=> at[w] \in Received \cup {"rpush"}
  /\ {w \in Workers : beat[w] # None} \subseteq {w \in Workers : at[w] = "handling"}
  /\ sent \subseteq Jobs /\ done \subseteq Jobs /\ dropped \subseteq Jobs
  /\ risked \subseteq Jobs
  /\ lapses \in Nat /\ crashes \in Nat /\ faults \in Nat

Settled == done \cup dropped

\* Some later command of some worker will find a copy of the job: in the list,
\* among the delayed ones, in the hands of a worker that has yet to push or to
\* report it, or as a payload that a lease or a scan still leads to.
Deliverable(j) ==
  \/ \E i \in DOMAIN list : list[i].id = j
  \/ scheduled[j] # None
  \/ \E w \in Workers : /\ HasCopy(w, j)
                        /\ at[w] \in {"rpush", "lease", "store", "handling", "retry",
                                      "retry del", "retry push"}
  \/ \E w \in Workers : at[w] \in {"lpush", "unschedule"} /\ j \in todo[w]
  \/ /\ payload[j] # None
     /\ \/ processing[j] # None
        \/ \E w \in Workers : at[w] \in Restoring /\ j \in todo[w] \ {cur[w]}

(***************************************************************************)
(* "If not acknowledged within this time, the job becomes available for    *)
(* reprocessing": a job that nobody finished or gave up can still be       *)
(* delivered.                                                              *)
(***************************************************************************)
NothingLost == \A j \in sent \ Settled : Deliverable(j)

(***************************************************************************)
(* The same promise while processes die and commands raise: what can be    *)
(* lost is only a job whose hand failed where no lease covered it.         *)
(***************************************************************************)
LostOnlyAtRisk == \A j \in sent \ (Settled \cup risked) : Deliverable(j)

(***************************************************************************)
(* Every job that was enqueued or scheduled and that no failing hand left  *)
(* at risk is eventually finished or given up, whatever the late reports   *)
(* do and whichever processes die.                                         *)
(***************************************************************************)
EverySettled == \A j \in Jobs : j \in sent ~> j \in Settled \cup risked

(***************************************************************************)
(* The backend keeps the promise of the protocol, as long as no process    *)
(* dies and no command raises: the races between its commands duplicate    *)
(* deliveries but lose none.                                               *)
(***************************************************************************)
Running == [w \in Workers |->
  IF copy[w] # None /\ at[w] \in {"lease", "store", "handling", "retry", "retry del",
                                  "retry push"}
  THEN copy[w].id ELSE None]

Promise == INSTANCE AtLeastOnce WITH
  Nobody <- None, stored <- {j \in Jobs : Deliverable(j)}, running <- Running,
  settled <- Settled

KeepsPromise == Promise!Spec

==============================================================================
