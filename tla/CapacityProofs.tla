--------------------------- MODULE CapacityProofs ---------------------------
(***************************************************************************)
(* What is limited: the permits of WorkerPool, the numbers of knowledge    *)
(* bases and documents (CountLimits), the paid seats (Seats), and the      *)
(* quotas and slots of a plugin's calls (PluginCalls), for any workers,    *)
(* queues, requests, users, calls and limits.                              *)
(***************************************************************************)
EXTENDS WorkerPool, CountLimits, Seats, PluginCalls, FiniteSetTheorems, TLAPS

------------------------------------------------------------------------------
(***************************************************************************)
(* WorkerPool.                                                             *)
(***************************************************************************)
\* A worker has a permit's queue exactly while it has a job of that queue, and
\* rejects a job for another attempt only when one is left.
Consistent ==
  \A w \in Workers :
    /\ Busy(w) <=> job[w] # None
    /\ job[w] = None => acquired[w] = None
    /\ job[w] # None => acquired[w] = job[w].queue
    /\ requeue[w] => job[w] # None /\ AttemptsLeft(w)

TypeInv == TypeOK /\ Consistent

Holders(q)   == Prober(q) \cup Runner(q)
Others(w, q) == Holders(q) \ {w}

\* The permits p are those left when w holds none.
Without(w, p) ==
  /\ p \in [Queues -> Nat]
  /\ \A q \in Limited : p[q] + Cardinality(Others(w, q)) = Limit[q]

------------------------------------------------------------------------------
(***************************************************************************)
(* Positions of the rotation.                                              *)
(***************************************************************************)
LEMMA ModQueues == \A n \in Nat : n % NumQueues \in Queues
BY PoolAssumption DEF Queues

LEMMA NextIsQueue ==
  ASSUME NEW q \in Queues
  PROVE  NextIndex(q) \in Queues
<1>1. q + 1 \in Nat
  BY PoolAssumption DEF Queues
<1> QED
  BY <1>1, ModQueues DEF NextIndex

LEMMA SlotInQueues ==
  ASSUME TypeOK, NEW w \in Workers, NEW k \in Nat
  PROVE  Slot(w, k) \in Queues
<1>1. index[w] \in Nat
  BY DEF TypeOK, Queues
<1> QED
  BY <1>1, ModQueues DEF Slot

(***************************************************************************)
(* What a seek leaves: a worker that holds the permit of one queue more,   *)
(* or of none.                                                             *)
(***************************************************************************)
LEMMA SeekEffect ==
  ASSUME TypeOK, NEW w \in Workers, NEW i \in Nat, NEW p \in [Queues -> Nat],
         Seek(w, i, p)
  PROVE  /\ permits' \in [Queues -> Nat]
         /\ index' \in [Workers -> Queues] /\ offset' \in [Workers -> Queues]
         /\ \A v \in Workers \ {w} :
              pc'[v] = pc[v] /\ index'[v] = index[v] /\ offset'[v] = offset[v]
         /\ \/ /\ pc' = [pc EXCEPT ![w] = "dequeuing"]
               /\ permits' = Taken(p, Asked(w)')
               /\ Asked(w)' \in Queues
            \/ pc' = [pc EXCEPT ![w] = "sleeping"] /\ permits' = p
<1>1. CASE \E k \in i..NumQueues-1 :
             /\ Free(p, Slot(w, k))
             /\ permits' = Taken(p, Slot(w, k))
             /\ offset' = [offset EXCEPT ![w] = k]
             /\ pc' = [pc EXCEPT ![w] = "dequeuing"]
             /\ UNCHANGED index
  <2>1. PICK k \in i..NumQueues-1 :
             /\ Free(p, Slot(w, k))
             /\ permits' = Taken(p, Slot(w, k))
             /\ offset' = [offset EXCEPT ![w] = k]
             /\ pc' = [pc EXCEPT ![w] = "dequeuing"]
             /\ UNCHANGED index
    BY <1>1
  <2>2. k \in Queues /\ k \in Nat
    BY <2>1, PoolAssumption DEF Queues
  <2>3. Slot(w, k) \in Queues
    BY <2>2, SlotInQueues
  <2>4. offset' \in [Workers -> Queues] /\ offset'[w] = k
    BY <2>1, <2>2 DEF TypeOK
  <2>5. Asked(w)' = Slot(w, k)
    BY <2>1, <2>4 DEF Asked, Slot
  <2>6. permits' \in [Queues -> Nat]
    BY <2>1, <2>3 DEF Taken, Free
  <2> QED
    BY <2>1, <2>3, <2>4, <2>5, <2>6 DEF TypeOK
<1>2. CASE /\ permits' = p
           /\ index' = [index EXCEPT ![w] = NextIndex(@)]
           /\ offset' = [offset EXCEPT ![w] = 0]
           /\ pc' = [pc EXCEPT ![w] = "sleeping"]
  <2>1. index[w] \in Queues
    BY DEF TypeOK
  <2>2. NextIndex(index[w]) \in Queues
    BY <2>1, NextIsQueue
  <2>3. 0 \in Queues
    BY PoolAssumption DEF Queues
  <2> QED
    BY <1>2, <2>2, <2>3 DEF TypeOK
<1> QED
  BY <1>1, <1>2 DEF Seek

(***************************************************************************)
(* A worker that is busy holds the permit of its job's queue.              *)
(***************************************************************************)
LEMMA BusyHolds ==
  ASSUME TypeInv, NEW w \in Workers, Busy(w)
  PROVE  /\ job[w] \in Job /\ job[w] # None
         /\ acquired[w] = job[w].queue /\ acquired[w] \in Queues
BY PoolAssumption DEF TypeInv, TypeOK, Consistent, Job

LEMMA IdleHolds ==
  ASSUME TypeInv, NEW w \in Workers, ~Busy(w)
  PROVE  job[w] = None /\ acquired[w] = None /\ requeue[w] = FALSE
BY DEF TypeInv, TypeOK, Consistent

------------------------------------------------------------------------------
(***************************************************************************)
(* Types and the bookkeeping of each worker.                               *)
(***************************************************************************)
LEMMA InitTyped == Init => TypeInv
<1> SUFFICES ASSUME Init PROVE TypeInv
  OBVIOUS
<1>1. 0 \in Queues
  BY PoolAssumption DEF Queues
<1>2. waiting \in [Queues -> Seq(0..MaxAttempts-1)]
  <2>1. <<>> \in Seq(0..MaxAttempts-1)
    OBVIOUS
  <2> QED
    BY <2>1 DEF Init
<1>3. TypeOK
  BY <1>1, <1>2, PoolAssumption DEF Init, TypeOK
<1>4. Consistent
  BY DEF Init, Consistent, Busy
<1> QED
  BY <1>3, <1>4 DEF TypeInv

LEMMA SeekTyped ==
  ASSUME TypeInv, NEW w \in Workers, ~Busy(w), NEW i \in Nat, NEW p \in [Queues -> Nat],
         Seek(w, i, p),
         UNCHANGED <<waiting, running, job, acquired, requeue, signalled>>, faults' \in Nat
  PROVE  TypeInv'
<1>1. TypeOK /\ Consistent
  BY DEF TypeInv
<1>2. /\ permits' \in [Queues -> Nat]
      /\ index' \in [Workers -> Queues] /\ offset' \in [Workers -> Queues]
      /\ pc' = [pc EXCEPT ![w] = "dequeuing"] \/ pc' = [pc EXCEPT ![w] = "sleeping"]
  BY <1>1, SeekEffect
<1>3. TypeOK'
  BY <1>1, <1>2 DEF TypeOK
<1>4. \A v \in Workers : Busy(v)' <=> Busy(v)
  BY <1>1, <1>2 DEF TypeOK, Busy
<1>5. Consistent'
  BY <1>1, <1>4 DEF Consistent, AttemptsLeft
<1> QED
  BY <1>3, <1>5 DEF TypeInv

LEMMA FinallyTyped ==
  ASSUME TypeInv, NEW w \in Workers, Busy(w), NEW next \in {"top", "died"},
         Finally(w, next), waiting' \in [Queues -> Seq(0..MaxAttempts-1)],
         UNCHANGED <<running, index, offset, signalled>>, faults' \in Nat
  PROVE  TypeInv'
<1>1. TypeOK /\ Consistent
  BY DEF TypeInv
<1>2. permits' \in [Queues -> Nat]
  BY <1>1, BusyHolds DEF Finally, Released, TypeOK
<1>3. TypeOK'
  BY <1>1, <1>2 DEF TypeOK, Finally
<1>4. Consistent'
  BY <1>1 DEF Consistent, TypeOK, Finally, Busy, AttemptsLeft
<1> QED
  BY <1>3, <1>4 DEF TypeInv

\* A step that only moves an idle worker.
LEMMA IdleMoveTyped ==
  ASSUME TypeInv, NEW w \in Workers, ~Busy(w), NEW next \in {"top", "stopped"},
         pc' = [pc EXCEPT ![w] = next],
         UNCHANGED <<waiting, permits, running, index, offset, job, acquired, requeue,
                     signalled, faults>>
  PROVE  TypeInv'
<1>1. TypeOK /\ Consistent
  BY DEF TypeInv
<1>2. TypeOK'
  BY <1>1 DEF TypeOK
<1>3. Consistent'
  BY <1>1 DEF Consistent, TypeOK, Busy, AttemptsLeft
<1> QED
  BY <1>2, <1>3 DEF TypeInv

\* A step that only moves a busy worker and decides on another attempt.
LEMMA MoveTyped ==
  ASSUME TypeInv, NEW w \in Workers, Busy(w),
         NEW next \in {"acknowledging", "rejecting"}, NEW back \in BOOLEAN,
         back => AttemptsLeft(w),
         pc' = [pc EXCEPT ![w] = next], requeue' = [requeue EXCEPT ![w] = back],
         UNCHANGED <<waiting, permits, running, index, offset, job, acquired, signalled>>,
         faults' \in Nat
  PROVE  TypeInv'
<1>1. TypeOK /\ Consistent
  BY DEF TypeInv
<1>2. TypeOK'
  BY <1>1 DEF TypeOK
<1>3. Consistent'
  BY <1>1 DEF Consistent, TypeOK, Busy, AttemptsLeft
<1> QED
  BY <1>2, <1>3 DEF TypeInv

LEMMA HeadTailTyped ==
  ASSUME NEW S, NEW s \in Seq(S), s # <<>>
  PROVE  Head(s) \in S /\ Tail(s) \in Seq(S)
OBVIOUS

LEMMA WorkTyped ==
  ASSUME TypeInv, NEW w \in Workers, Work(w)
  PROVE  TypeInv'
<1>1. TypeOK /\ Consistent
  BY DEF TypeInv
<1>2. \A q \in Queues : Released(permits, q) \in [Queues -> Nat]
  BY <1>1 DEF Released, TypeOK
<1>3. pc[w] = "dequeuing" => ~Busy(w) /\ Asked(w) \in Queues /\ offset[w] + 1 \in Nat
  <2>1. offset[w] \in Nat
    BY <1>1, PoolAssumption DEF TypeOK, Queues
  <2> QED
    BY <1>1, <2>1, SlotInQueues DEF Busy, Asked
<1>4. CASE Poll(w)
  <2>1. ~Busy(w) /\ faults' \in Nat /\ permits \in [Queues -> Nat]
    BY <1>1, <1>4 DEF Poll, Busy, TypeOK
  <2> QED
    BY <2>1, <1>4, SeekTyped DEF Poll
<1>5. CASE Stop(w) \/ Wake(w)
  <2>1. ~Busy(w)
    BY <1>5 DEF Stop, Wake, Busy
  <2> QED
    BY <2>1, <1>5, IdleMoveTyped DEF Stop, Wake
<1>6. CASE FindNothing(w) \/ DequeueFails(w)
  <2>1. faults' \in Nat /\ pc[w] = "dequeuing"
    BY <1>1, <1>6 DEF FindNothing, DequeueFails, Fault, TypeOK
  <2> QED
    BY <2>1, <1>2, <1>3, <1>6, SeekTyped DEF FindNothing, DequeueFails, MoveOn
<1>7. CASE TakeJob(w)
  <2> DEFINE q == Asked(w)
  <2>1. q \in Queues /\ ~Busy(w) /\ waiting[q] \in Seq(0..MaxAttempts-1) /\ waiting[q] # <<>>
    BY <1>1, <1>3, <1>7 DEF TakeJob, TypeOK
  <2>2. Head(waiting[q]) \in 0..MaxAttempts-1 /\ Tail(waiting[q]) \in Seq(0..MaxAttempts-1)
    BY <2>1, HeadTailTyped
  <2>3. job'[w] \in Job /\ job'[w].queue = q /\ job' \in [Workers -> Job \cup {None}]
    <3>1. [queue |-> q, attempts |-> Head(waiting[q]) + 1] \in Job
      BY <2>1, <2>2, PoolAssumption DEF Job
    <3> QED
      BY <1>1, <1>7, <3>1 DEF TakeJob, TypeOK
  <2>4. NextIndex(q) \in Queues /\ 0 \in Queues
    BY <2>1, NextIsQueue, PoolAssumption DEF Queues
  <2>5. TypeOK'
    BY <1>1, <1>7, <2>1, <2>2, <2>3, <2>4 DEF TakeJob, TypeOK
  <2>6. job'[w] # None
    BY <2>3, PoolAssumption
  <2>7. Consistent'
    BY <1>1, <1>7, <2>1, <2>3, <2>6, IdleHolds
    DEF Consistent, TakeJob, TypeOK, Busy, AttemptsLeft
  <2> QED
    BY <2>5, <2>7 DEF TypeInv
<1>8. CASE HandlerReturns(w)
  <2>1. Busy(w) /\ faults' \in Nat /\ requeue' = [requeue EXCEPT ![w] = requeue[w]]
    BY <1>1, <1>8 DEF HandlerReturns, Busy, TypeOK
  <2>2. requeue[w] \in BOOLEAN /\ (requeue[w] => AttemptsLeft(w))
    BY <1>1 DEF TypeOK, Consistent
  <2> QED
    BY <1>8, <2>1, <2>2, MoveTyped DEF HandlerReturns
<1>9. ASSUME NEW back \in BOOLEAN, Busy(w), Reject(w, back), back => AttemptsLeft(w),
             faults' \in Nat
      PROVE  TypeInv'
  BY <1>9, MoveTyped DEF Reject
<1>10. CASE \E t \in BOOLEAN : HandlerRaises(w, t)
  <2>1. PICK t \in BOOLEAN : HandlerRaises(w, t)
    BY <1>10
  <2>2. Busy(w) /\ faults' \in Nat
    BY <1>1, <2>1 DEF HandlerRaises, Busy, TypeOK
  <2>3. (~t /\ AttemptsLeft(w)) \in BOOLEAN
    BY Zenon DEF AttemptsLeft
  <2> QED
    BY <1>9, <2>1, <2>2, <2>3 DEF HandlerRaises
<1>11. CASE AcknowledgeFails(w)
  <2>1. Busy(w) /\ faults' \in Nat
    BY <1>1, <1>11 DEF AcknowledgeFails, Fault, Busy, TypeOK
  <2>2. AttemptsLeft(w) \in BOOLEAN
    BY DEF AttemptsLeft
  <2> QED
    BY <1>9, <1>11, <2>1, <2>2 DEF AcknowledgeFails
<1>12. CASE Acknowledge(w)
  <2>1. Busy(w) /\ faults' \in Nat /\ waiting' \in [Queues -> Seq(0..MaxAttempts-1)]
    BY <1>1, <1>12 DEF Acknowledge, Busy, TypeOK
  <2> QED
    BY <1>12, <2>1, FinallyTyped DEF Acknowledge
<1>13. CASE RejectSucceeds(w)
  <2>1. Busy(w) /\ faults' \in Nat
    BY <1>1, <1>13 DEF RejectSucceeds, Busy, TypeOK
  <2>2. waiting' \in [Queues -> Seq(0..MaxAttempts-1)]
    <3>1. CASE requeue[w]
      <4>1. job[w].attempts \in 0..MaxAttempts-1 /\ job[w].queue \in Queues
        BY <1>1, <2>1, <3>1, BusyHolds, PoolAssumption DEF Consistent, AttemptsLeft, Job
      <4>2. Append(waiting[job[w].queue], job[w].attempts) \in Seq(0..MaxAttempts-1)
        BY <1>1, <4>1 DEF TypeOK
      <4> QED
        BY <1>1, <1>13, <3>1, <4>2 DEF RejectSucceeds, TypeOK
    <3>2. CASE ~requeue[w]
      BY <1>1, <1>13, <3>2 DEF RejectSucceeds, TypeOK
    <3> QED
      BY <3>1, <3>2
  <2> QED
    BY <1>13, <2>1, <2>2, FinallyTyped DEF RejectSucceeds
<1>14. CASE RejectFails(w)
  <2>1. Busy(w) /\ faults' \in Nat /\ waiting' \in [Queues -> Seq(0..MaxAttempts-1)]
    BY <1>1, <1>14 DEF RejectFails, Fault, Busy, TypeOK
  <2> QED
    BY <1>14, <2>1, FinallyTyped DEF RejectFails
<1> QED
  BY <1>4, <1>5, <1>6, <1>7, <1>8, <1>10, <1>11, <1>12, <1>13, <1>14 DEF Work

LEMMA NextTyped == TypeInv /\ [Next]_vars => TypeInv'
<1> SUFFICES ASSUME TypeInv, [Next]_vars PROVE TypeInv'
  OBVIOUS
<1>1. TypeOK /\ Consistent
  BY DEF TypeInv
<1>2. CASE \E q \in Queues : Submit(q)
  <2>1. PICK q \in Queues : Submit(q)
    BY <1>2
  <2>2. Append(waiting[q], 0) \in Seq(0..MaxAttempts-1)
    <3>1. 0 \in 0..MaxAttempts-1
      BY PoolAssumption
    <3> QED
      BY <1>1, <3>1 DEF TypeOK
  <2>3. TypeOK'
    BY <1>1, <2>1, <2>2 DEF Submit, worker, TypeOK
  <2>4. Consistent'
    BY <1>1, <2>1 DEF Submit, worker, Consistent, Busy, AttemptsLeft
  <2> QED
    BY <2>3, <2>4 DEF TypeInv
<1>3. CASE \E w \in Workers : Work(w)
  BY <1>3, WorkTyped
<1>4. CASE Signal
  <2>1. TypeOK'
    BY <1>1, <1>4 DEF Signal, TypeOK
  <2>2. Consistent'
    BY <1>1, <1>4 DEF Signal, Consistent, Busy, AttemptsLeft
  <2> QED
    BY <2>1, <2>2 DEF TypeInv
<1>5. CASE UNCHANGED vars
  BY <1>1, <1>5 DEF vars, worker, TypeInv, TypeOK, Consistent, Busy, AttemptsLeft
<1> QED
  BY <1>2, <1>3, <1>4, <1>5 DEF Next

(***************************************************************************)
(* Every component of the state has its type, in every reachable state.    *)
(***************************************************************************)
THEOREM TypeCorrect == Spec => []TypeOK
<1>1. TypeInv => TypeOK
  BY DEF TypeInv
<1> QED
  BY <1>1, InitTyped, NextTyped, PTL DEF Spec

------------------------------------------------------------------------------
(***************************************************************************)
(* Counting the holders of a permit.                                       *)
(***************************************************************************)
LEMMA CountOthers ==
  ASSUME NEW H \in SUBSET Workers, NEW w
  PROVE  /\ Cardinality(H) \in Nat /\ Cardinality(H \ {w}) \in Nat
         /\ Cardinality(H) = Cardinality(H \ {w}) + (IF w \in H THEN 1 ELSE 0)
<1>1. IsFiniteSet(H)
  BY PoolAssumption, FS_Subset
<1>2. IsFiniteSet(H \ {w}) /\ Cardinality(H \ {w}) = IF w \in H THEN Cardinality(H) - 1
                                                                 ELSE Cardinality(H)
  BY <1>1, FS_RemoveElement
<1>3. Cardinality(H) \in Nat /\ Cardinality(H \ {w}) \in Nat
  BY <1>1, <1>2, FS_CardinalityType
<1> QED
  BY <1>2, <1>3

LEMMA LimitedQueues == \A q \in Limited : q \in Queues /\ q # None
BY PoolAssumption DEF Limited

\* Which permit a worker holds.
LEMMA HoldsNone ==
  ASSUME TypeInv, NEW w \in Workers, ~Busy(w), pc[w] # "dequeuing", NEW q \in Limited
  PROVE  w \notin Holders(q)
BY IdleHolds, LimitedQueues DEF Holders, Prober, Runner

LEMMA HoldsAsked ==
  ASSUME TypeInv, NEW w \in Workers, pc[w] = "dequeuing", NEW q \in Limited
  PROVE  w \in Holders(q) <=> q = Asked(w)
<1>1. ~Busy(w)
  BY DEF Busy
<1> QED
  BY <1>1, IdleHolds, LimitedQueues DEF Holders, Prober, Runner

LEMMA HoldsAcquired ==
  ASSUME TypeInv, NEW w \in Workers, Busy(w), NEW q \in Limited
  PROVE  w \in Holders(q) <=> q = acquired[w]
<1>1. pc[w] # "dequeuing"
  BY DEF Busy
<1> QED
  BY <1>1 DEF Holders, Prober, Runner

------------------------------------------------------------------------------
(***************************************************************************)
(* Before a step of w: the permits that are left once w gives back its     *)
(* own.                                                                    *)
(***************************************************************************)
LEMMA WithoutNone ==
  ASSUME TypeInv, PermitsAccounted, NEW w \in Workers, ~Busy(w), pc[w] # "dequeuing"
  PROVE  Without(w, permits)
<1>1. permits \in [Queues -> Nat]
  BY DEF TypeInv, TypeOK
<1>2. ASSUME NEW q \in Limited
      PROVE  permits[q] + Cardinality(Others(w, q)) = Limit[q]
  <2>1. Holders(q) \in SUBSET Workers /\ w \notin Holders(q)
    BY HoldsNone DEF Holders, Prober, Runner
  <2>2. Others(w, q) = Holders(q)
    BY <2>1 DEF Others
  <2> QED
    BY <2>2 DEF PermitsAccounted, Holders
<1> QED
  BY <1>1, <1>2 DEF Without

LEMMA WithoutOwn ==
  ASSUME TypeInv, PermitsAccounted, NEW w \in Workers, NEW r \in Queues,
         \A q \in Limited : w \in Holders(q) <=> q = r
  PROVE  Without(w, Released(permits, r))
<1>1. permits \in [Queues -> Nat]
  BY DEF TypeInv, TypeOK
<1>2. Released(permits, r) \in [Queues -> Nat]
  BY <1>1 DEF Released
<1>3. ASSUME NEW q \in Limited
      PROVE  Released(permits, r)[q] + Cardinality(Others(w, q)) = Limit[q]
  <2>1. Holders(q) \in SUBSET Workers /\ q \in Queues
    BY LimitedQueues DEF Holders, Prober, Runner
  <2>2. permits[q] + Cardinality(Holders(q)) = Limit[q]
    BY DEF PermitsAccounted, Holders
  <2>3. /\ Cardinality(Holders(q)) \in Nat /\ Cardinality(Others(w, q)) \in Nat
        /\ Cardinality(Holders(q)) = Cardinality(Others(w, q)) + (IF q = r THEN 1 ELSE 0)
    BY <2>1, CountOthers DEF Others
  <2>4. Released(permits, r)[q] = permits[q] + (IF q = r THEN 1 ELSE 0)
    BY <1>1, <2>1 DEF Released
  <2> QED
    BY <1>1, <2>1, <2>2, <2>3, <2>4
<1> QED
  BY <1>2, <1>3 DEF Without

------------------------------------------------------------------------------
(***************************************************************************)
(* After a step of w, during which nobody else moved.                      *)
(***************************************************************************)
Alone(w) ==
  \A v \in Workers \ {w} :
    pc'[v] = pc[v] /\ index'[v] = index[v] /\ offset'[v] = offset[v]
      /\ acquired'[v] = acquired[v]

LEMMA SameOthers ==
  ASSUME NEW w \in Workers, Alone(w), NEW q
  PROVE  Others(w, q)' = Others(w, q)
BY DEF Alone, Others, Holders, Prober, Runner, Asked, Slot

LEMMA AccountedNone ==
  ASSUME NEW w \in Workers, NEW p, Without(w, p), Alone(w), permits' = p,
         \A q \in Limited : w \notin Holders(q)'
  PROVE  PermitsAccounted'
<1> SUFFICES ASSUME NEW q \in Limited
             PROVE  permits'[q] + Cardinality(Holders(q)') = Limit[q]
  BY DEF PermitsAccounted, Holders, Limited, Queues
<1>1. Holders(q)' = Others(w, q)
  BY SameOthers DEF Others
<1> QED
  BY <1>1 DEF Without

LEMMA AccountedOne ==
  ASSUME NEW w \in Workers, NEW p, Without(w, p), Alone(w),
         NEW r \in Queues, permits' = Taken(p, r),
         \A q \in Limited : w \in Holders(q)' <=> q = r
  PROVE  PermitsAccounted'
<1> SUFFICES ASSUME NEW q \in Limited
             PROVE  permits'[q] + Cardinality(Holders(q)') = Limit[q]
  BY DEF PermitsAccounted, Holders, Limited, Queues
<1>1. Holders(q)' \in SUBSET Workers /\ q \in Queues
  BY LimitedQueues DEF Holders, Prober, Runner
<1>2. Holders(q)' \ {w} = Others(w, q)
  BY SameOthers DEF Others
<1>3. /\ Cardinality(Others(w, q)) \in Nat
      /\ Cardinality(Holders(q)') = Cardinality(Others(w, q)) + (IF q = r THEN 1 ELSE 0)
  BY <1>1, <1>2, CountOthers
<1>4. p[q] \in Nat /\ permits'[q] = p[q] - (IF q = r THEN 1 ELSE 0)
  BY <1>1 DEF Without, Taken
<1> QED
  BY <1>3, <1>4 DEF Without

LEMMA SeekAccounted ==
  ASSUME TypeInv, NEW w \in Workers, ~Busy(w), NEW i \in Nat, NEW p,
         Without(w, p), Seek(w, i, p), UNCHANGED acquired
  PROVE  PermitsAccounted'
<1>1. TypeOK
  BY DEF TypeInv
<1>2. p \in [Queues -> Nat]
  BY DEF Without
<1>3. acquired'[w] = None
  BY IdleHolds
<1>4. /\ \A v \in Workers \ {w} :
           pc'[v] = pc[v] /\ index'[v] = index[v] /\ offset'[v] = offset[v]
      /\ \/ /\ pc' = [pc EXCEPT ![w] = "dequeuing"]
            /\ permits' = Taken(p, Asked(w)')
            /\ Asked(w)' \in Queues
         \/ pc' = [pc EXCEPT ![w] = "sleeping"] /\ permits' = p
  BY <1>1, <1>2, SeekEffect
<1>5. Alone(w)
  BY <1>4 DEF Alone
<1>6. CASE /\ pc' = [pc EXCEPT ![w] = "dequeuing"]
           /\ permits' = Taken(p, Asked(w)')
           /\ Asked(w)' \in Queues
  <2>1. \A q \in Limited : w \in Holders(q)' <=> q = Asked(w)'
    BY <1>1, <1>3, <1>6, LimitedQueues DEF Holders, Prober, Runner, TypeOK
  <2> QED
    BY <1>5, <1>6, <2>1, AccountedOne
<1>7. CASE pc' = [pc EXCEPT ![w] = "sleeping"] /\ permits' = p
  <2>1. \A q \in Limited : w \notin Holders(q)'
    BY <1>1, <1>3, <1>7, LimitedQueues DEF Holders, Prober, Runner, TypeOK
  <2> QED
    BY <1>5, <1>7, <2>1, AccountedNone
<1> QED
  BY <1>4, <1>6, <1>7

LEMMA FinallyAccounted ==
  ASSUME TypeInv, PermitsAccounted, NEW w \in Workers, Busy(w),
         NEW next \in {"top", "died"}, Finally(w, next), UNCHANGED <<index, offset>>
  PROVE  PermitsAccounted'
<1>1. acquired[w] \in Queues
  BY BusyHolds
<1>2. Without(w, Released(permits, acquired[w]))
  BY <1>1, HoldsAcquired, WithoutOwn
<1>3. Alone(w)
  BY DEF Alone, Finally, TypeInv, TypeOK
<1>4. \A q \in Limited : w \notin Holders(q)'
  BY LimitedQueues DEF Holders, Prober, Runner, Finally, TypeInv, TypeOK
<1> QED
  BY <1>2, <1>3, <1>4, AccountedNone DEF Finally

\* A step that takes nobody to or from a dequeue and moves no permit.
LEMMA StayAccounted ==
  ASSUME TypeInv, PermitsAccounted, NEW w \in Workers, NEW next,
         pc[w] # "dequeuing", next # "dequeuing", pc' = [pc EXCEPT ![w] = next],
         UNCHANGED <<permits, index, offset, acquired>>
  PROVE  PermitsAccounted'
<1>1. \A q : Holders(q)' = Holders(q)
  BY DEF Holders, Prober, Runner, Asked, Slot, TypeInv, TypeOK
<1> QED
  BY <1>1 DEF PermitsAccounted, Holders, Limited, Queues

LEMMA WorkAccounted ==
  ASSUME TypeInv, PermitsAccounted, NEW w \in Workers, Work(w)
  PROVE  PermitsAccounted'
<1>1. TypeOK /\ Consistent
  BY DEF TypeInv
<1>2. CASE Poll(w)
  <2>1. ~Busy(w) /\ pc[w] # "dequeuing" /\ Seek(w, 0, permits) /\ UNCHANGED acquired
    BY <1>2 DEF Poll, Busy
  <2> QED
    BY <2>1, WithoutNone, SeekAccounted
<1>3. CASE FindNothing(w) \/ DequeueFails(w)
  <2>1. /\ pc[w] = "dequeuing" /\ ~Busy(w) /\ UNCHANGED acquired
        /\ Seek(w, offset[w] + 1, Released(permits, Asked(w)))
    BY <1>3 DEF FindNothing, DequeueFails, MoveOn, Busy
  <2>2. offset[w] \in Nat
    BY <1>1, PoolAssumption DEF TypeOK, Queues
  <2>3. Asked(w) \in Queues /\ offset[w] + 1 \in Nat
    BY <1>1, <2>2, SlotInQueues DEF Asked
  <2>4. Without(w, Released(permits, Asked(w)))
    BY <2>1, <2>3, HoldsAsked, WithoutOwn
  <2> QED
    BY <2>1, <2>3, <2>4, SeekAccounted
<1>4. CASE TakeJob(w)
  <2>1. pc[w] = "dequeuing"
    BY <1>4 DEF TakeJob
  <2>2. ASSUME NEW q \in Limited
        PROVE  w \in Holders(q)' <=> w \in Holders(q)
    BY <1>1, <1>4, <2>1, HoldsAsked DEF TakeJob, Holders, Prober, Runner, TypeOK
  <2>3. Alone(w)
    BY <1>1, <1>4 DEF Alone, TakeJob, TypeOK
  <2>4. ASSUME NEW q \in Limited
        PROVE  Holders(q)' = Holders(q)
    BY <2>2, <2>3, SameOthers DEF Others
  <2> QED
    BY <1>4, <2>4 DEF TakeJob, PermitsAccounted, Holders, Limited, Queues
<1>5. CASE Stop(w) \/ Wake(w) \/ HandlerReturns(w)
  BY <1>5, StayAccounted DEF Stop, Wake, HandlerReturns
<1>6. CASE AcknowledgeFails(w) \/ \E t \in BOOLEAN : HandlerRaises(w, t)
  <2>1. PICK back : Reject(w, back)
    BY <1>6 DEF AcknowledgeFails, HandlerRaises
  <2>2. pc[w] # "dequeuing"
    BY <1>6 DEF AcknowledgeFails, HandlerRaises
  <2> QED
    BY <2>1, <2>2, StayAccounted DEF Reject
<1>7. CASE Acknowledge(w)
  BY <1>7, FinallyAccounted DEF Acknowledge, Busy
<1>8. CASE RejectSucceeds(w) \/ RejectFails(w)
  BY <1>8, FinallyAccounted DEF RejectSucceeds, RejectFails, Busy
<1> QED
  BY <1>2, <1>3, <1>4, <1>5, <1>6, <1>7, <1>8 DEF Work

------------------------------------------------------------------------------
LEMMA InitAccounted == Init => PermitsAccounted
<1> SUFFICES ASSUME Init, NEW q \in Limited
             PROVE  permits[q] + Cardinality(Holders(q)) = Limit[q]
  BY DEF PermitsAccounted, Holders
<1>1. Holders(q) = {}
  BY LimitedQueues DEF Init, Holders, Prober, Runner
<1>2. Cardinality({}) = 0
  BY FS_EmptySet
<1>3. Limit[q] \in Nat
  BY LimitedQueues, PoolAssumption
<1> QED
  BY <1>1, <1>2, <1>3 DEF Init

LEMMA NextAccounted == TypeInv /\ PermitsAccounted /\ [Next]_vars => PermitsAccounted'
<1> SUFFICES ASSUME TypeInv, PermitsAccounted, [Next]_vars PROVE PermitsAccounted'
  OBVIOUS
<1>1. CASE \E w \in Workers : Work(w)
  BY <1>1, WorkAccounted
<1>2. CASE UNCHANGED <<permits, pc, index, offset, acquired>>
  BY <1>2 DEF PermitsAccounted, Prober, Runner, Asked, Slot, Limited, Queues
<1> QED
  BY <1>1, <1>2 DEF Next, Submit, Signal, worker, vars

(***************************************************************************)
(* No permit leaks and none is released twice, whatever the queues do and  *)
(* whichever calls of the backend raise.                                   *)
(***************************************************************************)
THEOREM NoPermitLeaks == Spec => []PermitsAccounted
<1>1. Init => TypeInv /\ PermitsAccounted
  BY InitTyped, InitAccounted
<1>2. TypeInv /\ PermitsAccounted /\ [Next]_vars => (TypeInv /\ PermitsAccounted)'
  BY NextTyped, NextAccounted
<1> QED
  BY <1>1, <1>2, PTL DEF Spec

(***************************************************************************)
(* With a limiter, no more jobs of a workload type run at once than its    *)
(* setting allows: those that run are among those that hold its permits.   *)
(***************************************************************************)
THEOREM LimitsKept == Limiter => (Spec => []WithinLimits)
<1>1. ASSUME Limiter, TypeInv, PermitsAccounted
      PROVE  WithinLimits
  <2> SUFFICES ASSUME NEW q \in Queues, Limit[q] > 0
               PROVE  Cardinality(Handling(q)) <= Limit[q]
    BY DEF WithinLimits
  <2>1. q \in Limited
    BY <1>1 DEF Limited
  <2>2. Holders(q) \in SUBSET Workers /\ Handling(q) \in SUBSET Holders(q)
    BY <1>1 DEF Handling, Holders, Prober, Runner, TypeInv, Consistent
  <2>3. IsFiniteSet(Holders(q))
    BY <2>2, PoolAssumption, FS_Subset
  <2>4. /\ Cardinality(Handling(q)) <= Cardinality(Holders(q))
        /\ Cardinality(Handling(q)) \in Nat /\ Cardinality(Holders(q)) \in Nat
    BY <2>2, <2>3, FS_Subset, FS_CardinalityType
  <2>5. permits[q] + Cardinality(Holders(q)) = Limit[q] /\ permits[q] \in Nat
    BY <1>1, <2>1 DEF PermitsAccounted, Holders, TypeInv, TypeOK
  <2>6. Limit[q] \in Nat
    BY PoolAssumption
  <2> QED
    BY <2>4, <2>5, <2>6
<1>2. Init => TypeInv /\ PermitsAccounted
  BY InitTyped, InitAccounted
<1>3. TypeInv /\ PermitsAccounted /\ [Next]_vars => (TypeInv /\ PermitsAccounted)'
  BY NextTyped, NextAccounted
<1>4. ASSUME Limiter PROVE Spec => []WithinLimits
  <2>1. TypeInv /\ PermitsAccounted => WithinLimits
    BY <1>1, <1>4
  <2> QED
    BY <1>2, <1>3, <2>1, PTL DEF Spec
<1> QED
  BY <1>4

------------------------------------------------------------------------------
(***************************************************************************)
(* CountLimits.                                                            *)
(***************************************************************************)
KbStatus == {"active", "inactive", "error", "importing"}
KbRow == [slug: Names \cup Owners \cup Kbs, owner: Owners, personal: BOOLEAN, status: KbStatus,
          imported: BOOLEAN, batches: Nat, byHand: BOOLEAN, dropped: BOOLEAN]
\* A task that is at the rows has seen an import.
ImportTask == {t \in [server: Servers, at: {"queued", "rows"}, done: Nat, seen: KbStatus \cup {NoBase}] :
                 t.at = "rows" => t.seen = "importing"}
Creation == [id: Kbs, slug: Names \cup Owners, owner: Owners, personal: BOOLEAN, step: {"room", "insert"}]

UploadState == [doc: Docs, feed: BOOLEAN, step: {"room", "insert", "adjust"}]

\* What stands for nothing is none of the others, and a limit is a number.
LimitConstants ==
  /\ NoBase \notin KbRow \cup Creation \cup Creators \cup ImportTask
  /\ NoUpload \notin UploadState \cup Uploads
  /\ KbCap \in Nat /\ DocCap \in Nat

\* The rows that count, which are all but those of imports.
CountedRows == {k \in Rows : ~kb[k].imported}

RowsTyped == kb \in [Kbs -> KbRow \cup {NoBase}] /\ IsFiniteSet(Rows)
CreationsTyped == creating \in [Creators -> Creation \cup {NoBase}]
TasksTyped == import \in [Kbs -> ImportTask \cup {NoBase}]

Inserting(r) == creating[r] # NoBase /\ creating[r].step = "insert"

\* Who is about to insert holds the lock, and there is room for the row.
InsertHasRoom == \A r \in Creators : Inserting(r) => room = r /\ Cardinality(CountedRows) < KbCap

\* What the row of an import and its task have to do with each other.
Accounted(row, task) == row # NoBase /\ row.imported =>
  /\ row.status = "importing" => task # NoBase \/ row.dropped
  /\ row.status = "active" /\ ~row.byHand => row.batches = Batches
  /\ task # NoBase => row.batches = task.done

ImportsOK == \A k \in Kbs : Accounted(kb[k], import[k])

KbInv == RowsTyped /\ CreationsTyped /\ TasksTyped /\ InsertHasRoom /\ WithinKbCap /\ ImportsOK

LEMMA ImportsOKAccounts == ASSUME ImportsOK PROVE ImportsAccounted
BY DEF ImportsOK, ImportsAccounted, Accounted, Rows

\* Rows change, but no more of them count than before.
LEMMA RowsChange ==
  ASSUME LimitConstants, KbInv, RowsTyped', TasksTyped', ImportsOK', UNCHANGED <<room, creating>>,
         CountedRows' \subseteq CountedRows
  PROVE  KbInv'
<1>1. IsFiniteSet(CountedRows) /\ CountedRows = {k \in Rows : ~kb[k].imported}
  BY FS_Subset DEF CountedRows, KbInv, RowsTyped
<1>2. Cardinality(CountedRows') <= Cardinality(CountedRows) /\ Cardinality(CountedRows) \in Nat /\ Cardinality(CountedRows') \in Nat
  BY <1>1, FS_Subset, FS_CardinalityType
<1>3. Cardinality(CountedRows) <= KbCap
  BY DEF KbInv, WithinKbCap, CountedRows
<1>4. Cardinality(CountedRows') <= KbCap
  BY <1>2, <1>3 DEF LimitConstants
<1>5. WithinKbCap'
  BY <1>4 DEF WithinKbCap, CountedRows
<1>6. InsertHasRoom'
  BY <1>2 DEF KbInv, InsertHasRoom, Inserting, LimitConstants
<1> QED
  BY <1>5, <1>6 DEF KbInv, CreationsTyped

\* One row changes with its task, and counts no more than before.
LEMMA RowChanges ==
  ASSUME LimitConstants, KbInv, NEW k \in Kbs,
         NEW row \in KbRow \cup {NoBase}, kb' = [kb EXCEPT ![k] = row],
         NEW task \in ImportTask \cup {NoBase}, import' = [import EXCEPT ![k] = task],
         Accounted(row, task), row # NoBase => row.imported \/ k \in CountedRows,
         UNCHANGED <<room, creating>>
  PROVE  KbInv'
<1>1. kb'[k] = row /\ \A q \in Kbs \ {k} : kb'[q] = kb[q]
  BY DEF KbInv, RowsTyped
<1>2. kb' \in [Kbs -> KbRow \cup {NoBase}]
  BY DEF KbInv, RowsTyped
<1>3. Rows' \subseteq Rows \cup {k}
  BY <1>1 DEF Rows
<1>4. IsFiniteSet(Rows \cup {k})
  BY FS_AddElement DEF KbInv, RowsTyped
<1>5. RowsTyped'
  BY <1>2, <1>3, <1>4, FS_Subset DEF RowsTyped
<1>6. CountedRows' \subseteq CountedRows
  BY <1>1 DEF CountedRows, Rows
<1>7. TasksTyped' /\ import'[k] = task /\ \A q \in Kbs \ {k} : import'[q] = import[q]
  BY DEF KbInv, TasksTyped
<1>8. ASSUME NEW q \in Kbs PROVE Accounted(kb'[q], import'[q])
  <2>1. CASE q = k
    BY <1>1, <1>7, <2>1
  <2>2. CASE q # k
    <3>1. kb'[q] = kb[q] /\ import'[q] = import[q] /\ Accounted(kb[q], import[q])
      BY <1>1, <1>7, <2>2 DEF KbInv, ImportsOK
    <3> QED
      BY <3>1
  <2> QED
    BY <2>1, <2>2
<1>9. ImportsOK'
  BY <1>8 DEF ImportsOK
<1> QED
  BY <1>5, <1>6, <1>7, <1>9, RowsChange

\* A row that is there, and the task that is at it.
LEMMA RowIs ==
  ASSUME KbInv, NEW k \in Kbs
  PROVE  /\ kb[k] \in KbRow \cup {NoBase} /\ import[k] \in ImportTask \cup {NoBase}
         /\ kb[k] # NoBase => kb[k].imported \/ k \in CountedRows
         /\ Accounted(kb[k], import[k])
         /\ kb = [kb EXCEPT ![k] = kb[k]] /\ import = [import EXCEPT ![k] = import[k]]
<1>1. kb \in [Kbs -> KbRow \cup {NoBase}] /\ import \in [Kbs -> ImportTask \cup {NoBase}]
  BY DEF KbInv, RowsTyped, TasksTyped
<1>2. kb[k] # NoBase => kb[k].imported \/ k \in CountedRows
  BY DEF CountedRows, Rows
<1> QED
  BY <1>1, <1>2 DEF KbInv, ImportsOK

LEMMA RowStepsKeep ==
  ASSUME LimitConstants, KbInv, NEW k \in Kbs,
         \/ \E name \in Names : Rename(k, name)
         \/ \E status \in {"active", "inactive", "error"} : SetStatus(k, status)
         \/ DeleteKb(k)
         \/ \E p \in Servers, o \in Owners, name \in Names : StartImport(k, p, o, name)
  PROVE  KbInv'
<1>1. PICK old \in KbRow \cup {NoBase} : old = kb[k]
  BY RowIs
<1>2. PICK task \in ImportTask \cup {NoBase} : task = import[k]
  BY RowIs
<1>3. /\ Accounted(old, task) /\ import = [import EXCEPT ![k] = task]
      /\ k \in Rows => old \in KbRow /\ (old.imported \/ k \in CountedRows)
  BY <1>1, <1>2, RowIs DEF Rows
<1>4. ASSUME NEW name \in Names, Rename(k, name) PROVE KbInv'
  <2>1. old \in KbRow /\ (old.imported \/ k \in CountedRows)
    BY <1>3, <1>4 DEF Rename
  <2>2. PICK row : row = [old EXCEPT !.slug = name]
    OBVIOUS
  <2>3. row \in KbRow /\ row.imported = old.imported /\ Accounted(row, task)
    BY <1>3, <2>1, <2>2 DEF KbRow, Accounted, LimitConstants
  <2>4. kb' = [kb EXCEPT ![k] = row] /\ UNCHANGED <<room, creating, import>>
    BY <1>1, <1>4, <2>2 DEF Rename
  <2> QED
    BY <1>3, <2>1, <2>3, <2>4, RowChanges
<1>5. ASSUME NEW status \in {"active", "inactive", "error"}, SetStatus(k, status) PROVE KbInv'
  <2>1. old \in KbRow /\ (old.imported \/ k \in CountedRows)
    BY <1>3, <1>5 DEF SetStatus
  <2>2. PICK row : row = [old EXCEPT !.status = status, !.byHand = TRUE]
    OBVIOUS
  <2>3. /\ row \in KbRow /\ row.imported = old.imported /\ row.batches = old.batches
        /\ row.byHand /\ row.status = status
    BY <2>1, <2>2 DEF KbRow, KbStatus
  <2>4. Accounted(row, task)
    BY <1>3, <2>1, <2>3 DEF Accounted, LimitConstants
  <2>5. kb' = [kb EXCEPT ![k] = row] /\ UNCHANGED <<room, creating, import>>
    BY <1>1, <1>5, <2>2 DEF SetStatus, KbInv, RowsTyped
  <2> QED
    BY <1>3, <2>1, <2>3, <2>4, <2>5, RowChanges
<1>6. CASE DeleteKb(k)
  <2>1. kb' = [kb EXCEPT ![k] = NoBase] /\ UNCHANGED <<room, creating, import>>
    BY <1>6 DEF DeleteKb
  <2>2. Accounted(NoBase, task)
    BY DEF Accounted
  <2> QED
    BY <1>3, <2>1, <2>2, RowChanges
<1>7. ASSUME NEW p \in Servers, NEW o \in Owners, NEW name \in Names, StartImport(k, p, o, name)
      PROVE  KbInv'
  <2>1. PICK row : row = NewRow(IF SlugFree(name) THEN name ELSE k, o, FALSE, "importing", TRUE)
    OBVIOUS
  <2>2. PICK new : new = [server |-> p, at |-> "queued", done |-> 0, seen |-> NoBase]
    OBVIOUS
  <2>3. row \in KbRow /\ row.imported /\ row.status = "importing" /\ row.batches = 0
    BY <2>1 DEF KbRow, KbStatus, NewRow
  <2>4. new \in ImportTask /\ new.done = 0
    BY <2>2 DEF ImportTask
  <2>5. Accounted(row, new)
    BY <2>3, <2>4 DEF Accounted, LimitConstants
  <2>6. kb' = [kb EXCEPT ![k] = row] /\ import' = [import EXCEPT ![k] = new] /\ UNCHANGED <<room, creating>>
    BY <1>7, <2>1, <2>2 DEF StartImport
  <2> QED
    BY <2>3, <2>4, <2>5, <2>6, RowChanges
<1> QED
  BY <1>4, <1>5, <1>6, <1>7

\* The steps of a task.
LEMMA TaskStepsKeep ==
  ASSUME LimitConstants, KbInv, NEW k \in Kbs,
         \/ TaskBegins(k) \/ ImportBatch(k) \/ ImportFinishes(k)
         \/ \E written \in BOOLEAN : ImportFails(k, written)
  PROVE  KbInv'
<1>1. PICK old \in KbRow \cup {NoBase} : old = kb[k]
  BY RowIs
<1>2. PICK task \in ImportTask : task = import[k]
  BY RowIs DEF TaskBegins, ImportBatch, ImportFinishes, ImportFails, Importing
<1>3. /\ Accounted(old, task) /\ kb = [kb EXCEPT ![k] = old] /\ task # NoBase
      /\ k \in Rows => old \in KbRow
      /\ old # NoBase => old.imported \/ k \in CountedRows
  BY <1>1, <1>2, RowIs DEF Rows, LimitConstants
<1>4. UNCHANGED <<room, creating>>
  BY DEF TaskBegins, ImportBatch, ImportFinishes, ImportFails, TaskEnds
<1>5. CASE TaskBegins(k)
  <2>1. CASE k \in Rows /\ kb[k].status = "importing"
    <3>1. PICK new : new = [task EXCEPT !.at = "rows", !.seen = old.status]
      OBVIOUS
    <3>2. new \in ImportTask /\ new.done = task.done
      BY <1>1, <2>1, <3>1 DEF ImportTask, KbStatus
    <3>3. import' = [import EXCEPT ![k] = new] /\ UNCHANGED kb
      BY <1>1, <1>2, <1>5, <2>1, <3>1 DEF TaskBegins, KbInv, TasksTyped
    <3>4. Accounted(old, new)
      BY <1>3, <3>2 DEF Accounted, LimitConstants
    <3> QED
      BY <1>3, <1>4, <3>2, <3>3, <3>4, RowChanges
  <2>2. CASE ~(k \in Rows /\ kb[k].status = "importing")
    <3>1. import' = [import EXCEPT ![k] = NoBase] /\ UNCHANGED kb
      BY <1>5, <2>2 DEF TaskBegins
    <3>2. Accounted(old, NoBase)
      BY <1>1, <1>3, <2>2 DEF Accounted, Rows
    <3> QED
      BY <1>3, <1>4, <3>1, <3>2, RowChanges
  <2> QED
    BY <2>1, <2>2
<1>6. CASE ImportBatch(k)
  <2>1. old \in KbRow /\ old # NoBase
    BY <1>1, <1>3, <1>6 DEF ImportBatch, Rows
  <2>2. PICK new : new = [task EXCEPT !.done = task.done + 1]
    OBVIOUS
  <2>3. new \in ImportTask /\ new.done = task.done + 1
    BY <2>2 DEF ImportTask
  <2>4. PICK row : row = [old EXCEPT !.batches = old.batches + 1]
    OBVIOUS
  <2>5. /\ row \in KbRow /\ row.imported = old.imported /\ row.batches = old.batches + 1
        /\ row.status = old.status /\ row.byHand = old.byHand
    BY <2>1, <2>4 DEF KbRow
  <2>6. kb' = [kb EXCEPT ![k] = row] /\ import' = [import EXCEPT ![k] = new]
    BY <1>1, <1>2, <1>6, <2>2, <2>4 DEF ImportBatch
  <2>7. task.done < Batches
    BY <1>2, <1>6 DEF ImportBatch
  <2>8. old.imported => /\ old.batches = task.done
                        /\ old.status = "active" /\ ~old.byHand => old.batches = Batches
    BY <1>3, <2>1 DEF Accounted
  <2>9. old.imported => ~(old.status = "active" /\ ~old.byHand)
    <3>1. task.done \in Nat
      BY DEF ImportTask
    <3> QED
      BY <2>7, <2>8, <3>1
  <2>10. Accounted(row, new)
    BY <2>3, <2>5, <2>8, <2>9 DEF Accounted, LimitConstants
  <2> QED
    BY <1>3, <1>4, <2>1, <2>3, <2>5, <2>6, <2>10, RowChanges
<1>7. ASSUME NEW written \in BOOLEAN, ImportFails(k, written) PROVE KbInv'
  <2>1. import' = [import EXCEPT ![k] = NoBase]
    BY <1>7 DEF ImportFails, TaskEnds
  <2>2. CASE k \notin Rows
    <3>1. old = NoBase /\ kb' = kb
      BY <1>1, <1>7, <2>2 DEF ImportFails, Rows
    <3>2. Accounted(old, NoBase)
      BY <3>1 DEF Accounted
    <3> QED
      BY <1>3, <1>4, <2>1, <3>1, <3>2, RowChanges
  <2>3. CASE k \in Rows
    <3>1. PICK row : row = IF written THEN [old EXCEPT !.status = "error"] ELSE [old EXCEPT !.dropped = TRUE]
      OBVIOUS
    <3>2. /\ row \in KbRow /\ row.imported = old.imported /\ row.batches = old.batches /\ row.byHand = old.byHand
          /\ row.status = "error" \/ (row.dropped /\ row.status = old.status)
      BY <1>3, <2>3, <3>1 DEF KbRow, KbStatus
    <3>3. kb' = [kb EXCEPT ![k] = row]
      BY <1>1, <1>7, <2>3, <3>1 DEF ImportFails
    <3>4. Accounted(row, NoBase)
      BY <1>1, <1>3, <2>3, <3>2 DEF Accounted, Rows
    <3> QED
      BY <1>1, <1>3, <1>4, <2>1, <2>3, <3>2, <3>3, <3>4, RowChanges DEF Rows
  <2> QED
    BY <2>2, <2>3
<1>8. CASE ImportFinishes(k)
  <2>1. import' = [import EXCEPT ![k] = NoBase] /\ k \in Rows /\ task.done = Batches
    BY <1>2, <1>8 DEF ImportFinishes, TaskEnds
  <2>2. CASE task.seen = "importing"
    <3>1. PICK row : row = [old EXCEPT !.status = "active"]
      OBVIOUS
    <3>2. row \in KbRow /\ row.imported = old.imported /\ row.batches = old.batches /\ row.status = "active"
      BY <1>3, <2>1, <3>1 DEF KbRow, KbStatus
    <3>3. kb' = [kb EXCEPT ![k] = row]
      BY <1>1, <1>2, <1>8, <2>2, <3>1 DEF ImportFinishes, Activate
    <3>4. Accounted(row, NoBase)
      BY <1>1, <1>3, <2>1, <3>2 DEF Accounted, Rows
    <3> QED
      BY <1>1, <1>3, <1>4, <2>1, <3>2, <3>3, <3>4, RowChanges DEF Rows
  <2>3. task.seen = "importing"
    BY <1>2, <1>8 DEF ImportFinishes, Importing, ImportTask
  <2> QED
    BY <2>2, <2>3
<1> QED
  BY <1>5, <1>6, <1>7, <1>8

\* A request goes a step further, without a row.
LEMMA CreationStepsKeep ==
  ASSUME LimitConstants, KbInv, NEW r \in Creators,
         \/ \E k \in Kbs, o \in Owners : (\E name \in Names : Create(r, k, o, name)) \/ EnsurePersonal(r, k, o)
         \/ Admitted(r) \/ NoRoom(r)
  PROVE  KbInv'
<1>1. UNCHANGED <<kb, import>>
  BY DEF Create, EnsurePersonal, BeginCreate, Admitted, NoRoom
<1>2. RowsTyped' /\ TasksTyped' /\ ImportsOK' /\ WithinKbCap' /\ CountedRows' = CountedRows
  BY <1>1 DEF KbInv, RowsTyped, TasksTyped, ImportsOK, WithinKbCap, CountedRows, Rows
<1>3. ASSUME NEW k \in Kbs, NEW slug \in Names \cup Owners, NEW o \in Owners, NEW personal \in BOOLEAN,
             BeginCreate(r, k, slug, o, personal)
      PROVE  KbInv'
  <2> DEFINE c == [id |-> k, slug |-> slug, owner |-> o, personal |-> personal, step |-> "room"]
  <2>1. c \in Creation /\ c.step = "room"
    BY DEF Creation
  <2>2. creating' = [creating EXCEPT ![r] = c] /\ UNCHANGED room
    BY <1>3 DEF BeginCreate
  <2> HIDE DEF c
  <2>3. CreationsTyped' /\ InsertHasRoom'
    BY <1>2, <2>1, <2>2 DEF KbInv, CreationsTyped, InsertHasRoom, Inserting
  <2> QED
    BY <1>2, <2>3 DEF KbInv
<1>4. CASE Admitted(r)
  <2>1. /\ creating[r] # NoBase /\ room = NoBase /\ room' = r /\ Cardinality(Rows) < KbCap
        /\ creating' = [creating EXCEPT ![r].step = "insert"]
    BY <1>4 DEF Admitted, LockRoom
  <2>2. creating[r] \in Creation /\ [creating[r] EXCEPT !.step = "insert"] \in Creation
    BY <2>1 DEF KbInv, CreationsTyped, Creation
  <2>3. CreationsTyped'
    BY <2>1, <2>2 DEF KbInv, CreationsTyped
  <2>4. \A q \in Creators \ {r} : ~Inserting(q) /\ creating'[q] = creating[q]
    BY <2>1 DEF KbInv, InsertHasRoom, CreationsTyped, LimitConstants
  <2>5. Cardinality(CountedRows) <= Cardinality(Rows) /\ Cardinality(Rows) \in Nat /\ Cardinality(CountedRows) \in Nat
    BY FS_Subset, FS_CardinalityType DEF KbInv, RowsTyped, CountedRows
  <2>6. Cardinality(CountedRows) < KbCap
    BY <2>1, <2>5 DEF LimitConstants
  <2>7. InsertHasRoom'
    BY <1>2, <2>1, <2>4, <2>6 DEF InsertHasRoom, Inserting
  <2> QED
    BY <1>2, <2>3, <2>7 DEF KbInv
<1>5. CASE NoRoom(r)
  <2>1. room = NoBase /\ creating' = [creating EXCEPT ![r] = NoBase]
    BY <1>5 DEF NoRoom, Leave
  <2>2. CreationsTyped'
    BY <2>1 DEF KbInv, CreationsTyped
  <2>3. \A q \in Creators : ~Inserting(q)'
    BY <2>1 DEF KbInv, InsertHasRoom, CreationsTyped, LimitConstants, Inserting
  <2> QED
    BY <1>2, <2>2, <2>3 DEF KbInv, InsertHasRoom
<1> QED
  BY <1>3, <1>4, <1>5 DEF Create, EnsurePersonal

LEMMA InsertKeeps ==
  ASSUME LimitConstants, KbInv, NEW r \in Creators, Insert(r)
  PROVE  KbInv'
<1> DEFINE c == creating[r]
           row == NewRow(c.slug, c.owner, c.personal, "active", FALSE)
<1>1. /\ Inserting(r) /\ creating' = [creating EXCEPT ![r] = NoBase]
      /\ kb' = IF SlugFree(c.slug) THEN [kb EXCEPT ![c.id] = row] ELSE kb
  BY DEF Insert, Leave, Inserting
<1>2. c \in Creation
  BY <1>1 DEF KbInv, CreationsTyped, Inserting
<1>3. c.id \in Kbs /\ row \in KbRow /\ ~row.imported
  BY <1>2 DEF Creation, KbRow, KbStatus, NewRow
<1> HIDE DEF row
<1>4. room = r /\ Cardinality(CountedRows) < KbCap /\ \A q \in Creators \ {r} : ~Inserting(q)
  BY <1>1 DEF KbInv, InsertHasRoom
<1>5. \A q \in Creators : ~Inserting(q)'
  BY <1>1, <1>4 DEF KbInv, CreationsTyped, Inserting
<1>6. \A k \in Kbs \ {c.id} : kb'[k] = kb[k]
  BY <1>1 DEF KbInv, RowsTyped
<1>7. kb'[c.id] = row \/ kb'[c.id] = kb[c.id]
  BY <1>1, <1>3 DEF KbInv, RowsTyped
<1> HIDE DEF c
<1>8. PICK k \in Kbs : k = c.id
  BY <1>3
<1>9. Rows' \subseteq Rows \cup {k} /\ CountedRows' \subseteq CountedRows \cup {k}
  BY <1>6, <1>8 DEF Rows, CountedRows
<1>10. IsFiniteSet(Rows) /\ IsFiniteSet(CountedRows)
  BY FS_Subset DEF KbInv, RowsTyped, CountedRows
<1>11. /\ IsFiniteSet(CountedRows \cup {k})
       /\ Cardinality(CountedRows \cup {k}) <= Cardinality(CountedRows) + 1
       /\ Cardinality(CountedRows) \in Nat
  <2>1. Cardinality(CountedRows) \in Nat
    BY <1>10, FS_CardinalityType
  <2>2. /\ IsFiniteSet(CountedRows \cup {k})
        /\ Cardinality(CountedRows \cup {k}) = IF k \in CountedRows THEN Cardinality(CountedRows) ELSE Cardinality(CountedRows) + 1
    BY <1>10, FS_AddElement
  <2> QED
    BY <2>1, <2>2
<1>12. Cardinality(CountedRows') <= Cardinality(CountedRows \cup {k}) /\ Cardinality(CountedRows') \in Nat
       /\ Cardinality(CountedRows \cup {k}) \in Nat
  BY <1>9, <1>11, FS_Subset, FS_CardinalityType
<1>13. Cardinality(CountedRows') <= KbCap
  BY <1>4, <1>11, <1>12 DEF LimitConstants
<1>14. WithinKbCap'
  BY <1>13 DEF WithinKbCap, CountedRows
<1>15. IsFiniteSet(Rows')
  BY <1>9, <1>10, FS_AddElement, FS_Subset
<1>16. kb' \in [Kbs -> KbRow \cup {NoBase}]
  BY <1>1, <1>3 DEF KbInv, RowsTyped
<1>17. TasksTyped' /\ ImportsOK'
  <2>1. UNCHANGED import
    BY DEF Insert
  <2>2. \A q \in Kbs : kb'[q] = kb[q] \/ ~kb'[q].imported
    BY <1>3, <1>6, <1>7, <1>8
  <2> QED
    BY <2>1, <2>2 DEF KbInv, TasksTyped, ImportsOK, Accounted
<1>18. CreationsTyped' /\ InsertHasRoom'
  BY <1>1, <1>5 DEF KbInv, CreationsTyped, InsertHasRoom
<1> QED
  BY <1>14, <1>15, <1>16, <1>17, <1>18 DEF KbInv, RowsTyped

\* Many rows change at once, each as it may with its task.
LEMMA ServerSteps ==
  ASSUME LimitConstants, KbInv, UNCHANGED <<room, creating>>,
         NEW after, kb' = [k \in Kbs |-> after[k]],
         NEW tasks, import' = [k \in Kbs |-> tasks[k]],
         \A k \in Kbs : /\ tasks[k] = import[k] \/ tasks[k] = NoBase
                        /\ Accounted(after[k], tasks[k])
                        /\ kb[k] = NoBase => after[k] = NoBase
                        /\ kb[k] # NoBase => after[k] \in KbRow /\ after[k].imported = kb[k].imported
  PROVE  KbInv'
<1>1. \A k \in Kbs : kb'[k] = after[k] /\ import'[k] = tasks[k]
  OBVIOUS
<1>2. kb \in [Kbs -> KbRow \cup {NoBase}] /\ import \in [Kbs -> ImportTask \cup {NoBase}]
  BY DEF KbInv, RowsTyped, TasksTyped
<1>3. \A k \in Kbs : after[k] \in KbRow \cup {NoBase} /\ tasks[k] \in ImportTask \cup {NoBase}
  BY <1>2
<1>4. kb' \in [Kbs -> KbRow \cup {NoBase}] /\ TasksTyped'
  BY <1>3 DEF TasksTyped
<1>5. Rows' = Rows
  BY <1>1, <1>2 DEF Rows, LimitConstants
<1>6. RowsTyped'
  BY <1>4, <1>5 DEF KbInv, RowsTyped
<1>7. CountedRows' \subseteq CountedRows
  BY <1>1, <1>5 DEF CountedRows, Rows
<1>8. ImportsOK'
  BY <1>1 DEF ImportsOK
<1> QED
  BY <1>4, <1>6, <1>7, <1>8, RowsChange

LEMMA ServerStepsKeep ==
  ASSUME LimitConstants, KbInv, (\E p \in Servers : ServerDies(p)) \/ ServerStarts \/ UNCHANGED kbVars
  PROVE  KbInv'
<1>1. CASE UNCHANGED kbVars
  <2>1. UNCHANGED <<kb, room, creating, import>>
    BY <1>1 DEF kbVars
  <2>2. RowsTyped' /\ TasksTyped' /\ ImportsOK' /\ CountedRows' = CountedRows
    BY <2>1 DEF KbInv, RowsTyped, TasksTyped, ImportsOK, CountedRows, Rows
  <2> QED
    BY <2>1, <2>2, RowsChange
<1>2. CASE ServerStarts
  <2>1. PICK after : after = [k \in Kbs |-> IF k \in Rows /\ kb[k].status = "importing"
                                            THEN [kb[k] EXCEPT !.status = "error"] ELSE kb[k]]
    OBVIOUS
  <2>2. kb' = [k \in Kbs |-> after[k]] /\ UNCHANGED <<room, creating, import>>
    BY <1>2, <2>1 DEF ServerStarts
  <2>3. import' = [k \in Kbs |-> import[k]]
    BY <2>2 DEF KbInv, TasksTyped
  <2>4. ASSUME NEW k \in Kbs
        PROVE  /\ Accounted(after[k], import[k])
               /\ kb[k] = NoBase => after[k] = NoBase
               /\ kb[k] # NoBase => after[k] \in KbRow /\ after[k].imported = kb[k].imported
    <3>1. PICK old \in KbRow \cup {NoBase} : old = kb[k]
      BY RowIs
    <3>2. Accounted(old, import[k])
      BY <3>1, RowIs
    <3>3. CASE after[k] = old
      BY <3>1, <3>2, <3>3
    <3>4. CASE after[k] # old
      <4>1. k \in Rows /\ old \in KbRow
        BY <2>1, <3>1, <3>4 DEF Rows
      <4>2. PICK row : row = [old EXCEPT !.status = "error"]
        OBVIOUS
      <4>3. /\ row \in KbRow /\ row.imported = old.imported /\ row.batches = old.batches
            /\ row.status = "error"
        BY <4>1, <4>2 DEF KbRow, KbStatus
      <4>4. after[k] = row
        BY <2>1, <3>1, <3>4, <4>2
      <4>5. Accounted(row, import[k])
        BY <3>1, <3>2, <4>1, <4>3 DEF Accounted, Rows
      <4> QED
        BY <3>1, <4>1, <4>3, <4>4, <4>5 DEF Rows
    <3> QED
      BY <3>3, <3>4
  <2> QED
    BY <2>2, <2>3, <2>4, ServerSteps
<1>3. ASSUME NEW p \in Servers, ServerDies(p) PROVE KbInv'
  <2>0. PICK theirs : theirs = {k \in Kbs : import[k] # NoBase /\ import[k].server = p}
    OBVIOUS
  <2>1. PICK after : after = [k \in Kbs |-> IF k \in theirs \cap Rows THEN [kb[k] EXCEPT !.dropped = TRUE] ELSE kb[k]]
    OBVIOUS
  <2>2. PICK tasks : tasks = [k \in Kbs |-> IF k \in theirs THEN NoBase ELSE import[k]]
    OBVIOUS
  <2>3. kb' = [k \in Kbs |-> after[k]] /\ import' = [k \in Kbs |-> tasks[k]] /\ UNCHANGED <<room, creating>>
    BY <1>3, <2>0, <2>1, <2>2 DEF ServerDies
  <2>4. ASSUME NEW k \in Kbs
        PROVE  /\ tasks[k] = import[k] \/ tasks[k] = NoBase
               /\ Accounted(after[k], tasks[k])
               /\ kb[k] = NoBase => after[k] = NoBase
               /\ kb[k] # NoBase => after[k] \in KbRow /\ after[k].imported = kb[k].imported
    <3>1. PICK old \in KbRow \cup {NoBase} : old = kb[k]
      BY RowIs
    <3>2. Accounted(old, import[k]) /\ (old # NoBase <=> k \in Rows)
      BY <3>1, RowIs DEF Rows
    <3>3. CASE k \notin theirs
      <4>1. after[k] = old /\ tasks[k] = import[k]
        BY <2>1, <2>2, <3>1, <3>3
      <4> QED
        BY <3>1, <3>2, <4>1
    <3>4. CASE k \in theirs /\ old = NoBase
      <4>1. after[k] = old /\ tasks[k] = NoBase
        BY <2>1, <2>2, <3>1, <3>2, <3>4
      <4>2. Accounted(old, NoBase)
        BY <3>4 DEF Accounted
      <4> QED
        BY <3>1, <3>4, <4>1, <4>2
    <3>5. CASE k \in theirs /\ old # NoBase
      <4>1. PICK row : row = [old EXCEPT !.dropped = TRUE]
        OBVIOUS
      <4>2. /\ row \in KbRow /\ row.imported = old.imported /\ row.batches = old.batches
            /\ row.status = old.status /\ row.byHand = old.byHand /\ row.dropped
        BY <3>1, <3>5, <4>1 DEF KbRow
      <4>3. after[k] = row /\ tasks[k] = NoBase
        BY <2>1, <2>2, <3>1, <3>2, <3>5, <4>1
      <4>4. Accounted(row, NoBase)
        BY <3>2, <3>5, <4>2 DEF Accounted
      <4> QED
        BY <3>1, <3>5, <4>2, <4>3, <4>4
    <3> QED
      BY <3>3, <3>4, <3>5
  <2> QED
    BY <2>3, <2>4, ServerSteps
<1> QED
  BY <1>1, <1>2, <1>3

LEMMA KbInvHolds ==
  ASSUME LimitConstants
  PROVE  KbSpec => []KbInv
<1>1. KbInit => KbInv
  <2> SUFFICES ASSUME KbInit PROVE KbInv
    OBVIOUS
  <2>1. Rows = {} /\ CountedRows = {}
    BY DEF KbInit, Rows, CountedRows
  <2>2. Cardinality({k \in Rows : ~kb[k].imported}) <= KbCap /\ IsFiniteSet(Rows)
    BY <2>1, FS_EmptySet DEF CountedRows, LimitConstants
  <2> QED
    BY <2>1, <2>2 DEF KbInit, KbInv, RowsTyped, CreationsTyped, InsertHasRoom, Inserting, WithinKbCap,
                      TasksTyped, ImportsOK, Accounted
<1>2. KbInv /\ [KbNext]_kbVars => KbInv'
  <2> SUFFICES ASSUME KbInv, [KbNext]_kbVars PROVE KbInv'
    OBVIOUS
  <2> QED
    BY RowStepsKeep, TaskStepsKeep, CreationStepsKeep, InsertKeeps, ServerStepsKeep DEF KbNext
<1> QED
  BY <1>1, <1>2, PTL DEF KbSpec

------------------------------------------------------------------------------
Saving(r) == upload[r] # NoUpload /\ upload[r].step = "insert"

\* An upload that is about to insert holds the lock, and there is room for its document.
SaveHasRoom == \A r \in Uploads : Saving(r) => holder = r /\ Cardinality(docs) < DocCap

DocInv ==
  /\ IsFiniteSet(docs)
  /\ upload \in [Uploads -> UploadState \cup {NoUpload}]
  /\ SaveHasRoom /\ WithinDocCap

\* The steps of an upload that add no row.
LEMMA UploadStepsKeep ==
  ASSUME LimitConstants, DocInv, NEW r \in Uploads, UNCHANGED docs,
         \/ \E d \in Docs, feed \in BOOLEAN : BeginUpload(r, d, feed)
         \/ DocAdmitted(r) \/ DocRefused(r) \/ CountUpload(r)
  PROVE  DocInv'
<1> USE DEF DocInv
<1>1. ASSUME NEW d \in Docs, NEW feed \in BOOLEAN, BeginUpload(r, d, feed) PROVE DocInv'
  <2> DEFINE u == [doc |-> d, feed |-> feed, step |-> "room"]
  <2>1. u \in UploadState /\ u.step = "room"
    BY DEF UploadState
  <2>2. upload' = [upload EXCEPT ![r] = u] /\ UNCHANGED holder
    BY <1>1 DEF BeginUpload
  <2> HIDE DEF u
  <2> QED
    BY <2>1, <2>2 DEF SaveHasRoom, Saving, WithinDocCap
<1>2. CASE DocAdmitted(r)
  <2>1. /\ upload[r] # NoUpload /\ holder = NoUpload /\ holder' = r /\ Cardinality(docs) < DocCap
        /\ upload' = [upload EXCEPT ![r].step = "insert"]
    BY <1>2 DEF DocAdmitted, HoldRoom
  <2>2. [upload[r] EXCEPT !.step = "insert"] \in UploadState
    BY <2>1 DEF UploadState
  <2>3. \A q \in Uploads \ {r} : ~Saving(q) /\ upload'[q] = upload[q]
    BY <2>1 DEF SaveHasRoom, LimitConstants
  <2> QED
    BY <2>1, <2>2, <2>3 DEF SaveHasRoom, Saving, WithinDocCap
<1>3. CASE DocRefused(r) \/ CountUpload(r)
  <2>1. /\ upload' = [upload EXCEPT ![r] = NoUpload] /\ UNCHANGED holder
    BY <1>3 DEF DocRefused, CountUpload
  <2> QED
    BY <2>1 DEF SaveHasRoom, Saving, WithinDocCap
<1> QED
  BY <1>1, <1>2, <1>3

LEMMA InsertDocKeeps ==
  ASSUME LimitConstants, DocInv, NEW r \in Uploads, InsertDoc(r)
  PROVE  DocInv'
<1> USE DEF DocInv
<1>1. PICK d : docs' = docs \cup {d}
  BY DEF InsertDoc
<1>2. /\ Saving(r) /\ upload[r] \in UploadState
      /\ \/ upload' = [upload EXCEPT ![r] = NoUpload]
         \/ upload' = [upload EXCEPT ![r] = [upload[r] EXCEPT !.step = "adjust"]]
  BY DEF InsertDoc, Saving
<1>3. LET n == [upload[r] EXCEPT !.step = "adjust"] IN n \in UploadState /\ n.step = "adjust"
  BY <1>2 DEF UploadState
<1>4. Cardinality(docs) < DocCap /\ \A q \in Uploads \ {r} : ~Saving(q)
  BY <1>2 DEF SaveHasRoom
<1>5. upload' \in [Uploads -> UploadState \cup {NoUpload}] /\ \A q \in Uploads : ~Saving(q)'
  BY <1>2, <1>3, <1>4 DEF Saving
<1>6. /\ IsFiniteSet(docs') /\ Cardinality(docs') <= Cardinality(docs) + 1
      /\ Cardinality(docs) \in Nat /\ Cardinality(docs') \in Nat
  BY <1>1, FS_AddElement, FS_CardinalityType
<1>7. WithinDocCap'
  BY <1>4, <1>6 DEF WithinDocCap, LimitConstants
<1> QED
  BY <1>5, <1>6, <1>7 DEF SaveHasRoom

LEMMA DocStepsKeep ==
  ASSUME LimitConstants, DocInv,
         \/ \E d \in Docs : DeleteDoc(d) \/ CountDelete(d) \/ EmbedStarts(d) \/ Recount(d) \/ WriteCount(d)
         \/ UNCHANGED countVars
  PROVE  DocInv'
<1> USE DEF DocInv
<1>1. docs' \subseteq docs /\ UNCHANGED <<upload, holder>>
  BY DEF DeleteDoc, CountDelete, EmbedStarts, Recount, WriteCount, countVars
<1>2. /\ IsFiniteSet(docs') /\ Cardinality(docs') <= Cardinality(docs)
      /\ Cardinality(docs) \in Nat /\ Cardinality(docs') \in Nat
  BY <1>1, FS_Subset, FS_CardinalityType
<1>3. Cardinality(docs') <= DocCap /\ (Cardinality(docs) < DocCap => Cardinality(docs') < DocCap)
  BY <1>2 DEF WithinDocCap, LimitConstants
<1> QED
  BY <1>1, <1>2, <1>3 DEF SaveHasRoom, Saving, WithinDocCap

------------------------------------------------------------------------------
\* Requests that create at once do not together exceed the limits of a plan on
\* knowledge bases and on documents, imports aside; and an import that is not over has a
\* task or was dropped, one that ended well has all its batches, whatever starting
\* processes make of it (assert_kb_count_under_limit, assert_document_count_under_limit,
\* execute_import, mark_stale_imports_as_error).
THEOREM WithinCapsHolds ==
  ASSUME LimitConstants
  PROVE  LimitsSpec => []WithinCaps
<1>1. KbSpec => []KbInv
  BY KbInvHolds
<1>2. CountInit => DocInv
  BY FS_EmptySet DEF CountInit, DocInv, SaveHasRoom, Saving, WithinDocCap, LimitConstants
<1>3. DocInv /\ [CountNext]_countVars => DocInv'
  <2> SUFFICES ASSUME DocInv, [CountNext]_countVars PROVE DocInv'
    OBVIOUS
  <2>1. ASSUME NEW r \in Uploads,
               (\E d \in Docs, feed \in BOOLEAN : BeginUpload(r, d, feed)) \/ DocAdmitted(r) \/ DocRefused(r) \/ CountUpload(r)
        PROVE  DocInv'
    <3>1. UNCHANGED docs
      BY <2>1 DEF BeginUpload, DocAdmitted, DocRefused, CountUpload
    <3> QED
      BY <2>1, <3>1, UploadStepsKeep
  <2> QED
    BY <2>1, InsertDocKeeps, DocStepsKeep DEF CountNext
<1>4. KbInv /\ DocInv => WithinCaps
  BY ImportsOKAccounts DEF KbInv, DocInv, WithinCaps, KbsHold
<1> QED
  BY <1>1, <1>2, <1>3, <1>4, PTL DEF LimitsSpec, CountSpec

------------------------------------------------------------------------------
(***************************************************************************)
(* Seats.                                                                  *)
(***************************************************************************)
\* Users are finitely many numbers, who is seated at the start has paid for it, and
\* what stands for nothing is no operation.
SeatConstants ==
  /\ Members \subseteq Int /\ IsFiniteSet(Members)
  /\ Seated \subseteq Members /\ Bought \in Nat /\ Cardinality(Seated) <= Bought
  /\ NoSeat \notin Operations \cup Operation

ReqTyped ==
  /\ req \in [Operations -> Operation \cup {NoSeat}]
  /\ \A r \in Operations : req[r] # NoSeat /\ req[r].op \in {"admit", "flag"} => req[r].u \in Members
StripeTyped == stripe \in Subscription /\ stripe.target <= stripe.live
SeatTyped == SeatsTypeOK /\ ReqTyped /\ StripeTyped /\ cycles \in Nat

\* What becomes of an operation: it begins, it has told Stripe and is about to
\* commit, it ends.
Began(r, op, u, n) ==
  /\ ReqTyped' /\ req[r] = NoSeat /\ req'[r] # NoSeat
  /\ req'[r].op = op /\ req'[r].u = u /\ req'[r].step = "read" /\ req'[r].n = n /\ ~req'[r].stale
  /\ \A q \in Operations \ {r} : req'[q] = req[q]

Wrote(r, n) ==
  /\ ReqTyped' /\ req[r] # NoSeat /\ req'[r] # NoSeat
  /\ req'[r].op = req[r].op /\ req'[r].u = req[r].u /\ req'[r].step = "write" /\ req'[r].n = n
  /\ req'[r].stale = req[r].stale
  /\ \A q \in Operations \ {r} : req'[q] = req[q]

Closed(r) ==
  /\ ReqTyped' /\ req'[r] = NoSeat
  /\ \A q \in Operations \ {r} : req'[q] = req[q]

LEMMA StartBegins ==
  ASSUME SeatConstants, ReqTyped, NEW r \in Operations, NEW op \in {"admit", "flag", "unflag", "cancel", "sync"},
         NEW u \in Members \cup {NoSeat}, NEW n \in Nat, StartOperation(r, op, u, n),
         op \in {"admit", "flag"} => u \in Members
  PROVE  Began(r, op, u, n)
<1> DEFINE x == [op |-> op, u |-> u, step |-> "read", n |-> n, stale |-> FALSE]
<1>1. x \in Operation /\ x.op = op /\ x.u = u /\ x.step = "read" /\ x.n = n /\ ~x.stale
  BY DEF Operation
<1>2. req[r] = NoSeat /\ req' = [req EXCEPT ![r] = x]
  BY DEF StartOperation
<1> HIDE DEF x
<1> QED
  BY <1>1, <1>2 DEF ReqTyped, Began, SeatConstants

LEMMA StepWrites ==
  ASSUME SeatConstants, ReqTyped, NEW r \in Operations, req[r] # NoSeat, NEW n \in Nat, Step(r, n)
  PROVE  Wrote(r, n)
<1> DEFINE x == [req[r] EXCEPT !.step = "write", !.n = n]
<1>1. req[r] \in Operation /\ req' = [req EXCEPT ![r] = x]
  BY DEF ReqTyped, Step
<1>2. x \in Operation /\ x.op = req[r].op /\ x.u = req[r].u /\ x.step = "write" /\ x.n = n /\ x.stale = req[r].stale
  BY <1>1 DEF Operation
<1> HIDE DEF x
<1> QED
  BY <1>1, <1>2 DEF ReqTyped, Wrote, SeatConstants

LEMMA FinishEnds ==
  ASSUME ReqTyped, NEW r \in Operations, Finish(r)
  PROVE  Closed(r) /\ seatLock' = IF seatLock = r THEN NoSeat ELSE seatLock
BY DEF ReqTyped, Finish, Closed

\* update_subscription_quantity never lowers what is paid for now.
LEMMA QuantityFacts ==
  ASSUME NEW s \in Subscription, s.target <= s.live, NEW n \in Nat
  PROVE  LET q == Quantity(s, n)
         IN  /\ q \in Subscription /\ q.target = n /\ q.target <= q.live
             /\ q.live = IF n >= s.live THEN n ELSE s.live
<1>1. s.live \in Nat /\ s.target \in Nat
  BY DEF Subscription
<1>2. CASE n >= s.live
  BY <1>1, <1>2 DEF Quantity, Subscription
<1>3. CASE ~(n >= s.live)
  <2>1. Quantity(s, n) = [s EXCEPT !.target = n, !.schedule = TRUE]
    BY <1>3 DEF Quantity
  <2>2. [s EXCEPT !.target = n, !.schedule = TRUE] \in Subscription
    BY DEF Subscription
  <2>3. n <= s.live
    BY <1>1, <1>3
  <2> QED
    BY <1>3, <2>1, <2>2, <2>3 DEF Subscription
<1> QED
  BY <1>2, <1>3

LEMMA UpgradedFacts ==
  ASSUME NEW s \in Subscription, s.target <= s.live
  PROVE  LET q == Upgraded(s)
         IN  /\ q \in Subscription /\ q.target <= q.live
             /\ q.live = s.live + 1 /\ q.live - q.target <= s.live - s.target
<1>1. s.live \in Nat /\ s.target \in Nat /\ s.live + 1 \in Nat /\ s.target + 1 \in Nat
  BY DEF Subscription
<1> DEFINE q == Quantity(s, s.live + 1)
<1>2. q \in Subscription /\ q.target = s.live + 1 /\ q.target <= q.live /\ q.live = s.live + 1
  <2>1. PICK m \in Nat : m = s.live + 1
    BY <1>1
  <2>2. LET a == Quantity(s, m)
        IN  a \in Subscription /\ a.target = m /\ a.target <= a.live /\ a.live = IF m >= s.live THEN m ELSE s.live
    BY QuantityFacts
  <2>3. m >= s.live
    BY <1>1, <2>1
  <2> QED
    BY <2>1, <2>2, <2>3
<1> HIDE DEF q
<1> DEFINE p == Quantity(q, s.target + 1)
<1>3. p \in Subscription /\ p.target = s.target + 1 /\ p.target <= p.live
      /\ p.live = IF s.target + 1 >= q.live THEN s.target + 1 ELSE q.live
  <2>1. PICK m \in Nat : m = s.target + 1
    BY <1>1
  <2>2. LET a == Quantity(q, m)
        IN  a \in Subscription /\ a.target = m /\ a.target <= a.live /\ a.live = IF m >= q.live THEN m ELSE q.live
    BY <1>2, QuantityFacts
  <2> QED
    BY <2>1, <2>2
<1> HIDE DEF p
<1>4. CASE s.target < s.live
  <2>1. Upgraded(s) = p
    BY <1>4 DEF Upgraded, p, q
  <2>2. p.live = s.live + 1
    BY <1>1, <1>2, <1>3, <1>4
  <2>3. p.live - p.target <= s.live - s.target
    BY <1>1, <1>3, <2>2
  <2> QED
    BY <1>3, <2>1, <2>2, <2>3
<1>5. CASE ~(s.target < s.live)
  <2>1. Upgraded(s) = q
    BY <1>5 DEF Upgraded, q
  <2>2. q.live - q.target <= s.live - s.target
    BY <1>1, <1>2
  <2> QED
    BY <1>2, <2>1, <2>2
<1> QED
  BY <1>4, <1>5

------------------------------------------------------------------------------
(* What each operation does. *)

LEMMA CountsAreNat ==
  ASSUME SeatConstants, SeatTyped
  PROVE  /\ IsFiniteSet(active) /\ Cardinality(active) \in Nat
         /\ IsFiniteSet(flagged) /\ Cardinality(flagged) \in Nat
BY FS_Subset, FS_CardinalityType DEF SeatConstants, SeatTyped, SeatsTypeOK

\* The operations that begin.
LEMMA BeginEffect ==
  ASSUME SeatConstants, SeatTyped, NEW r \in Operations,
         (\E u \in Members : Admit(r, u) \/ Flag(r, u) \/ Unflag(r, u)) \/ Sync(r)
  PROVE  /\ UNCHANGED <<stripe, active, flagged, seatLock, unpaid, again, mode, open, leaked, late, cycles>>
         /\ \/ \E u \in Members : Began(r, "admit", u, stripe.live)
            \/ \E u \in Members : Began(r, "flag", u, 0) \/ Began(r, "unflag", u, 0)
            \/ Began(r, "sync", NoSeat, Cardinality(active))
         /\ SeatTyped'
<1>1. UNCHANGED <<stripe, active, flagged, seatLock, unpaid, again, mode, open, leaked, late, cycles>>
  BY DEF Admit, Flag, Unflag, Sync, StartOperation, users, ghosts
<1>2. ReqTyped /\ stripe.live \in Nat
  BY DEF SeatTyped, SeatsTypeOK, ReqTyped, Subscription
<1>3. ASSUME NEW u \in Members, Admit(r, u) PROVE Began(r, "admit", u, stripe.live)
  <2>1. PICK n \in Nat : n = stripe.live
    BY <1>2
  <2>2. StartOperation(r, "admit", u, n)
    BY <1>3, <2>1 DEF Admit
  <2>3. Began(r, "admit", u, n)
    BY <1>2, <2>2, StartBegins
  <2> QED
    BY <2>1, <2>3
<1>4. ASSUME NEW u \in Members, Flag(r, u) PROVE Began(r, "flag", u, 0)
  BY <1>2, <1>4, StartBegins DEF Flag
<1>5. ASSUME NEW u \in Members, Unflag(r, u) PROVE Began(r, "unflag", u, 0)
  BY <1>2, <1>5, StartBegins DEF Unflag
<1>6. ASSUME Sync(r) PROVE Began(r, "sync", NoSeat, Cardinality(active))
  <2>1. PICK n \in Nat : n = Cardinality(active)
    BY CountsAreNat
  <2>2. StartOperation(r, "sync", NoSeat, n)
    BY <1>6, <2>1 DEF Sync
  <2>3. Began(r, "sync", NoSeat, n)
    BY <1>2, <2>2, StartBegins
  <2> QED
    BY <2>1, <2>3
<1>7. \/ \E u \in Members : Began(r, "admit", u, stripe.live)
      \/ \E u \in Members : Began(r, "flag", u, 0) \/ Began(r, "unflag", u, 0)
      \/ Began(r, "sync", NoSeat, Cardinality(active))
  BY <1>3, <1>4, <1>5, <1>6
<1>8. ReqTyped'
  BY <1>7 DEF Began
<1> QED
  BY <1>1, <1>7, <1>8 DEF SeatTyped, SeatsTypeOK, StripeTyped, ReqTyped

\* The admissions.
LEMMA AdmitEffect ==
  ASSUME SeatConstants, SeatTyped, NEW r \in Operations
  PROVE  /\ AdmitWithin(r) => /\ Wrote(r, 0) /\ (mode = "none" \/ Cardinality(active) < req[r].n)
                              /\ mode = "hard" => LockState(r)
                              /\ UNCHANGED stripe
         /\ AdmitRefused(r) =>
              Closed(r) /\ seatLock' = (IF seatLock = r THEN NoSeat ELSE seatLock) /\ UNCHANGED stripe
         /\ AdmitCharged(r) => /\ Wrote(r, 0) /\ LockState(r)
                               /\ stripe'.live = stripe.live + 1
                               /\ stripe'.live - stripe'.target <= stripe.live - stripe.target
         /\ AdmitWithin(r) \/ AdmitRefused(r) \/ AdmitCharged(r) =>
              /\ Reached(r, "admit", "read")
              /\ UNCHANGED <<active, flagged, unpaid, again, mode, open, leaked, late, cycles>>
              /\ SeatTyped'
<1>1. ReqTyped /\ stripe \in Subscription /\ stripe.target <= stripe.live
  BY DEF SeatTyped, SeatsTypeOK, ReqTyped, StripeTyped
<1>2. ASSUME AdmitWithin(r)
      PROVE  /\ Wrote(r, 0) /\ (mode = "none" \/ Cardinality(active) < req[r].n)
             /\ mode = "hard" => LockState(r)
             /\ UNCHANGED stripe
  <2>1. Wrote(r, 0)
    BY <1>1, <1>2, StepWrites DEF AdmitWithin, Reached
  <2>2. req[r].n \in Nat
    BY <1>1, <1>2 DEF AdmitWithin, Reached, ReqTyped, Operation
  <2>3. mode = "none" \/ Cardinality(active) < req[r].n
    BY <1>2, <2>2, CountsAreNat DEF AdmitWithin, AtLimit
  <2> QED
    BY <1>2, <2>1, <2>3 DEF AdmitWithin, LockForLimit
<1>3. AdmitRefused(r) =>
        Closed(r) /\ seatLock' = (IF seatLock = r THEN NoSeat ELSE seatLock) /\ UNCHANGED stripe
  BY <1>1, FinishEnds DEF AdmitRefused
<1>4. AdmitCharged(r) => Wrote(r, 0) /\ LockState(r) /\ stripe' = Upgraded(stripe)
  BY <1>1, StepWrites DEF AdmitCharged, Reached
<1>5. AdmitCharged(r) => /\ stripe' \in Subscription /\ stripe'.target <= stripe'.live
                         /\ stripe'.live = stripe.live + 1
                         /\ stripe'.live - stripe'.target <= stripe.live - stripe.target
  BY <1>1, <1>4, UpgradedFacts
<1>6. ASSUME AdmitWithin(r) \/ AdmitRefused(r) \/ AdmitCharged(r)
      PROVE  /\ Reached(r, "admit", "read")
             /\ UNCHANGED <<active, flagged, unpaid, again, mode, open, leaked, late, cycles>>
             /\ SeatTyped'
  <2>1. /\ Reached(r, "admit", "read")
        /\ UNCHANGED <<active, flagged, unpaid, again, mode, open, leaked, late, cycles>>
    BY <1>6 DEF AdmitWithin, AdmitRefused, AdmitCharged, users, ghosts, bounds
  <2>2. ReqTyped'
    BY <1>2, <1>3, <1>4, <1>6 DEF Wrote, Closed
  <2>3. StripeTyped'
    BY <1>1, <1>2, <1>3, <1>5, <1>6 DEF StripeTyped
  <2>4. seatLock' \in Operations \cup {NoSeat}
    BY <1>6 DEF AdmitWithin, AdmitRefused, AdmitCharged, LockForLimit, LockState, Finish, SeatTyped, SeatsTypeOK
  <2> QED
    BY <2>1, <2>2, <2>3, <2>4 DEF SeatTyped, SeatsTypeOK, StripeTyped, ReqTyped
<1> QED
  BY <1>2, <1>3, <1>4, <1>5, <1>6

\* What is left when the newest above a quantity go is no more than the quantity.
LEMMA OldestKept ==
  ASSUME NEW S \in SUBSET Int, IsFiniteSet(S), NEW q \in Nat
  PROVE  LET staying == S \ NewestOf(S, Cardinality(S) - q)
         IN  staying \subseteq S /\ Cardinality(staying) <= q
<1> DEFINE staying  == S \ NewestOf(S, Cardinality(S) - q)
           upTo(u)  == {v \in S : v <= u}
           above(u) == {v \in S : v > u}
           rank     == [u \in staying |-> Cardinality(upTo(u))]
<1>1. staying \subseteq S /\ IsFiniteSet(staying) /\ Cardinality(staying) \in Nat /\ Cardinality(S) \in Nat
  BY FS_Subset, FS_CardinalityType
<1>2. \A u \in S : /\ IsFiniteSet(upTo(u)) /\ Cardinality(upTo(u)) \in Nat
                   /\ IsFiniteSet(above(u)) /\ Cardinality(above(u)) \in Nat
                   /\ Cardinality(S) = Cardinality(upTo(u)) + Cardinality(above(u))
  <2> TAKE u \in S
  <2>1. upTo(u) \subseteq S /\ above(u) \subseteq S
    OBVIOUS
  <2>2. upTo(u) \cup above(u) = S /\ upTo(u) \cap above(u) = {}
    <3>1. \A v \in S : (v <= u \/ v > u) /\ ~(v <= u /\ v > u)
      OBVIOUS
    <3>2. \A v : v \in upTo(u) \cup above(u) <=> v \in S
      BY <3>1
    <3>3. \A v : v \notin upTo(u) \cap above(u)
      BY <3>1
    <3> HIDE DEF upTo, above
    <3> QED
      BY <3>2, <3>3
  <2> HIDE DEF upTo, above
  <2>3. IsFiniteSet(upTo(u)) /\ IsFiniteSet(above(u))
    BY <2>1, FS_Subset
  <2>4. Cardinality(upTo(u)) \in Nat /\ Cardinality(above(u)) \in Nat
    BY <2>3, FS_CardinalityType
  <2>5. Cardinality(upTo(u) \cup above(u)) =
          Cardinality(upTo(u)) + Cardinality(above(u)) - Cardinality(upTo(u) \cap above(u))
    BY <2>3, FS_Union
  <2> QED
    BY <2>2, <2>3, <2>4, <2>5, FS_EmptySet
<1>3. \A u \in staying : Cardinality(upTo(u)) \in 1..q
  <2> TAKE u \in staying
  <2>1. u \in S /\ ~(Cardinality(above(u)) < Cardinality(S) - q)
    BY DEF NewestOf
  <2>2. u \in upTo(u)
    BY <2>1
  <2> HIDE DEF upTo, above, staying, rank
  <2>3. Cardinality(upTo(u)) # 0
    BY <1>2, <2>1, <2>2, FS_EmptySet
  <2> QED
    BY <1>1, <1>2, <2>1, <2>3
<1>4. \A u, v \in staying : u < v => Cardinality(upTo(u)) # Cardinality(upTo(v))
  <2> SUFFICES ASSUME NEW u \in staying, NEW v \in staying, u < v, Cardinality(upTo(u)) = Cardinality(upTo(v))
               PROVE  FALSE
    OBVIOUS
  <2>1. u \in Int /\ v \in Int /\ v \in S
    BY <1>1
  <2>2. upTo(u) \in SUBSET upTo(v) /\ v \in upTo(v) /\ v \notin upTo(u)
    <3>1. \A w \in S : w <= u => w <= v
      BY <2>1
    <3>2. v <= v /\ ~(v <= u)
      BY <2>1
    <3> QED
      BY <2>1, <3>1, <3>2
  <2>3. IsFiniteSet(upTo(v))
    BY <1>2, <2>1
  <2> HIDE DEF upTo
  <2> QED
    BY <2>2, <2>3, FS_Subset
<1>5. rank \in [staying -> 1..q] /\ IsFiniteSet(1..q) /\ Cardinality(1..q) = q
  <2>1. IsFiniteSet(1..q) /\ Cardinality(1..q) = q
    BY FS_Interval
  <2> HIDE DEF staying, upTo
  <2> QED
    BY <1>3, <2>1
<1>6. \A u, v \in staying : rank[u] = rank[v] => u = v
  <2>1. \A u, v \in staying : u = v \/ u < v \/ v < u
    BY <1>1
  <2> HIDE DEF staying, upTo
  <2> QED
    BY <1>4, <2>1
<1> HIDE DEF staying, rank
<1>7. ~(Cardinality(1..q) < Cardinality(staying))
  <2> SUFFICES ASSUME Cardinality(1..q) < Cardinality(staying) PROVE FALSE
    OBVIOUS
  <2>1. PICK T : T = 1..q
    OBVIOUS
  <2>2. rank \in [staying -> T] /\ IsFiniteSet(T) /\ Cardinality(T) < Cardinality(staying)
    BY <1>5, <2>1
  <2>3. \E x, y \in staying : x # y /\ rank[x] = rank[y]
    BY <1>1, <2>2, FS_PigeonHole
  <2> QED
    BY <1>6, <2>3
<1>8. staying \subseteq S /\ Cardinality(staying) <= q
  BY <1>1, <1>5, <1>7
<1> QED
  BY <1>8 DEF staying

LEMMA EndsEffect ==
  ASSUME SeatConstants, SeatTyped, NEW r \in Operations
  PROVE  /\ AdmitCommit(r) =>
              /\ Reached(r, "admit", "write") /\ req[r].u \in Members
              /\ active' = active \cup {req[r].u} /\ late' = (late \/ req[r].stale)
              /\ UNCHANGED <<stripe, flagged, open, leaked>>
         /\ UnflagCommit(r) =>
              /\ Reached(r, "unflag", "write")
              /\ flagged' = flagged \ {req[r].u}
              /\ UNCHANGED <<stripe, active, open, leaked, late>>
         /\ CancelCommit(r) =>
              /\ Reached(r, "cancel", "write")
              /\ flagged' = {}
              /\ UNCHANGED <<stripe, active, open, leaked, late>>
         /\ FlagCommit(r) =>
              /\ Reached(r, "flag", "write") /\ req[r].u \in Members /\ req[r].n \in Nat
              /\ flagged' = flagged \cup {req[r].u}
              /\ leaked' = (IF req[r].u \in flagged THEN leaked + req[r].n ELSE leaked)
              /\ UNCHANGED <<stripe, active, open, late>>
         /\ Fail(r) =>
              /\ req[r] # NoSeat /\ req[r].n \in Nat
              /\ leaked' = (IF req[r].op = "flag" THEN leaked + req[r].n ELSE leaked)
              /\ UNCHANGED <<stripe, active, flagged, open, late>>
         /\ AdmitCommit(r) \/ UnflagCommit(r) \/ CancelCommit(r) \/ FlagCommit(r) \/ Fail(r) =>
              /\ Closed(r) /\ seatLock' = (IF seatLock = r THEN NoSeat ELSE seatLock)
              /\ UNCHANGED <<unpaid, again, mode, cycles>>
              /\ SeatTyped'
<1>1. ReqTyped /\ open \in Nat /\ leaked \in Nat /\ late \in BOOLEAN
  BY DEF SeatTyped, SeatsTypeOK
<1>2. req[r] # NoSeat => req[r] \in Operation /\ req[r].n \in Nat /\ req[r].stale \in BOOLEAN
  BY <1>1 DEF ReqTyped, Operation
<1>3. AdmitCommit(r) =>
        /\ Reached(r, "admit", "write") /\ req[r].u \in Members
        /\ active' = active \cup {req[r].u} /\ late' = (late \/ req[r].stale)
        /\ UNCHANGED <<stripe, flagged, open, leaked>>
  BY <1>1 DEF AdmitCommit, Reached, ReqTyped
<1>4. UnflagCommit(r) =>
        /\ Reached(r, "unflag", "write")
        /\ flagged' = flagged \ {req[r].u}
        /\ UNCHANGED <<stripe, active, open, leaked, late>>
  BY DEF UnflagCommit, ghosts
<1>5. CancelCommit(r) =>
        /\ Reached(r, "cancel", "write")
        /\ flagged' = {}
        /\ UNCHANGED <<stripe, active, open, leaked, late>>
  BY DEF CancelCommit, ghosts
<1>6. FlagCommit(r) =>
        /\ Reached(r, "flag", "write") /\ req[r].u \in Members /\ req[r].n \in Nat
        /\ flagged' = flagged \cup {req[r].u}
        /\ leaked' = (IF req[r].u \in flagged THEN leaked + req[r].n ELSE leaked)
        /\ UNCHANGED <<stripe, active, open, late>>
  BY <1>1, <1>2 DEF FlagCommit, Reached, ReqTyped
<1>7. Fail(r) =>
        /\ req[r] # NoSeat /\ req[r].n \in Nat
        /\ leaked' = (IF req[r].op = "flag" THEN leaked + req[r].n ELSE leaked)
        /\ UNCHANGED <<stripe, active, flagged, open, late>>
  BY <1>2 DEF Fail, users
<1>8. ASSUME AdmitCommit(r) \/ UnflagCommit(r) \/ CancelCommit(r) \/ FlagCommit(r) \/ Fail(r)
      PROVE  /\ Closed(r) /\ seatLock' = (IF seatLock = r THEN NoSeat ELSE seatLock)
             /\ UNCHANGED <<unpaid, again, mode, cycles>>
             /\ SeatTyped'
  <2>1. Finish(r) /\ UNCHANGED <<unpaid, again, mode, cycles>>
    BY <1>8 DEF AdmitCommit, UnflagCommit, CancelCommit, FlagCommit, Fail, bounds
  <2>2. Closed(r) /\ seatLock' = (IF seatLock = r THEN NoSeat ELSE seatLock)
    BY <1>1, <2>1, FinishEnds
  <2>3. stripe' = stripe /\ active' \subseteq Members /\ flagged' \subseteq Members
    BY <1>3, <1>4, <1>5, <1>6, <1>7, <1>8 DEF SeatTyped, SeatsTypeOK
  <2>4. open' \in Nat /\ leaked' \in Nat
    BY <1>1, <1>3, <1>4, <1>5, <1>6, <1>7, <1>8
  <2>5. late' \in BOOLEAN
    BY <1>1, <1>2, <1>3, <1>4, <1>5, <1>6, <1>7, <1>8 DEF Reached
  <2>6. ReqTyped'
    BY <2>2 DEF Closed
  <2> QED
    BY <2>1, <2>2, <2>3, <2>4, <2>5, <2>6 DEF SeatTyped, SeatsTypeOK, StripeTyped, ReqTyped
<1> QED
  BY <1>3, <1>4, <1>5, <1>6, <1>7, <1>8

\* The operations that tell Stripe under the lock, or end there.
LEMMA ChargeEffect ==
  ASSUME SeatConstants, SeatTyped, NEW r \in Operations
  PROVE  /\ UpgradeFailsHalfWay(r) =>
              /\ Reached(r, "admit", "read")
              /\ Closed(r) /\ seatLock' = (IF seatLock = r THEN NoSeat ELSE seatLock)
              /\ stripe'.target = stripe'.live /\ stripe'.live >= stripe.live
         /\ FlagCharge(r) =>
              /\ Reached(r, "flag", "read")
              /\ \/ /\ Closed(r) /\ UNCHANGED stripe
                    /\ seatLock' = (IF seatLock = r THEN NoSeat ELSE seatLock)
                 \/ Wrote(r, 0) /\ LockState(r) /\ UNCHANGED stripe
                 \/ /\ Wrote(r, 1) /\ LockState(r)
                    /\ stripe'.live = stripe.live /\ stripe'.target = stripe.target - 1
         /\ UnflagCharge(r) =>
              /\ Reached(r, "unflag", "read")
              /\ Wrote(r, 0) /\ LockState(r)
              /\ stripe'.live = stripe.live
              /\ stripe'.target = (IF stripe.target < stripe.live THEN stripe.target + 1 ELSE stripe.target)
         /\ UpgradeFailsHalfWay(r) \/ FlagCharge(r) \/ UnflagCharge(r) =>
              /\ UNCHANGED <<active, flagged, unpaid, again, mode, open, leaked, late, cycles>>
              /\ SeatTyped'
<1>1. ReqTyped /\ stripe \in Subscription /\ stripe.target <= stripe.live
  BY DEF SeatTyped, SeatsTypeOK, StripeTyped
<1>2. stripe.live \in Nat /\ stripe.target \in Nat
  BY <1>1 DEF Subscription
<1>3. ASSUME UpgradeFailsHalfWay(r)
      PROVE  /\ Reached(r, "admit", "read")
             /\ Closed(r) /\ seatLock' = (IF seatLock = r THEN NoSeat ELSE seatLock)
             /\ stripe'.target = stripe'.live /\ stripe'.live >= stripe.live
             /\ stripe' \in Subscription /\ stripe'.target <= stripe'.live
             /\ UNCHANGED <<active, flagged, unpaid, again, mode, open, leaked, late, cycles>>
  <2>1. PICK n \in Nat : n = stripe.live + 1
    BY <1>2
  <2>2. PICK s : s = stripe
    OBVIOUS
  <2>3. stripe' = Quantity(s, n)
    BY <1>3, <2>1, <2>2 DEF UpgradeFailsHalfWay
  <2>4. LET q == Quantity(s, n)
        IN  q \in Subscription /\ q.target = n /\ q.target <= q.live /\ q.live = IF n >= s.live THEN n ELSE s.live
    BY <1>1, <2>2, QuantityFacts
  <2>5. n >= s.live /\ s.live = stripe.live
    BY <1>2, <2>1, <2>2
  <2>6. Finish(r)
    BY <1>3 DEF UpgradeFailsHalfWay
  <2>7. Closed(r) /\ seatLock' = (IF seatLock = r THEN NoSeat ELSE seatLock)
    BY <1>1, <2>6, FinishEnds
  <2> QED
    BY <1>2, <1>3, <2>3, <2>4, <2>5, <2>7 DEF UpgradeFailsHalfWay, users, ghosts
<1>4. ASSUME FlagCharge(r)
      PROVE  /\ Reached(r, "flag", "read")
             /\ \/ /\ Closed(r) /\ UNCHANGED stripe
                   /\ seatLock' = (IF seatLock = r THEN NoSeat ELSE seatLock)
                \/ Wrote(r, 0) /\ LockState(r) /\ UNCHANGED stripe
                \/ /\ Wrote(r, 1) /\ LockState(r)
                   /\ stripe'.live = stripe.live /\ stripe'.target = stripe.target - 1
             /\ stripe' \in Subscription /\ stripe'.target <= stripe'.live
             /\ UNCHANGED <<active, flagged, unpaid, again, mode, open, leaked, late, cycles>>
  <2> DEFINE remain == Cardinality(active) - Cardinality(flagged \cap active) - 1
             lowers == stripe.target > (IF remain > 0 THEN remain ELSE 0)
  <2>1. /\ Reached(r, "flag", "read")
        /\ IF lowers /\ stripe.target - 1 < 1
           THEN LockFree(r) /\ Finish(r) /\ UNCHANGED stripe
           ELSE /\ LockState(r)
                /\ stripe' = IF lowers THEN Quantity(stripe, stripe.target - 1) ELSE stripe
                /\ Step(r, IF lowers THEN 1 ELSE 0)
        /\ UNCHANGED <<active, flagged, unpaid, again, mode, open, leaked, late, cycles>>
    BY <1>4 DEF FlagCharge, users, ghosts, bounds
  <2> HIDE DEF remain, lowers
  <2>2. CASE lowers /\ stripe.target - 1 < 1
    <3>1. Finish(r) /\ UNCHANGED stripe
      BY <2>1, <2>2
    <3>2. Closed(r) /\ seatLock' = (IF seatLock = r THEN NoSeat ELSE seatLock)
      BY <1>1, <3>1, FinishEnds
    <3> QED
      BY <1>1, <2>1, <3>1, <3>2
  <2>3. CASE lowers /\ ~(stripe.target - 1 < 1)
    <3>1. PICK n \in Nat : n = stripe.target - 1
      BY <1>2, <2>3
    <3>2. PICK s : s = stripe
      OBVIOUS
    <3>3. stripe' = Quantity(s, n) /\ Step(r, 1) /\ LockState(r)
      BY <2>1, <2>3, <3>1, <3>2
    <3>4. LET q == Quantity(s, n)
          IN  q \in Subscription /\ q.target = n /\ q.target <= q.live /\ q.live = IF n >= s.live THEN n ELSE s.live
      BY <1>1, <3>2, QuantityFacts
    <3>5. ~(n >= s.live) /\ s.live = stripe.live
      BY <1>1, <1>2, <3>1, <3>2
    <3>6. Wrote(r, 1)
      BY <1>1, <2>1, <3>3, StepWrites DEF Reached
    <3> QED
      BY <2>1, <3>1, <3>3, <3>4, <3>5, <3>6
  <2>4. CASE ~lowers
    <3>1. LockState(r) /\ UNCHANGED stripe /\ Step(r, 0)
      BY <2>1, <2>4
    <3>2. Wrote(r, 0)
      BY <1>1, <2>1, <3>1, StepWrites DEF Reached
    <3> QED
      BY <1>1, <2>1, <3>1, <3>2
  <2> QED
    BY <2>2, <2>3, <2>4
<1>5. ASSUME UnflagCharge(r)
      PROVE  /\ Reached(r, "unflag", "read")
             /\ Wrote(r, 0) /\ LockState(r)
             /\ stripe'.live = stripe.live
             /\ stripe'.target = (IF stripe.target < stripe.live THEN stripe.target + 1 ELSE stripe.target)
             /\ stripe' \in Subscription /\ stripe'.target <= stripe'.live
             /\ UNCHANGED <<active, flagged, unpaid, again, mode, open, leaked, late, cycles>>
  <2>1. /\ Reached(r, "unflag", "read") /\ LockState(r) /\ Step(r, 0)
        /\ stripe' = IF stripe.target < stripe.live THEN Quantity(stripe, stripe.target + 1) ELSE stripe
        /\ UNCHANGED <<active, flagged, unpaid, again, mode, open, leaked, late, cycles>>
    BY <1>5 DEF UnflagCharge, users, ghosts, bounds
  <2>2. Wrote(r, 0)
    BY <1>1, <2>1, StepWrites DEF Reached
  <2>3. CASE stripe.target < stripe.live
    <3>1. PICK n \in Nat : n = stripe.target + 1
      BY <1>2
    <3>2. PICK s : s = stripe
      OBVIOUS
    <3>3. stripe' = Quantity(s, n)
      BY <2>1, <2>3, <3>1, <3>2
    <3>4. LET q == Quantity(s, n)
          IN  q \in Subscription /\ q.target = n /\ q.target <= q.live /\ q.live = IF n >= s.live THEN n ELSE s.live
      BY <1>1, <3>2, QuantityFacts
    <3>5. (n >= s.live => n = s.live) /\ s.live = stripe.live
      BY <1>2, <2>3, <3>1, <3>2
    <3> QED
      BY <2>1, <2>2, <2>3, <3>1, <3>3, <3>4, <3>5
  <2>4. CASE ~(stripe.target < stripe.live)
    BY <1>1, <2>1, <2>2, <2>4
  <2> QED
    BY <2>3, <2>4
<1>6. ASSUME UpgradeFailsHalfWay(r) \/ FlagCharge(r) \/ UnflagCharge(r)
      PROVE  SeatTyped'
  <2>1. /\ stripe' \in Subscription /\ stripe'.target <= stripe'.live
        /\ UNCHANGED <<active, flagged, unpaid, again, mode, open, leaked, late, cycles>>
        /\ ReqTyped'
    BY <1>3, <1>4, <1>5, <1>6 DEF Closed, Wrote
  <2>2. seatLock' \in Operations \cup {NoSeat}
    BY <1>3, <1>4, <1>5, <1>6 DEF LockState, SeatTyped, SeatsTypeOK
  <2> QED
    BY <2>1, <2>2 DEF SeatTyped, SeatsTypeOK, StripeTyped, ReqTyped
<1> QED
  BY <1>3, <1>4, <1>5, <1>6

LEMMA CancelReleaseEffect ==
  ASSUME SeatConstants, SeatTyped, NEW r \in Operations, CancelRelease(r)
  PROVE  /\ seatLock = NoSeat /\ seatLock' = r
         /\ req[r] = NoSeat /\ req'[r] # NoSeat
         /\ req'[r].op = "cancel" /\ req'[r].step = "write" /\ req'[r].n = 0
         /\ \A q \in Operations \ {r} : req'[q] = req[q]
         /\ stripe'.live = stripe.live /\ stripe'.target = stripe.live
         /\ UNCHANGED <<active, flagged, unpaid, again, mode, open, leaked, late, cycles>>
         /\ SeatTyped'
<1> DEFINE x == [op |-> "cancel", u |-> NoSeat, step |-> "write", n |-> 0, stale |-> FALSE]
           s == [stripe EXCEPT !.target = stripe.live, !.schedule = FALSE]
<1>1. x \in Operation /\ x.op = "cancel" /\ x.step = "write" /\ x.n = 0
  BY DEF Operation
<1>2. stripe \in Subscription
  BY DEF SeatTyped, SeatsTypeOK
<1>3. s \in Subscription /\ s.live = stripe.live /\ s.target = stripe.live /\ s.target <= s.live
  <2>1. s \in Subscription /\ s.live = stripe.live /\ s.target = stripe.live /\ stripe.live \in Nat
    BY <1>2 DEF Subscription
  <2> HIDE DEF s
  <2> QED
    BY <2>1
<1>4. /\ seatLock = NoSeat /\ seatLock' = r /\ req[r] = NoSeat
      /\ req' = [req EXCEPT ![r] = x] /\ stripe' = s
      /\ UNCHANGED <<active, flagged, unpaid, again, mode, open, leaked, late, cycles>>
  BY DEF CancelRelease, users, ghosts
<1> HIDE DEF x, s
<1>5. req'[r] = x /\ \A q \in Operations \ {r} : req'[q] = req[q]
  BY <1>4 DEF SeatTyped, ReqTyped
<1>6. ReqTyped'
  BY <1>1, <1>4, <1>5 DEF SeatTyped, ReqTyped
<1>7. x # NoSeat
  BY <1>1 DEF SeatConstants
<1>8. SeatTyped'
  BY <1>2, <1>3, <1>4, <1>6 DEF SeatTyped, SeatsTypeOK, StripeTyped, ReqTyped
<1> QED
  BY <1>1, <1>3, <1>4, <1>5, <1>7, <1>8

LEMMA SyncWriteEffect ==
  ASSUME SeatConstants, SeatTyped, NEW r \in Operations, SyncWrite(r)
  PROVE  /\ Reached(r, "sync", "read")
         /\ Closed(r) /\ seatLock' = (IF seatLock = r THEN NoSeat ELSE seatLock)
         /\ stripe'.live >= stripe.live /\ stripe'.live - stripe'.target <= leaked'
         /\ UNCHANGED <<active, flagged, unpaid, again, mode, open, late, cycles>>
         /\ SeatTyped'
<1>1. /\ ReqTyped /\ stripe \in Subscription /\ stripe.target <= stripe.live
      /\ stripe.live \in Nat /\ stripe.target \in Nat /\ leaked \in Nat
  BY DEF SeatTyped, SeatsTypeOK, StripeTyped, Subscription
<1>2. /\ Reached(r, "sync", "read") /\ Finish(r)
      /\ stripe' = Quantity(stripe, req[r].n)
      /\ leaked' = IF req[r].n < stripe.live THEN stripe.live - req[r].n ELSE leaked
      /\ UNCHANGED <<active, flagged, unpaid, again, mode, open, late, cycles>>
  BY DEF SyncWrite, users, bounds
<1>3. PICK n \in Nat : n = req[r].n
  BY <1>1, <1>2 DEF Reached, ReqTyped, Operation
<1>4. PICK s : s = stripe
  OBVIOUS
<1>5. stripe' = Quantity(s, n)
  BY <1>2, <1>3, <1>4
<1>6. LET q == Quantity(s, n)
      IN  q \in Subscription /\ q.target = n /\ q.target <= q.live /\ q.live = IF n >= s.live THEN n ELSE s.live
  BY <1>1, <1>4, QuantityFacts
<1>7. /\ stripe' \in Subscription /\ stripe'.target = n /\ stripe'.target <= stripe'.live
      /\ stripe'.live = IF n >= stripe.live THEN n ELSE stripe.live
  BY <1>4, <1>5, <1>6
<1>8. leaked' \in Nat /\ stripe'.live - stripe'.target <= leaked' /\ stripe'.live >= stripe.live
  <2>1. CASE n >= stripe.live
    BY <1>1, <1>2, <1>3, <1>7, <2>1
  <2>2. CASE ~(n >= stripe.live)
    <3>1. leaked' = stripe.live - n /\ stripe.live - n \in Nat
      BY <1>1, <1>2, <1>3, <2>2
    <3> QED
      BY <1>1, <1>7, <2>2, <3>1
  <2> QED
    BY <2>1, <2>2
<1>9. Closed(r) /\ seatLock' = (IF seatLock = r THEN NoSeat ELSE seatLock)
  BY <1>1, <1>2, FinishEnds
<1>10. ReqTyped'
  BY <1>9 DEF Closed
<1> QED
  BY <1>2, <1>7, <1>8, <1>9, <1>10 DEF SeatTyped, SeatsTypeOK, StripeTyped, ReqTyped

\* The steps of no operation.
LEMMA ReleaseEffect ==
  ASSUME SeatConstants, SeatTyped, ReleaseOpenSeat
  PROVE  /\ seatLock = NoSeat /\ open' = open + 1
         /\ stripe'.live = stripe.live /\ stripe'.target = stripe.target - 1
         /\ UNCHANGED <<active, flagged, seatLock, req, unpaid, again, mode, leaked, late, cycles>>
         /\ SeatTyped'
<1>1. /\ stripe \in Subscription /\ stripe.target <= stripe.live
      /\ stripe.live \in Nat /\ stripe.target \in Nat /\ open \in Nat
  BY DEF SeatTyped, SeatsTypeOK, StripeTyped, Subscription
<1>2. /\ seatLock = NoSeat /\ open' = open + 1 /\ stripe.target - 1 >= 1
      /\ stripe' = Quantity(stripe, stripe.target - 1)
      /\ UNCHANGED <<active, flagged, seatLock, req, unpaid, again, mode, leaked, late, cycles>>
  BY DEF ReleaseOpenSeat, users
<1>3. PICK n \in Nat : n = stripe.target - 1
  BY <1>1, <1>2
<1>4. PICK s : s = stripe
  OBVIOUS
<1>5. stripe' = Quantity(s, n)
  BY <1>2, <1>3, <1>4
<1>6. LET q == Quantity(s, n)
      IN  q \in Subscription /\ q.target = n /\ q.target <= q.live /\ q.live = IF n >= s.live THEN n ELSE s.live
  BY <1>1, <1>4, QuantityFacts
<1>7. ~(n >= s.live)
  BY <1>1, <1>3, <1>4
<1>8. /\ stripe' \in Subscription /\ stripe'.target = stripe.target - 1 /\ stripe'.target <= stripe'.live
      /\ stripe'.live = stripe.live
  BY <1>3, <1>4, <1>5, <1>6, <1>7
<1> QED
  BY <1>1, <1>2, <1>8 DEF SeatTyped, SeatsTypeOK, StripeTyped, ReqTyped

LEMMA DeactivateEffect ==
  ASSUME SeatConstants, SeatTyped, NEW u \in Members, NEW deleted \in BOOLEAN, Deactivate(u, deleted)
  PROVE  /\ active' = active \ {u}
         /\ flagged' = (IF deleted THEN flagged \ {u} ELSE flagged)
         /\ open' = (IF deleted /\ u \in flagged THEN open + 1 ELSE open)
         /\ UNCHANGED <<stripe, seatLock, req, unpaid, again, mode, leaked, late, cycles>>
         /\ SeatTyped'
BY DEF Deactivate, SeatTyped, SeatsTypeOK, StripeTyped, ReqTyped

LEMMA CycleEffect ==
  ASSUME SeatConstants, SeatTyped, Cycle
  PROVE  /\ stripe'.live = stripe.target /\ stripe'.target = stripe.target
         /\ unpaid' # {} /\ open' = 0 /\ leaked' = 0
         /\ \A r \in Operations :
              /\ req'[r] = NoSeat <=> req[r] = NoSeat
              /\ req[r] # NoSeat => /\ req'[r].op = req[r].op /\ req'[r].u = req[r].u
                                    /\ req'[r].step = req[r].step /\ req'[r].n = req[r].n /\ req'[r].stale
         /\ UNCHANGED <<active, flagged, seatLock, again, mode, late>>
         /\ SeatTyped'
<1> DEFINE s == [stripe EXCEPT !.live = stripe.target, !.schedule = FALSE]
<1>1. stripe \in Subscription /\ ReqTyped /\ unpaid \subseteq Nat /\ cycles \in Nat
  BY DEF SeatTyped, SeatsTypeOK
<1>2. s \in Subscription /\ s.live = stripe.target /\ s.target = stripe.target /\ s.target <= s.live
  <2>1. s \in Subscription /\ s.live = stripe.target /\ s.target = stripe.target /\ stripe.target \in Nat
    BY <1>1 DEF Subscription
  <2> HIDE DEF s
  <2> QED
    BY <2>1
<1>3. /\ stripe' = s /\ cycles' = cycles + 1 /\ unpaid' = unpaid \cup {cycles'}
      /\ open' = 0 /\ leaked' = 0
      /\ req' = [r \in Operations |-> IF req[r] = NoSeat THEN NoSeat ELSE [req[r] EXCEPT !.stale = TRUE]]
      /\ UNCHANGED <<active, flagged, seatLock, again, mode, late>>
  BY DEF Cycle, users
<1> HIDE DEF s
<1>4. ASSUME NEW r \in Operations, req[r] # NoSeat
      PROVE  /\ req'[r] \in Operation /\ req'[r] # NoSeat
             /\ req'[r].op = req[r].op /\ req'[r].u = req[r].u
             /\ req'[r].step = req[r].step /\ req'[r].n = req[r].n /\ req'[r].stale
  <2> DEFINE x == [req[r] EXCEPT !.stale = TRUE]
  <2>1. req[r] \in Operation
    BY <1>1, <1>4 DEF ReqTyped
  <2>2. /\ x \in Operation /\ x.op = req[r].op /\ x.u = req[r].u
        /\ x.step = req[r].step /\ x.n = req[r].n /\ x.stale
    BY <2>1 DEF Operation
  <2>3. req'[r] = x
    BY <1>3, <1>4
  <2> HIDE DEF x
  <2> QED
    BY <2>2, <2>3 DEF SeatConstants
<1>5. \A r \in Operations : req[r] = NoSeat => req'[r] = NoSeat
  BY <1>3
<1>6. ReqTyped'
  <2>1. req' \in [Operations -> Operation \cup {NoSeat}]
    BY <1>3, <1>4, <1>5
  <2> QED
    BY <1>1, <1>4, <1>5, <2>1 DEF ReqTyped
<1>7. unpaid' \subseteq Nat /\ unpaid' # {} /\ cycles' \in Nat
  BY <1>1, <1>3
<1> QED
  BY <1>2, <1>3, <1>4, <1>5, <1>6, <1>7 DEF SeatTyped, SeatsTypeOK, StripeTyped, ReqTyped

LEMMA WebhookEffect ==
  ASSUME SeatConstants, SeatTyped, NEW e \in unpaid \cup again, NEW answered \in BOOLEAN, Webhook(e, answered)
  PROVE  /\ seatLock = NoSeat
         /\ active' \subseteq active /\ Cardinality(active') <= stripe.live
         /\ flagged' = {}
         /\ leaked' = (IF stripe.target < stripe.live THEN leaked + Cardinality(flagged) ELSE leaked)
         /\ UNCHANGED <<stripe, seatLock, req, mode, open, late, cycles>>
         /\ SeatTyped'
<1>1. /\ IsFiniteSet(active) /\ Cardinality(flagged) \in Nat
      /\ active \subseteq Int /\ stripe.live \in Nat /\ leaked \in Nat
  BY CountsAreNat DEF SeatConstants, SeatTyped, SeatsTypeOK, Subscription
<1> DEFINE unflagged == active \ flagged
<1>2. /\ seatLock = NoSeat /\ flagged' = {}
      /\ active' = unflagged \ NewestOf(unflagged, Cardinality(unflagged) - stripe.live)
      /\ unpaid' = unpaid \ {e} /\ again' = IF answered THEN again \ {e} ELSE again \cup {e}
      /\ leaked' = (IF stripe.target < stripe.live THEN leaked + Cardinality(flagged) ELSE leaked)
      /\ UNCHANGED <<stripe, seatLock, req, mode, open, late, cycles>>
  BY DEF Webhook, Rollover
<1>3. unflagged \in SUBSET Int /\ unflagged \subseteq active /\ IsFiniteSet(unflagged)
  BY <1>1, FS_Subset
<1> HIDE DEF unflagged
<1>4. PICK n \in Nat : n = stripe.live
  BY <1>1
<1>5. LET left == unflagged \ NewestOf(unflagged, Cardinality(unflagged) - n)
      IN  left \subseteq unflagged /\ Cardinality(left) <= n
  BY <1>3, OldestKept
<1>6. active' \subseteq unflagged /\ Cardinality(active') <= stripe.live
  BY <1>2, <1>4, <1>5
<1>7. leaked' \in Nat
  BY <1>1, <1>2
<1>8. unpaid' \subseteq Nat /\ again' \subseteq Nat
  BY <1>2 DEF SeatTyped, SeatsTypeOK
<1> QED
  BY <1>2, <1>3, <1>6, <1>7, <1>8 DEF SeatTyped, SeatsTypeOK, StripeTyped, ReqTyped

------------------------------------------------------------------------------
(* The seats that are paid for now. *)

\* With hard enforcement an admission that is about to commit holds the lock, and one
\* that has read the seats of this period has read no more than are paid for; once
\* the invoices are processed there is a seat for it.
HardInv == mode = "hard" =>
  /\ \A r \in Operations :
       /\ Reached(r, "admit", "write") => seatLock = r
       /\ Reached(r, "admit", "read") /\ ~req[r].stale => req[r].n <= stripe.live
  /\ unpaid = {} /\ ~late =>
       /\ Cardinality(active) <= stripe.live
       /\ \A r \in Operations : Reached(r, "admit", "write") /\ ~req[r].stale => Cardinality(active) < stripe.live

\* The lock is left alone, taken when free, or released at the end.
LockMoves(r) ==
  \/ UNCHANGED seatLock
  \/ seatLock \in {NoSeat, r} /\ seatLock' = r
  \/ r \in Operations /\ req'[r] = NoSeat /\ seatLock' = (IF seatLock = r THEN NoSeat ELSE seatLock)

LEMMA HardKept ==
  ASSUME SeatConstants, SeatTyped, SeatTyped', HardInv, NEW r, LockMoves(r),
         \A q \in Operations \ {r} : req'[q] = req[q],
         UNCHANGED <<mode, late, unpaid>>, active' \subseteq active, stripe'.live >= stripe.live,
         r \in Operations /\ mode = "hard" =>
           /\ Reached(r, "admit", "read")' /\ ~req'[r].stale => req'[r].n <= stripe'.live
           /\ Reached(r, "admit", "write")' =>
                /\ seatLock' = r
                /\ unpaid = {} /\ ~late /\ ~req'[r].stale => Cardinality(active') < stripe'.live
  PROVE  HardInv'
<1> SUFFICES ASSUME mode = "hard" PROVE HardInv'
  BY DEF HardInv
<1>1. /\ Cardinality(active) \in Nat /\ Cardinality(active') \in Nat /\ Cardinality(active') <= Cardinality(active)
      /\ stripe.live \in Nat /\ stripe'.live \in Nat
  <2>1. IsFiniteSet(active) /\ Cardinality(active) \in Nat
    BY CountsAreNat
  <2>2. IsFiniteSet(active') /\ Cardinality(active') <= Cardinality(active)
    BY <2>1, FS_Subset
  <2>3. Cardinality(active') \in Nat
    BY <2>2, FS_CardinalityType
  <2>4. stripe \in Subscription /\ stripe' \in Subscription
    BY DEF SeatTyped, SeatsTypeOK
  <2> QED
    BY <2>1, <2>2, <2>3, <2>4 DEF Subscription
<1>2. ASSUME NEW q \in Operations \ {r}
      PROVE  /\ Reached(q, "admit", "write")' => seatLock' = q
             /\ Reached(q, "admit", "read")' /\ ~req'[q].stale => req'[q].n <= stripe'.live
             /\ unpaid = {} /\ ~late /\ Reached(q, "admit", "write")' /\ ~req'[q].stale
                  => Cardinality(active') < stripe'.live
  <2>1. req'[q] = req[q] /\ q # NoSeat
    BY DEF SeatConstants
  <2>2. /\ Reached(q, "admit", "write")' => Reached(q, "admit", "write")
        /\ Reached(q, "admit", "read")' => Reached(q, "admit", "read")
    BY <2>1 DEF Reached
  <2>3. Reached(q, "admit", "write") => seatLock' = q
    BY <2>1 DEF HardInv, LockMoves
  <2>4. Reached(q, "admit", "read") /\ ~req'[q].stale => req'[q].n <= stripe'.live
    <3>1. SUFFICES ASSUME Reached(q, "admit", "read"), ~req[q].stale PROVE req[q].n <= stripe'.live
      BY <2>1
    <3>2. req[q].n <= stripe.live
      BY <3>1 DEF HardInv
    <3>3. req[q].n \in Nat
      BY <3>1 DEF SeatTyped, ReqTyped, Reached, Operation
    <3> QED
      BY <1>1, <3>2, <3>3
  <2>5. unpaid = {} /\ ~late /\ Reached(q, "admit", "write") /\ ~req'[q].stale => Cardinality(active) < stripe.live
    BY <2>1 DEF HardInv
  <2> QED
    BY <1>1, <2>2, <2>3, <2>4, <2>5
<1>3. unpaid = {} /\ ~late => Cardinality(active') <= stripe'.live
  BY <1>1 DEF HardInv
<1>4. ASSUME NEW q \in Operations
      PROVE  /\ Reached(q, "admit", "write")' => seatLock' = q
             /\ Reached(q, "admit", "read")' /\ ~req'[q].stale => req'[q].n <= stripe'.live
             /\ unpaid = {} /\ ~late /\ Reached(q, "admit", "write")' /\ ~req'[q].stale
                  => Cardinality(active') < stripe'.live
  <2>1. CASE q = r
    BY <2>1
  <2>2. CASE q # r
    BY <1>2, <2>2
  <2> QED
    BY <2>1, <2>2
<1> QED
  BY <1>3, <1>4 DEF HardInv

LEMMA HardStep ==
  ASSUME SeatConstants, SeatTyped, SeatTyped', HardInv, SeatNext
  PROVE  HardInv'
<1>1. /\ stripe.live \in Nat /\ Cardinality(active) \in Nat /\ active \subseteq active
      /\ stripe \in Subscription /\ stripe' \in Subscription
  BY CountsAreNat DEF SeatTyped, SeatsTypeOK, Subscription
<1>2. ASSUME NEW r \in Operations, (\E u \in Members : Admit(r, u) \/ Flag(r, u) \/ Unflag(r, u)) \/ Sync(r)
      PROVE  HardInv'
  <2>1. /\ UNCHANGED <<stripe, active, seatLock, unpaid, mode, late>>
        /\ \/ \E u \in Members : Began(r, "admit", u, stripe.live)
           \/ \E u \in Members : Began(r, "flag", u, 0) \/ Began(r, "unflag", u, 0)
           \/ Began(r, "sync", NoSeat, Cardinality(active))
    BY <1>2, BeginEffect
  <2>2. /\ \A q \in Operations \ {r} : req'[q] = req[q]
        /\ ~Reached(r, "admit", "write")'
        /\ Reached(r, "admit", "read")' => req'[r].n = stripe.live
    BY <2>1 DEF Began, Reached
  <2>3. LockMoves(r) /\ stripe'.live >= stripe.live
    BY <1>1, <2>1 DEF LockMoves
  <2>4. Reached(r, "admit", "read")' => req'[r].n <= stripe'.live
    BY <1>1, <2>1, <2>2
  <2> QED
    BY <2>1, <2>2, <2>3, <2>4, HardKept
<1>3. ASSUME NEW r \in Operations, AdmitWithin(r) \/ AdmitRefused(r) \/ AdmitCharged(r), mode = "hard"
      PROVE  HardInv'
  <2>1. /\ Reached(r, "admit", "read") /\ req[r].n \in Nat
        /\ UNCHANGED <<active, unpaid, mode, late>>
    BY <1>3, AdmitEffect DEF SeatTyped, ReqTyped, Reached, Operation
  <2>2. CASE AdmitWithin(r)
    <3>1. Wrote(r, 0) /\ Cardinality(active) < req[r].n /\ LockState(r) /\ UNCHANGED stripe
      BY <1>3, <2>2, AdmitEffect
    <3>2. ~req[r].stale => Cardinality(active) < stripe.live
      BY <1>1, <1>3, <2>1, <3>1 DEF HardInv
    <3>3. /\ \A q \in Operations \ {r} : req'[q] = req[q]
          /\ ~Reached(r, "admit", "read")' /\ req'[r].stale = req[r].stale
      BY <3>1 DEF Wrote, Reached
    <3>4. LockMoves(r) /\ seatLock' = r /\ stripe'.live >= stripe.live /\ active' \subseteq active
      BY <1>1, <2>1, <3>1 DEF LockMoves, LockState, LockFree
    <3>5. ~req'[r].stale => Cardinality(active') < stripe'.live
      BY <2>1, <3>1, <3>2, <3>3
    <3> QED
      BY <2>1, <3>3, <3>4, <3>5, HardKept
  <2>3. CASE AdmitRefused(r)
    <3>1. Closed(r) /\ seatLock' = (IF seatLock = r THEN NoSeat ELSE seatLock) /\ UNCHANGED stripe
      BY <2>3, AdmitEffect
    <3>2. (\A q \in Operations \ {r} : req'[q] = req[q]) /\ ~Reached(r, "admit", "read")' /\ ~Reached(r, "admit", "write")'
      BY <3>1 DEF Closed, Reached
    <3>3. LockMoves(r) /\ stripe'.live >= stripe.live /\ active' \subseteq active
      BY <1>1, <2>1, <3>1 DEF LockMoves, Closed
    <3> QED
      BY <2>1, <3>2, <3>3, HardKept
  <2>4. CASE AdmitCharged(r)
    <3>1. Wrote(r, 0) /\ LockState(r) /\ stripe'.live = stripe.live + 1
      BY <2>4, AdmitEffect
    <3>2. /\ \A q \in Operations \ {r} : req'[q] = req[q]
          /\ ~Reached(r, "admit", "read")'
      BY <3>1 DEF Wrote, Reached
    <3>3. LockMoves(r) /\ seatLock' = r /\ stripe'.live >= stripe.live /\ active' \subseteq active
      BY <1>1, <2>1, <3>1 DEF LockMoves, LockState, LockFree
    <3>4. unpaid = {} /\ ~late => Cardinality(active') < stripe'.live
      <4>1. unpaid = {} /\ ~late => Cardinality(active) <= stripe.live
        BY <1>3 DEF HardInv
      <4>2. Cardinality(active') = Cardinality(active)
        BY <2>1
      <4> QED
        BY <1>1, <3>1, <4>1, <4>2
    <3> QED
      BY <2>1, <3>2, <3>3, <3>4, HardKept
  <2> QED
    BY <1>3, <2>2, <2>3, <2>4
<1>4. ASSUME NEW r \in Operations, AdmitCommit(r), mode = "hard"
      PROVE  HardInv'
  <2>1. /\ Reached(r, "admit", "write")
        /\ active' = active \cup {req[r].u} /\ late' = (late \/ req[r].stale)
        /\ UNCHANGED <<stripe, unpaid, mode>> /\ Closed(r)
    BY <1>4, EndsEffect
  <2>2. seatLock = r
    BY <1>4, <2>1 DEF HardInv
  <2>3. Cardinality(active') \in Nat /\ Cardinality(active') <= Cardinality(active) + 1
    <3>1. IsFiniteSet(active)
      BY CountsAreNat
    <3>2. PICK u : u = req[r].u
      OBVIOUS
    <3>3. Cardinality(active \cup {u}) = IF u \in active THEN Cardinality(active) ELSE Cardinality(active) + 1
      BY <3>1, FS_AddElement
    <3> QED
      BY <1>1, <2>1, <3>2, <3>3
  <2>4. unpaid = {} /\ ~late /\ ~req[r].stale => Cardinality(active) < stripe.live
    BY <1>4, <2>1 DEF HardInv
  <2>5. unpaid' = {} /\ ~late' => Cardinality(active') <= stripe'.live
    <3>1. stripe'.live = stripe.live
      BY <2>1
    <3>2. req[r].stale \in BOOLEAN /\ late \in BOOLEAN
      BY <2>1 DEF SeatTyped, SeatsTypeOK, ReqTyped, Reached, Operation
    <3>3. unpaid' = {} /\ ~late' => unpaid = {} /\ ~late /\ ~req[r].stale
      BY <2>1, <3>2
    <3>4. unpaid' = {} /\ ~late' => Cardinality(active) < stripe.live
      BY <2>4, <3>3
    <3> QED
      BY <1>1, <2>3, <3>1, <3>4
  <2>6. \A q \in Operations : ~Reached(q, "admit", "write")'
    BY <1>4, <2>1, <2>2 DEF HardInv, Closed, Reached
  <2>7. \A q \in Operations : Reached(q, "admit", "read")' /\ ~req'[q].stale => req'[q].n <= stripe'.live
    BY <1>4, <2>1 DEF HardInv, Closed, Reached
  <2> QED
    BY <2>5, <2>6, <2>7 DEF HardInv
<1>5. ASSUME NEW r \in Operations, UnflagCommit(r) \/ CancelCommit(r) \/ FlagCommit(r) \/ Fail(r)
      PROVE  HardInv'
  <2>1. /\ UNCHANGED <<stripe, active, unpaid, mode, late>>
        /\ Closed(r) /\ seatLock' = (IF seatLock = r THEN NoSeat ELSE seatLock)
    BY <1>5, EndsEffect
  <2>2. (\A q \in Operations \ {r} : req'[q] = req[q]) /\ ~Reached(r, "admit", "read")' /\ ~Reached(r, "admit", "write")'
    BY <2>1 DEF Closed, Reached
  <2>3. LockMoves(r) /\ stripe'.live >= stripe.live
    BY <1>1, <2>1 DEF LockMoves, Closed
  <2> QED
    BY <2>1, <2>2, <2>3, HardKept
<1>6. ASSUME NEW r \in Operations, UpgradeFailsHalfWay(r) \/ SyncWrite(r)
      PROVE  HardInv'
  <2>1. /\ UNCHANGED <<active, unpaid, mode, late>> /\ stripe'.live >= stripe.live
        /\ Closed(r) /\ seatLock' = (IF seatLock = r THEN NoSeat ELSE seatLock)
    BY <1>6, ChargeEffect, SyncWriteEffect
  <2>2. (\A q \in Operations \ {r} : req'[q] = req[q]) /\ ~Reached(r, "admit", "read")' /\ ~Reached(r, "admit", "write")'
    BY <2>1 DEF Closed, Reached
  <2>3. LockMoves(r)
    BY <2>1 DEF LockMoves, Closed
  <2> QED
    BY <2>1, <2>2, <2>3, HardKept
<1>7. ASSUME NEW r \in Operations, FlagCharge(r) \/ UnflagCharge(r)
      PROVE  HardInv'
  <2>1. /\ Reached(r, "flag", "read") \/ Reached(r, "unflag", "read")
        /\ UNCHANGED <<active, unpaid, mode, late>> /\ stripe'.live >= stripe.live
        /\ \/ Closed(r) /\ seatLock' = (IF seatLock = r THEN NoSeat ELSE seatLock)
           \/ Wrote(r, 0) /\ LockState(r)
           \/ Wrote(r, 1) /\ LockState(r)
    BY <1>1, <1>7, ChargeEffect
  <2>2. (\A q \in Operations \ {r} : req'[q] = req[q]) /\ ~Reached(r, "admit", "read")' /\ ~Reached(r, "admit", "write")'
    BY <2>1 DEF Closed, Wrote, Reached
  <2>3. LockMoves(r)
    BY <2>1 DEF LockMoves, Closed, LockState, LockFree
  <2> QED
    BY <2>1, <2>2, <2>3, HardKept
<1>8. ASSUME NEW r \in Operations, CancelRelease(r)
      PROVE  HardInv'
  <2>1. /\ UNCHANGED <<active, unpaid, mode, late>> /\ stripe'.live >= stripe.live
        /\ seatLock = NoSeat /\ seatLock' = r /\ req'[r].op = "cancel"
        /\ \A q \in Operations \ {r} : req'[q] = req[q]
    BY <1>1, <1>8, CancelReleaseEffect
  <2>2. ~Reached(r, "admit", "read")' /\ ~Reached(r, "admit", "write")'
    BY <2>1 DEF Reached
  <2>3. LockMoves(r)
    BY <2>1 DEF LockMoves
  <2> QED
    BY <2>1, <2>2, <2>3, HardKept
<1>9. ASSUME ReleaseOpenSeat \/ (\E u \in Members, deleted \in BOOLEAN : Deactivate(u, deleted))
      PROVE  HardInv'
  <2>1. /\ UNCHANGED <<seatLock, req, unpaid, mode, late>> /\ stripe'.live >= stripe.live
        /\ active' \subseteq active
    BY <1>1, <1>9, ReleaseEffect, DeactivateEffect
  <2>2. LockMoves(NoSeat) /\ NoSeat \notin Operations /\ \A q \in Operations \ {NoSeat} : req'[q] = req[q]
    BY <2>1 DEF LockMoves, SeatConstants
  <2> QED
    BY <2>1, <2>2, HardKept
<1>10. ASSUME Cycle PROVE HardInv'
  <2>1. /\ unpaid' # {} /\ UNCHANGED <<seatLock, mode>>
        /\ \A r \in Operations :
             /\ req'[r] = NoSeat <=> req[r] = NoSeat
             /\ req[r] # NoSeat => /\ req'[r].op = req[r].op /\ req'[r].step = req[r].step /\ req'[r].stale
    BY <1>10, CycleEffect
  <2> QED
    BY <2>1 DEF HardInv, Reached
<1>11. ASSUME NEW e \in unpaid \cup again, NEW answered \in BOOLEAN, Webhook(e, answered)
       PROVE  HardInv'
  <2>1. /\ seatLock = NoSeat /\ Cardinality(active') <= stripe.live
        /\ UNCHANGED <<stripe, seatLock, req, mode, late>>
    BY <1>11, WebhookEffect
  <2>2. mode = "hard" => \A q \in Operations : ~Reached(q, "admit", "write")
    BY <2>1 DEF HardInv, SeatConstants
  <2> QED
    BY <2>1, <2>2 DEF HardInv, Reached
<1>12. CASE mode # "hard"
  <2>1. mode' = mode
    BY DEF SeatNext, Admit, Flag, Unflag, AdmitWithin, AdmitRefused, AdmitCharged, AdmitCommit,
           UpgradeFailsHalfWay, FlagCharge, FlagCommit, UnflagCharge, UnflagCommit, CancelRelease,
           CancelCommit, Sync, SyncWrite, Fail, ReleaseOpenSeat, Deactivate, Cycle, Webhook, StartOperation
  <2> QED
    BY <1>12, <2>1 DEF HardInv
<1>13. CASE mode = "hard"
  BY <1>2, <1>3, <1>4, <1>5, <1>6, <1>7, <1>8, <1>9, <1>10, <1>11, <1>13 DEF SeatNext
<1> QED
  BY <1>12, <1>13

------------------------------------------------------------------------------
(* The seats that are to go. *)

Pending == stripe.live - stripe.target
OneFlag == IF BeingFlagged = {} THEN 0 ELSE 1

\* A flag that has been charged for is about to commit; an operation on the flags that
\* is about to commit holds the lock.
HeldInv == \A r \in Operations : req[r] # NoSeat =>
  /\ req[r].op = "flag" => req[r].n \in {0, 1} /\ (req[r].step = "read" => req[r].n = 0)
  /\ req[r].op \in {"flag", "unflag", "cancel"} /\ req[r].step = "write" => seatLock = r

\* What a removal of flags will leave accounts for what is pending then.
LeftInv == \A r \in Operations :
  /\ Reached(r, "unflag", "write") => Pending <= Cardinality(flagged \ {req[r].u}) + open + leaked
  /\ Reached(r, "cancel", "write") => Pending <= open + leaked

PendingInv ==
  /\ HeldInv
  /\ LeftInv
  /\ Pending <= Cardinality(flagged) + OneFlag + open + leaked

LEMMA FlagCounts ==
  ASSUME SeatConstants, NEW F \in SUBSET Members
  PROVE  /\ Cardinality(F) \in Nat
         /\ \A u : /\ Cardinality(F \ {u}) \in Nat /\ Cardinality(F \cup {u}) \in Nat
                   /\ Cardinality(F \ {u}) = IF u \in F THEN Cardinality(F) - 1 ELSE Cardinality(F)
                   /\ Cardinality(F \cup {u}) = IF u \in F THEN Cardinality(F) ELSE Cardinality(F) + 1
<1>1. IsFiniteSet(F)
  BY FS_Subset DEF SeatConstants
<1>2. Cardinality(F) \in Nat
  BY <1>1, FS_CardinalityType
<1>3. ASSUME NEW u
      PROVE  /\ Cardinality(F \ {u}) \in Nat /\ Cardinality(F \cup {u}) \in Nat
             /\ Cardinality(F \ {u}) = IF u \in F THEN Cardinality(F) - 1 ELSE Cardinality(F)
             /\ Cardinality(F \cup {u}) = IF u \in F THEN Cardinality(F) ELSE Cardinality(F) + 1
  <2>1. /\ IsFiniteSet(F \ {u})
        /\ Cardinality(F \ {u}) = IF u \in F THEN Cardinality(F) - 1 ELSE Cardinality(F)
    BY <1>1, FS_RemoveElement
  <2>2. /\ IsFiniteSet(F \cup {u})
        /\ Cardinality(F \cup {u}) = IF u \in F THEN Cardinality(F) ELSE Cardinality(F) + 1
    BY <1>1, FS_AddElement
  <2>3. Cardinality(F \ {u}) \in Nat
    BY <2>1, FS_CardinalityType
  <2>4. Cardinality(F \cup {u}) \in Nat
    BY <2>2, FS_CardinalityType
  <2> QED
    BY <2>1, <2>2, <2>3, <2>4
<1> QED
  BY <1>2, <1>3

LEMMA PendingNumbers ==
  ASSUME SeatConstants, SeatTyped
  PROVE  /\ stripe.live \in Nat /\ stripe.target \in Nat /\ open \in Nat /\ leaked \in Nat
         /\ Pending \in Nat /\ OneFlag \in {0, 1} /\ Cardinality(flagged) \in Nat /\ flagged \in SUBSET Members
BY FlagCounts DEF SeatTyped, SeatsTypeOK, StripeTyped, Subscription, Pending, OneFlag

LEMMA PendingNumbersLater ==
  ASSUME SeatConstants, SeatTyped'
  PROVE  /\ stripe'.live \in Nat /\ stripe'.target \in Nat /\ open' \in Nat /\ leaked' \in Nat
         /\ Pending' \in Nat /\ OneFlag' \in {0, 1} /\ Cardinality(flagged') \in Nat /\ flagged' \in SUBSET Members
         /\ Pending' = stripe'.live - stripe'.target
BY FlagCounts DEF SeatTyped, SeatsTypeOK, StripeTyped, Subscription, Pending, OneFlag

\* While the lock is free, or an operation's own, no other is about to commit.
LEMMA OthersWait ==
  ASSUME SeatConstants, SeatTyped, HeldInv, NEW r, seatLock \in {NoSeat, r}
  PROVE  \A q \in Operations \ {r} :
           /\ ~Reached(q, "unflag", "write") /\ ~Reached(q, "cancel", "write")
           /\ q \notin BeingFlagged
<1> TAKE q \in Operations \ {r}
<1>1. seatLock # q
  BY DEF SeatConstants
<1>2. req[q] # NoSeat => ~(req[q].op \in {"flag", "unflag", "cancel"} /\ req[q].step = "write")
  BY <1>1 DEF HeldInv
<1>3. ~Reached(q, "unflag", "write") /\ ~Reached(q, "cancel", "write")
  BY <1>2 DEF Reached
<1>4. ASSUME q \in BeingFlagged PROVE FALSE
  <2>1. req[q] # NoSeat /\ req[q].op = "flag" /\ req[q].n = 1
    BY <1>4 DEF BeingFlagged
  <2>2. req[q].step \in {"read", "write"}
    BY <2>1 DEF SeatTyped, ReqTyped, Operation
  <2>3. req[q].step = "read" => req[q].n = 0
    BY <2>1 DEF HeldInv
  <2> QED
    BY <1>2, <2>1, <2>2, <2>3
<1> QED
  BY <1>3, <1>4

OwnHeld(r) == req'[r] # NoSeat =>
  /\ req'[r].op = "flag" => req'[r].n \in {0, 1} /\ (req'[r].step = "read" => req'[r].n = 0)
  /\ req'[r].op \in {"flag", "unflag", "cancel"} /\ req'[r].step = "write" => seatLock' = r

LEMMA HeldKept ==
  ASSUME SeatConstants, HeldInv, NEW r, LockMoves(r),
         \A q \in Operations \ {r} : req'[q] = req[q],
         r \in Operations => OwnHeld(r)
  PROVE  HeldInv'
<1> SUFFICES ASSUME NEW q \in Operations, req'[q] # NoSeat
             PROVE  /\ req'[q].op = "flag" => req'[q].n \in {0, 1} /\ (req'[q].step = "read" => req'[q].n = 0)
                    /\ req'[q].op \in {"flag", "unflag", "cancel"} /\ req'[q].step = "write" => seatLock' = q
  BY DEF HeldInv
<1>1. CASE q = r
  BY <1>1 DEF OwnHeld
<1>2. CASE q # r
  <2>1. req'[q] = req[q] /\ q # NoSeat
    BY <1>2 DEF SeatConstants
  <2>2. seatLock = q => seatLock' = q
    BY <1>2, <2>1 DEF LockMoves
  <2> QED
    BY <2>1, <2>2 DEF HeldInv
<1> QED
  BY <1>1, <1>2

LEMMA HeldByEnd ==
  ASSUME SeatConstants, HeldInv, NEW r \in Operations, Closed(r),
         seatLock' = (IF seatLock = r THEN NoSeat ELSE seatLock)
  PROVE  HeldInv'
BY HeldKept DEF Closed, LockMoves, OwnHeld

\* An operation that is none on the flags, or removes none, leaves the account right.
LEMMA PendingKept ==
  ASSUME SeatConstants, SeatTyped, SeatTyped', PendingInv, HeldInv', NEW r \in Operations,
         \A q \in Operations \ {r} : req'[q] = req[q],
         UNCHANGED <<flagged, open>>,
         (Pending' <= Pending /\ UNCHANGED leaked) \/ Pending' <= leaked',
         r \notin BeingFlagged, ~Reached(r, "unflag", "write")', ~Reached(r, "cancel", "write")'
  PROVE  PendingInv'
<1>1. /\ Pending \in Nat /\ Pending' \in Nat /\ OneFlag \in {0, 1} /\ OneFlag' \in {0, 1}
      /\ open \in Nat /\ leaked \in Nat /\ leaked' \in Nat
      /\ Cardinality(flagged) \in Nat /\ flagged \in SUBSET Members
  BY PendingNumbers, PendingNumbersLater
<1>2. OneFlag <= OneFlag'
  <2>1. \A q \in BeingFlagged : q \in BeingFlagged'
    BY DEF BeingFlagged
  <2> QED
    BY <2>1 DEF OneFlag
<1>3. Cardinality(flagged') = Cardinality(flagged) /\ open' = open
  OBVIOUS
<1>4. \A n \in Nat : Pending <= n + leaked => Pending' <= n + leaked'
  <2>1. CASE Pending' <= Pending /\ leaked' = leaked
    BY <1>1, <2>1
  <2>2. CASE Pending' <= leaked'
    <3> TAKE n \in Nat
    <3>1. PICK p \in Nat, k \in Nat : p = Pending' /\ k = leaked' /\ p <= k
      BY <1>1, <2>2
    <3>2. p <= n + k
      BY <3>1
    <3> QED
      BY <3>1, <3>2
  <2> QED
    BY <2>1, <2>2
<1>5. Pending' <= Cardinality(flagged') + OneFlag' + open' + leaked'
  <2>1. Cardinality(flagged) + OneFlag + open \in Nat
    BY <1>1
  <2>2. Pending' <= Cardinality(flagged) + OneFlag + open + leaked'
    BY <1>4, <2>1 DEF PendingInv
  <2> QED
    BY <1>1, <1>2, <1>3, <2>2
<1>6. ASSUME NEW q \in Operations
      PROVE  /\ Reached(q, "unflag", "write")' => Pending' <= Cardinality(flagged' \ {req'[q].u}) + open' + leaked'
             /\ Reached(q, "cancel", "write")' => Pending' <= open' + leaked'
  <2>1. CASE q = r
    BY <2>1
  <2>2. CASE q # r
    <3>1. req'[q] = req[q]
      BY <2>2
    <3>2. PICK u : u = req[q].u
      OBVIOUS
    <3>3. Reached(q, "unflag", "write")' => Pending <= Cardinality(flagged \ {u}) + open + leaked
      BY <3>1, <3>2 DEF PendingInv, LeftInv, Reached
    <3>4. Cardinality(flagged \ {u}) \in Nat
      BY <1>1, FlagCounts
    <3>5. Cardinality(flagged' \ {req'[q].u}) = Cardinality(flagged \ {u})
      BY <3>1, <3>2
    <3>6. Reached(q, "cancel", "write")' => Pending <= open + leaked
      BY <3>1 DEF PendingInv, LeftInv, Reached
    <3>7. Reached(q, "unflag", "write")' => Pending' <= Cardinality(flagged' \ {req'[q].u}) + open' + leaked'
      <4>1. Cardinality(flagged \ {u}) + open \in Nat
        BY <1>1, <3>4
      <4> QED
        BY <1>3, <1>4, <3>3, <3>5, <4>1
    <3>8. Reached(q, "cancel", "write")' => Pending' <= open' + leaked'
      BY <1>1, <1>3, <1>4, <3>6
    <3> QED
      BY <3>7, <3>8
  <2> QED
    BY <2>1, <2>2
<1> QED
  BY <1>5, <1>6 DEF PendingInv, LeftInv

\* When nothing is pending there is nothing to account for.
LEMMA NothingPending ==
  ASSUME SeatConstants, SeatTyped', HeldInv', Pending' = 0
  PROVE  PendingInv'
<1>1. /\ OneFlag' \in {0, 1} /\ open' \in Nat /\ leaked' \in Nat
      /\ Cardinality(flagged') \in Nat /\ flagged' \in SUBSET Members
  BY PendingNumbersLater
<1>2. Pending' <= Cardinality(flagged') + OneFlag' + open' + leaked'
  BY <1>1
<1>3. ASSUME NEW q \in Operations
      PROVE  Pending' <= Cardinality(flagged' \ {req'[q].u}) + open' + leaked' /\ Pending' <= open' + leaked'
  <2>1. PICK u : u = req'[q].u
    OBVIOUS
  <2>2. Cardinality(flagged' \ {u}) \in Nat
    BY <1>1, FlagCounts
  <2>3. Cardinality(flagged' \ {req'[q].u}) \in Nat
    BY <2>1, <2>2
  <2>4. \A a, b, c \in Nat : 0 <= a + b + c /\ 0 <= b + c
    OBVIOUS
  <2> QED
    BY <1>1, <2>3, <2>4
<1> QED
  BY <1>2, <1>3 DEF PendingInv, LeftInv

\* The step of an operation that holds the lock or finds it free.
LEMMA PendingAlone ==
  ASSUME SeatConstants, SeatTyped, SeatTyped', PendingInv, HeldInv', NEW r, seatLock \in {NoSeat, r},
         \A q \in Operations \ {r} : req'[q] = req[q],
         Pending' <= Cardinality(flagged') + (IF r \in BeingFlagged' THEN 1 ELSE 0) + open' + leaked',
         r \in Operations =>
           /\ Reached(r, "unflag", "write")' => Pending' <= Cardinality(flagged' \ {req'[r].u}) + open' + leaked'
           /\ Reached(r, "cancel", "write")' => Pending' <= open' + leaked'
  PROVE  PendingInv'
<1>1. /\ Pending' \in Nat /\ OneFlag' \in {0, 1} /\ open' \in Nat /\ leaked' \in Nat /\ Cardinality(flagged') \in Nat
  BY PendingNumbersLater
<1>2. r \in BeingFlagged' => OneFlag' = 1
  BY DEF OneFlag
<1>3. Pending' <= Cardinality(flagged') + OneFlag' + open' + leaked'
  BY <1>1, <1>2
<1>4. ASSUME NEW q \in Operations, q # r
      PROVE  ~Reached(q, "unflag", "write")' /\ ~Reached(q, "cancel", "write")'
  BY <1>4, OthersWait DEF PendingInv, Reached
<1> QED
  BY <1>3, <1>4 DEF PendingInv, LeftInv

\* As when the operation ends.
LEMMA PendingEnds ==
  ASSUME SeatConstants, SeatTyped, SeatTyped', PendingInv, HeldInv', NEW r, seatLock \in {NoSeat, r},
         \A q \in Operations \ {r} : req'[q] = req[q],
         r \in Operations => ~Reached(r, "unflag", "write")' /\ ~Reached(r, "cancel", "write")',
         Pending' <= Cardinality(flagged') + open' + leaked'
  PROVE  PendingInv'
<1>1. /\ open' \in Nat /\ leaked' \in Nat /\ Cardinality(flagged') \in Nat /\ Pending' \in Nat
  BY PendingNumbersLater
<1>2. PICK b \in {0, 1} : b = IF r \in BeingFlagged' THEN 1 ELSE 0
  OBVIOUS
<1>3. Pending' <= Cardinality(flagged') + b + open' + leaked'
  BY <1>1
<1>4. Pending' <= Cardinality(flagged') + (IF r \in BeingFlagged' THEN 1 ELSE 0) + open' + leaked'
  BY <1>2, <1>3
<1>5. r \in Operations =>
        /\ Reached(r, "unflag", "write")' => Pending' <= Cardinality(flagged' \ {req'[r].u}) + open' + leaked'
        /\ Reached(r, "cancel", "write")' => Pending' <= open' + leaked'
  OBVIOUS
<1> QED
  BY <1>4, <1>5, PendingAlone

LEMMA AloneBound ==
  ASSUME SeatConstants, SeatTyped, PendingInv, NEW r, seatLock \in {NoSeat, r}
  PROVE  Pending <= Cardinality(flagged) + (IF r \in BeingFlagged THEN 1 ELSE 0) + open + leaked
<1>1. HeldInv /\ Pending <= Cardinality(flagged) + OneFlag + open + leaked
  BY DEF PendingInv
<1>2. \A q \in Operations \ {r} : q \notin BeingFlagged
  BY <1>1, OthersWait
<1>3. BeingFlagged # {} => r \in BeingFlagged
  BY <1>2 DEF BeingFlagged
<1>4. OneFlag = IF r \in BeingFlagged THEN 1 ELSE 0
  BY <1>3 DEF OneFlag
<1> QED
  BY <1>1, <1>4

LEMMA PendingStep ==
  ASSUME SeatConstants, SeatTyped, SeatTyped', PendingInv, SeatNext
  PROVE  PendingInv'
<1>1. /\ Pending = stripe.live - stripe.target /\ Pending' = stripe'.live - stripe'.target
      /\ stripe.live \in Nat /\ stripe.target \in Nat /\ stripe'.live \in Nat /\ stripe'.target \in Nat
      /\ stripe.target <= stripe.live /\ stripe'.target <= stripe'.live
      /\ open \in Nat /\ leaked \in Nat /\ open' \in Nat /\ leaked' \in Nat
      /\ Cardinality(flagged) \in Nat /\ Cardinality(flagged') \in Nat /\ flagged \in SUBSET Members
  BY PendingNumbers, PendingNumbersLater DEF SeatTyped, StripeTyped, Pending
<1>2. HeldInv
  BY DEF PendingInv
<1>3. ASSUME NEW r \in Operations, (\E u \in Members : Admit(r, u) \/ Flag(r, u) \/ Unflag(r, u)) \/ Sync(r)
      PROVE  PendingInv'
  <2>1. /\ UNCHANGED <<stripe, flagged, seatLock, open, leaked>>
        /\ \/ \E u \in Members : Began(r, "admit", u, stripe.live)
           \/ \E u \in Members : Began(r, "flag", u, 0) \/ Began(r, "unflag", u, 0)
           \/ Began(r, "sync", NoSeat, Cardinality(active))
    BY <1>3, BeginEffect
  <2>2. /\ req[r] = NoSeat /\ req'[r] # NoSeat /\ req'[r].step = "read"
        /\ req'[r].op = "flag" => req'[r].n = 0
        /\ \A q \in Operations \ {r} : req'[q] = req[q]
    BY <2>1 DEF Began
  <2>3. LockMoves(r) /\ OwnHeld(r)
    BY <2>1, <2>2 DEF LockMoves, OwnHeld
  <2>4. HeldInv'
    BY <1>2, <2>2, <2>3, HeldKept
  <2>5. r \notin BeingFlagged /\ ~Reached(r, "unflag", "write")' /\ ~Reached(r, "cancel", "write")'
    BY <2>2 DEF BeingFlagged, Reached
  <2>6. Pending' <= Pending
    BY <1>1, <2>1
  <2> QED
    BY <2>1, <2>2, <2>4, <2>5, <2>6, PendingKept
<1>4. ASSUME NEW r \in Operations, AdmitWithin(r) \/ AdmitRefused(r) \/ AdmitCharged(r)
      PROVE  PendingInv'
  <2>1. /\ Reached(r, "admit", "read") /\ UNCHANGED <<flagged, open, leaked>>
        /\ Wrote(r, 0) \/ Closed(r)
        /\ Pending' <= Pending
    <3>1. AdmitWithin(r) \/ AdmitRefused(r) => UNCHANGED stripe
      BY AdmitEffect
    <3>2. AdmitCharged(r) => stripe'.live - stripe'.target <= stripe.live - stripe.target
      BY AdmitEffect
    <3>3. Pending' <= Pending
      BY <1>1, <1>4, <3>1, <3>2
    <3> QED
      BY <1>4, <3>3, AdmitEffect
  <2>2. /\ \A q \in Operations \ {r} : req'[q] = req[q]
        /\ OwnHeld(r) /\ r \notin BeingFlagged
        /\ ~Reached(r, "unflag", "write")' /\ ~Reached(r, "cancel", "write")'
    BY <2>1 DEF Wrote, Closed, Reached, OwnHeld, BeingFlagged
  <2>3. LockMoves(r)
    BY <1>4, <2>1, AdmitEffect DEF AdmitWithin, AdmitRefused, AdmitCharged, LockForLimit, LockState, LockFree, LockMoves, Closed
  <2>4. HeldInv'
    BY <1>2, <2>2, <2>3, HeldKept
  <2> QED
    BY <2>1, <2>2, <2>4, PendingKept
<1>5. ASSUME NEW r \in Operations, AdmitCommit(r) \/ UpgradeFailsHalfWay(r) \/ SyncWrite(r)
      PROVE  PendingInv'
  <2>1. /\ Reached(r, "admit", "write") \/ Reached(r, "admit", "read") \/ Reached(r, "sync", "read")
        /\ UNCHANGED <<flagged, open>>
        /\ Closed(r) /\ seatLock' = (IF seatLock = r THEN NoSeat ELSE seatLock)
    BY <1>5, EndsEffect, ChargeEffect, SyncWriteEffect
  <2>2. (Pending' <= Pending /\ UNCHANGED leaked) \/ Pending' <= leaked'
    <3>1. AdmitCommit(r) => UNCHANGED <<stripe, leaked>>
      BY EndsEffect
    <3>2. UpgradeFailsHalfWay(r) => stripe'.target = stripe'.live
      BY ChargeEffect
    <3>3. SyncWrite(r) => stripe'.live - stripe'.target <= leaked'
      BY SyncWriteEffect
    <3> QED
      BY <1>1, <1>5, <3>1, <3>2, <3>3
  <2>3. HeldInv'
    BY <1>2, <2>1, HeldByEnd
  <2>4. /\ \A q \in Operations \ {r} : req'[q] = req[q]
        /\ r \notin BeingFlagged /\ ~Reached(r, "unflag", "write")' /\ ~Reached(r, "cancel", "write")'
    BY <2>1 DEF Closed, Reached, BeingFlagged
  <2> QED
    BY <2>1, <2>2, <2>3, <2>4, PendingKept
<1>6. ASSUME NEW r \in Operations, FlagCharge(r)
      PROVE  PendingInv'
  <2>1. /\ Reached(r, "flag", "read") /\ UNCHANGED <<flagged, open, leaked>>
        /\ \/ /\ Closed(r) /\ UNCHANGED stripe
              /\ seatLock' = (IF seatLock = r THEN NoSeat ELSE seatLock)
           \/ Wrote(r, 0) /\ LockState(r) /\ UNCHANGED stripe
           \/ /\ Wrote(r, 1) /\ LockState(r)
              /\ stripe'.live = stripe.live /\ stripe'.target = stripe.target - 1
    BY <1>6, ChargeEffect
  <2>2. /\ \A q \in Operations \ {r} : req'[q] = req[q]
        /\ LockMoves(r) /\ OwnHeld(r)
        /\ ~Reached(r, "unflag", "write")' /\ ~Reached(r, "cancel", "write")'
    BY <2>1 DEF Closed, Wrote, Reached, LockMoves, LockState, LockFree, OwnHeld
  <2>3. HeldInv'
    BY <1>2, <2>2, HeldKept
  <2>4. r \notin BeingFlagged
    BY <1>2, <2>1 DEF HeldInv, BeingFlagged, Reached
  <2>5. CASE UNCHANGED stripe
    <3>1. Pending' <= Pending
      BY <1>1, <2>5
    <3> QED
      BY <2>1, <2>2, <2>3, <2>4, <3>1, PendingKept
  <2>6. CASE /\ Wrote(r, 1) /\ LockState(r)
             /\ stripe'.live = stripe.live /\ stripe'.target = stripe.target - 1
    <3>1. seatLock \in {NoSeat, r}
      BY <2>6 DEF LockState, LockFree
    <3>2. Pending <= Cardinality(flagged) + 0 + open + leaked
      BY <2>4, <3>1, AloneBound
    <3>3. Pending' = Pending + 1
      BY <1>1, <2>6
    <3>4. r \in BeingFlagged'
      BY <2>1, <2>6 DEF Wrote, Reached, BeingFlagged
    <3>5. Cardinality(flagged') = Cardinality(flagged)
      BY <2>1
    <3>6. Pending' <= Cardinality(flagged') + (IF r \in BeingFlagged' THEN 1 ELSE 0) + open' + leaked'
      BY <1>1, <2>1, <3>2, <3>3, <3>4, <3>5
    <3>7. r \in Operations =>
            /\ Reached(r, "unflag", "write")' => Pending' <= Cardinality(flagged' \ {req'[r].u}) + open' + leaked'
            /\ Reached(r, "cancel", "write")' => Pending' <= open' + leaked'
      BY <2>2
    <3> QED
      BY <2>2, <2>3, <3>1, <3>6, <3>7, PendingAlone
  <2> QED
    BY <2>1, <2>5, <2>6
<1>7. ASSUME NEW r \in Operations, FlagCommit(r)
      PROVE  PendingInv'
  <2>1. /\ Reached(r, "flag", "write") /\ req[r].u \in Members /\ req[r].n \in Nat
        /\ flagged' = flagged \cup {req[r].u}
        /\ leaked' = (IF req[r].u \in flagged THEN leaked + req[r].n ELSE leaked)
        /\ UNCHANGED <<stripe, open>>
        /\ Closed(r) /\ seatLock' = (IF seatLock = r THEN NoSeat ELSE seatLock)
    BY <1>7, EndsEffect
  <2>2. HeldInv'
    BY <1>2, <2>1, HeldByEnd
  <2>3. seatLock \in {NoSeat, r} /\ req[r].n \in {0, 1}
    BY <1>2, <2>1 DEF HeldInv, Reached
  <2>4. Pending <= Cardinality(flagged) + (IF r \in BeingFlagged THEN 1 ELSE 0) + open + leaked
    BY <2>3, AloneBound
  <2>5. (IF r \in BeingFlagged THEN 1 ELSE 0) = req[r].n
    BY <2>1, <2>3 DEF BeingFlagged, Reached
  <2>6. PICK u \in Members, n \in Nat : u = req[r].u /\ n = req[r].n
    BY <2>1
  <2>7. Cardinality(flagged') = IF u \in flagged THEN Cardinality(flagged) ELSE Cardinality(flagged) + 1
    BY <1>1, <2>1, <2>6, FlagCounts
  <2>8. Pending' <= Cardinality(flagged') + open' + leaked'
    <3>1. Pending' = Pending /\ open' = open /\ n \in {0, 1} /\ leaked' = IF u \in flagged THEN leaked + n ELSE leaked
      BY <1>1, <2>1, <2>3, <2>6
    <3>2. Pending <= Cardinality(flagged) + n + open + leaked
      BY <2>4, <2>5, <2>6
    <3> QED
      BY <1>1, <2>7, <3>1, <3>2
  <2>9. /\ \A q \in Operations \ {r} : req'[q] = req[q]
        /\ r \notin BeingFlagged' /\ ~Reached(r, "unflag", "write")' /\ ~Reached(r, "cancel", "write")'
    BY <2>1 DEF Closed, Reached, BeingFlagged
  <2> QED
    BY <2>2, <2>3, <2>8, <2>9, PendingEnds
<1>8. ASSUME NEW r \in Operations, Fail(r)
      PROVE  PendingInv'
  <2>1. /\ req[r] # NoSeat /\ req[r].n \in Nat
        /\ leaked' = (IF req[r].op = "flag" THEN leaked + req[r].n ELSE leaked)
        /\ UNCHANGED <<stripe, flagged, open>>
        /\ Closed(r) /\ seatLock' = (IF seatLock = r THEN NoSeat ELSE seatLock)
    BY <1>8, EndsEffect
  <2>2. HeldInv'
    BY <1>2, <2>1, HeldByEnd
  <2>3. /\ \A q \in Operations \ {r} : req'[q] = req[q]
        /\ r \notin BeingFlagged' /\ ~Reached(r, "unflag", "write")' /\ ~Reached(r, "cancel", "write")'
    BY <2>1 DEF Closed, Reached, BeingFlagged
  <2>4. CASE r \in BeingFlagged
    <3>1. req[r].op = "flag" /\ req[r].n = 1
      BY <2>4 DEF BeingFlagged
    <3>2. req[r].step = "write"
      BY <1>2, <2>1, <3>1 DEF HeldInv, SeatTyped, ReqTyped, Operation
    <3>3. seatLock \in {NoSeat, r}
      BY <1>2, <2>1, <3>1, <3>2 DEF HeldInv
    <3>4. Pending <= Cardinality(flagged) + 1 + open + leaked
      BY <2>4, <3>3, AloneBound
    <3>5. Pending' = Pending /\ open' = open /\ leaked' = leaked + 1 /\ Cardinality(flagged') = Cardinality(flagged)
      BY <1>1, <2>1, <3>1
    <3>6. Pending' <= Cardinality(flagged') + open' + leaked'
      BY <1>1, <3>4, <3>5
    <3> QED
      BY <2>2, <2>3, <3>3, <3>6, PendingEnds
  <2>5. CASE r \notin BeingFlagged
    <3>1. req[r].op = "flag" => req[r].n = 0
      BY <1>2, <2>1, <2>5 DEF HeldInv, BeingFlagged
    <3>2. leaked' = leaked /\ Pending' <= Pending
      BY <1>1, <2>1, <3>1
    <3> QED
      BY <2>1, <2>2, <2>3, <2>5, <3>2, PendingKept
  <2> QED
    BY <2>4, <2>5
<1>9. ASSUME NEW r \in Operations, UnflagCharge(r)
      PROVE  PendingInv'
  <2>1. /\ Reached(r, "unflag", "read")
        /\ Wrote(r, 0) /\ LockState(r)
        /\ stripe'.live = stripe.live
        /\ stripe'.target = (IF stripe.target < stripe.live THEN stripe.target + 1 ELSE stripe.target)
        /\ UNCHANGED <<flagged, open, leaked>>
    BY <1>9, ChargeEffect
  <2>2. /\ \A q \in Operations \ {r} : req'[q] = req[q]
        /\ LockMoves(r) /\ OwnHeld(r) /\ seatLock \in {NoSeat, r}
        /\ ~Reached(r, "cancel", "write")' /\ r \notin BeingFlagged
    BY <2>1 DEF Wrote, Reached, LockMoves, LockState, LockFree, OwnHeld, BeingFlagged
  <2>3. HeldInv'
    BY <1>2, <2>2, HeldKept
  <2>4. Pending <= Cardinality(flagged) + 0 + open + leaked
    BY <2>2, AloneBound
  <2>5. PICK u : u = req'[r].u
    OBVIOUS
  <2>6. /\ Cardinality(flagged \ {u}) \in Nat
        /\ Cardinality(flagged \ {u}) = IF u \in flagged THEN Cardinality(flagged) - 1 ELSE Cardinality(flagged)
    BY <1>1, FlagCounts
  <2>7. Pending' = IF Pending > 0 THEN Pending - 1 ELSE Pending
    BY <1>1, <2>1
  <2>8. Pending' <= Cardinality(flagged \ {u}) + open + leaked
    BY <1>1, <2>4, <2>6, <2>7
  <2>9. Cardinality(flagged' \ {req'[r].u}) = Cardinality(flagged \ {u}) /\ Cardinality(flagged') = Cardinality(flagged)
    BY <2>1, <2>5
  <2>10. Pending' <= Cardinality(flagged') + (IF r \in BeingFlagged' THEN 1 ELSE 0) + open' + leaked'
    <3>1. (IF r \in BeingFlagged' THEN 1 ELSE 0) \in {0, 1}
      OBVIOUS
    <3> QED
      BY <1>1, <2>1, <2>6, <2>8, <2>9, <3>1
  <2>11. Pending' <= Cardinality(flagged' \ {req'[r].u}) + open' + leaked'
    BY <2>1, <2>8, <2>9
  <2> QED
    BY <2>2, <2>3, <2>10, <2>11, PendingAlone
<1>10. ASSUME NEW r \in Operations, UnflagCommit(r) \/ CancelCommit(r)
       PROVE  PendingInv'
  <2>1. /\ Closed(r) /\ seatLock' = (IF seatLock = r THEN NoSeat ELSE seatLock)
        /\ UNCHANGED <<stripe, open, leaked>>
        /\ \/ Reached(r, "unflag", "write") /\ flagged' = flagged \ {req[r].u}
           \/ Reached(r, "cancel", "write") /\ flagged' = {}
    BY <1>10, EndsEffect
  <2>2. HeldInv'
    BY <1>2, <2>1, HeldByEnd
  <2>3. seatLock \in {NoSeat, r}
    BY <1>2, <2>1 DEF HeldInv, Reached
  <2>4. /\ \A q \in Operations \ {r} : req'[q] = req[q]
        /\ r \notin BeingFlagged' /\ ~Reached(r, "unflag", "write")' /\ ~Reached(r, "cancel", "write")'
    BY <2>1 DEF Closed, Reached, BeingFlagged
  <2>5. Pending <= Cardinality(flagged') + open + leaked
    <3>1. CASE Reached(r, "unflag", "write") /\ flagged' = flagged \ {req[r].u}
      BY <3>1 DEF PendingInv, LeftInv
    <3>2. CASE Reached(r, "cancel", "write") /\ flagged' = {}
      <4>1. Pending <= open + leaked
        BY <3>2 DEF PendingInv, LeftInv
      <4>2. Cardinality(flagged') = 0
        BY <3>2, FS_EmptySet
      <4>3. Pending \in Nat
        BY PendingNumbers
      <4> QED
        BY <1>1, <4>1, <4>2, <4>3
    <3> QED
      BY <2>1, <3>1, <3>2
  <2>6. Pending' <= Cardinality(flagged') + open' + leaked'
    BY <1>1, <2>1, <2>5
  <2> QED
    BY <2>2, <2>3, <2>4, <2>6, PendingEnds
<1>11. ASSUME NEW r \in Operations, CancelRelease(r)
       PROVE  PendingInv'
  <2>1. /\ seatLock = NoSeat /\ seatLock' = r /\ req'[r].op = "cancel" /\ req'[r].step = "write"
        /\ \A q \in Operations \ {r} : req'[q] = req[q]
        /\ stripe'.live = stripe.live /\ stripe'.target = stripe.live
    BY <1>11, CancelReleaseEffect
  <2>2. LockMoves(r) /\ OwnHeld(r)
    BY <2>1 DEF LockMoves, OwnHeld
  <2>3. HeldInv'
    BY <1>2, <2>1, <2>2, HeldKept
  <2>4. Pending' = 0
    BY <1>1, <2>1
  <2> QED
    BY <2>3, <2>4, NothingPending
<1>12. ASSUME ReleaseOpenSeat PROVE PendingInv'
  <2>1. /\ seatLock = NoSeat /\ open' = open + 1
        /\ stripe'.live = stripe.live /\ stripe'.target = stripe.target - 1
        /\ UNCHANGED <<flagged, seatLock, req, leaked>>
    BY <1>12, ReleaseEffect
  <2>2. HeldInv'
    BY <1>2, <2>1 DEF HeldInv
  <2>3. NoSeat \notin BeingFlagged /\ NoSeat \notin BeingFlagged' /\ NoSeat \notin Operations
    BY DEF SeatConstants, BeingFlagged
  <2>4. Pending <= Cardinality(flagged) + 0 + open + leaked
    BY <2>1, <2>3, AloneBound
  <2>5. Pending' = Pending + 1 /\ Cardinality(flagged') = Cardinality(flagged)
    BY <1>1, <2>1
  <2>6. Pending' <= Cardinality(flagged') + open' + leaked'
    BY <1>1, <2>1, <2>4, <2>5
  <2> QED
    BY <2>1, <2>2, <2>3, <2>6, PendingEnds
<1>13. ASSUME NEW u \in Members, NEW deleted \in BOOLEAN, Deactivate(u, deleted)
       PROVE  PendingInv'
  <2>1. /\ flagged' = (IF deleted THEN flagged \ {u} ELSE flagged)
        /\ open' = (IF deleted /\ u \in flagged THEN open + 1 ELSE open)
        /\ UNCHANGED <<stripe, seatLock, req, leaked>>
    BY <1>13, DeactivateEffect
  <2>2. HeldInv' /\ Pending' = Pending /\ BeingFlagged' = BeingFlagged /\ OneFlag' = OneFlag
    BY <1>2, <2>1 DEF HeldInv, Pending, BeingFlagged, OneFlag
  <2>3. ASSUME NEW F \in SUBSET Members, NEW G, F = flagged \/ (\E v : F = flagged \ {v}),
               G = (IF deleted THEN F \ {u} ELSE F)
        PROVE  Cardinality(G) \in Nat /\ Cardinality(F) + open <= Cardinality(G) + open'
    <3>1. /\ Cardinality(F) \in Nat /\ Cardinality(F \ {u}) \in Nat
          /\ Cardinality(F \ {u}) = IF u \in F THEN Cardinality(F) - 1 ELSE Cardinality(F)
      BY FlagCounts
    <3>2. u \in F => u \in flagged
      BY <2>3
    <3> QED
      BY <1>1, <2>1, <2>3, <3>1, <3>2
  <2>4. Pending' <= Cardinality(flagged') + OneFlag' + open' + leaked'
    <3>1. Cardinality(flagged) + open <= Cardinality(flagged') + open'
      BY <1>1, <2>1, <2>3
    <3>2. OneFlag \in {0, 1} /\ Pending \in Nat /\ Pending <= Cardinality(flagged) + OneFlag + open + leaked
      BY PendingNumbers DEF PendingInv
    <3> QED
      BY <1>1, <2>1, <2>2, <3>1, <3>2
  <2>5. ASSUME NEW q \in Operations, Reached(q, "unflag", "write")'
        PROVE  Pending' <= Cardinality(flagged' \ {req'[q].u}) + open' + leaked'
    <3>1. PICK v : v = req[q].u
      OBVIOUS
    <3>2. Pending <= Cardinality(flagged \ {v}) + open + leaked
      BY <2>1, <2>5, <3>1 DEF PendingInv, LeftInv, Reached
    <3>3. flagged \ {v} \in SUBSET Members /\ flagged' \ {v} = (IF deleted THEN (flagged \ {v}) \ {u} ELSE flagged \ {v})
      BY <1>1, <2>1
    <3>4. /\ Cardinality(flagged' \ {v}) \in Nat
          /\ Cardinality(flagged \ {v}) + open <= Cardinality(flagged' \ {v}) + open'
      BY <2>3, <3>3
    <3>5. Cardinality(flagged \ {v}) \in Nat
      BY <1>1, FlagCounts
    <3>6. Pending' <= Cardinality(flagged' \ {v}) + open' + leaked'
      BY <1>1, <2>1, <2>2, <3>2, <3>4, <3>5, PendingNumbers
    <3> QED
      BY <2>1, <3>1, <3>6
  <2>6. ASSUME NEW q \in Operations, Reached(q, "cancel", "write")'
        PROVE  Pending' <= open' + leaked'
    <3>1. Pending <= open + leaked
      BY <2>1, <2>6 DEF PendingInv, LeftInv, Reached
    <3> QED
      BY <1>1, <2>1, <2>2, <3>1, PendingNumbers
  <2> QED
    BY <2>2, <2>4, <2>5, <2>6 DEF PendingInv, LeftInv
<1>14. ASSUME Cycle PROVE PendingInv'
  <2>1. /\ stripe'.live = stripe.target /\ stripe'.target = stripe.target /\ UNCHANGED seatLock
        /\ \A r \in Operations :
             /\ req'[r] = NoSeat <=> req[r] = NoSeat
             /\ req[r] # NoSeat => /\ req'[r].op = req[r].op /\ req'[r].step = req[r].step /\ req'[r].n = req[r].n
    BY <1>14, CycleEffect
  <2>2. HeldInv'
    BY <1>2, <2>1 DEF HeldInv
  <2>3. Pending' = 0
    BY <1>1, <2>1
  <2> QED
    BY <2>2, <2>3, NothingPending
<1>15. ASSUME NEW e \in unpaid \cup again, NEW answered \in BOOLEAN, Webhook(e, answered)
       PROVE  PendingInv'
  <2>1. /\ seatLock = NoSeat /\ flagged' = {}
        /\ leaked' = (IF stripe.target < stripe.live THEN leaked + Cardinality(flagged) ELSE leaked)
        /\ UNCHANGED <<stripe, seatLock, req, open>>
    BY <1>15, WebhookEffect
  <2>2. HeldInv'
    BY <1>2, <2>1 DEF HeldInv
  <2>3. NoSeat \notin BeingFlagged /\ NoSeat \notin BeingFlagged' /\ NoSeat \notin Operations
    BY DEF SeatConstants, BeingFlagged
  <2>4. Pending <= Cardinality(flagged) + 0 + open + leaked
    BY <2>1, <2>3, AloneBound
  <2>5. Pending' = Pending
    BY <1>1, <2>1
  <2>6. Pending' <= Cardinality(flagged') + open' + leaked'
    <3>1. CASE stripe.target < stripe.live
      BY <1>1, <2>1, <2>4, <2>5, <3>1
    <3>2. CASE ~(stripe.target < stripe.live)
      BY <1>1, <2>5, <3>2
    <3> QED
      BY <3>1, <3>2
  <2> QED
    BY <2>1, <2>2, <2>3, <2>6, PendingEnds
<1> QED
  BY <1>3, <1>4, <1>5, <1>6, <1>7, <1>8, <1>9, <1>10, <1>11, <1>12, <1>13, <1>14, <1>15 DEF SeatNext

SeatInv == SeatTyped /\ HardInv /\ PendingInv

LEMMA SeatTypeStep ==
  ASSUME SeatConstants, SeatTyped, SeatNext
  PROVE  SeatTyped'
<1>1. ASSUME NEW r \in Operations,
             \/ \E u \in Members : Admit(r, u) \/ Flag(r, u) \/ Unflag(r, u)
             \/ AdmitWithin(r) \/ AdmitRefused(r) \/ AdmitCharged(r) \/ AdmitCommit(r) \/ UpgradeFailsHalfWay(r)
             \/ FlagCharge(r) \/ FlagCommit(r) \/ UnflagCharge(r) \/ UnflagCommit(r)
             \/ CancelRelease(r) \/ CancelCommit(r) \/ Sync(r) \/ SyncWrite(r)
             \/ Fail(r)
      PROVE  SeatTyped'
  <2>1. CASE (\E u \in Members : Admit(r, u) \/ Flag(r, u) \/ Unflag(r, u)) \/ Sync(r)
    BY <2>1, BeginEffect
  <2>2. CASE AdmitWithin(r) \/ AdmitRefused(r) \/ AdmitCharged(r)
    BY <2>2, AdmitEffect
  <2>3. CASE AdmitCommit(r) \/ UnflagCommit(r) \/ CancelCommit(r) \/ FlagCommit(r) \/ Fail(r)
    BY <2>3, EndsEffect
  <2>4. CASE UpgradeFailsHalfWay(r) \/ FlagCharge(r) \/ UnflagCharge(r)
    BY <2>4, ChargeEffect
  <2>5. CASE CancelRelease(r)
    BY <2>5, CancelReleaseEffect
  <2>6. CASE SyncWrite(r)
    BY <2>6, SyncWriteEffect
  <2> QED
    BY <1>1, <2>1, <2>2, <2>3, <2>4, <2>5, <2>6
<1>2. ReleaseOpenSeat => SeatTyped'
  BY ReleaseEffect
<1>3. ASSUME NEW u \in Members, NEW deleted \in BOOLEAN, Deactivate(u, deleted) PROVE SeatTyped'
  BY <1>3, DeactivateEffect
<1>4. Cycle => SeatTyped'
  BY CycleEffect
<1>5. ASSUME NEW e \in unpaid \cup again, NEW answered \in BOOLEAN, Webhook(e, answered) PROVE SeatTyped'
  BY <1>5, WebhookEffect
<1> QED
  BY <1>1, <1>2, <1>3, <1>4, <1>5 DEF SeatNext

LEMMA SeatStart ==
  ASSUME SeatConstants, SeatInit
  PROVE  SeatInv
<1> DEFINE s == [live |-> Bought, target |-> Bought, schedule |-> FALSE]
<1>1. s \in Subscription /\ s.live = Bought /\ s.target = Bought /\ s.target <= s.live
  <2>1. Bought \in Nat
    BY DEF SeatConstants
  <2>2. s \in Subscription /\ s.live = Bought /\ s.target = Bought
    BY <2>1 DEF Subscription
  <2> HIDE DEF s
  <2> QED
    BY <2>1, <2>2
<1>2. stripe = s /\ active = Seated /\ flagged = {} /\ seatLock = NoSeat
      /\ unpaid = {} /\ again = {} /\ mode \in Enforcements /\ open = 0 /\ leaked = 0 /\ late = FALSE /\ cycles = 0
  BY DEF SeatInit
<1>3. \A r \in Operations : req[r] = NoSeat
  BY DEF SeatInit
<1>4. req \in [Operations -> Operation \cup {NoSeat}]
  BY DEF SeatInit
<1> HIDE DEF s
<1>5. SeatTyped
  <2>1. SeatsTypeOK
    BY <1>1, <1>2, <1>4 DEF SeatsTypeOK, SeatConstants
  <2>2. ReqTyped
    BY <1>3, <1>4 DEF ReqTyped
  <2> QED
    BY <1>1, <1>2, <2>1, <2>2 DEF SeatTyped, StripeTyped
<1>6. HardInv
  BY <1>1, <1>2, <1>3 DEF HardInv, Reached, SeatConstants
<1>7. HeldInv /\ LeftInv
  BY <1>3 DEF HeldInv, LeftInv, Reached
<1>8. Pending = 0
  BY <1>1, <1>2 DEF Pending, SeatConstants
<1>9. PendingInv
  <2>1. OneFlag = 0 /\ Cardinality(flagged) = 0
    BY <1>2, <1>3, FS_EmptySet DEF OneFlag, BeingFlagged
  <2> QED
    BY <1>2, <1>7, <1>8, <2>1 DEF PendingInv
<1> QED
  BY <1>5, <1>6, <1>9 DEF SeatInv

LEMMA SeatStutter ==
  ASSUME SeatInv, UNCHANGED seatVars
  PROVE  SeatInv'
<1>1. UNCHANGED <<stripe, active, flagged, seatLock, req, unpaid, again, mode, open, leaked, late, cycles>>
  BY DEF seatVars, users, ghosts, bounds
<1>2. SeatTyped'
  BY <1>1 DEF SeatInv, SeatTyped, SeatsTypeOK, ReqTyped, StripeTyped
<1>3. HardInv'
  BY <1>1 DEF SeatInv, HardInv, Reached
<1>4. HeldInv'
  BY <1>1 DEF SeatInv, PendingInv, HeldInv
<1>5. LeftInv'
  BY <1>1 DEF SeatInv, PendingInv, LeftInv, Pending, Reached
<1>6. PendingInv'
  BY <1>1, <1>4, <1>5 DEF SeatInv, PendingInv, Pending, OneFlag, BeingFlagged
<1> QED
  BY <1>2, <1>3, <1>6 DEF SeatInv

LEMMA SeatsFollow ==
  ASSUME SeatConstants, SeatInv
  PROVE  SeatsAddUp
<1>1. WithinPaidSeats
  BY DEF SeatInv, HardInv, WithinPaidSeats
<1>2. PendingAccounted
  <2>1. /\ Pending <= Cardinality(flagged) + OneFlag + open + leaked
        /\ Pending \in Nat /\ Cardinality(flagged) \in Nat /\ open \in Nat /\ leaked \in Nat /\ OneFlag \in {0, 1}
    BY PendingNumbers DEF SeatInv, PendingInv
  <2>2. BeingFlagged \in SUBSET {seatLock}
    <3>1. \A q \in Operations \ {seatLock} : q \notin BeingFlagged
      BY OthersWait DEF SeatInv, PendingInv
    <3> QED
      BY <3>1 DEF BeingFlagged
  <2>3. IsFiniteSet(BeingFlagged)
    BY <2>2, FS_Subset, FS_Singleton
  <2>4. Cardinality(BeingFlagged) \in Nat /\ (Cardinality(BeingFlagged) = 0 <=> BeingFlagged = {})
    BY <2>3, FS_CardinalityType, FS_EmptySet
  <2>5. OneFlag <= Cardinality(BeingFlagged)
    BY <2>4 DEF OneFlag
  <2> QED
    BY <2>1, <2>4, <2>5 DEF PendingAccounted, Pending
<1> QED
  BY <1>1, <1>2 DEF SeatsAddUp

\* With hard enforcement no more users are active than seats are paid for once the
\* invoices are processed, and every seat that is to go stands for a flagged user or an
\* open seat; with the exceptions stated there (seat_service.py, enforcement.py).
THEOREM SeatsAddUpHolds ==
  ASSUME SeatConstants
  PROVE  SeatSpec => []SeatsAddUp
<1>1. SeatInit => SeatInv
  BY SeatStart
<1>2. SeatInv /\ [SeatNext]_seatVars => SeatInv'
  <2> SUFFICES ASSUME SeatInv, [SeatNext]_seatVars PROVE SeatInv'
    OBVIOUS
  <2>1. CASE SeatNext
    <3>1. SeatTyped'
      BY <2>1, SeatTypeStep DEF SeatInv
    <3> QED
      BY <2>1, <3>1, HardStep, PendingStep DEF SeatInv
  <2>2. CASE UNCHANGED seatVars
    BY <2>2, SeatStutter
  <2> QED
    BY <2>1, <2>2
<1>3. SeatInv => SeatsAddUp
  BY SeatsFollow
<1> QED
  BY <1>1, <1>2, <1>3, PTL DEF SeatSpec

------------------------------------------------------------------------------
(***************************************************************************)
(* The calls of PluginCalls.                                               *)
(***************************************************************************)
CallSteps ==
  {"idle", "over", "subscription", "token", "secrets", "policy", "day", "dayExpire", "dayOver",
   "month", "monthExpire", "monthOver", "refund", "limits", "slot", "slotOver", "params", "running",
   "release"}

\* The calls whose guards are among S.
CallOf(S) ==
  [at : CallSteps, from : {"api", "chat", "feed", Lacking}, n : Int, held : BOOLEAN, orig : S,
   was : SUBSET Grounds, record : {Lacking, "RUNNING", "COMPLETED", "FAILED"},
   result : {Lacking, "success", "error", "refused", "dead"}]

\* Calls at once are finitely many, and limits are numbers.
CallConstants ==
  /\ IsFiniteSet(Invocations)
  /\ PluginOperations \subseteq [auth : {"none", "user", "service"}, day : Nat, month : Nat, slots : Nat]

OperationTyped ==
  /\ operation \in [auth : {"none", "user", "service"}, day : Nat, month : Nat, slots : Nat]
  /\ holding \subseteq Grounds
  /\ counted \in [Counters -> Int] /\ passed \in [QuotaPeriods -> Int]

CallsTyped(S) == guards \in S /\ <<>> \in S /\ invoking \in [Invocations -> CallOf(S)]

\* What has been asked for by the time a call is at a step.
Entitled(c) == c.at \notin {"idle", "over"} => "entitled" \in c.was /\ holding \subseteq c.was
Subscribed(c) == c.at = "token" /\ By("user") => "subscribed" \in c.was
Preflown(c) ==
  c.at \notin {"idle", "over", "subscription", "token"} =>
    /\ By("user") => {"subscribed", "token"} \subseteq c.was
    /\ By("service") /\ c.from = "feed" => "token" \in c.was
Permitted(c) ==
  c.at \notin {"idle", "over", "subscription", "token", "secrets", "policy"} => "allowed" \in c.was

\* A record is settled when its call is over; a slot is held by who has passed the
\* limits; and a quota is asked for where there is one.
Settled(c) ==
  c.at = "over" /\ c.record # Lacking /\ c.result # "dead" =>
    c.record # "RUNNING" /\ (c.record = "COMPLETED" <=> c.result = "success")
Placed(c) ==
  /\ c.held => c.at \in {"params", "running", "release"}
  /\ c.at \in {"day", "dayExpire", "dayOver", "refund"} => operation.day > 0
  /\ c.at \in {"month", "monthExpire", "monthOver"} => operation.month > 0
  /\ c.at = "release" => c.result \in {"success", "error", "refused"}

Knows(c) == Entitled(c) /\ Subscribed(c) /\ Preflown(c) /\ Permitted(c) /\ Settled(c) /\ Placed(c)

\* Who has been counted and not let through, who has been counted for a slot, and who of
\* them has one or will find that it has.
OverQuota(p) == {r \in Invocations : CallAt(r, Over(p))}
ForSlot(c) == c.at \in {"slot", "slotOver"} \/ c.held
ForSlots == {r \in Invocations : ForSlot(invoking[r])}
Grant(c) == c.held \/ (c.at = "slot" /\ c.n <= operation.slots)
Granted == {r \in Invocations : Grant(invoking[r])}
RunsWithSlot(c) == operation.slots > 0 /\ c.at \in {"params", "running"} => c.held

QuotaAddsUp(p) ==
  /\ operation[p] > 0 => passed[p] <= operation[p]
  /\ counted[p] = passed[p] + Cardinality(OverQuota(p))
SlotsAddUp ==
  /\ counted["slots"] = Cardinality(ForSlots)
  /\ operation.slots > 0 => Cardinality(Granted) <= operation.slots
  /\ \A r \in Invocations : RunsWithSlot(invoking[r])
Sums == ~troubled => QuotaAddsUp("day") /\ QuotaAddsUp("month") /\ SlotsAddUp

CallsInv ==
  /\ OperationTyped /\ \E S : CallsTyped(S)
  /\ \A r \in Invocations : Knows(invoking[r])
  /\ Sums

------------------------------------------------------------------------------
LEMMA CallsFollow == ASSUME CallConstants, CallsInv PROVE CallsAccounted
<1>1. CheckedAndSettled
  BY DEF CallsInv, Knows, Entitled, Preflown, Permitted, Settled, CheckedAndSettled, CallAt
<1>2. CountersAddUp
  <2> SUFFICES ASSUME ~troubled
               PROVE  /\ \A p \in QuotaPeriods :
                           /\ operation[p] > 0 => passed[p] <= operation[p]
                           /\ counted[p] = passed[p] + Cardinality({r \in Invocations : CallAt(r, Over(p))})
                      /\ counted["slots"] = Cardinality({r \in Invocations : invoking[r].at \in {"slot", "slotOver"} \/ invoking[r].held})
                      /\ operation.slots > 0 => Cardinality({r \in Invocations : CallAt(r, "running")}) <= operation.slots
    BY DEF CountersAddUp
  <2>1. QuotaAddsUp("day") /\ QuotaAddsUp("month") /\ SlotsAddUp
    BY DEF CallsInv, Sums
  <2>2. PICK A : A = {r \in Invocations : CallAt(r, "running")}
    OBVIOUS
  <2>3. operation.slots > 0 => A \subseteq Granted
    BY <2>1, <2>2 DEF SlotsAddUp, RunsWithSlot, Granted, Grant, CallAt
  <2>4. IsFiniteSet(Granted) /\ Granted \subseteq Invocations
    BY FS_Subset DEF CallConstants, Granted
  <2>5. operation.slots > 0 => Cardinality(A) <= Cardinality(Granted)
    BY <2>3, <2>4, FS_Subset
  <2>6. Cardinality(A) \in Nat /\ Cardinality(Granted) \in Nat /\ operation.slots \in Nat
    <3>1. IsFiniteSet(A)
      BY <2>2, FS_Subset DEF CallConstants
    <3> QED
      BY <2>4, <3>1, FS_CardinalityType DEF CallsInv, OperationTyped
  <2>7. operation.slots > 0 => Cardinality(A) <= operation.slots
    BY <2>1, <2>5, <2>6 DEF SlotsAddUp
  <2> QED
    BY <2>1, <2>2, <2>7 DEF QuotaAddsUp, SlotsAddUp, OverQuota, ForSlots, ForSlot, QuotaPeriods
<1> QED
  BY <1>1, <1>2 DEF CallsAccounted

\* One element comes, goes or stays.
LEMMA OneMoves ==
  ASSUME NEW S, NEW T, NEW r, IsFiniteSet(S), S \ {r} = T \ {r}
  PROVE  /\ IsFiniteSet(T) /\ Cardinality(S) \in Nat /\ Cardinality(T) \in Nat
         /\ (r \in S <=> r \in T) => Cardinality(T) = Cardinality(S)
         /\ r \notin S /\ r \in T => Cardinality(T) = Cardinality(S) + 1
         /\ r \in S /\ r \notin T => Cardinality(T) = Cardinality(S) - 1
<1>1. CASE r \in S <=> r \in T
  <2>1. S = T
    BY <1>1
  <2> QED
    BY <1>1, <2>1, FS_CardinalityType
<1>2. CASE r \notin S /\ r \in T
  <2>1. T = S \cup {r}
    BY <1>2
  <2> QED
    BY <1>2, <2>1, FS_AddElement, FS_CardinalityType
<1>3. CASE r \in S /\ r \notin T
  <2>1. T = S \ {r}
    BY <1>3
  <2> QED
    BY <1>3, <2>1, FS_RemoveElement, FS_CardinalityType
<1> QED
  BY <1>1, <1>2, <1>3

\* What the step of one call does to what is counted.
LEMMA SetsMove ==
  ASSUME CallConstants, CallsInv, NEW r \in Invocations, NEW t,
         invoking' = [invoking EXCEPT ![r] = t], UNCHANGED operation
  PROVE  /\ \A p \in QuotaPeriods :
              /\ Cardinality(OverQuota(p)) \in Nat /\ Cardinality(OverQuota(p)') \in Nat
              /\ (invoking[r].at = Over(p) <=> t.at = Over(p)) => Cardinality(OverQuota(p)') = Cardinality(OverQuota(p))
              /\ invoking[r].at # Over(p) /\ t.at = Over(p) => Cardinality(OverQuota(p)') = Cardinality(OverQuota(p)) + 1
              /\ invoking[r].at = Over(p) /\ t.at # Over(p) => Cardinality(OverQuota(p)') = Cardinality(OverQuota(p)) - 1
         /\ Cardinality(ForSlots) \in Nat /\ Cardinality(ForSlots') \in Nat
         /\ (ForSlot(invoking[r]) <=> ForSlot(t)) => Cardinality(ForSlots') = Cardinality(ForSlots)
         /\ ~ForSlot(invoking[r]) /\ ForSlot(t) => Cardinality(ForSlots') = Cardinality(ForSlots) + 1
         /\ ForSlot(invoking[r]) /\ ~ForSlot(t) => Cardinality(ForSlots') = Cardinality(ForSlots) - 1
         /\ Cardinality(Granted) \in Nat /\ Cardinality(Granted') \in Nat
         /\ (Grant(invoking[r]) <=> Grant(t)) => Cardinality(Granted') = Cardinality(Granted)
         /\ ~Grant(invoking[r]) /\ Grant(t) => Cardinality(Granted') = Cardinality(Granted) + 1
         /\ Grant(invoking[r]) /\ ~Grant(t) => Cardinality(Granted') = Cardinality(Granted) - 1
<1>1. invoking'[r] = t /\ \A q \in Invocations \ {r} : invoking'[q] = invoking[q]
  BY DEF CallsInv, CallsTyped
<1>2. ASSUME NEW p \in QuotaPeriods
      PROVE  /\ Cardinality(OverQuota(p)) \in Nat /\ Cardinality(OverQuota(p)') \in Nat
             /\ (invoking[r].at = Over(p) <=> t.at = Over(p)) => Cardinality(OverQuota(p)') = Cardinality(OverQuota(p))
             /\ invoking[r].at # Over(p) /\ t.at = Over(p) => Cardinality(OverQuota(p)') = Cardinality(OverQuota(p)) + 1
             /\ invoking[r].at = Over(p) /\ t.at # Over(p) => Cardinality(OverQuota(p)') = Cardinality(OverQuota(p)) - 1
  <2>1. PICK A, B : A = OverQuota(p) /\ B = OverQuota(p)'
    OBVIOUS
  <2>2. IsFiniteSet(A)
    BY <2>1, FS_Subset DEF CallConstants, OverQuota
  <2>3. A \ {r} = B \ {r} /\ (r \in A <=> invoking[r].at = Over(p)) /\ (r \in B <=> t.at = Over(p))
    BY <1>1, <2>1 DEF OverQuota, CallAt
  <2> QED
    BY <2>1, <2>2, <2>3, OneMoves
<1>3. /\ Cardinality(ForSlots) \in Nat /\ Cardinality(ForSlots') \in Nat
      /\ (ForSlot(invoking[r]) <=> ForSlot(t)) => Cardinality(ForSlots') = Cardinality(ForSlots)
      /\ ~ForSlot(invoking[r]) /\ ForSlot(t) => Cardinality(ForSlots') = Cardinality(ForSlots) + 1
      /\ ForSlot(invoking[r]) /\ ~ForSlot(t) => Cardinality(ForSlots') = Cardinality(ForSlots) - 1
  <2>1. PICK A, B : A = ForSlots /\ B = ForSlots'
    OBVIOUS
  <2>2. IsFiniteSet(A)
    BY <2>1, FS_Subset DEF CallConstants, ForSlots
  <2>3. A \ {r} = B \ {r} /\ (r \in A <=> ForSlot(invoking[r])) /\ (r \in B <=> ForSlot(t))
    BY <1>1, <2>1 DEF ForSlots, ForSlot
  <2> QED
    BY <2>1, <2>2, <2>3, OneMoves
<1>4. /\ Cardinality(Granted) \in Nat /\ Cardinality(Granted') \in Nat
      /\ (Grant(invoking[r]) <=> Grant(t)) => Cardinality(Granted') = Cardinality(Granted)
      /\ ~Grant(invoking[r]) /\ Grant(t) => Cardinality(Granted') = Cardinality(Granted) + 1
      /\ Grant(invoking[r]) /\ ~Grant(t) => Cardinality(Granted') = Cardinality(Granted) - 1
  <2>1. PICK A, B : A = Granted /\ B = Granted'
    OBVIOUS
  <2>2. IsFiniteSet(A)
    BY <2>1, FS_Subset DEF CallConstants, Granted
  <2>3. A \ {r} = B \ {r} /\ (r \in A <=> Grant(invoking[r])) /\ (r \in B <=> Grant(t))
    BY <1>1, <2>1 DEF Granted, Grant
  <2> QED
    BY <2>1, <2>2, <2>3, OneMoves
<1> QED
  BY <1>2, <1>3, <1>4

------------------------------------------------------------------------------
\* The calls keep their type when a guard is among the guards.
LEMMA Widened == ASSUME CallsInv PROVE \E S : CallsTyped(S) /\ guards' \in S
<1>1. PICK S : CallsTyped(S)
  BY DEF CallsInv
<1>2. PICK T : T = S \cup {guards'}
  OBVIOUS
<1>3. \A c \in CallOf(S) : c \in CallOf(T)
  BY <1>2 DEF CallOf
<1>4. CallsTyped(T) /\ guards' \in T
  BY <1>1, <1>2, <1>3 DEF CallsTyped
<1> QED
  BY <1>4

\* One call steps, and nothing it has been allowed by changes.
LEMMA CallStep ==
  ASSUME CallsInv, NEW S, CallsTyped(S), guards' \in S,
         NEW r \in Invocations, NEW t \in CallOf(S), invoking' = [invoking EXCEPT ![r] = t],
         Knows(t), UNCHANGED <<holding, operation>>,
         counted' \in [Counters -> Int], passed' \in [QuotaPeriods -> Int], Sums'
  PROVE  CallsInv'
<1>1. OperationTyped'
  BY DEF CallsInv, OperationTyped
<1>2. CallsTyped(S)'
  BY DEF CallsTyped
<1>3. ASSUME NEW q \in Invocations PROVE Knows(invoking[q])'
  <2>1. PICK c : c = invoking'[q]
    OBVIOUS
  <2>2. Knows(c)
    BY <2>1 DEF CallsInv, CallsTyped
  <2> QED
    BY <2>1, <2>2 DEF Knows, Entitled, Subscribed, Preflown, Permitted, Settled, Placed, By
<1> QED
  BY <1>1, <1>2, <1>3 DEF CallsInv

\* All but the one keep their slots.
LEMMA SlotsKept ==
  ASSUME CallsInv, ~troubled, NEW r \in Invocations, NEW t, invoking' = [invoking EXCEPT ![r] = t],
         UNCHANGED operation, RunsWithSlot(t)
  PROVE  \A q \in Invocations : RunsWithSlot(invoking[q])'
<1>1. \A q \in Invocations : RunsWithSlot(invoking[q])
  BY DEF CallsInv, Sums, SlotsAddUp
<1>2. \A q \in Invocations : invoking'[q] = IF q = r THEN t ELSE invoking[q]
  BY DEF CallsInv, CallsTyped
<1> QED
  BY <1>1, <1>2 DEF RunsWithSlot

\* A step that counts nothing, of a call that is not counted or stays so.
LEMMA QuietCall ==
  ASSUME CallConstants, CallsInv, NEW S, CallsTyped(S), guards' \in S,
         NEW r \in Invocations, NEW t \in CallOf(S), invoking' = [invoking EXCEPT ![r] = t],
         Knows(t), ~troubled => RunsWithSlot(t),
         invoking[r].at \notin {"dayOver", "monthOver", "slot", "slotOver"},
         t.at \notin {"dayOver", "monthOver", "slot", "slotOver"}, t.held = invoking[r].held,
         UNCHANGED <<holding, operation, counted, passed, troubled>>
  PROVE  CallsInv'
<1>1. Sums'
  <2> SUFFICES ASSUME ~troubled'
               PROVE  QuotaAddsUp("day")' /\ QuotaAddsUp("month")' /\ SlotsAddUp'
    BY DEF Sums
  <2>1. ~troubled /\ QuotaAddsUp("day") /\ QuotaAddsUp("month") /\ SlotsAddUp
    BY DEF CallsInv, Sums
  <2>2. \A p \in QuotaPeriods : Cardinality(OverQuota(p)') = Cardinality(OverQuota(p))
    BY SetsMove DEF Over
  <2>3. Cardinality(ForSlots') = Cardinality(ForSlots) /\ Cardinality(Granted') = Cardinality(Granted)
    BY SetsMove DEF ForSlot, Grant
  <2>4. \A q \in Invocations : RunsWithSlot(invoking[q])'
    BY <2>1, SlotsKept
  <2> QED
    BY <2>1, <2>2, <2>3, <2>4 DEF QuotaAddsUp, SlotsAddUp, QuotaPeriods
<1>2. counted' \in [Counters -> Int] /\ passed' \in [QuotaPeriods -> Int]
  BY DEF CallsInv, OperationTyped
<1> QED
  BY <1>1, <1>2, CallStep

\* A step after which the counters are known to be wrong.
LEMMA TroubledCall ==
  ASSUME CallsInv, NEW S, CallsTyped(S), guards' \in S,
         NEW r \in Invocations, NEW t \in CallOf(S), invoking' = [invoking EXCEPT ![r] = t],
         Knows(t), troubled', UNCHANGED <<holding, operation, counted, passed>>
  PROVE  CallsInv'
<1>1. counted' \in [Counters -> Int] /\ passed' \in [QuotaPeriods -> Int]
  BY DEF CallsInv, OperationTyped
<1>2. Sums'
  BY DEF Sums
<1> QED
  BY <1>1, <1>2, CallStep

\* What a call that ends leaves.
LEMMA EndLeaves ==
  ASSUME NEW S, <<>> \in S, NEW r \in Invocations, invoking[r] \in CallOf(S),
         NEW result \in {"success", "error", "refused"}, EndCall(r, result)
  PROVE  \E t \in CallOf(S) : /\ invoking' = [invoking EXCEPT ![r] = t] /\ Knows(t)
                              /\ t.at = "over" /\ t.held = FALSE
<1>1. PICK t : t = [NoCall EXCEPT !.at = "over", !.result = result,
                                  !.record = IF invoking[r].record = Lacking THEN Lacking
                                             ELSE IF result = "success" THEN "COMPLETED" ELSE "FAILED"]
  OBVIOUS
<1>2. invoking' = [invoking EXCEPT ![r] = t]
  BY <1>1 DEF EndCall
<1>3. /\ t.at = "over" /\ t.held = FALSE /\ t.result = result
      /\ t.record = IF invoking[r].record = Lacking THEN Lacking
                    ELSE IF result = "success" THEN "COMPLETED" ELSE "FAILED"
  BY <1>1 DEF NoCall
<1>4. NoCall \in CallOf(S)
  BY DEF NoCall, CallOf, CallSteps
<1>5. t \in CallOf(S)
  BY <1>1, <1>4 DEF CallOf, CallSteps
<1>6. Knows(t)
  BY <1>3 DEF Knows, Entitled, Subscribed, Preflown, Permitted, Settled, Placed
<1> QED
  BY <1>2, <1>3, <1>5, <1>6

\* A refusal that gives nothing back.
LEMMA QuietRefusal ==
  ASSUME CallConstants, CallsInv, NEW r \in Invocations, RefuseCall(r),
         invoking[r].at \in {"subscription", "token", "secrets", "policy", "limits"},
         UNCHANGED <<holding, operation, counted, passed, troubled, guards>>
  PROVE  CallsInv'
<1>1. PICK S : CallsTyped(S) /\ guards' \in S
  BY Widened
<1>2. invoking[r] \in CallOf(S) /\ <<>> \in S
  BY <1>1 DEF CallsTyped
<1>3. PICK t \in CallOf(S) : /\ invoking' = [invoking EXCEPT ![r] = t] /\ Knows(t)
                             /\ t.at = "over" /\ t.held = FALSE
  BY <1>2, EndLeaves DEF RefuseCall
<1>4. invoking[r].held = FALSE
  BY <1>2 DEF CallsInv, Knows, Placed, CallOf
<1>5. RunsWithSlot(t)
  BY <1>3 DEF RunsWithSlot
<1> QED
  BY <1>1, <1>3, <1>4, <1>5, QuietCall

------------------------------------------------------------------------------
\* Before the executor is asked.
LEMMA EnterKeeps ==
  ASSUME CallConstants, CallsInv, NEW r \in Invocations, NEW from \in {"api", "chat", "feed"}, Enter(r, from)
  PROVE  CallsInv'
<1>1. PICK S : CallsTyped(S) /\ guards' \in S
  BY Widened
<1>2. PICK c \in CallOf(S) : c = invoking[r]
  BY <1>1 DEF CallsTyped
<1>3. PICK step : step = IF "entitled" \in holding THEN FirstCheck(from) ELSE "over"
  OBVIOUS
<1>4. PICK t : t = [NoCall EXCEPT !.at = IF "entitled" \in holding THEN FirstCheck(from) ELSE "over",
                                  !.from = from, !.was = holding]
  OBVIOUS
<1>5. FirstCheck(from) \in {"subscription", "token", "secrets"}
  BY DEF FirstCheck
<1>6. step \in {"over", "subscription", "token", "secrets"}
  BY <1>3, <1>5
<1>7. t \in CallOf(S)
  <2>1. NoCall \in CallOf(S)
    BY <1>1 DEF NoCall, CallOf, CallSteps, CallsTyped
  <2>2. holding \subseteq Grounds
    BY DEF CallsInv, OperationTyped
  <2> QED
    BY <1>3, <1>4, <1>6, <2>1, <2>2 DEF CallOf, CallSteps
<1>8. t.at = step /\ t.from = from /\ t.held = FALSE /\ t.was = holding /\ t.record = Lacking
  BY <1>3, <1>4 DEF NoCall
<1>9. invoking' = [invoking EXCEPT ![r] = t]
  BY <1>4 DEF Enter
<1>10. c.at \in {"idle", "over"} /\ UNCHANGED <<holding, operation, counters, guards, troubled>>
  BY <1>2 DEF Enter
<1>11. c.held = FALSE
  BY <1>2, <1>10 DEF CallsInv, Knows, Placed, CallOf
<1>12. Entitled(t) /\ Permitted(t) /\ Settled(t) /\ Placed(t)
  BY <1>3, <1>6, <1>8 DEF Entitled, Permitted, Settled, Placed
<1>13. Subscribed(t) /\ Preflown(t)
  <2>1. step = "token" => ~By("user")
    BY <1>3 DEF FirstCheck, By
  <2>2. step = "secrets" => ~By("user") /\ ~(By("service") /\ from = "feed")
    BY <1>3 DEF FirstCheck, By
  <2> QED
    BY <1>6, <1>8, <2>1, <2>2 DEF Subscribed, Preflown
<1>14. Knows(t) /\ RunsWithSlot(t)
  BY <1>6, <1>8, <1>12, <1>13 DEF Knows, RunsWithSlot
<1> QED
  BY <1>1, <1>2, <1>6, <1>7, <1>8, <1>9, <1>10, <1>11, <1>14, QuietCall DEF counters

LEMMA ChecksKeep ==
  ASSUME CallConstants, CallsInv, NEW r \in Invocations,
         CheckSubscription(r) \/ CheckToken(r) \/ PreflightFails(r) \/ MissingSecrets(r)
           \/ Prepared(r) \/ CheckPolicy(r)
  PROVE  CallsInv'
<1>1. PICK S : CallsTyped(S) /\ guards' \in S
  BY Widened
<1>2. PICK c \in CallOf(S) : c = invoking[r]
  BY <1>1 DEF CallsTyped
<1>3. Knows(c)
  BY <1>2 DEF CallsInv
<1>4. c.at \in {"subscription", "token", "secrets", "policy"} /\ c.held = FALSE
  BY <1>2, <1>3 DEF CheckSubscription, CheckToken, PreflightFails, MissingSecrets, Prepared, CheckPolicy,
                    CallAt, Knows, Placed, CallOf
<1>5. UNCHANGED <<holding, operation, counted, passed, troubled, guards>>
  BY DEF CheckSubscription, CheckToken, PreflightFails, MissingSecrets, Prepared, CheckPolicy, counters, fixed
<1>6. CASE RefuseCall(r)
  BY <1>2, <1>4, <1>5, <1>6, QuietRefusal
<1>7. ASSUME NEW t \in CallOf(S), invoking' = [invoking EXCEPT ![r] = t], Knows(t), t.held = c.held,
             t.at \notin {"dayOver", "monthOver", "slot", "slotOver", "params", "running"}
      PROVE  CallsInv'
  BY <1>1, <1>2, <1>4, <1>5, <1>7, QuietCall DEF RunsWithSlot
<1>8. ASSUME CheckSubscription(r), "subscribed" \in holding PROVE CallsInv'
  <2>1. PICK t : t = [c EXCEPT !.at = "token"]
    OBVIOUS
  <2>2. t \in CallOf(S) /\ t.at = "token" /\ t.held = c.held /\ t.was = c.was /\ t.from = c.from
    BY <2>1 DEF CallOf, CallSteps
  <2>3. c.at = "subscription" /\ invoking' = [invoking EXCEPT ![r] = t]
    BY <1>2, <1>8, <2>1 DEF CheckSubscription, MoveTo, CallAt
  <2>4. Knows(t)
    BY <1>3, <1>8, <2>2, <2>3 DEF Knows, Entitled, Subscribed, Preflown, Permitted, Settled, Placed
  <2> QED
    BY <1>7, <2>2, <2>3, <2>4
<1>9. ASSUME CheckToken(r), "token" \in holding PROVE CallsInv'
  <2>1. PICK t : t = [c EXCEPT !.at = "secrets"]
    OBVIOUS
  <2>2. t \in CallOf(S) /\ t.at = "secrets" /\ t.held = c.held /\ t.was = c.was /\ t.from = c.from
    BY <2>1 DEF CallOf, CallSteps
  <2>3. c.at = "token" /\ invoking' = [invoking EXCEPT ![r] = t]
    BY <1>2, <1>9, <2>1 DEF CheckToken, MoveTo, CallAt
  <2>4. Knows(t)
    BY <1>3, <1>9, <2>2, <2>3 DEF Knows, Entitled, Subscribed, Preflown, Permitted, Settled, Placed
  <2> QED
    BY <1>7, <2>2, <2>3, <2>4
<1>10. ASSUME PreflightFails(r), ~RefuseCall(r) PROVE CallsInv'
  <2>1. PICK step : step = IF c.at = "subscription" THEN "token" ELSE "secrets"
    OBVIOUS
  <2>2. PICK w : w = c.was \cup {"subscribed", "token"}
    OBVIOUS
  <2>3. PICK t : t = [c EXCEPT !.was = w, !.at = step]
    OBVIOUS
  <2>4. t \in CallOf(S) /\ t.at = step /\ t.held = c.held /\ t.was = w /\ t.from = c.from
    BY <2>1, <2>2, <2>3 DEF CallOf, CallSteps, Grounds
  <2>5. c.at \in {"subscription", "token"} /\ invoking' = [invoking EXCEPT ![r] = t]
    BY <1>2, <1>10, <2>1, <2>2, <2>3 DEF PreflightFails
  <2>6. Knows(t)
    BY <1>3, <2>1, <2>2, <2>4, <2>5 DEF Knows, Entitled, Subscribed, Preflown, Permitted, Settled, Placed
  <2> QED
    BY <1>7, <2>1, <2>4, <2>5, <2>6
<1>11. ASSUME Prepared(r) PROVE CallsInv'
  <2>1. PICK kind : kind = IF c.from = "api" THEN "RUNNING" ELSE Lacking
    OBVIOUS
  <2>2. PICK t : t = [c EXCEPT !.at = "policy", !.record = kind]
    OBVIOUS
  <2>3. t \in CallOf(S) /\ t.at = "policy" /\ t.held = c.held /\ t.was = c.was /\ t.from = c.from
    BY <2>1, <2>2 DEF CallOf, CallSteps
  <2>4. c.at = "secrets" /\ invoking' = [invoking EXCEPT ![r] = t]
    BY <1>2, <1>11, <2>1, <2>2 DEF Prepared, CallAt
  <2>5. Knows(t)
    BY <1>3, <2>3, <2>4 DEF Knows, Entitled, Subscribed, Preflown, Permitted, Settled, Placed
  <2> QED
    BY <1>7, <2>3, <2>4, <2>5
<1>12. ASSUME CheckPolicy(r), "allowed" \in holding PROVE CallsInv'
  <2>1. PICK step : step = Following("policy")
    OBVIOUS
  <2>2. /\ step \in {"day", "month", "limits"}
        /\ step = "day" => operation.day > 0
        /\ step = "month" => operation.month > 0
    BY <2>1 DEF Following
  <2>3. PICK t : t = [c EXCEPT !.at = step]
    OBVIOUS
  <2>4. t \in CallOf(S) /\ t.at = step /\ t.held = c.held /\ t.was = c.was /\ t.from = c.from
    BY <2>2, <2>3 DEF CallOf, CallSteps
  <2>5. c.at = "policy" /\ invoking' = [invoking EXCEPT ![r] = t]
    BY <1>2, <1>12, <2>1, <2>3 DEF CheckPolicy, MoveTo, CallAt
  <2>6. Knows(t)
    BY <1>3, <1>4, <1>12, <2>2, <2>4, <2>5 DEF Knows, Entitled, Subscribed, Preflown, Permitted, Settled, Placed
  <2> QED
    BY <1>7, <2>2, <2>4, <2>5, <2>6
<1> QED
  BY <1>6, <1>8, <1>9, <1>10, <1>11, <1>12 DEF CheckSubscription, CheckToken, MissingSecrets, CheckPolicy

------------------------------------------------------------------------------
\* The quotas.
LEMMA PeriodStep ==
  ASSUME CallConstants, CallsInv, NEW S, CallsTyped(S), guards' \in S,
         NEW r \in Invocations, NEW t \in CallOf(S), invoking' = [invoking EXCEPT ![r] = t],
         Knows(t), t.held = FALSE, invoking[r].held = FALSE,
         invoking[r].at \notin {"slot", "slotOver"}, t.at \notin {"slot", "slotOver", "params", "running"},
         NEW p \in QuotaPeriods, invoking[r].at # Over(IF p = "day" THEN "month" ELSE "day"),
         t.at # Over(IF p = "day" THEN "month" ELSE "day"),
         NEW n \in Int, NEW m \in Int,
         counted' = [counted EXCEPT ![p] = n], passed' = [passed EXCEPT ![p] = m],
         UNCHANGED <<holding, operation, troubled>>,
         ~troubled => QuotaAddsUp(p)'
  PROVE  CallsInv'
<1>1. counted \in [Counters -> Int] /\ passed \in [QuotaPeriods -> Int]
  BY DEF CallsInv, OperationTyped
<1>2. counted' \in [Counters -> Int] /\ passed' \in [QuotaPeriods -> Int]
  BY <1>1
<1>3. Sums'
  <2> SUFFICES ASSUME ~troubled'
               PROVE  QuotaAddsUp("day")' /\ QuotaAddsUp("month")' /\ SlotsAddUp'
    BY DEF Sums
  <2>1. ~troubled /\ QuotaAddsUp("day") /\ QuotaAddsUp("month") /\ SlotsAddUp
    BY DEF CallsInv, Sums
  <2>2. PICK q \in QuotaPeriods : q = IF p = "day" THEN "month" ELSE "day"
    BY DEF QuotaPeriods
  <2>3. {p, q} = {"day", "month"} /\ p # q /\ p # "slots"
    BY <2>2 DEF QuotaPeriods
  <2>4. QuotaAddsUp(q)'
    <3>1. Cardinality(OverQuota(q)') = Cardinality(OverQuota(q))
      BY <2>2, SetsMove
    <3>2. counted'[q] = counted[q] /\ passed'[q] = passed[q]
      BY <1>1, <2>3
    <3>3. QuotaAddsUp(q)
      BY <2>1, <2>3
    <3> QED
      BY <3>1, <3>2, <3>3 DEF QuotaAddsUp
  <2>5. Cardinality(ForSlots') = Cardinality(ForSlots) /\ Cardinality(Granted') = Cardinality(Granted)
    BY SetsMove DEF ForSlot, Grant
  <2>6. \A i \in Invocations : RunsWithSlot(invoking[i])'
    BY <2>1, SlotsKept DEF RunsWithSlot
  <2>7. counted'["slots"] = counted["slots"]
    BY <1>1, <2>3 DEF Counters
  <2>8. SlotsAddUp'
    BY <2>1, <2>5, <2>6, <2>7 DEF SlotsAddUp
  <2> QED
    BY <2>1, <2>3, <2>4, <2>8
<1> QED
  BY <1>2, <1>3, CallStep

LEMMA ConsumeKeeps ==
  ASSUME CallConstants, CallsInv, NEW r \in Invocations, NEW p \in QuotaPeriods, Consume(r, p)
  PROVE  CallsInv'
<1>1. PICK S : CallsTyped(S) /\ guards' \in S
  BY Widened
<1>2. PICK c \in CallOf(S) : c = invoking[r]
  BY <1>1 DEF CallsTyped
<1>3. Knows(c) /\ c.at = p
  BY <1>2 DEF CallsInv, Consume, CallAt
<1>4. /\ counted \in [Counters -> Int] /\ passed \in [QuotaPeriods -> Int]
      /\ operation[p] \in Nat /\ operation[p] > 0 /\ p \in Counters
  BY <1>3 DEF CallsInv, OperationTyped, Knows, Placed, QuotaPeriods, Counters
<1>5. PICK n \in Int : n = counted[p] + 1
  BY <1>4
<1>6. PICK m \in Int : m = IF counted[p] < operation[p] THEN passed[p] + 1 ELSE passed[p]
  BY <1>4
<1>7. counted' = [counted EXCEPT ![p] = n] /\ counted'[p] = n /\ passed' = [passed EXCEPT ![p] = m]
  BY <1>4, <1>5, <1>6 DEF Consume
<1>8. PICK step : step = IF n = 1 THEN Expiring(p) ELSE IF n > operation[p] THEN Over(p) ELSE Following(p)
  OBVIOUS
<1>9. PICK t : t = [c EXCEPT !.at = step]
  OBVIOUS
<1>10. /\ step \in {Expiring(p), Over(p), "month", "limits"}
       /\ step = "month" => p = "day" /\ operation.month > 0
       /\ step = Over(p) <=> n # 1 /\ n > operation[p]
  BY <1>8 DEF Following, Expiring, Over, QuotaPeriods
<1>11. t \in CallOf(S) /\ t.at = step /\ t.held = c.held /\ t.was = c.was /\ t.from = c.from
  BY <1>9, <1>10 DEF CallOf, CallSteps, Expiring, Over
<1>12. invoking' = [invoking EXCEPT ![r] = t]
  BY <1>2, <1>7, <1>8, <1>9 DEF Consume, MoveTo
<1>13. c.held = FALSE
  BY <1>3 DEF Knows, Placed, QuotaPeriods, CallOf
<1>14. Knows(t)
  BY <1>3, <1>10, <1>11, <1>13 DEF Knows, Entitled, Subscribed, Preflown, Permitted, Settled, Placed,
                                   Expiring, Over, QuotaPeriods
<1>15. ~troubled => QuotaAddsUp(p)'
  <2> SUFFICES ASSUME ~troubled
               PROVE  QuotaAddsUp(p)'
    OBVIOUS
  <2>1. QuotaAddsUp(p)
    BY DEF CallsInv, Sums, QuotaPeriods
  <2>2. UNCHANGED operation
    BY DEF Consume, fixed
  <2>3. /\ Cardinality(OverQuota(p)) \in Nat /\ Cardinality(OverQuota(p)') \in Nat
        /\ step # Over(p) => Cardinality(OverQuota(p)') = Cardinality(OverQuota(p))
        /\ step = Over(p) => Cardinality(OverQuota(p)') = Cardinality(OverQuota(p)) + 1
    <3>1. c.at # Over(p)
      BY <1>3 DEF Over, QuotaPeriods
    <3> QED
      BY <1>2, <1>11, <1>12, <2>2, <3>1, SetsMove
  <2>4. passed'[p] = m /\ passed[p] \in Int
    BY <1>4, <1>7
  <2> QED
    BY <1>4, <1>5, <1>6, <1>7, <1>10, <2>1, <2>2, <2>3, <2>4 DEF QuotaAddsUp
<1>16. /\ c.at \notin {"slot", "slotOver"} /\ c.at # Over(IF p = "day" THEN "month" ELSE "day")
       /\ t.at \notin {"slot", "slotOver", "params", "running"}
       /\ t.at # Over(IF p = "day" THEN "month" ELSE "day")
  BY <1>3, <1>10, <1>11 DEF Expiring, Over, QuotaPeriods
<1>17. UNCHANGED <<holding, operation, troubled>>
  BY DEF Consume, fixed
<1> QED
  BY <1>1, <1>2, <1>7, <1>11, <1>12, <1>13, <1>14, <1>15, <1>16, <1>17, PeriodStep

LEMMA GiveLifeKeeps ==
  ASSUME CallConstants, CallsInv, NEW r \in Invocations, NEW p \in QuotaPeriods, GiveLife(r, p)
  PROVE  CallsInv'
<1>1. PICK S : CallsTyped(S) /\ guards' \in S
  BY Widened
<1>2. PICK c \in CallOf(S) : c = invoking[r]
  BY <1>1 DEF CallsTyped
<1>3. Knows(c) /\ c.at = Expiring(p)
  BY <1>2 DEF CallsInv, GiveLife, CallAt
<1>4. PICK step : step = Following(p)
  OBVIOUS
<1>5. step \in {"month", "limits"} /\ (step = "month" => operation.month > 0)
  BY <1>4 DEF Following, QuotaPeriods
<1>6. PICK t : t = [c EXCEPT !.at = step]
  OBVIOUS
<1>7. t \in CallOf(S) /\ t.at = step /\ t.held = c.held /\ t.was = c.was /\ t.from = c.from
  BY <1>5, <1>6 DEF CallOf, CallSteps
<1>8. invoking' = [invoking EXCEPT ![r] = t] /\ UNCHANGED <<holding, operation, counted, passed, troubled>>
  BY <1>2, <1>4, <1>6 DEF GiveLife, MoveTo, fixed
<1>9. Knows(t)
  BY <1>3, <1>5, <1>7 DEF Knows, Entitled, Subscribed, Preflown, Permitted, Settled, Placed, Expiring
<1>10. c.at \notin {"dayOver", "monthOver", "slot", "slotOver"}
  BY <1>3 DEF Expiring
<1> QED
  BY <1>1, <1>2, <1>5, <1>7, <1>8, <1>9, <1>10, QuietCall DEF RunsWithSlot

LEMMA GiveBackKeeps ==
  ASSUME CallConstants, CallsInv, NEW r \in Invocations, NEW p \in QuotaPeriods, GiveBack(r, p)
  PROVE  CallsInv'
<1>1. PICK S : CallsTyped(S) /\ guards' \in S
  BY Widened
<1>2. PICK c \in CallOf(S) : c = invoking[r]
  BY <1>1 DEF CallsTyped
<1>3. Knows(c) /\ c.at = Over(p)
  BY <1>2 DEF CallsInv, GiveBack, CallAt
<1>4. counted \in [Counters -> Int] /\ passed \in [QuotaPeriods -> Int] /\ p \in Counters /\ <<>> \in S
  BY <1>1 DEF CallsInv, OperationTyped, QuotaPeriods, Counters, CallsTyped
<1>5. PICK n \in Int : n = counted[p] - 1
  BY <1>4
<1>6. PICK m \in Int : m = passed[p]
  BY <1>4
<1>7. counted' = [counted EXCEPT ![p] = n] /\ passed' = [passed EXCEPT ![p] = m]
  BY <1>4, <1>5, <1>6 DEF GiveBack
<1>8. UNCHANGED <<holding, operation, troubled>>
  BY DEF GiveBack, fixed
<1>9. c.held = FALSE
  BY <1>3 DEF Knows, Placed, Over, CallOf
<1>10. PICK t \in CallOf(S) : /\ invoking' = [invoking EXCEPT ![r] = t] /\ Knows(t)
                              /\ t.at \in {"refund", "over"} /\ t.held = FALSE
  <2>1. CASE p = "month" /\ operation.day > 0
    <3>1. PICK t : t = [c EXCEPT !.at = "refund"]
      OBVIOUS
    <3>2. t \in CallOf(S) /\ t.at = "refund" /\ t.held = c.held /\ t.was = c.was /\ t.from = c.from
      BY <3>1 DEF CallOf, CallSteps
    <3>3. invoking' = [invoking EXCEPT ![r] = t]
      BY <1>2, <2>1, <3>1 DEF GiveBack, MoveTo
    <3>4. Knows(t)
      BY <1>3, <1>9, <2>1, <3>2 DEF Knows, Entitled, Subscribed, Preflown, Permitted, Settled, Placed, Over
    <3> QED
      BY <1>9, <3>2, <3>3, <3>4
  <2>2. CASE ~(p = "month" /\ operation.day > 0)
    BY <1>1, <1>2, <1>4, <2>2, EndLeaves DEF GiveBack, RefuseCall
  <2> QED
    BY <2>1, <2>2
<1>11. ~troubled => QuotaAddsUp(p)'
  <2> SUFFICES ASSUME ~troubled
               PROVE  QuotaAddsUp(p)'
    OBVIOUS
  <2>1. QuotaAddsUp(p)
    BY DEF CallsInv, Sums, QuotaPeriods
  <2>2. t.at # Over(p)
    BY <1>10 DEF Over
  <2>3. Cardinality(OverQuota(p)) \in Nat /\ Cardinality(OverQuota(p)') = Cardinality(OverQuota(p)) - 1
    BY <1>2, <1>3, <1>8, <1>10, <2>2, SetsMove
  <2>4. counted'[p] = n /\ passed'[p] = passed[p] /\ passed[p] \in Int /\ counted[p] \in Int
    BY <1>4, <1>6, <1>7
  <2> QED
    BY <1>5, <1>8, <2>1, <2>3, <2>4 DEF QuotaAddsUp
<1>12. /\ c.at \notin {"slot", "slotOver"} /\ c.at # Over(IF p = "day" THEN "month" ELSE "day")
       /\ t.at \notin {"slot", "slotOver", "params", "running"}
       /\ t.at # Over(IF p = "day" THEN "month" ELSE "day")
  BY <1>3, <1>10 DEF Over, QuotaPeriods
<1> QED
  BY <1>1, <1>2, <1>7, <1>8, <1>9, <1>10, <1>11, <1>12, PeriodStep

LEMMA RefundKeeps ==
  ASSUME CallConstants, CallsInv, NEW r \in Invocations, Refund(r)
  PROVE  CallsInv'
<1>1. PICK S : CallsTyped(S) /\ guards' \in S
  BY Widened
<1>2. PICK c \in CallOf(S) : c = invoking[r]
  BY <1>1 DEF CallsTyped
<1>3. Knows(c) /\ c.at = "refund"
  BY <1>2 DEF CallsInv, Refund, CallAt
<1>4. counted \in [Counters -> Int] /\ passed \in [QuotaPeriods -> Int] /\ <<>> \in S
      /\ operation.day \in Nat
  BY <1>1 DEF CallsInv, OperationTyped, CallsTyped
<1>5. "day" \in QuotaPeriods /\ "day" \in Counters
  BY DEF QuotaPeriods, Counters
<1>6. PICK n \in Int : n = counted["day"] - 1
  BY <1>4, <1>5
<1>7. PICK m \in Int : m = passed["day"] - 1
  BY <1>4, <1>5
<1>8. counted' = [counted EXCEPT !["day"] = n] /\ passed' = [passed EXCEPT !["day"] = m]
  BY <1>4, <1>5, <1>6, <1>7 DEF Refund
<1>9. UNCHANGED <<holding, operation, troubled>>
  BY DEF Refund, fixed
<1>10. c.held = FALSE
  BY <1>3 DEF Knows, Placed, CallOf
<1>11. PICK t \in CallOf(S) : /\ invoking' = [invoking EXCEPT ![r] = t] /\ Knows(t)
                              /\ t.at = "over" /\ t.held = FALSE
  BY <1>1, <1>2, <1>4, EndLeaves DEF Refund, RefuseCall
<1>12. ~troubled => QuotaAddsUp("day")'
  <2> SUFFICES ASSUME ~troubled
               PROVE  QuotaAddsUp("day")'
    OBVIOUS
  <2>1. QuotaAddsUp("day")
    BY DEF CallsInv, Sums
  <2>2. t.at # Over("day") /\ c.at # Over("day")
    BY <1>3, <1>11 DEF Over
  <2>3. Cardinality(OverQuota("day")) \in Nat /\ Cardinality(OverQuota("day")') = Cardinality(OverQuota("day"))
    BY <1>2, <1>5, <1>9, <1>11, <2>2, SetsMove
  <2>4. counted'["day"] = n /\ passed'["day"] = m /\ passed["day"] \in Int /\ counted["day"] \in Int
    BY <1>4, <1>5, <1>8
  <2> QED
    BY <1>4, <1>6, <1>7, <1>9, <2>1, <2>3, <2>4 DEF QuotaAddsUp
<1>13. /\ c.at \notin {"slot", "slotOver"} /\ c.at # Over(IF "day" = "day" THEN "month" ELSE "day")
       /\ t.at \notin {"slot", "slotOver", "params", "running"}
       /\ t.at # Over(IF "day" = "day" THEN "month" ELSE "day")
  BY <1>3, <1>11 DEF Over
<1> QED
  BY <1>1, <1>2, <1>5, <1>8, <1>9, <1>10, <1>11, <1>12, <1>13, PeriodStep

------------------------------------------------------------------------------
\* The slots.
LEMMA SlotStep ==
  ASSUME CallConstants, CallsInv, NEW S, CallsTyped(S), guards' \in S,
         NEW r \in Invocations, NEW t \in CallOf(S), invoking' = [invoking EXCEPT ![r] = t],
         Knows(t), ~troubled => RunsWithSlot(t),
         invoking[r].at \notin {"dayOver", "monthOver"}, t.at \notin {"dayOver", "monthOver"},
         NEW n \in Int, counted' = [counted EXCEPT !["slots"] = n],
         UNCHANGED <<holding, operation, passed, troubled>>,
         ~troubled => n = Cardinality(ForSlots') /\ (operation.slots > 0 => Cardinality(Granted') <= operation.slots)
  PROVE  CallsInv'
<1>1. counted \in [Counters -> Int] /\ "slots" \in Counters
  BY DEF CallsInv, OperationTyped, Counters
<1>2. counted' \in [Counters -> Int] /\ passed' \in [QuotaPeriods -> Int]
  BY <1>1 DEF CallsInv, OperationTyped
<1>3. Sums'
  <2> SUFFICES ASSUME ~troubled'
               PROVE  QuotaAddsUp("day")' /\ QuotaAddsUp("month")' /\ SlotsAddUp'
    BY DEF Sums
  <2>1. ~troubled /\ QuotaAddsUp("day") /\ QuotaAddsUp("month")
    BY DEF CallsInv, Sums
  <2>2. \A p \in QuotaPeriods : Cardinality(OverQuota(p)') = Cardinality(OverQuota(p))
    BY SetsMove DEF Over
  <2>3. counted'["day"] = counted["day"] /\ counted'["month"] = counted["month"] /\ counted'["slots"] = n
    BY <1>1 DEF Counters, QuotaPeriods
  <2>4. \A i \in Invocations : RunsWithSlot(invoking[i])'
    BY <2>1, SlotsKept
  <2> QED
    BY <2>1, <2>2, <2>3, <2>4 DEF QuotaAddsUp, SlotsAddUp, QuotaPeriods
<1> QED
  BY <1>2, <1>3, CallStep

\* Who has a slot, or will find that it has, is counted for one.
LEMMA GrantedAreCounted ==
  ASSUME CallConstants
  PROVE  Cardinality(Granted) <= Cardinality(ForSlots) /\ Cardinality(Granted) \in Nat /\ Cardinality(ForSlots) \in Nat
<1>1. IsFiniteSet(ForSlots) /\ IsFiniteSet(Granted)
  BY FS_Subset DEF CallConstants, ForSlots, Granted
<1>2. Granted \subseteq ForSlots
  BY DEF ForSlots, ForSlot, Granted, Grant
<1> QED
  BY <1>1, <1>2, FS_Subset, FS_CardinalityType

LEMMA AskSlotKeeps ==
  ASSUME CallConstants, CallsInv, NEW r \in Invocations, AskSlot(r)
  PROVE  CallsInv'
<1>1. PICK S : CallsTyped(S) /\ guards' \in S
  BY Widened
<1>2. PICK c \in CallOf(S) : c = invoking[r]
  BY <1>1 DEF CallsTyped
<1>3. Knows(c) /\ c.at = "limits" /\ operation.slots > 0
  BY <1>2 DEF CallsInv, AskSlot, CallAt
<1>4. counted \in [Counters -> Int] /\ "slots" \in Counters /\ operation.slots \in Nat
  BY DEF CallsInv, OperationTyped, Counters
<1>5. PICK n \in Int : n = counted["slots"] + 1
  BY <1>4
<1>6. counted' = [counted EXCEPT !["slots"] = n] /\ UNCHANGED <<holding, operation, passed, troubled>>
  BY <1>4, <1>5 DEF AskSlot, fixed
<1>7. PICK t : t = [c EXCEPT !.at = "slot", !.n = n]
  OBVIOUS
<1>8. /\ t \in CallOf(S) /\ t.at = "slot" /\ t.n = n
      /\ t.held = c.held /\ t.was = c.was /\ t.from = c.from
  BY <1>7 DEF CallOf, CallSteps
<1>9. invoking' = [invoking EXCEPT ![r] = t]
  BY <1>2, <1>5, <1>7 DEF AskSlot
<1>10. c.held = FALSE
  BY <1>3 DEF Knows, Placed, CallOf
<1>11. Knows(t)
  BY <1>3, <1>8, <1>10 DEF Knows, Entitled, Subscribed, Preflown, Permitted, Settled, Placed
<1>12. ~troubled => n = Cardinality(ForSlots') /\ Cardinality(Granted') <= operation.slots
  <2> SUFFICES ASSUME ~troubled
               PROVE  n = Cardinality(ForSlots') /\ Cardinality(Granted') <= operation.slots
    OBVIOUS
  <2>1. SlotsAddUp
    BY DEF CallsInv, Sums
  <2>2. ~ForSlot(c) /\ ForSlot(t) /\ ~Grant(c) /\ (Grant(t) <=> n <= operation.slots)
    BY <1>3, <1>8, <1>10 DEF ForSlot, Grant
  <2>3. Cardinality(ForSlots') = Cardinality(ForSlots) + 1 /\ Cardinality(ForSlots) \in Nat
    BY <1>2, <1>6, <1>9, <2>2, SetsMove
  <2>4. /\ n <= operation.slots => Cardinality(Granted') = Cardinality(Granted) + 1
        /\ ~(n <= operation.slots) => Cardinality(Granted') = Cardinality(Granted)
    BY <1>2, <1>6, <1>9, <2>2, SetsMove
  <2>5. Cardinality(Granted) <= Cardinality(ForSlots) /\ Cardinality(Granted) \in Nat
    BY GrantedAreCounted
  <2> QED
    BY <1>3, <1>4, <1>5, <2>1, <2>3, <2>4, <2>5 DEF SlotsAddUp
<1> QED
  BY <1>1, <1>2, <1>3, <1>6, <1>8, <1>9, <1>11, <1>12, SlotStep DEF RunsWithSlot

LEMMA GetSlotKeeps ==
  ASSUME CallConstants, CallsInv, NEW r \in Invocations, GetSlot(r)
  PROVE  CallsInv'
<1>1. PICK S : CallsTyped(S) /\ guards' \in S
  BY Widened
<1>2. PICK c \in CallOf(S) : c = invoking[r]
  BY <1>1 DEF CallsTyped
<1>3. Knows(c) /\ c.at = "slot"
  BY <1>2 DEF CallsInv, GetSlot, CallAt
<1>4. c.held = FALSE
  BY <1>3 DEF Knows, Placed, CallOf
<1>5. counted \in [Counters -> Int] /\ "slots" \in Counters
  BY DEF CallsInv, OperationTyped, Counters
<1>6. PICK n \in Int : n = counted["slots"]
  BY <1>5
<1>7. counted' = [counted EXCEPT !["slots"] = n] /\ UNCHANGED <<holding, operation, passed, troubled>>
  BY <1>5, <1>6 DEF GetSlot, fixed
<1>8. PICK t \in CallOf(S) : /\ invoking' = [invoking EXCEPT ![r] = t] /\ Knows(t)
                             /\ t.at \in {"slotOver", "params"} /\ ForSlot(t) /\ (Grant(c) <=> Grant(t))
                             /\ RunsWithSlot(t)
  <2>1. CASE c.n > operation.slots
    <3>0. PICK z \in Int : z = 0
      OBVIOUS
    <3>1. PICK t : t = [c EXCEPT !.at = "slotOver", !.n = z]
      OBVIOUS
    <3>2. t \in CallOf(S) /\ t.at = "slotOver" /\ t.held = c.held /\ t.was = c.was /\ t.from = c.from
      BY <3>1 DEF CallOf, CallSteps
    <3>3. invoking' = [invoking EXCEPT ![r] = t]
      BY <1>2, <2>1, <3>0, <3>1 DEF GetSlot
    <3>4. Knows(t)
      BY <1>3, <1>4, <3>2 DEF Knows, Entitled, Subscribed, Preflown, Permitted, Settled, Placed
    <3>5. ~Grant(c) /\ ~Grant(t)
      <4>1. c.n \in Int /\ operation.slots \in Nat
        BY DEF CallOf, CallsInv, OperationTyped
      <4> QED
        BY <1>3, <1>4, <2>1, <3>2, <4>1 DEF Grant
    <3>6. ForSlot(t) /\ RunsWithSlot(t)
      BY <3>2 DEF ForSlot, RunsWithSlot
    <3> QED
      BY <3>2, <3>3, <3>4, <3>5, <3>6
  <2>2. CASE ~(c.n > operation.slots)
    <3>0. PICK z \in Int : z = 0
      OBVIOUS
    <3>1. PICK t : t = [c EXCEPT !.at = "params", !.n = z, !.held = TRUE]
      OBVIOUS
    <3>2. t \in CallOf(S) /\ t.at = "params" /\ t.held = TRUE /\ t.was = c.was /\ t.from = c.from
      BY <3>1 DEF CallOf, CallSteps
    <3>3. invoking' = [invoking EXCEPT ![r] = t]
      BY <1>2, <2>2, <3>0, <3>1 DEF GetSlot
    <3>4. Knows(t)
      BY <1>3, <3>2 DEF Knows, Entitled, Subscribed, Preflown, Permitted, Settled, Placed
    <3>5. Grant(c) /\ Grant(t)
      <4>1. c.n \in Int /\ operation.slots \in Nat
        BY DEF CallOf, CallsInv, OperationTyped
      <4> QED
        BY <1>3, <2>2, <3>2, <4>1 DEF Grant
    <3>6. ForSlot(t) /\ RunsWithSlot(t)
      BY <3>2 DEF ForSlot, RunsWithSlot
    <3> QED
      BY <3>2, <3>3, <3>4, <3>5, <3>6
  <2> QED
    BY <2>1, <2>2
<1>9. ForSlot(c)
  BY <1>3 DEF ForSlot
<1>10. Cardinality(ForSlots') = Cardinality(ForSlots) /\ Cardinality(Granted') = Cardinality(Granted)
  BY <1>2, <1>7, <1>8, <1>9, SetsMove
<1>11. ~troubled => SlotsAddUp
  BY DEF CallsInv, Sums
<1>12. ~troubled => n = Cardinality(ForSlots') /\ (operation.slots > 0 => Cardinality(Granted') <= operation.slots)
  BY <1>6, <1>10, <1>11 DEF SlotsAddUp
<1> QED
  BY <1>1, <1>2, <1>3, <1>7, <1>8, <1>12, SlotStep

\* A call that was counted for a slot ends, and is counted no more.
LEMMA LeaveSlot ==
  ASSUME CallConstants, CallsInv, NEW r \in Invocations, NEW result \in {"success", "error", "refused"},
         EndCall(r, result), ForSlot(invoking[r]), invoking[r].at \notin {"dayOver", "monthOver"},
         counted' = [counted EXCEPT !["slots"] = @ - 1],
         UNCHANGED <<holding, operation, passed, troubled, guards>>
  PROVE  CallsInv'
<1>1. PICK S : CallsTyped(S) /\ guards' \in S
  BY Widened
<1>2. invoking[r] \in CallOf(S) /\ <<>> \in S
  BY <1>1 DEF CallsTyped
<1>3. PICK t \in CallOf(S) : /\ invoking' = [invoking EXCEPT ![r] = t] /\ Knows(t)
                             /\ t.at = "over" /\ t.held = FALSE
  BY <1>2, EndLeaves
<1>4. counted \in [Counters -> Int] /\ "slots" \in Counters
  BY DEF CallsInv, OperationTyped, Counters
<1>5. PICK n \in Int : n = counted["slots"] - 1
  BY <1>4
<1>6. counted' = [counted EXCEPT !["slots"] = n]
  BY <1>4, <1>5
<1>7. ~ForSlot(t) /\ ~Grant(t) /\ RunsWithSlot(t)
  BY <1>3 DEF ForSlot, Grant, RunsWithSlot
<1>8. Cardinality(ForSlots') = Cardinality(ForSlots) - 1
  BY <1>3, <1>7, SetsMove
<1>9. Cardinality(Granted) \in Nat /\ Cardinality(Granted') \in Nat /\ Cardinality(Granted') <= Cardinality(Granted)
  <2>1. /\ Cardinality(Granted) \in Nat /\ Cardinality(Granted') \in Nat
        /\ Grant(invoking[r]) => Cardinality(Granted') = Cardinality(Granted) - 1
        /\ ~Grant(invoking[r]) => Cardinality(Granted') = Cardinality(Granted)
    BY <1>3, <1>7, SetsMove
  <2> QED
    BY <2>1
<1>10. ~troubled => SlotsAddUp
  BY DEF CallsInv, Sums
<1>11. operation.slots \in Nat
  BY DEF CallsInv, OperationTyped
<1>12. ~troubled => n = Cardinality(ForSlots') /\ (operation.slots > 0 => Cardinality(Granted') <= operation.slots)
  BY <1>5, <1>8, <1>9, <1>10, <1>11 DEF SlotsAddUp
<1>13. t.at \notin {"dayOver", "monthOver"}
  BY <1>3
<1> QED
  BY <1>1, <1>3, <1>6, <1>7, <1>12, <1>13, SlotStep

LEMMA NoSlotKeeps ==
  ASSUME CallConstants, CallsInv, NEW r \in Invocations, NoSlot(r)
  PROVE  CallsInv'
<1>1. invoking[r].at = "slotOver" /\ EndCall(r, "refused")
  BY DEF NoSlot, CallAt, RefuseCall
<1>2. counted' = [counted EXCEPT !["slots"] = @ - 1] /\ UNCHANGED <<holding, operation, passed, troubled, guards>>
  BY DEF NoSlot, fixed
<1> QED
  BY <1>1, <1>2, LeaveSlot DEF ForSlot

\* What a call that is released comes to.
LEMMA ReleaseKeeps ==
  ASSUME CallConstants, CallsInv, NEW r \in Invocations, NEW fits \in BOOLEAN, Release(r, fits)
  PROVE  CallsInv'
<1>1. PICK result \in {"success", "error", "refused"} : EndCall(r, result)
  <2>1. invoking[r].result \in {"success", "error", "refused"}
    BY DEF Release, CallAt, CallsInv, Knows, Placed
  <2> QED
    BY <2>1 DEF Release
<1>2. invoking[r].at = "release" /\ UNCHANGED <<holding, operation, passed, troubled, guards>>
  BY DEF Release, CallAt, fixed
<1>3. CASE invoking[r].held
  BY <1>1, <1>2, <1>3, LeaveSlot DEF Release, SlotReleased, ForSlot
<1>4. CASE ~invoking[r].held
  <2>1. PICK S : CallsTyped(S) /\ guards' \in S
    BY Widened
  <2>2. invoking[r] \in CallOf(S) /\ <<>> \in S
    BY <2>1 DEF CallsTyped
  <2>3. PICK t \in CallOf(S) : /\ invoking' = [invoking EXCEPT ![r] = t] /\ Knows(t)
                               /\ t.at = "over" /\ t.held = FALSE
    BY <1>1, <2>2, EndLeaves
  <2>4. UNCHANGED counted /\ invoking[r].held = FALSE
    BY <1>4, <2>2 DEF Release, CallOf
  <2> QED
    BY <1>2, <2>1, <2>3, <2>4, QuietCall DEF RunsWithSlot
<1> QED
  BY <1>3, <1>4

------------------------------------------------------------------------------
\* The rest of the executor, which counts nothing.
LEMMA PassesKeep ==
  ASSUME CallConstants, CallsInv, NEW r \in Invocations,
         \/ NoSlots(r) \/ InvalidParams(r) \/ RunPlugin(r)
         \/ \E result \in {"success", "error", "refused"} : Returns(r, result)
  PROVE  CallsInv'
<1>1. PICK S : CallsTyped(S) /\ guards' \in S
  BY Widened
<1>2. PICK c \in CallOf(S) : c = invoking[r]
  BY <1>1 DEF CallsTyped
<1>3. Knows(c) /\ c.at \in {"limits", "params", "running"}
  BY <1>2 DEF CallsInv, NoSlots, InvalidParams, RunPlugin, Returns, CallAt
<1>4. UNCHANGED <<holding, operation, counted, passed, troubled>>
  BY DEF NoSlots, InvalidParams, RunPlugin, Returns, counters, fixed
<1>5. ASSUME NEW t \in CallOf(S), invoking' = [invoking EXCEPT ![r] = t], Knows(t), t.held = c.held,
             t.at \in {"params", "running", "release"}, ~troubled => RunsWithSlot(t)
      PROVE  CallsInv'
  BY <1>1, <1>2, <1>3, <1>4, <1>5, QuietCall
<1>6. CASE NoSlots(r)
  <2>1. PICK t : t = [c EXCEPT !.at = "params"]
    OBVIOUS
  <2>2. t \in CallOf(S) /\ t.at = "params" /\ t.held = c.held /\ t.was = c.was /\ t.from = c.from
    BY <2>1 DEF CallOf, CallSteps
  <2>3. invoking' = [invoking EXCEPT ![r] = t] /\ c.at = "limits" /\ operation.slots = 0
    BY <1>2, <1>6, <2>1 DEF NoSlots, MoveTo, CallAt
  <2>4. Knows(t)
    BY <1>3, <2>2, <2>3 DEF Knows, Entitled, Subscribed, Preflown, Permitted, Settled, Placed
  <2>5. ~(operation.slots > 0)
    BY <2>3
  <2>6. RunsWithSlot(t)
    BY <2>5 DEF RunsWithSlot
  <2> QED
    BY <1>5, <2>2, <2>3, <2>4, <2>6
<1>7. CASE InvalidParams(r)
  <2>1. PICK t : t = [c EXCEPT !.at = "release", !.result = "refused"]
    OBVIOUS
  <2>2. /\ t \in CallOf(S) /\ t.at = "release" /\ t.result = "refused"
        /\ t.held = c.held /\ t.was = c.was /\ t.from = c.from
    BY <2>1 DEF CallOf, CallSteps
  <2>3. invoking' = [invoking EXCEPT ![r] = t]
    BY <1>2, <1>7, <2>1 DEF InvalidParams
  <2>4. Knows(t)
    BY <1>3, <2>2, <2>3 DEF Knows, Entitled, Subscribed, Preflown, Permitted, Settled, Placed
  <2> QED
    BY <1>5, <2>2, <2>3, <2>4 DEF RunsWithSlot
<1>8. CASE RunPlugin(r)
  <2>1. PICK g \in S : g = guards
    BY <1>1 DEF CallsTyped
  <2>2. PICK t : t = [c EXCEPT !.at = "running", !.orig = g]
    OBVIOUS
  <2>3. t \in CallOf(S) /\ t.at = "running" /\ t.held = c.held /\ t.was = c.was /\ t.from = c.from
    BY <2>2 DEF CallOf, CallSteps
  <2>4. invoking' = [invoking EXCEPT ![r] = t] /\ c.at = "params"
    BY <1>2, <1>8, <2>1, <2>2 DEF RunPlugin, CallAt
  <2>5. Knows(t)
    BY <1>3, <2>3, <2>4 DEF Knows, Entitled, Subscribed, Preflown, Permitted, Settled, Placed
  <2>6. ~troubled => RunsWithSlot(c)
    BY <1>2 DEF CallsInv, Sums, SlotsAddUp
  <2>7. ~troubled => RunsWithSlot(t)
    BY <2>3, <2>4, <2>6 DEF RunsWithSlot
  <2> QED
    BY <1>5, <2>3, <2>4, <2>5, <2>7
<1>9. ASSUME NEW result \in {"success", "error", "refused"}, Returns(r, result) PROVE CallsInv'
  <2>1. PICK t : t = [c EXCEPT !.at = "release", !.result = result, !.orig = <<>>]
    OBVIOUS
  <2>2. /\ t \in CallOf(S) /\ t.at = "release" /\ t.result = result
        /\ t.held = c.held /\ t.was = c.was /\ t.from = c.from
    BY <1>1, <2>1 DEF CallOf, CallSteps, CallsTyped
  <2>3. invoking' = [invoking EXCEPT ![r] = t]
    BY <1>2, <1>9, <2>1 DEF Returns
  <2>4. Knows(t)
    BY <1>3, <2>2, <2>3 DEF Knows, Entitled, Subscribed, Preflown, Permitted, Settled, Placed
  <2> QED
    BY <1>5, <2>2, <2>3, <2>4 DEF RunsWithSlot
<1> QED
  BY <1>6, <1>7, <1>8, <1>9

LEMMA RefusalsKeep ==
  ASSUME CallConstants, CallsInv, NEW r \in Invocations, RateLimited(r)
  PROVE  CallsInv'
BY QuietRefusal DEF RateLimited, CallAt, counters, fixed

------------------------------------------------------------------------------
\* What goes wrong.
LEMMA NoCacheKeeps ==
  ASSUME CallConstants, CallsInv, NEW r \in Invocations, NoCache(r)
  PROVE  CallsInv'
<1>1. PICK S : CallsTyped(S) /\ guards' \in S
  BY Widened
<1>2. PICK c \in CallOf(S) : c = invoking[r]
  BY <1>1 DEF CallsTyped
<1>3. Knows(c)
  BY <1>2 DEF CallsInv
<1>4. troubled' /\ UNCHANGED <<holding, operation, counted, passed>>
  BY DEF NoCache, counters
<1>5. CASE CallAt(r, Following("policy")) /\ ~CallAt(r, "limits") /\ MoveTo(r, "limits")
  <2>1. PICK t : t = [c EXCEPT !.at = "limits"]
    OBVIOUS
  <2>2. t \in CallOf(S) /\ t.at = "limits" /\ t.held = c.held /\ t.was = c.was /\ t.from = c.from
    BY <2>1 DEF CallOf, CallSteps
  <2>3. invoking' = [invoking EXCEPT ![r] = t] /\ c.at \in {"day", "month"}
    BY <1>2, <1>5, <2>1 DEF MoveTo, CallAt, Following
  <2>4. Knows(t)
    BY <1>3, <2>2, <2>3 DEF Knows, Entitled, Subscribed, Preflown, Permitted, Settled, Placed
  <2> QED
    BY <1>1, <1>4, <2>2, <2>3, <2>4, TroubledCall
<1>6. CASE CallAt(r, "limits") /\ invoking' = [invoking EXCEPT ![r] = [@ EXCEPT !.at = "params", !.held = TRUE]]
  <2>1. PICK t : t = [c EXCEPT !.at = "params", !.held = TRUE]
    OBVIOUS
  <2>2. t \in CallOf(S) /\ t.at = "params" /\ t.held = TRUE /\ t.was = c.was /\ t.from = c.from
    BY <2>1 DEF CallOf, CallSteps
  <2>3. invoking' = [invoking EXCEPT ![r] = t] /\ c.at = "limits"
    BY <1>2, <1>6, <2>1 DEF CallAt
  <2>4. Knows(t)
    BY <1>3, <2>2, <2>3 DEF Knows, Entitled, Subscribed, Preflown, Permitted, Settled, Placed
  <2> QED
    BY <1>1, <1>4, <2>2, <2>3, <2>4, TroubledCall
<1> QED
  BY <1>5, <1>6 DEF NoCache

LEMMA CacheFailsKeeps ==
  ASSUME CallConstants, CallsInv, NEW r \in Invocations, CacheFails(r)
  PROVE  CallsInv'
<1>1. PICK S : CallsTyped(S) /\ guards' \in S
  BY Widened
<1>2. PICK c \in CallOf(S) : c = invoking[r]
  BY <1>1 DEF CallsTyped
<1>3. Knows(c) /\ invoking[r] \in CallOf(S) /\ <<>> \in S
  BY <1>1, <1>2 DEF CallsInv, CallsTyped
<1>4. troubled' /\ UNCHANGED <<holding, operation, counted, passed>>
  BY DEF CacheFails, counters
<1>5. ASSUME NEW result \in {"success", "error", "refused"}, EndCall(r, result)
      PROVE  CallsInv'
  <2>1. PICK t \in CallOf(S) : invoking' = [invoking EXCEPT ![r] = t] /\ Knows(t)
    BY <1>3, <1>5, EndLeaves
  <2> QED
    BY <1>1, <1>4, <2>1, TroubledCall
<1>6. ASSUME CallAt(r, Over("month")), operation.day > 0, MoveTo(r, "refund")
      PROVE  CallsInv'
  <2>1. PICK t : t = [c EXCEPT !.at = "refund"]
    OBVIOUS
  <2>2. t \in CallOf(S) /\ t.at = "refund" /\ t.held = c.held /\ t.was = c.was /\ t.from = c.from
    BY <2>1 DEF CallOf, CallSteps
  <2>3. invoking' = [invoking EXCEPT ![r] = t] /\ c.at = "monthOver"
    BY <1>2, <1>6, <2>1 DEF MoveTo, CallAt, Over
  <2>4. Knows(t)
    BY <1>3, <1>6, <2>2, <2>3 DEF Knows, Entitled, Subscribed, Preflown, Permitted, Settled, Placed
  <2> QED
    BY <1>1, <1>4, <2>2, <2>3, <2>4, TroubledCall
<1>7. ASSUME c.at \in {"slot", "slotOver"},
             invoking' = [invoking EXCEPT ![r] = [@ EXCEPT !.at = "params", !.n = 0, !.held = TRUE]]
      PROVE  CallsInv'
  <2>1. PICK t : t = [c EXCEPT !.at = "params", !.n = 0, !.held = TRUE]
    OBVIOUS
  <2>2. t \in CallOf(S) /\ t.at = "params" /\ t.held = TRUE /\ t.was = c.was /\ t.from = c.from
    <3>1. PICK c1 : c1 = [c EXCEPT !.at = "params"]
      OBVIOUS
    <3>2. c1 \in CallOf(S) /\ c1.at = "params" /\ c1.was = c.was /\ c1.from = c.from
      BY <3>1 DEF CallOf, CallSteps
    <3>3. PICK c2 : c2 = [c1 EXCEPT !.n = 0]
      OBVIOUS
    <3>4. c2 \in CallOf(S) /\ c2.at = "params" /\ c2.was = c.was /\ c2.from = c.from
      BY <3>2, <3>3 DEF CallOf
    <3>5. t = [c2 EXCEPT !.held = TRUE]
      BY <2>1, <3>1, <3>3 DEF CallOf
    <3> QED
      BY <3>4, <3>5 DEF CallOf
  <2>3. invoking' = [invoking EXCEPT ![r] = t]
    BY <1>2, <1>7, <2>1
  <2>4. Knows(t)
    BY <1>3, <1>7, <2>2 DEF Knows, Entitled, Subscribed, Preflown, Permitted, Settled, Placed
  <2> QED
    BY <1>1, <1>4, <2>2, <2>3, <2>4, TroubledCall
<1>8. ASSUME CallAt(r, "release"), NEW result \in {invoking[r].result, "error"}, EndCall(r, result)
      PROVE  CallsInv'
  <2>1. result \in {"success", "error", "refused"}
    BY <1>2, <1>3, <1>8 DEF CallAt, Knows, Placed
  <2> QED
    BY <1>5, <1>8, <2>1
<1>9. \/ CallAt(r, Over("month")) /\ operation.day > 0 /\ MoveTo(r, "refund")
      \/ RefuseCall(r)
      \/ /\ c.at \in {"slot", "slotOver"}
         /\ invoking' = [invoking EXCEPT ![r] = [@ EXCEPT !.at = "params", !.n = 0, !.held = TRUE]]
      \/ CallAt(r, "release") /\ \E result \in {invoking[r].result, "error"} : EndCall(r, result)
  BY <1>2 DEF CacheFails
<1> QED
  BY <1>5, <1>6, <1>7, <1>8, <1>9 DEF RefuseCall

LEMMA DiesKeeps ==
  ASSUME CallConstants, CallsInv, NEW r \in Invocations, CallDies(r)
  PROVE  CallsInv'
<1>1. PICK S : CallsTyped(S) /\ guards' \in S
  BY Widened
<1>2. PICK c \in CallOf(S) : c = invoking[r]
  BY <1>1 DEF CallsTyped
<1>3. PICK t : t = [NoCall EXCEPT !.at = "over", !.record = c.record, !.result = "dead"]
  OBVIOUS
<1>4. NoCall \in CallOf(S)
  BY <1>1 DEF NoCall, CallOf, CallSteps, CallsTyped
<1>5. t \in CallOf(S)
  BY <1>3, <1>4 DEF CallOf, CallSteps
<1>6. t.at = "over" /\ t.held = FALSE /\ t.result = "dead"
  BY <1>3 DEF NoCall
<1>7. Knows(t)
  BY <1>6 DEF Knows, Entitled, Subscribed, Preflown, Permitted, Settled, Placed
<1>8. invoking' = [invoking EXCEPT ![r] = t]
  BY <1>2, <1>3 DEF CallDies
<1>9. troubled' /\ UNCHANGED <<holding, operation, counted, passed>>
  BY DEF CallDies, counters
<1> QED
  BY <1>1, <1>5, <1>7, <1>8, <1>9, TroubledCall

LEMMA ChangeKeeps ==
  ASSUME CallConstants, CallsInv, NEW ground \in Grounds, ChangeGround(ground)
  PROVE  CallsInv'
<1>1. PICK S : CallsTyped(S) /\ guards' \in S
  BY Widened
<1>2. PICK h \in SUBSET Grounds : h = holding'
  BY DEF ChangeGround, CallsInv, OperationTyped
<1>3. UNCHANGED <<operation, counted, passed, troubled, guards>>
  BY DEF ChangeGround, counters
<1>4. \A r \in Invocations : invoking'[r] = [invoking[r] EXCEPT !.was = @ \cup h]
  BY <1>2 DEF ChangeGround
<1>5. ASSUME NEW r \in Invocations
      PROVE  /\ invoking'[r] \in CallOf(S) /\ Knows(invoking[r])'
             /\ invoking'[r].at = invoking[r].at /\ invoking'[r].held = invoking[r].held
             /\ invoking'[r].n = invoking[r].n
  <2>1. PICK c \in CallOf(S) : c = invoking[r]
    BY <1>1 DEF CallsTyped
  <2>2. PICK w \in SUBSET Grounds : w = c.was \cup h
    BY DEF CallOf
  <2>3. PICK t : t = [c EXCEPT !.was = w]
    OBVIOUS
  <2>4. /\ t \in CallOf(S) /\ t.was = w /\ t.at = c.at /\ t.from = c.from /\ t.held = c.held /\ t.n = c.n
        /\ t.record = c.record /\ t.result = c.result
    BY <2>3 DEF CallOf
  <2>5. invoking'[r] = t
    BY <1>4, <2>1, <2>2, <2>3
  <2>6. Knows(c)
    BY <2>1 DEF CallsInv
  <2>7. Knows(invoking[r])'
    BY <1>2, <1>3, <2>2, <2>4, <2>5, <2>6 DEF Knows, Entitled, Subscribed, Preflown, Permitted, Settled, Placed, By
  <2> QED
    BY <2>1, <2>4, <2>5, <2>7
<1>6. CallsTyped(S)'
  <2>1. invoking' = [r \in Invocations |-> invoking'[r]]
    BY DEF ChangeGround
  <2> QED
    BY <1>1, <1>5, <2>1 DEF CallsTyped
<1>7. OperationTyped'
  BY <1>2, <1>3 DEF CallsInv, OperationTyped
<1>8. Sums'
  <2>1. \A p \in QuotaPeriods : OverQuota(p)' = OverQuota(p)
    BY <1>5 DEF OverQuota, CallAt
  <2>2. ForSlots' = ForSlots /\ Granted' = Granted
    BY <1>3, <1>5 DEF ForSlots, ForSlot, Granted, Grant
  <2>3. \A r \in Invocations : RunsWithSlot(invoking[r]) => RunsWithSlot(invoking[r])'
    BY <1>3, <1>5 DEF RunsWithSlot
  <2> QED
    BY <1>3, <2>1, <2>2, <2>3 DEF CallsInv, Sums, QuotaAddsUp, SlotsAddUp, QuotaPeriods
<1> QED
  BY <1>5, <1>6, <1>7, <1>8 DEF CallsInv

LEMMA LapseKeeps ==
  ASSUME CallConstants, CallsInv, NEW x \in Counters, Lapse(x)
  PROVE  CallsInv'
<1>1. UNCHANGED <<holding, operation, invoking, guards>>
  BY DEF Lapse
<1>2. counted \in [Counters -> Int] /\ passed \in [QuotaPeriods -> Int]
  BY DEF CallsInv, OperationTyped
<1>3. counted' = [counted EXCEPT ![x] = 0] /\ passed' = IF x = "slots" THEN passed ELSE [passed EXCEPT ![x] = 0]
  BY DEF Lapse
<1>4. OperationTyped'
  <2>1. counted' \in [Counters -> Int]
    BY <1>2, <1>3
  <2>2. passed' \in [QuotaPeriods -> Int]
    <3>1. CASE x = "slots"
      BY <1>2, <1>3, <3>1
    <3>2. CASE x # "slots"
      <4>1. passed' = [passed EXCEPT ![x] = 0]
        BY <1>3, <3>2
      <4>2. passed' = [p \in QuotaPeriods |-> IF p = x THEN 0 ELSE passed[p]]
        BY <1>2, <4>1
      <4> QED
        BY <1>2, <4>2
    <3> QED
      BY <3>1, <3>2
  <2> QED
    BY <1>1, <2>1, <2>2 DEF CallsInv, OperationTyped
<1>5. \A S : CallsTyped(S) => CallsTyped(S)'
  BY <1>1 DEF CallsTyped
<1>6. \A r \in Invocations : Knows(invoking[r])'
  BY <1>1 DEF CallsInv, Knows, Entitled, Subscribed, Preflown, Permitted, Settled, Placed, By
<1>7. Sums'
  <2> SUFFICES ASSUME ~troubled'
               PROVE  QuotaAddsUp("day")' /\ QuotaAddsUp("month")' /\ SlotsAddUp'
    BY DEF Sums
  <2>1. ~troubled /\ QuotaAddsUp("day") /\ QuotaAddsUp("month") /\ SlotsAddUp
    BY DEF CallsInv, Sums, Lapse
  <2>2. Cardinality(ForSlots') = Cardinality(ForSlots) /\ Cardinality(Granted') = Cardinality(Granted)
        /\ \A p \in QuotaPeriods : Cardinality(OverQuota(p)') = Cardinality(OverQuota(p))
    BY <1>1 DEF ForSlots, ForSlot, Granted, Grant, OverQuota, CallAt
  <2>3. \A r \in Invocations : RunsWithSlot(invoking[r])'
    BY <1>1, <2>1 DEF SlotsAddUp, RunsWithSlot
  <2>4. CASE x = "slots"
    <3>1. counted["slots"] = 0
      BY <2>4 DEF Lapse
    <3>2. counted' = counted /\ passed' = passed
      BY <1>2, <1>3, <2>4, <3>1
    <3> QED
      BY <1>1, <2>1, <2>2, <2>3, <3>2 DEF QuotaAddsUp, SlotsAddUp, QuotaPeriods
  <2>5. CASE x # "slots"
    <3>1. x \in QuotaPeriods
      BY <2>5 DEF Counters
    <3>2. \A r \in Invocations : invoking[r].at \notin {"dayOver", "monthOver"}
      BY <2>5 DEF Lapse, Counting, Over
    <3>3. OverQuota(x) = {}
      BY <3>1, <3>2 DEF OverQuota, CallAt, Over
    <3>4. Cardinality(OverQuota(x)') = 0
      BY <1>1, <3>3, FS_EmptySet DEF OverQuota, CallAt
    <3>5. counted'[x] = 0 /\ passed'[x] = 0 /\ operation'[x] \in Nat
      BY <1>1, <1>2, <1>3, <2>5, <3>1 DEF CallsInv, OperationTyped, QuotaPeriods
    <3>6. QuotaAddsUp(x)'
      BY <3>4, <3>5 DEF QuotaAddsUp
    <3>7. ASSUME NEW p \in QuotaPeriods, p # x PROVE QuotaAddsUp(p)'
      <4>1. counted'[p] = counted[p] /\ passed'[p] = passed[p]
        BY <1>2, <1>3, <3>7 DEF Counters
      <4>2. QuotaAddsUp(p)
        BY <2>1 DEF QuotaPeriods
      <4> QED
        BY <1>1, <2>2, <4>1, <4>2 DEF QuotaAddsUp
    <3>8. SlotsAddUp'
      <4>1. counted'["slots"] = counted["slots"]
        BY <1>2, <1>3, <2>5 DEF Counters
      <4> QED
        BY <1>1, <2>1, <2>2, <2>3, <4>1 DEF SlotsAddUp
    <3> QED
      BY <3>1, <3>6, <3>7, <3>8 DEF QuotaPeriods
  <2> QED
    BY <2>4, <2>5
<1> QED
  BY <1>4, <1>5, <1>6, <1>7 DEF CallsInv

------------------------------------------------------------------------------
LEMMA CallsInvInit == ASSUME CallConstants, CallsInit PROVE CallsInv
<1>1. OperationTyped
  BY DEF CallsInit, CallConstants, OperationTyped
<1>2. CallsTyped({<<>>})
  <2>1. NoCall \in CallOf({<<>>})
    BY DEF NoCall, CallOf, CallSteps
  <2> QED
    BY <2>1 DEF CallsInit, CallsTyped
<1>3. \A r \in Invocations : invoking[r] = NoCall /\ NoCall.at = "idle" /\ NoCall.held = FALSE
  BY DEF CallsInit, NoCall
<1>4. \A r \in Invocations : Knows(invoking[r]) /\ RunsWithSlot(invoking[r])
  BY <1>3 DEF Knows, Entitled, Subscribed, Preflown, Permitted, Settled, Placed, RunsWithSlot
<1>5. ForSlots = {} /\ Granted = {} /\ \A p \in QuotaPeriods : OverQuota(p) = {}
  BY <1>3 DEF ForSlots, ForSlot, Granted, Grant, OverQuota, CallAt, Over
<1>6. Sums
  <2>1. counted = [x \in Counters |-> 0] /\ passed = [p \in QuotaPeriods |-> 0]
    BY DEF CallsInit
  <2>2. operation.day \in Nat /\ operation.month \in Nat /\ operation.slots \in Nat
    BY <1>1 DEF OperationTyped
  <2> QED
    BY <1>4, <1>5, <2>1, <2>2, FS_EmptySet DEF Sums, QuotaAddsUp, SlotsAddUp, QuotaPeriods, Counters
<1> QED
  BY <1>1, <1>2, <1>4, <1>6 DEF CallsInv

LEMMA CallsInvNext == ASSUME CallConstants, CallsInv, CallsNext PROVE CallsInv'
BY EnterKeeps, ChecksKeep, ConsumeKeeps, GiveLifeKeeps, GiveBackKeeps, RefundKeeps, RefusalsKeep,
   AskSlotKeeps, GetSlotKeeps, NoSlotKeeps, PassesKeep, NoCacheKeeps, CacheFailsKeeps, DiesKeeps,
   ReleaseKeeps,
   ChangeKeeps, LapseKeeps DEF CallsNext

LEMMA CallsInvStutter == ASSUME CallsInv, UNCHANGED callVars PROVE CallsInv'
<1> USE DEF callVars
<1>1. OperationTyped' /\ \A S : CallsTyped(S) => CallsTyped(S)'
  BY DEF CallsInv, OperationTyped, CallsTyped
<1>2. \A r \in Invocations : Knows(invoking[r])'
  BY DEF CallsInv, Knows, Entitled, Subscribed, Preflown, Permitted, Settled, Placed, By
<1>3. Sums'
  BY DEF CallsInv, Sums, QuotaAddsUp, SlotsAddUp, OverQuota, CallAt, ForSlots, ForSlot, Granted, Grant, RunsWithSlot
<1> QED
  BY <1>1, <1>2, <1>3 DEF CallsInv

\* For any calls at once of an operation with any limits, whatever is switched meanwhile
\* and however many processes die: a plugin runs only when what it needs was there, its
\* record ends as it did, and as long as nothing has gone wrong with the cache no more
\* calls pass and run than the limits allow.
THEOREM CallsAccountedHolds == ASSUME CallConstants PROVE CallsSpec => []CallsAccounted
<1>1. CallsInit => CallsInv
  BY CallsInvInit
<1>2. CallsInv /\ [CallsNext]_callVars => CallsInv'
  BY CallsInvNext, CallsInvStutter
<1>3. CallsInv => CallsAccounted
  BY CallsFollow
<1> QED
  BY <1>1, <1>2, <1>3, PTL DEF CallsSpec
==============================================================================
