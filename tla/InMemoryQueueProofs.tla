------------------------- MODULE InMemoryQueueProofs -------------------------
(***************************************************************************)
(* Safety of InMemoryQueue for any jobs, consumers, timeouts and delays.   *)
(* Range(s) of Functions is the set of the elements of a sequence s; the   *)
(* invariants proved here depend on which copies a sequence holds and not  *)
(* on their order.                                                         *)
(***************************************************************************)
EXTENDS InMemoryQueue, SequenceTheorems, FiniteSetTheorems, TLAPS

------------------------------------------------------------------------------
(***************************************************************************)
(* The protocol itself, whoever implements it.                             *)
(***************************************************************************)
VARIABLES stored, running, settled

Protocol == INSTANCE AtLeastOnce WITH Nobody <- None

\* A worker runs a job or nothing, and no sent job is forgotten before it is settled.
ProtocolInv ==
  /\ running \in [Workers -> Jobs \cup {None}]
  /\ Protocol!NeverLost

(***************************************************************************)
(* Under the protocol a job that was handed to the queue stays deliverable *)
(* until a worker that received it settles it.                             *)
(***************************************************************************)
THEOREM NeverLostHolds == Protocol!Spec => []Protocol!NeverLost
<1>1. Protocol!Init => ProtocolInv
  BY DEF Protocol!Init, ProtocolInv, Protocol!NeverLost
<1>2. ProtocolInv /\ [Protocol!Next]_Protocol!vars => ProtocolInv'
  <2> SUFFICES ASSUME ProtocolInv, [Protocol!Next]_Protocol!vars PROVE ProtocolInv'
    OBVIOUS
  <2> USE DEF ProtocolInv, Protocol!NeverLost
  <2>1. ASSUME NEW j \in Jobs, Protocol!Submit(j) PROVE ProtocolInv'
    BY <2>1 DEF Protocol!Submit
  <2>2. ASSUME NEW w \in Workers, NEW j \in Jobs, Protocol!Deliver(w, j) PROVE ProtocolInv'
    BY <2>2 DEF Protocol!Deliver
  <2>3. ASSUME NEW w \in Workers, NEW j \in Jobs, Protocol!Settle(w, j) PROVE ProtocolInv'
    BY <2>3 DEF Protocol!Settle
  <2>4. ASSUME NEW w \in Workers, NEW j \in Jobs, Protocol!Return(w, j) PROVE ProtocolInv'
    BY <2>4 DEF Protocol!Return
  <2>5. ASSUME NEW w \in Workers, Protocol!Abandon(w) PROVE ProtocolInv'
    BY <2>5 DEF Protocol!Abandon
  <2>6. ASSUME NEW j \in Jobs, Protocol!Forget(j) PROVE ProtocolInv'
    BY <2>6 DEF Protocol!Forget
  <2>7. CASE UNCHANGED Protocol!vars
    BY <2>7 DEF Protocol!vars
  <2> QED
    BY <2>1, <2>2, <2>3, <2>4, <2>5, <2>6, <2>7 DEF Protocol!Next
<1>3. ProtocolInv => Protocol!NeverLost
  BY DEF ProtocolInv
<1> QED
  BY <1>1, <1>2, <1>3, PTL DEF Protocol!Spec

------------------------------------------------------------------------------
Delayed == [job : Copy, left : Nat]

(***************************************************************************)
(* The elements of sequences that are extended and taken apart.            *)
(***************************************************************************)
LEMMA RangeAppend ==
  ASSUME NEW S, NEW s \in Seq(S), NEW c \in S
  PROVE  Range(Append(s, c)) = Range(s) \cup {c}
<1>1. /\ Len(s) \in Nat /\ DOMAIN s = 1..Len(s)
      /\ DOMAIN Append(s, c) = 1..(Len(s) + 1)
      /\ \A i \in 1..Len(s) : Append(s, c)[i] = s[i]
      /\ Append(s, c)[Len(s) + 1] = c
  BY AppendProperties, LenProperties
<1> QED
  BY <1>1 DEF Range

LEMMA RangeHeadTail ==
  ASSUME NEW S, NEW s \in Seq(S), s # <<>>
  PROVE  Range(s) = {Head(s)} \cup Range(Tail(s))
<1>1. /\ Len(s) \in Nat \ {0} /\ DOMAIN s = 1..Len(s)
      /\ DOMAIN Tail(s) = 1..(Len(s) - 1)
      /\ Head(s) = s[1]
      /\ \A i \in 1..(Len(s) - 1) : Tail(s)[i] = s[i+1]
  BY LenProperties, EmptySeq, HeadTailProperties
<1>2. ASSUME NEW i \in 1..Len(s) PROVE s[i] \in {Head(s)} \cup Range(Tail(s))
  <2>1. CASE i = 1
    BY <2>1, <1>1
  <2>2. CASE i # 1
    <3>1. i - 1 \in 1..(Len(s) - 1) /\ Tail(s)[i-1] = s[i]
      BY <2>2, <1>1
    <3> QED
      BY <3>1, <1>1 DEF Range
  <2> QED
    BY <2>1, <2>2
<1>3. ASSUME NEW i \in 1..(Len(s) - 1) PROVE Tail(s)[i] \in Range(s)
  BY <1>1 DEF Range
<1> QED
  BY <1>1, <1>2, <1>3 DEF Range

(***************************************************************************)
(* An ordering of a set of jobs is a sequence of all of them.              *)
(***************************************************************************)
LEMMA OrderingIsSeq ==
  ASSUME NEW S \in SUBSET Jobs, NEW o \in Orderings(S)
  PROVE  /\ o \in Seq(S)
         /\ Range(o) = S
<1>1. Cardinality(S) \in Nat
  BY FS_Subset, FS_CardinalityType, QueueAssumption
<1>2. o \in [1..Cardinality(S) -> S] /\ \A j \in S : \E i \in DOMAIN o : o[i] = j
  BY DEF Orderings
<1> QED
  BY <1>1, <1>2, SeqDef DEF Range

(***************************************************************************)
(* What the restore of the expired leases and the move of the due copies,  *)
(* at the start of every dequeue and inspection, leave where: the copies   *)
(* under expired leases and the first n scheduled ones join the queue, the *)
(* others stay.                                                            *)
(***************************************************************************)
LEMMA RefreshMoves ==
  ASSUME TypeOK, NEW o \in Orderings(Expired), NEW n \in 0..Len(scheduled)
  PROVE  /\ Restored(o) \in Seq(Copy)
         /\ Range(Restored(o)) =
              {[id |-> j, attempts |-> processing[j].attempts] : j \in Expired}
         /\ RefreshedQueue(o, n) \in Seq(Copy)
         /\ Range(RefreshedQueue(o, n)) =
              Range(Restored(o)) \cup Range(queue) \cup {scheduled[i].job : i \in 1..n}
         /\ Remaining(n) \in Seq(Delayed)
         /\ Range(scheduled) = {scheduled[i] : i \in 1..n} \cup Range(Remaining(n))
<1>1. Expired \in SUBSET Jobs /\ \A j \in Expired : processing[j] \in Lease
  BY DEF Expired, Leased, TypeOK
<1>2. o \in Seq(Expired) /\ Range(o) = Expired /\ DOMAIN o = 1..Len(o) /\ Len(o) \in Nat
  BY <1>1, OrderingIsSeq, LenProperties
<1>3. Restored(o) \in Seq(Copy)
  <2>1. Restored(o) \in [1..Len(o) -> Copy]
    BY <1>1, <1>2 DEF Restored, Copy, Lease, Range
  <2> QED
    BY <2>1, <1>2, SeqDef
<1>4. Range(Restored(o)) =
        {[id |-> j, attempts |-> processing[j].attempts] : j \in Expired}
  BY <1>2 DEF Restored, Range
<1>5. scheduled \in Seq(Delayed) /\ Len(scheduled) \in Nat /\ DOMAIN scheduled = 1..Len(scheduled)
  BY LenProperties DEF TypeOK, Delayed
<1>6. Due(n) \in Seq(Copy) /\ Range(Due(n)) = {scheduled[i].job : i \in 1..n}
  <2>1. \A i \in 1..n : scheduled[i] \in Delayed
    BY <1>5, ElementOfSeq
  <2>2. Due(n) \in [1..n -> Copy]
    BY <2>1 DEF Due, Delayed
  <2> QED
    BY <2>2, SeqDef DEF Due, Range
<1>7. queue \in Seq(Copy)
  BY DEF TypeOK
<1>8. /\ Restored(o) \o queue \in Seq(Copy)
      /\ Range(Restored(o) \o queue) = Range(Restored(o)) \cup Range(queue)
  BY <1>3, <1>7, ConcatProperties, RangeConcatenation
<1>9. /\ RefreshedQueue(o, n) \in Seq(Copy)
      /\ Range(RefreshedQueue(o, n)) =
           Range(Restored(o)) \cup Range(queue) \cup {scheduled[i].job : i \in 1..n}
  <2> DEFINE front == Restored(o) \o queue
  <2>1. front \in Seq(Copy) /\ Range(front) = Range(Restored(o)) \cup Range(queue)
    BY <1>8
  <2>2. RefreshedQueue(o, n) = front \o Due(n)
    BY DEF RefreshedQueue
  <2> HIDE DEF front
  <2>3. front \o Due(n) \in Seq(Copy)
    BY <2>1, <1>6, ConcatProperties
  <2>4. Range(front \o Due(n)) = Range(front) \cup Range(Due(n))
    BY <2>1, <1>6, RangeConcatenation
  <2> QED
    BY <2>1, <2>2, <2>3, <2>4, <1>6
<1>10. /\ Remaining(n) \in Seq(Delayed)
       /\ DOMAIN Remaining(n) = 1..(Len(scheduled) - n)
       /\ \A i \in 1..(Len(scheduled) - n) : Remaining(n)[i] = scheduled[n + i]
  <2>1. \A i \in (n+1)..Len(scheduled) : scheduled[i] \in Delayed
    BY <1>5, ElementOfSeq
  <2> QED
    BY <2>1, <1>5, SubSeqProperties, LenProperties DEF Remaining
<1>11. Range(scheduled) = {scheduled[i] : i \in 1..n} \cup Range(Remaining(n))
  <2>1. ASSUME NEW i \in 1..Len(scheduled), i > n PROVE scheduled[i] \in Range(Remaining(n))
    <3>1. i - n \in 1..(Len(scheduled) - n) /\ Remaining(n)[i - n] = scheduled[i]
      BY <2>1, <1>5, <1>10
    <3> QED
      BY <3>1, <1>10 DEF Range
  <2>2. ASSUME NEW i \in 1..(Len(scheduled) - n) PROVE Remaining(n)[i] \in Range(scheduled)
    <3>1. n + i \in 1..Len(scheduled) /\ Remaining(n)[i] = scheduled[n + i]
      BY <1>5, <1>10
    <3> QED
      BY <3>1, <1>5 DEF Range
  <2>3. \A i \in 1..n : i \in 1..Len(scheduled)
    BY <1>5
  <2>4. Range(scheduled) \subseteq {scheduled[i] : i \in 1..n} \cup Range(Remaining(n))
    BY <2>1, <1>5 DEF Range
  <2>5. Range(Remaining(n)) \subseteq Range(scheduled)
    BY <2>2, <1>10 DEF Range
  <2>6. {scheduled[i] : i \in 1..n} \subseteq Range(scheduled)
    BY <2>3, <1>5 DEF Range
  <2> QED
    BY <2>4, <2>5, <2>6
<1> QED
  BY <1>3, <1>4, <1>9, <1>10, <1>11

(***************************************************************************)
(* What a successful dequeue does to the copies: it takes the first of the *)
(* refreshed queue, counts the attempt and leases it.                      *)
(***************************************************************************)
LEMMA DequeueTakes ==
  ASSUME TypeOK, NEW w \in Workers, Dequeue(w)
  PROVE  \E o \in Orderings(Expired), n \in 0..Len(scheduled), copy \in Copy :
           /\ DueCount(n)
           /\ Range(RefreshedQueue(o, n)) = {copy} \cup Range(queue')
           /\ queue' \in Seq(Copy)
           /\ scheduled' = Remaining(n)
           /\ held' = [held EXCEPT ![w] = [id |-> copy.id, attempts |-> copy.attempts + 1]]
           /\ processing' = [KeptLeases EXCEPT ![copy.id] =
                [attempts |-> copy.attempts + 1, left |-> Visibility, owner |-> w]]
<1>1. PICK o \in Orderings(Expired), n \in 0..Len(scheduled) :
        /\ DueCount(n)
        /\ RefreshedQueue(o, n) # <<>>
        /\ LET copy == Head(RefreshedQueue(o, n))
               job  == [copy EXCEPT !.attempts = @ + 1]
           IN  /\ held' = [held EXCEPT ![w] = job]
               /\ processing' = [KeptLeases EXCEPT ![job.id] =
                    [attempts |-> job.attempts, left |-> Visibility, owner |-> w]]
        /\ queue' = Tail(RefreshedQueue(o, n))
        /\ scheduled' = Remaining(n)
  BY DEF Dequeue
<1> DEFINE q == RefreshedQueue(o, n)
           copy == Head(q)
<1>2. q \in Seq(Copy)
  BY RefreshMoves
<1>3. copy \in Copy /\ Tail(q) \in Seq(Copy) /\ Range(q) = {copy} \cup Range(Tail(q))
  BY <1>1, <1>2, HeadTailProperties, RangeHeadTail
<1>4. [copy EXCEPT !.attempts = @ + 1] = [id |-> copy.id, attempts |-> copy.attempts + 1]
  BY <1>3 DEF Copy
<1> HIDE DEF copy
<1> QED
  BY <1>1, <1>3, <1>4 DEF copy

LEMMA OlderType ==
  ASSUME NEW lease \in Lease
  PROVE  /\ Older(lease) \in Lease
         /\ Older(lease).attempts = lease.attempts
         /\ Older(lease).owner = lease.owner
         /\ Older(lease).left = IF lease.left < 0 THEN lease.left ELSE lease.left - 1
BY DEF Older, Lease

LEMMA SoonerType ==
  ASSUME NEW entry \in Delayed
  PROVE  Sooner(entry) \in Delayed /\ Sooner(entry).job = entry.job
BY DEF Sooner, Delayed

LEMMA KeptLeasesType ==
  ASSUME TypeOK
  PROVE  KeptLeases \in [Jobs -> Lease \cup {None}]
BY DEF TypeOK, KeptLeases

(***************************************************************************)
(* Every operation of the backend keeps its structures well formed.        *)
(***************************************************************************)
THEOREM TypeCorrect == Spec => []TypeOK
<1>1. Init => TypeOK
  BY QueueAssumption, EmptySeq DEF Init, TypeOK
<1>2. TypeOK /\ [Next]_vars => TypeOK'
  <2> SUFFICES ASSUME TypeOK, [Next]_vars PROVE TypeOK'
    OBVIOUS
  <2> USE QueueAssumption
  <2>1. ASSUME NEW j \in Jobs, Enqueue(j) PROVE TypeOK'
    <3>1. [id |-> j, attempts |-> 0] \in Copy
      BY DEF Copy
    <3>2. queue' \in Seq(Copy)
      BY <2>1, <3>1, AppendProperties DEF Enqueue, TypeOK
    <3> QED
      BY <2>1, <3>2 DEF Enqueue, TypeOK, Wake
  <2>2. ASSUME NEW j \in Jobs, NEW d \in 1..MaxDelay, Schedule(j, d) PROVE TypeOK'
    <3>1. PICK k \in 0..Len(scheduled) :
            scheduled' = SubSeq(scheduled, 1, k)
                         \o <<[job |-> [id |-> j, attempts |-> 0], left |-> d]>>
                         \o SubSeq(scheduled, k+1, Len(scheduled))
      BY <2>2 DEF Schedule
    <3>2. scheduled \in Seq(Delayed) /\ Len(scheduled) \in Nat
      BY LenProperties DEF TypeOK, Delayed
    <3>3. \A i \in 1..Len(scheduled) : scheduled[i] \in Delayed
      BY <3>2, ElementOfSeq
    <3>4. /\ SubSeq(scheduled, 1, k) \in Seq(Delayed)
          /\ SubSeq(scheduled, k+1, Len(scheduled)) \in Seq(Delayed)
      BY <3>2, <3>3, SubSeqProperties
    <3>5. <<[job |-> [id |-> j, attempts |-> 0], left |-> d]>> \in Seq(Delayed)
      BY DEF Delayed, Copy
    <3>6. scheduled' \in Seq(Delayed)
      BY <3>1, <3>4, <3>5, ConcatProperties
    <3> QED
      BY <2>2, <3>6 DEF Schedule, TypeOK, Delayed
  <2>3. ASSUME NEW w \in Workers, Dequeue(w) PROVE TypeOK'
    <3>1. PICK o \in Orderings(Expired), n \in 0..Len(scheduled), copy \in Copy :
            /\ queue' \in Seq(Copy)
            /\ scheduled' = Remaining(n)
            /\ held' = [held EXCEPT ![w] = [id |-> copy.id, attempts |-> copy.attempts + 1]]
            /\ processing' = [KeptLeases EXCEPT ![copy.id] =
                 [attempts |-> copy.attempts + 1, left |-> Visibility, owner |-> w]]
      BY <2>3, DequeueTakes
    <3>2. scheduled' \in Seq(Delayed)
      BY <3>1, RefreshMoves
    <3>3. [id |-> copy.id, attempts |-> copy.attempts + 1] \in Copy
      BY DEF Copy
    <3>4. [attempts |-> copy.attempts + 1, left |-> Visibility, owner |-> w] \in Lease
      BY DEF Copy, Lease
    <3>5. processing' \in [Jobs -> Lease \cup {None}]
      BY <3>1, <3>4, KeptLeasesType DEF Copy
    <3>6. held' \in [Workers -> Copy \cup {None}]
      BY <3>1, <3>3 DEF TypeOK
    <3>7. mode' = [mode EXCEPT ![w] = "busy"] /\ mode[w] # "busy"
      BY <2>3 DEF Dequeue
    <3>8. \A x \in Workers : mode'[x] = "busy" <=> held'[x] # None
      BY <3>1, <3>3, <3>7 DEF TypeOK
    <3>9. lapsed' \subseteq Jobs /\ stale' \subseteq Workers
      BY <2>3 DEF Dequeue, RecordRestore, TypeOK, Expired, Leased, Lease
    <3>10. UNCHANGED <<sent, done, dropped, delayed, lapses>>
      BY <2>3 DEF Dequeue
    <3> QED
      BY <3>1, <3>2, <3>5, <3>6, <3>7, <3>8, <3>9, <3>10 DEF TypeOK, Delayed
  <2>4. ASSUME NEW w \in Workers, WaitForJob(w) PROVE TypeOK'
    BY <2>4 DEF WaitForJob, TypeOK, backend, history
  <2>5. ASSUME NEW w \in Workers, DequeueTimeout(w) PROVE TypeOK'
    BY <2>5 DEF DequeueTimeout, TypeOK, backend, history
  <2>6. ASSUME NEW w \in Workers, Acknowledge(w) PROVE TypeOK'
    <3>1. held[w] \in Copy
      BY <2>6 DEF Acknowledge, TypeOK
    <3> QED
      BY <2>6, <3>1 DEF Acknowledge, TypeOK, Copy
  <2>7. ASSUME NEW w \in Workers, NEW requeue \in BOOLEAN, Reject(w, requeue) PROVE TypeOK'
    <3>1. held[w] \in Copy /\ held[w].id \in Jobs
      BY <2>7 DEF Reject, TypeOK, Copy
    <3>2. Append(queue, held[w]) \in Seq(Copy)
      BY <3>1, AppendProperties DEF TypeOK
    <3>3. queue' \in Seq(Copy) /\ dropped' \subseteq Jobs
      BY <2>7, <3>1, <3>2 DEF Reject, TypeOK
    <3>4. /\ mode' \in [Workers -> {"idle", "waiting", "woken", "busy"}]
          /\ \A x \in Workers : mode'[x] = "busy" <=> held'[x] # None
      BY <2>7 DEF Reject, TypeOK, Wake
    <3> QED
      BY <2>7, <3>1, <3>3, <3>4 DEF Reject, TypeOK
  <2>8. ASSUME NEW w \in Workers, ExtendVisibility(w) PROVE TypeOK'
    <3>1. held[w].id \in Jobs /\ processing[held[w].id] \in Lease
      BY <2>8 DEF ExtendVisibility, TypeOK, Copy
    <3>2. ExtendedLeft(processing[held[w].id].left) \in Int
      BY <3>1 DEF ExtendedLeft, Lease
    <3>3. [processing[held[w].id] EXCEPT !.left = ExtendedLeft(@)] \in Lease
      BY <3>1, <3>2 DEF Lease
    <3> QED
      BY <2>8, <3>1, <3>3 DEF ExtendVisibility, TypeOK, history
  <2>9. CASE Refresh
    <3>1. PICK o \in Orderings(Expired), n \in 0..Len(scheduled) :
            queue' = RefreshedQueue(o, n) /\ scheduled' = Remaining(n)
      BY <2>9 DEF Refresh
    <3>2. queue' \in Seq(Copy) /\ scheduled' \in Seq(Delayed)
      BY <3>1, RefreshMoves
    <3>3. lapsed' \subseteq Jobs /\ stale' \subseteq Workers
      BY <2>9 DEF Refresh, RecordRestore, TypeOK, Expired, Leased, Lease
    <3> QED
      BY <2>9, <3>2, <3>3, KeptLeasesType DEF Refresh, TypeOK, Delayed
  <2>10. CASE ActiveCount
    <3>1. PICK o \in Orderings(Expired) : queue' = Restored(o) \o queue
      BY <2>10 DEF ActiveCount
    <3>2. Restored(o) \in Seq(Copy)
      <4>1. 0 \in 0..Len(scheduled)
        BY LenProperties DEF TypeOK
      <4> QED
        BY <4>1, RefreshMoves
    <3>3. queue' \in Seq(Copy)
      BY <3>1, <3>2, ConcatProperties DEF TypeOK
    <3>4. lapsed' \subseteq Jobs /\ stale' \subseteq Workers
      BY <2>10 DEF ActiveCount, RecordRestore, TypeOK, Expired, Leased, Lease
    <3> QED
      BY <2>10, <3>3, <3>4, KeptLeasesType DEF ActiveCount, TypeOK
  <2>11. CASE Tick
    <3>1. processing' \in [Jobs -> Lease \cup {None}]
      BY <2>11, OlderType DEF Tick, TypeOK
    <3>2. scheduled' \in Seq(Delayed)
      <4>1. scheduled \in Seq(Delayed) /\ Len(scheduled) \in Nat /\ DOMAIN scheduled = 1..Len(scheduled)
        BY LenProperties DEF TypeOK, Delayed
      <4>2. \A i \in 1..Len(scheduled) : scheduled[i] \in Delayed
        BY <4>1, ElementOfSeq
      <4>3. scheduled' \in [1..Len(scheduled) -> Delayed]
        BY <2>11, <4>1, <4>2, SoonerType DEF Tick
      <4> QED
        BY <4>1, <4>3, SeqDef
    <3>3. lapses' \in [Jobs -> Nat]
      BY <2>11 DEF Tick, TypeOK
    <3> QED
      BY <2>11, <3>1, <3>2, <3>3 DEF Tick, TypeOK, Delayed
  <2>12. CASE UNCHANGED vars
    BY <2>12 DEF vars, backend, history, TypeOK
  <2> QED
    BY <2>1, <2>2, <2>3, <2>4, <2>5, <2>6, <2>7, <2>8, <2>9, <2>10, <2>11, <2>12
       DEF Next, Finish
<1> QED
  BY <1>1, <1>2, PTL DEF Spec

------------------------------------------------------------------------------
(***************************************************************************)
(* Which jobs the backend stores, before and after each operation.  These  *)
(* are the facts both the conservation of jobs and the refinement of       *)
(* AtLeastOnce rest on.                                                    *)
(***************************************************************************)
Holds(copies, entries, leases, x) ==
  \/ \E c \in copies : c.id = x
  \/ \E e \in entries : e.job.id = x
  \/ leases[x] # None

LEMMA StoredHolds ==
  /\ \A x : Stored(x) <=> Holds(Range(queue), Range(scheduled), processing, x)
  /\ \A x : Stored(x)' <=> Holds(Range(queue'), Range(scheduled'), processing', x)
BY DEF Stored, Holds, InQueue, InScheduled, Range

LEMMA EnqueueStores ==
  ASSUME TypeOK, NEW j \in Jobs, Enqueue(j)
  PROVE  \A x \in Jobs : Stored(x)' <=> Stored(x) \/ x = j
<1>1. [id |-> j, attempts |-> 0] \in Copy
  BY DEF Copy
<1>2. Range(queue') = Range(queue) \cup {[id |-> j, attempts |-> 0]}
  BY <1>1, RangeAppend DEF Enqueue, TypeOK
<1> QED
  BY <1>2, StoredHolds DEF Enqueue, Holds

LEMMA ScheduleStores ==
  ASSUME TypeOK, NEW j \in Jobs, NEW d \in 1..MaxDelay, Schedule(j, d)
  PROVE  /\ \A x \in Jobs : Stored(x)' <=> Stored(x) \/ x = j
         /\ Range(scheduled') = Range(scheduled)
              \cup {[job |-> [id |-> j, attempts |-> 0], left |-> d]}
<1> DEFINE e == [job |-> [id |-> j, attempts |-> 0], left |-> d]
<1>1. PICK k \in 0..Len(scheduled) :
        scheduled' = SubSeq(scheduled, 1, k) \o <<e>>
                     \o SubSeq(scheduled, k+1, Len(scheduled))
  BY DEF Schedule
<1>2. scheduled \in Seq(Delayed) /\ Len(scheduled) \in Nat /\ DOMAIN scheduled = 1..Len(scheduled)
  BY LenProperties DEF TypeOK, Delayed
<1>3. e \in Delayed /\ <<e>> \in Seq(Delayed) /\ Range(<<e>>) = {e}
  BY DEF Delayed, Copy, Range
<1> DEFINE front == SubSeq(scheduled, 1, k)
           back  == SubSeq(scheduled, k+1, Len(scheduled))
<1>4. /\ front \in Seq(Delayed) /\ back \in Seq(Delayed)
      /\ front \o back = scheduled
  <2>1. \A i \in 1..Len(scheduled) : scheduled[i] \in Delayed
    BY <1>2, ElementOfSeq
  <2>2. front \in Seq(Delayed) /\ back \in Seq(Delayed)
    BY <2>1, <1>2, SubSeqProperties
  <2>3. front \o back = SubSeq(scheduled, 1, Len(scheduled))
    <3>1. /\ 1 \in 1..Len(scheduled) + 1 /\ k \in (1 - 1)..Len(scheduled)
          /\ Len(scheduled) \in k..Len(scheduled)
      BY <1>2
    <3> QED
      BY <3>1, <1>2, ConcatAdjacentSubSeq
  <2> QED
    BY <2>2, <2>3, <1>2, SubSeqFull
<1> HIDE DEF front, back, e
<1>5. Range(scheduled) = Range(front) \cup Range(back)
  BY <1>4, RangeConcatenation
<1>6. front \o <<e>> \in Seq(Delayed) /\ Range(front \o <<e>>) = Range(front) \cup {e}
  <2> DEFINE one == <<e>>
  <2>1. one \in Seq(Delayed) /\ Range(one) = {e}
    BY <1>3
  <2> HIDE DEF one
  <2>2. front \o one \in Seq(Delayed)
    BY <2>1, <1>4, ConcatProperties
  <2>3. Range(front \o one) = Range(front) \cup Range(one)
    BY <2>1, <1>4, RangeConcatenation
  <2> QED
    BY <2>1, <2>2, <2>3 DEF one
<1>7. Range(scheduled') = Range(scheduled) \cup {e}
  <2> DEFINE first == front \o <<e>>
  <2>1. scheduled' = first \o back
    BY <1>1 DEF front, back
  <2>2. first \in Seq(Delayed) /\ Range(first) = Range(front) \cup {e}
    BY <1>6
  <2> HIDE DEF first
  <2>3. Range(first \o back) = Range(first) \cup Range(back)
    BY <2>2, <1>4, RangeConcatenation
  <2> QED
    BY <2>1, <2>2, <2>3, <1>5
<1>8. \A x \in Jobs : Stored(x)' <=> Stored(x) \/ x = j
  BY <1>7, StoredHolds DEF Schedule, Holds, e
<1> QED
  BY <1>7, <1>8 DEF e

\* The jobs of the restored copies are those whose lease expired.
LEMMA RestoredIds ==
  ASSUME TypeOK, NEW o \in Orderings(Expired), NEW x
  PROVE  (\E c \in Range(Restored(o)) : c.id = x) <=> x \in Expired
<1>1. 0 \in 0..Len(scheduled)
  BY LenProperties DEF TypeOK
<1>2. Range(Restored(o)) =
        {[id |-> j, attempts |-> processing[j].attempts] : j \in Expired}
  BY <1>1, RefreshMoves
<1>3. ASSUME x \in Expired PROVE \E c \in Range(Restored(o)) : c.id = x
  <2>1. [id |-> x, attempts |-> processing[x].attempts] \in Range(Restored(o))
    BY <1>2, <1>3
  <2> QED
    BY <2>1
<1>4. ASSUME NEW c \in Range(Restored(o)) PROVE c.id \in Expired
  <2>1. PICK j \in Expired : c = [id |-> j, attempts |-> processing[j].attempts]
    BY <1>2
  <2> QED
    BY <2>1
<1> QED
  BY <1>3, <1>4

LEMMA RefreshStores ==
  ASSUME TypeOK, NEW o \in Orderings(Expired), NEW n \in 0..Len(scheduled), NEW x \in Jobs
  PROVE  Holds(Range(RefreshedQueue(o, n)), Range(Remaining(n)), KeptLeases, x)
           <=> Stored(x)
<1>1. (\E c \in Range(RefreshedQueue(o, n)) : c.id = x)
        <=> \/ x \in Expired
            \/ \E c \in Range(queue) : c.id = x
            \/ \E i \in 1..n : scheduled[i].job.id = x
  <2>1. /\ Range(Restored(o)) =
             {[id |-> j, attempts |-> processing[j].attempts] : j \in Expired}
        /\ Range(RefreshedQueue(o, n)) =
             Range(Restored(o)) \cup Range(queue) \cup {scheduled[i].job : i \in 1..n}
    BY RefreshMoves
  <2>2. (\E c \in Range(Restored(o)) : c.id = x) <=> x \in Expired
    BY RestoredIds
  <2>3. (\E c \in {scheduled[i].job : i \in 1..n} : c.id = x)
          <=> \E i \in 1..n : scheduled[i].job.id = x
    OBVIOUS
  <2> QED
    BY <2>1, <2>2, <2>3
<1>2. (\E e \in Range(scheduled) : e.job.id = x)
        <=> \/ \E i \in 1..n : scheduled[i].job.id = x
            \/ \E e \in Range(Remaining(n)) : e.job.id = x
  <2>1. Range(scheduled) = {scheduled[i] : i \in 1..n} \cup Range(Remaining(n))
    BY RefreshMoves
  <2>2. (\E e \in {scheduled[i] : i \in 1..n} : e.job.id = x)
          <=> \E i \in 1..n : scheduled[i].job.id = x
    OBVIOUS
  <2> QED
    BY <2>1, <2>2
<1>3. processing[x] # None <=> x \in Expired \/ KeptLeases[x] # None
  BY DEF KeptLeases, Expired, Leased
<1> QED
  BY <1>1, <1>2, <1>3, StoredHolds DEF Holds

LEMMA DequeueStores ==
  ASSUME TypeOK, NEW w \in Workers, Dequeue(w)
  PROVE  \E j \in Jobs :
           /\ Stored(j)
           /\ held' = [held EXCEPT ![w] = [id |-> j, attempts |-> held'[w].attempts]]
           /\ \A x \in Jobs : Stored(x)' <=> Stored(x)
<1>1. PICK o \in Orderings(Expired), n \in 0..Len(scheduled), copy \in Copy :
        /\ DueCount(n)
        /\ Range(RefreshedQueue(o, n)) = {copy} \cup Range(queue')
        /\ queue' \in Seq(Copy)
        /\ scheduled' = Remaining(n)
        /\ held' = [held EXCEPT ![w] = [id |-> copy.id, attempts |-> copy.attempts + 1]]
        /\ processing' = [KeptLeases EXCEPT ![copy.id] =
             [attempts |-> copy.attempts + 1, left |-> Visibility, owner |-> w]]
  BY DequeueTakes
<1>2. copy.id \in Jobs
  BY DEF Copy
<1>3. Stored(copy.id)
  BY <1>1, <1>2, RefreshStores DEF Holds
<1>4. KeptLeases \in [Jobs -> Lease \cup {None}]
  BY KeptLeasesType
<1>5. [attempts |-> copy.attempts + 1, left |-> Visibility, owner |-> w] # None
  <2>1. [attempts |-> copy.attempts + 1, left |-> Visibility, owner |-> w] \in Lease
    BY QueueAssumption DEF Lease, Copy
  <2> QED
    BY <2>1, QueueAssumption
<1>6. ASSUME NEW x \in Jobs PROVE Stored(x)' <=> Stored(x)
  <2>1. Stored(x)' <=> Holds(Range(queue'), Range(Remaining(n)), processing', x)
    BY <1>1, StoredHolds
  <2>2. CASE x = copy.id
    BY <2>1, <2>2, <1>1, <1>2, <1>3, <1>4, <1>5 DEF Holds
  <2>3. CASE x # copy.id
    <3>1. processing'[x] = KeptLeases[x]
      BY <2>3, <1>1, <1>2, <1>4
    <3>2. (\E c \in Range(queue') : c.id = x)
            <=> (\E c \in Range(RefreshedQueue(o, n)) : c.id = x)
      BY <2>3, <1>1
    <3> QED
      BY <2>1, <3>1, <3>2, RefreshStores DEF Holds
  <2> QED
    BY <2>2, <2>3
<1>7. held'[w].attempts = copy.attempts + 1
  BY <1>1 DEF TypeOK
<1> QED
  BY <1>1, <1>2, <1>3, <1>6, <1>7

\* An acknowledgement or a discarding reject takes away at most the lease of
\* the job reported on.
LEMMA LeaseCleared ==
  ASSUME TypeOK, NEW w \in Workers, held[w] # None,
         processing' = [processing EXCEPT ![held[w].id] = None],
         UNCHANGED <<queue, scheduled>>
  PROVE  \A x \in Jobs :
           /\ Stored(x)' => Stored(x)
           /\ x # held[w].id => (Stored(x)' <=> Stored(x))
<1>1. held[w].id \in Jobs
  BY DEF TypeOK, Copy
<1> QED
  BY <1>1, StoredHolds DEF TypeOK, Holds

LEMMA RequeueStores ==
  ASSUME TypeOK, NEW w \in Workers, held[w] # None,
         processing' = [processing EXCEPT ![held[w].id] = None],
         queue' = Append(queue, held[w]), UNCHANGED scheduled
  PROVE  \A x \in Jobs : Stored(x)' <=> Stored(x) \/ x = held[w].id
<1>1. held[w] \in Copy /\ held[w].id \in Jobs
  BY DEF TypeOK, Copy
<1>2. Range(queue') = Range(queue) \cup {held[w]}
  BY <1>1, RangeAppend DEF TypeOK
<1> QED
  BY <1>1, <1>2, StoredHolds DEF TypeOK, Holds

LEMMA ExtensionStores ==
  ASSUME TypeOK, NEW w \in Workers, ExtendVisibility(w)
  PROVE  \A x \in Jobs : Stored(x)' <=> Stored(x)
<1> DEFINE j == held[w].id
           lease == [processing[j] EXCEPT !.left = ExtendedLeft(@)]
<1>1. j \in Jobs /\ processing[j] \in Lease
  BY DEF ExtendVisibility, TypeOK, Copy
<1>2. lease \in Lease
  BY <1>1, QueueAssumption DEF ExtendedLeft, Lease
<1>3. lease # None
  BY <1>2, QueueAssumption
<1>4. processing' = [processing EXCEPT ![j] = lease] /\ UNCHANGED <<queue, scheduled>>
  BY DEF ExtendVisibility
<1> HIDE DEF lease
<1> QED
  BY <1>1, <1>3, <1>4, StoredHolds DEF Holds, TypeOK, ExtendVisibility

LEMMA InspectionStores ==
  ASSUME TypeOK, Refresh \/ ActiveCount
  PROVE  \A x \in Jobs : Stored(x)' <=> Stored(x)
<1>1. CASE Refresh
  <2>1. PICK o \in Orderings(Expired), n \in 0..Len(scheduled) :
          queue' = RefreshedQueue(o, n) /\ scheduled' = Remaining(n)
    BY <1>1 DEF Refresh
  <2>2. processing' = KeptLeases
    BY <1>1 DEF Refresh
  <2> QED
    BY <2>1, <2>2, RefreshStores, StoredHolds
<1>2. CASE ActiveCount
  <2>1. PICK o \in Orderings(Expired) : queue' = Restored(o) \o queue
    BY <1>2 DEF ActiveCount
  <2>2. 0 \in 0..Len(scheduled)
    BY LenProperties DEF TypeOK
  <2>3. Restored(o) \in Seq(Copy) /\ queue \in Seq(Copy)
    BY <2>2, RefreshMoves DEF TypeOK
  <2>4. Range(queue') = Range(Restored(o)) \cup Range(queue)
    BY <2>1, <2>3, RangeConcatenation
  <2>5. \A x : (\E c \in Range(Restored(o)) : c.id = x) <=> x \in Expired
    BY RestoredIds
  <2>6. processing' = KeptLeases /\ scheduled' = scheduled
    BY <1>2 DEF ActiveCount
  <2>7. ASSUME NEW x \in Jobs
        PROVE  processing[x] # None <=> x \in Expired \/ KeptLeases[x] # None
    BY DEF KeptLeases, Expired, Leased
  <2>8. ASSUME NEW x \in Jobs
        PROVE  (\E c \in Range(queue') : c.id = x)
                 <=> x \in Expired \/ \E c \in Range(queue) : c.id = x
    BY <2>4, <2>5
  <2> QED
    BY <2>6, <2>7, <2>8, StoredHolds DEF Holds
<1> QED
  BY <1>1, <1>2

LEMMA TickStores ==
  ASSUME TypeOK, Tick
  PROVE  \A x \in Jobs : Stored(x)' <=> Stored(x)
<1>1. scheduled \in Seq(Delayed) /\ DOMAIN scheduled = 1..Len(scheduled)
  BY LenProperties DEF TypeOK, Delayed
<1>2. \A i \in DOMAIN scheduled : scheduled[i] \in Delayed
  BY <1>1, ElementOfSeq
<1>3. /\ DOMAIN scheduled' = DOMAIN scheduled
      /\ \A i \in DOMAIN scheduled : scheduled'[i].job = scheduled[i].job
  BY <1>2, SoonerType DEF Tick
<1>4. ASSUME NEW x \in Jobs PROVE processing'[x] # None <=> processing[x] # None
  BY OlderType, QueueAssumption DEF Tick, TypeOK
<1> QED
  BY <1>3, <1>4 DEF Tick, Stored, InQueue, InScheduled

------------------------------------------------------------------------------
(***************************************************************************)
(* A job nobody settled keeps a copy in the backend: a worker that reports *)
(* takes away no copy of another job, and of its own job only when it      *)
(* settles it, however late it reports and whoever holds the lease by then.*)
(***************************************************************************)
THEOREM NothingLostHolds == Spec => []NothingLost
<1>1. Init => NothingLost
  BY DEF Init, NothingLost
<1>2. TypeOK /\ NothingLost /\ [Next]_vars => NothingLost'
  <2> SUFFICES ASSUME TypeOK, NothingLost, [Next]_vars PROVE NothingLost'
    OBVIOUS
  <2> USE DEF NothingLost, Settled
  <2>0. sent \subseteq Jobs
    BY DEF TypeOK
  <2>1. ASSUME NEW j \in Jobs, Enqueue(j) PROVE NothingLost'
    BY <2>0, <2>1, EnqueueStores DEF Enqueue
  <2>2. ASSUME NEW j \in Jobs, NEW d \in 1..MaxDelay, Schedule(j, d) PROVE NothingLost'
    BY <2>0, <2>2, ScheduleStores DEF Schedule
  <2>3. ASSUME NEW w \in Workers, Dequeue(w) PROVE NothingLost'
    BY <2>0, <2>3, DequeueStores DEF Dequeue
  <2>4. ASSUME NEW w \in Workers, WaitForJob(w) \/ DequeueTimeout(w) PROVE NothingLost'
    BY <2>4 DEF WaitForJob, DequeueTimeout, backend, history, Stored, InQueue, InScheduled
  <2>5. ASSUME NEW w \in Workers, Acknowledge(w) PROVE NothingLost'
    <3>1. held[w] # None
      BY <2>5 DEF Acknowledge, TypeOK
    <3>2. \A x \in Jobs : x # held[w].id => (Stored(x)' <=> Stored(x))
      BY <2>5, <3>1, LeaseCleared DEF Acknowledge
    <3> QED
      BY <2>0, <2>5, <3>2 DEF Acknowledge
  <2>6. ASSUME NEW w \in Workers, NEW requeue \in BOOLEAN, Reject(w, requeue) PROVE NothingLost'
    <3>1. held[w] # None
      BY <2>6 DEF Reject, TypeOK
    <3>2. CASE requeue /\ MayRequeue(held[w])
      <4>1. \A x \in Jobs : Stored(x)' <=> Stored(x) \/ x = held[w].id
        BY <2>6, <3>1, <3>2, RequeueStores DEF Reject
      <4> QED
        BY <2>0, <2>6, <3>2, <4>1 DEF Reject
    <3>3. CASE ~(requeue /\ MayRequeue(held[w]))
      <4>1. \A x \in Jobs : x # held[w].id => (Stored(x)' <=> Stored(x))
        BY <2>6, <3>1, <3>3, LeaseCleared DEF Reject
      <4> QED
        BY <2>0, <2>6, <3>3, <4>1 DEF Reject
    <3> QED
      BY <3>2, <3>3
  <2>7. ASSUME NEW w \in Workers, ExtendVisibility(w) PROVE NothingLost'
    <3>1. \A x \in Jobs : Stored(x)' <=> Stored(x)
      BY <2>7, ExtensionStores
    <3> QED
      BY <2>0, <2>7, <3>1 DEF ExtendVisibility, history
  <2>8. CASE Refresh \/ ActiveCount
    BY <2>0, <2>8, InspectionStores DEF Refresh, ActiveCount
  <2>9. CASE Tick
    BY <2>0, <2>9, TickStores DEF Tick
  <2>10. CASE UNCHANGED vars
    BY <2>10 DEF vars, backend, history, Stored, InQueue, InScheduled
  <2> QED
    BY <2>1, <2>2, <2>3, <2>4, <2>5, <2>6, <2>7, <2>8, <2>9, <2>10 DEF Next, Finish
<1> QED
  BY <1>1, <1>2, TypeCorrect, PTL DEF Spec

(***************************************************************************)
(* The in-memory backend implements the protocol: each of its operations   *)
(* is a step of AtLeastOnce or changes nothing the protocol speaks of.     *)
(***************************************************************************)
THEOREM KeepsPromiseHolds == Spec => KeepsPromise
<1>1. Init => Promise!Init
  BY DEF Init, Promise!Init, StoredJobs, RunningJob, Settled, Stored, InQueue, InScheduled
<1>2. TypeOK /\ [Next]_vars => [Promise!Next]_Promise!vars
  <2> SUFFICES ASSUME TypeOK, [Next]_vars PROVE [Promise!Next]_Promise!vars
    OBVIOUS
  <2> USE DEF StoredJobs, Settled
  <2> DEFINE Hidden == StoredJobs' = StoredJobs /\ RunningJob' = RunningJob
                       /\ Settled' = Settled /\ sent' = sent
  <2>0. Hidden => UNCHANGED Promise!vars
    BY DEF Promise!vars
  <2>1. ASSUME NEW j \in Jobs, Enqueue(j) PROVE Promise!Submit(j)
    BY <2>1, EnqueueStores DEF Enqueue, Promise!Submit, RunningJob
  <2>2. ASSUME NEW j \in Jobs, NEW d \in 1..MaxDelay, Schedule(j, d) PROVE Promise!Submit(j)
    BY <2>2, ScheduleStores DEF Schedule, Promise!Submit, RunningJob
  <2>3. ASSUME NEW w \in Workers, Dequeue(w) PROVE \E j \in Jobs : Promise!Deliver(w, j)
    <3>1. PICK j \in Jobs :
            /\ Stored(j)
            /\ held' = [held EXCEPT ![w] = [id |-> j, attempts |-> held'[w].attempts]]
            /\ \A x \in Jobs : Stored(x)' <=> Stored(x)
      BY <2>3, DequeueStores
    <3>2. held[w] = None
      BY <2>3 DEF Dequeue, TypeOK
    <3>3. held'[w].id = j /\ held'[w] # None
      <4>1. mode'[w] = "busy" /\ held'[w] = [id |-> j, attempts |-> held'[w].attempts]
        BY <2>3, <3>1 DEF Dequeue, TypeOK
      <4>2. PICK c \in Copy : held'[w] = [id |-> c.id, attempts |-> c.attempts + 1]
        BY <2>3, DequeueTakes DEF TypeOK
      <4>3. held'[w] \in Copy
        BY <4>2 DEF Copy
      <4> QED
        BY <4>1, <4>3, QueueAssumption
    <3>4. RunningJob' = [RunningJob EXCEPT ![w] = j]
      BY <3>1, <3>3 DEF RunningJob, TypeOK
    <3>5. RunningJob[w] = None
      BY <3>2 DEF RunningJob
    <3> QED
      BY <2>3, <3>1, <3>4, <3>5 DEF Dequeue, Promise!Deliver
  <2>4. ASSUME NEW w \in Workers, WaitForJob(w) \/ DequeueTimeout(w) PROVE Hidden
    BY <2>4 DEF WaitForJob, DequeueTimeout, backend, history, Stored, InQueue,
                InScheduled, RunningJob
  <2>5. ASSUME NEW w \in Workers, Acknowledge(w) PROVE Promise!Settle(w, held[w].id)
    <3>1. held[w] # None
      BY <2>5 DEF Acknowledge, TypeOK
    <3>2. \A x \in Jobs : /\ Stored(x)' => Stored(x)
                          /\ x # held[w].id => (Stored(x)' <=> Stored(x))
      BY <2>5, <3>1, LeaseCleared DEF Acknowledge
    <3>3. RunningJob' = [RunningJob EXCEPT ![w] = None] /\ RunningJob[w] = held[w].id
      BY <2>5, <3>1 DEF Acknowledge, RunningJob, TypeOK
    <3>4. StoredJobs' \in {StoredJobs, StoredJobs \ {held[w].id}}
      BY <3>2
    <3> QED
      BY <2>5, <3>3, <3>4 DEF Acknowledge, Promise!Settle
  <2>6. ASSUME NEW w \in Workers, NEW requeue \in BOOLEAN, Reject(w, requeue)
        PROVE  Promise!Settle(w, held[w].id) \/ Promise!Return(w, held[w].id)
    <3>1. held[w] # None
      BY <2>6 DEF Reject, TypeOK
    <3>2. RunningJob' = [RunningJob EXCEPT ![w] = None] /\ RunningJob[w] = held[w].id
      BY <2>6, <3>1 DEF Reject, RunningJob, TypeOK
    <3>3. CASE requeue /\ MayRequeue(held[w])
      <4>1. \A x \in Jobs : Stored(x)' <=> Stored(x) \/ x = held[w].id
        BY <2>6, <3>1, <3>3, RequeueStores DEF Reject
      <4>2. held[w].id \in Jobs
        BY <3>1 DEF TypeOK, Copy
      <4> QED
        BY <2>6, <3>2, <3>3, <4>1, <4>2 DEF Reject, Promise!Return
    <3>4. CASE ~(requeue /\ MayRequeue(held[w]))
      <4>1. \A x \in Jobs : /\ Stored(x)' => Stored(x)
                            /\ x # held[w].id => (Stored(x)' <=> Stored(x))
        BY <2>6, <3>1, <3>4, LeaseCleared DEF Reject
      <4>2. StoredJobs' \in {StoredJobs, StoredJobs \ {held[w].id}}
        BY <4>1
      <4> QED
        BY <2>6, <3>2, <3>4, <4>2 DEF Reject, Promise!Settle
    <3> QED
      BY <3>3, <3>4
  <2>7. ASSUME NEW w \in Workers, ExtendVisibility(w) PROVE Hidden
    BY <2>7, ExtensionStores DEF ExtendVisibility, history, RunningJob
  <2>8. ASSUME Refresh \/ ActiveCount PROVE Hidden
    BY <2>8, InspectionStores DEF Refresh, ActiveCount, RunningJob
  <2>9. ASSUME Tick PROVE Hidden
    BY <2>9, TickStores DEF Tick, RunningJob
  <2>10. ASSUME UNCHANGED vars PROVE Hidden
    BY <2>10 DEF vars, backend, history, Stored, InQueue, InScheduled, RunningJob
  <2>11. ASSUME NEW w \in Workers, held[w] # None PROVE held[w].id \in Jobs
    BY <2>11 DEF TypeOK, Copy
  <2>12. ASSUME NEW w \in Workers, Finish(w)
         PROVE  \E j \in Jobs : Promise!Settle(w, j) \/ Promise!Return(w, j)
    <3>1. held[w] # None
      BY <2>12 DEF Finish, Acknowledge, Reject, TypeOK
    <3>2. held[w].id \in Jobs
      BY <3>1, <2>11
    <3> QED
      BY <2>5, <2>6, <2>12, <3>2 DEF Finish
  <2> HIDE DEF Hidden
  <2> QED
    BY <2>0, <2>1, <2>2, <2>3, <2>4, <2>7, <2>8, <2>9, <2>10, <2>12 DEF Next, Promise!Next
<1> QED
  BY <1>1, <1>2, TypeCorrect, PTL DEF Spec, KeepsPromise, Promise!Spec

------------------------------------------------------------------------------
(***************************************************************************)
(* A job is attempted at most max_attempts times, and once more for every  *)
(* lease of it that ran out.                                               *)
(***************************************************************************)
\* AttemptsBounded with the elements of the sequences in place of their indices.
AttemptsInv ==
  /\ \A w \in Workers : held[w] # None => held[w].attempts <= Limit(held[w].id)
  /\ \A c \in Range(queue) : c.attempts < Limit(c.id)
  /\ \A e \in Range(scheduled) : e.job.attempts < Limit(e.job.id)
  /\ \A j \in Leased : processing[j].attempts <= Limit(j)
  /\ \A j \in Expired : processing[j].attempts < Limit(j)

LEMMA AttemptsInvIsBounded == AttemptsBounded <=> AttemptsInv
BY DEF AttemptsBounded, AttemptsInv, Range

THEOREM AttemptsBoundedHolds == Spec => []AttemptsBounded
<1>1. Init => AttemptsInv
  BY DEF Init, AttemptsInv, Leased, Expired, Range
<1>2. TypeOK /\ AttemptsInv /\ [Next]_vars => AttemptsInv'
  <2> SUFFICES ASSUME TypeOK, AttemptsInv, [Next]_vars PROVE AttemptsInv'
    OBVIOUS
  <2> USE QueueAssumption
  <2>0. /\ \A j \in Jobs : Limit(j) \in Nat /\ Limit(j) > 0
        /\ \A j \in Leased : processing[j] \in Lease
        /\ Expired \subseteq Leased /\ Leased \subseteq Jobs
    BY DEF TypeOK, Limit, Leased, Expired
  <2>1. ASSUME NEW j \in Jobs, Enqueue(j) PROVE AttemptsInv'
    <3>1. [id |-> j, attempts |-> 0] \in Copy
      BY DEF Copy
    <3>2. Range(queue') = Range(queue) \cup {[id |-> j, attempts |-> 0]}
      BY <2>1, <3>1, RangeAppend DEF Enqueue, TypeOK
    <3> QED
      BY <2>0, <2>1, <3>2 DEF Enqueue, AttemptsInv, Limit, Leased, Expired
  <2>2. ASSUME NEW j \in Jobs, NEW d \in 1..MaxDelay, Schedule(j, d) PROVE AttemptsInv'
    <3>1. Range(scheduled') = Range(scheduled)
            \cup {[job |-> [id |-> j, attempts |-> 0], left |-> d]}
      BY <2>2, ScheduleStores
    <3> QED
      BY <2>0, <2>2, <3>1 DEF Schedule, AttemptsInv, Limit, Leased, Expired
  <2>3. \* the copies of a refreshed queue may be attempted once more
        ASSUME NEW o \in Orderings(Expired), NEW n \in 0..Len(scheduled)
        PROVE  /\ \A c \in Range(RefreshedQueue(o, n)) : c.attempts < Limit(c.id)
               /\ \A c \in Range(Restored(o)) : c.attempts < Limit(c.id)
               /\ Range(Remaining(n)) \subseteq Range(scheduled)
    <3>1. ASSUME NEW c \in Range(Restored(o)) PROVE c.attempts < Limit(c.id)
      <4>1. PICK j \in Expired : c = [id |-> j, attempts |-> processing[j].attempts]
        BY <3>1, RefreshMoves
      <4> QED
        BY <4>1 DEF AttemptsInv
    <3>2. ASSUME NEW i \in 1..n PROVE scheduled[i].job.attempts < Limit(scheduled[i].job.id)
      <4>1. scheduled[i] \in Range(scheduled)
        BY RefreshMoves
      <4> QED
        BY <4>1 DEF AttemptsInv
    <3>3. Range(Remaining(n)) \subseteq Range(scheduled)
      BY RefreshMoves
    <3>4. ASSUME NEW c \in Range(RefreshedQueue(o, n)) PROVE c.attempts < Limit(c.id)
      <4>1. \/ c \in Range(Restored(o))
            \/ c \in Range(queue)
            \/ \E i \in 1..n : c = scheduled[i].job
        BY <3>4, RefreshMoves
      <4> QED
        BY <4>1, <3>1, <3>2 DEF AttemptsInv
    <3> QED
      BY <3>1, <3>3, <3>4
  <2>4. /\ \A j \in Jobs : KeptLeases[j] # None =>
             KeptLeases[j] = processing[j] /\ j \in Leased /\ processing[j].left >= 0
    BY <2>0 DEF KeptLeases, Leased, Expired, Lease
  <2>5. ASSUME NEW w \in Workers, Dequeue(w) PROVE AttemptsInv'
    <3>1. PICK o \in Orderings(Expired), n \in 0..Len(scheduled), copy \in Copy :
            /\ DueCount(n)
            /\ Range(RefreshedQueue(o, n)) = {copy} \cup Range(queue')
            /\ queue' \in Seq(Copy)
            /\ scheduled' = Remaining(n)
            /\ held' = [held EXCEPT ![w] = [id |-> copy.id, attempts |-> copy.attempts + 1]]
            /\ processing' = [KeptLeases EXCEPT ![copy.id] =
                 [attempts |-> copy.attempts + 1, left |-> Visibility, owner |-> w]]
      BY <2>5, DequeueTakes
    <3>2. copy.id \in Jobs /\ copy.attempts \in Nat
      BY DEF Copy
    <3>3. copy.attempts + 1 <= Limit(copy.id)
      <4>1. copy.attempts < Limit(copy.id)
        BY <2>3, <3>1
      <4> QED
        BY <2>0, <3>2, <4>1
    <3>4. \A j \in Jobs : Limit(j)' = Limit(j)
      BY <2>5 DEF Dequeue, Limit
    <3>5. \A x \in Workers : held'[x] # None => held'[x].attempts <= Limit(held'[x].id)
      BY <3>1, <3>2, <3>3 DEF AttemptsInv, TypeOK
    <3>6. \A j \in Jobs : processing'[j] # None =>
            /\ processing'[j].attempts <= Limit(j)
            /\ ~(processing'[j].left < 0)
      <4>1. ASSUME NEW j \in Jobs, processing'[j] # None, j = copy.id
            PROVE  processing'[j].attempts <= Limit(j) /\ ~(processing'[j].left < 0)
        BY <4>1, <3>1, <3>2, <3>3, KeptLeasesType
      <4>2. ASSUME NEW j \in Jobs, processing'[j] # None, j # copy.id
            PROVE  processing'[j].attempts <= Limit(j) /\ ~(processing'[j].left < 0)
        <5>1. processing'[j] = KeptLeases[j]
          BY <4>2, <3>1, <3>2, KeptLeasesType
        <5>2. processing'[j] = processing[j] /\ j \in Leased /\ processing[j].left >= 0
          BY <5>1, <4>2, <2>4
        <5> QED
          BY <5>2, <2>0 DEF AttemptsInv, Lease
      <4> QED
        BY <4>1, <4>2
    <3>7. \A c \in Range(queue') : c.attempts < Limit(c.id)
      BY <3>1, <2>3
    <3>8. \A e \in Range(scheduled') : e.job.attempts < Limit(e.job.id)
      BY <3>1, <2>3 DEF AttemptsInv
    <3>9. lapses' = lapses
      BY <2>5 DEF Dequeue
    <3> QED
      BY <3>5, <3>6, <3>7, <3>8, <3>9 DEF AttemptsInv, Limit, Leased, Expired
  <2>6. ASSUME NEW w \in Workers, WaitForJob(w) \/ DequeueTimeout(w) PROVE AttemptsInv'
    BY <2>6 DEF WaitForJob, DequeueTimeout, backend, history, AttemptsInv, Limit, Leased, Expired
  <2>7. ASSUME NEW w \in Workers, Acknowledge(w) PROVE AttemptsInv'
    BY <2>7 DEF Acknowledge, TypeOK, AttemptsInv, Limit, Leased, Expired
  <2>8. ASSUME NEW w \in Workers, NEW requeue \in BOOLEAN, Reject(w, requeue) PROVE AttemptsInv'
    <3>1. held[w] \in Copy
      BY <2>8 DEF Reject, TypeOK
    <3>2. \A c \in Range(queue') : c.attempts < Limit(c.id)
      <4>1. CASE requeue /\ MayRequeue(held[w])
        <5>0. queue' = Append(queue, held[w]) /\ queue \in Seq(Copy)
          BY <2>8, <4>1 DEF Reject, TypeOK
        <5>1. Range(queue') = Range(queue) \cup {held[w]}
          BY <3>1, <5>0, RangeAppend
        <5>2. held[w].attempts < Limit(held[w].id)
          BY <3>1, <4>1 DEF MayRequeue, Limit, TypeOK, Copy
        <5> QED
          BY <5>1, <5>2 DEF AttemptsInv
      <4>2. CASE ~(requeue /\ MayRequeue(held[w]))
        BY <2>8, <4>2 DEF Reject, AttemptsInv
      <4> QED
        BY <4>1, <4>2
    <3> QED
      BY <2>8, <3>2 DEF Reject, TypeOK, AttemptsInv, Limit, Leased, Expired
  <2>9. ASSUME NEW w \in Workers, ExtendVisibility(w) PROVE AttemptsInv'
    <3> DEFINE j == held[w].id
    <3>1. j \in Jobs /\ processing[j] \in Lease
      BY <2>9 DEF ExtendVisibility, TypeOK, Copy
    <3>2. /\ processing'[j] # None
          /\ processing'[j].attempts = processing[j].attempts
          /\ ~(processing'[j].left < 0)
      <4> DEFINE left == ExtendedLeft(processing[j].left)
                 lease == [processing[j] EXCEPT !.left = left]
      <4>1. left \in Nat
        BY <3>1, QueueAssumption DEF ExtendedLeft, Lease
      <4>2. processing'[j] = lease
        BY <2>9, <3>1 DEF ExtendVisibility, TypeOK
      <4>3. lease \in Lease /\ lease.left = left /\ lease.attempts = processing[j].attempts
        BY <3>1, <4>1 DEF Lease
      <4> HIDE DEF left, lease
      <4> QED
        BY <4>1, <4>2, <4>3, QueueAssumption
    <3>3. \A x \in Jobs : x # j => processing'[x] = processing[x]
      BY <2>9 DEF ExtendVisibility, TypeOK
    <3>4. UNCHANGED <<queue, scheduled, held, lapses>>
      BY <2>9 DEF ExtendVisibility, history
    <3>5. j \in Leased
      BY <2>9, <3>1 DEF ExtendVisibility, Leased
    <3> HIDE DEF j
    <3> QED
      BY <3>1, <3>2, <3>3, <3>4, <3>5 DEF AttemptsInv, Limit, Leased, Expired
  <2>10. CASE Refresh \/ ActiveCount
    <3>1. processing' = KeptLeases /\ UNCHANGED <<held, lapses>>
      BY <2>10 DEF Refresh, ActiveCount
    <3>2. /\ \A c \in Range(queue') : c.attempts < Limit(c.id)
          /\ \A e \in Range(scheduled') : e.job.attempts < Limit(e.job.id)
      <4>1. CASE Refresh
        BY <4>1, <2>3 DEF Refresh, AttemptsInv
      <4>2. CASE ActiveCount
        <5>1. PICK o \in Orderings(Expired) : queue' = Restored(o) \o queue
          BY <4>2 DEF ActiveCount
        <5>2. 0 \in 0..Len(scheduled)
          BY LenProperties DEF TypeOK
        <5>3. Restored(o) \in Seq(Copy) /\ queue \in Seq(Copy)
          BY <5>2, RefreshMoves DEF TypeOK
        <5>4. Range(queue') = Range(Restored(o)) \cup Range(queue)
          BY <5>1, <5>3, RangeConcatenation
        <5> QED
          BY <4>2, <5>2, <5>4, <2>3 DEF ActiveCount, AttemptsInv
      <4> QED
        BY <4>1, <4>2, <2>10
    <3>3. \A j \in Jobs : processing'[j] # None =>
            processing'[j].attempts <= Limit(j) /\ ~(processing'[j].left < 0)
      BY <3>1, <2>4, <2>0 DEF AttemptsInv, Lease
    <3> QED
      BY <3>1, <3>2, <3>3 DEF AttemptsInv, Limit, Leased, Expired
  <2>11. CASE Tick
    <3>2. ASSUME NEW j \in Jobs
          PROVE  /\ Limit(j)' >= Limit(j) /\ Limit(j)' \in Nat
                 /\ RunsOut(j) => Limit(j)' = Limit(j) + 1
      <4>1. lapses[j] \in Nat /\ MaxAttempts[j] \in Nat
        BY QueueAssumption DEF TypeOK
      <4>2. lapses'[j] = IF RunsOut(j) THEN lapses[j] + 1 ELSE lapses[j]
        BY <2>11 DEF Tick
      <4>3. Limit(j) = MaxAttempts[j] + lapses[j] /\ Limit(j)' = MaxAttempts[j] + lapses'[j]
        BY DEF Limit
      <4> HIDE DEF RunsOut
      <4> QED
        BY <4>1, <4>2, <4>3
    <3>3. ASSUME NEW j \in Leased'
          PROVE  /\ processing'[j].attempts <= Limit(j)'
                 /\ processing'[j].left < 0 => processing'[j].attempts < Limit(j)'
      <4>1. j \in Jobs /\ j \in Leased /\ processing'[j] = Older(processing[j])
        BY <2>11, <3>3 DEF Tick, Leased
      <4>2. processing[j] \in Lease
        BY <4>1, <2>0
      <4>3. /\ processing'[j].attempts = processing[j].attempts
            /\ processing'[j].left < 0 => processing[j].left < 0 \/ RunsOut(j)
        BY <4>1, <4>2, OlderType DEF RunsOut, Lease
      <4>4. processing[j].attempts <= Limit(j) /\ processing[j].attempts \in Nat
        BY <4>1, <4>2 DEF AttemptsInv, Lease
      <4>5. processing[j].left < 0 => processing[j].attempts < Limit(j)
        BY <4>1 DEF AttemptsInv, Expired
      <4> QED
        BY <4>1, <4>3, <4>4, <4>5, <3>2, <2>0
    <3>4. ASSUME NEW e \in Range(scheduled') PROVE e.job.attempts < Limit(e.job.id)'
      <4>1. scheduled \in Seq(Delayed) /\ DOMAIN scheduled = 1..Len(scheduled)
        BY LenProperties DEF TypeOK, Delayed
      <4>2. PICK i \in DOMAIN scheduled : e = Sooner(scheduled[i])
        BY <2>11, <3>4 DEF Tick, Range
      <4>3. scheduled[i] \in Delayed /\ scheduled[i] \in Range(scheduled)
        BY <4>1, <4>2, ElementOfSeq DEF Range
      <4>4. e.job = scheduled[i].job /\ e.job.id \in Jobs /\ e.job.attempts \in Nat
        BY <4>2, <4>3, SoonerType DEF Delayed, Copy
      <4> QED
        BY <4>3, <4>4, <3>2, <2>0 DEF AttemptsInv
    <3>5. ASSUME NEW c \in Range(queue') PROVE c.attempts < Limit(c.id)'
      <4>1. c \in Range(queue)
        BY <2>11, <3>5 DEF Tick
      <4>2. c \in Copy
        <5>1. queue \in Seq(Copy)
          BY DEF TypeOK
        <5>2. Range(queue) \in SUBSET Copy
          BY <5>1, RangeOfSeq
        <5> QED
          BY <4>1, <5>2
      <4>3. c.id \in Jobs /\ c.attempts \in Nat
        BY <4>2 DEF Copy
      <4> QED
        BY <4>1, <4>3, <3>2, <2>0 DEF AttemptsInv
    <3>6. ASSUME NEW w \in Workers, held'[w] # None
          PROVE  (held[w].attempts <= Limit(held[w].id))'
      <4>1. held'[w] = held[w] /\ held[w] \in Copy
        BY <2>11, <3>6 DEF Tick, TypeOK
      <4>2. PICK id \in Jobs : id = held[w].id /\ held[w].attempts \in Nat
        BY <4>1 DEF Copy
      <4>3. held[w].attempts <= Limit(id)
        BY <4>1, <4>2, <3>6 DEF AttemptsInv
      <4>4. held[w].attempts <= Limit(id)'
        BY <4>2, <4>3, <3>2, <2>0
      <4>5. held[w].attempts <= MaxAttempts[id] + lapses'[id]
        BY <4>4 DEF Limit
      <4> QED
        BY <4>1, <4>2, <4>5 DEF Limit
    <3> QED
      BY <3>3, <3>4, <3>5, <3>6 DEF AttemptsInv, Limit, Leased, Expired
  <2>12. CASE UNCHANGED vars
    BY <2>12 DEF vars, backend, history, AttemptsInv, Limit, Leased, Expired
  <2> QED
    BY <2>1, <2>2, <2>5, <2>6, <2>7, <2>8, <2>9, <2>10, <2>11, <2>12 DEF Next, Finish
<1>3. AttemptsInv => AttemptsBounded
  BY AttemptsInvIsBounded
<1> QED
  BY <1>1, <1>2, <1>3, TypeCorrect, PTL DEF Spec

------------------------------------------------------------------------------
(***************************************************************************)
(* What a consumer may rely on: a lease it holds is the lease of the       *)
(* delivery it runs, and a submission does not pass it by while it sleeps. *)
(* The invariants are in the form that induction needs; that each implies  *)
(* the property of InMemoryQueue is the last step of each theorem.         *)
(***************************************************************************)

(***************************************************************************)
(* A lease belongs to a worker that still runs that very delivery.  That a *)
(* stale worker still holds a copy is needed so that a worker which        *)
(* dequeues again is not taken for a stale one.                            *)
(***************************************************************************)
RunnerInv ==
  /\ LeaseHasRunner
  /\ \A w \in stale : held[w] # None

\* Two leases never have one owner: its copy names the job.
LEMMA OneLeasePerOwner ==
  ASSUME TypeOK, LeaseHasRunner
  PROVE  /\ \A j \in Leased : /\ processing[j] \in Lease
                              /\ held[processing[j].owner] # None
                              /\ held[processing[j].owner].id = j
                              /\ held[processing[j].owner].attempts = processing[j].attempts
         /\ \A j, k \in Leased : processing[j].owner = processing[k].owner => j = k
<1>1. ASSUME NEW j \in Leased
      PROVE  /\ processing[j] \in Lease
             /\ held[processing[j].owner] # None
             /\ held[processing[j].owner].id = j
             /\ held[processing[j].owner].attempts = processing[j].attempts
  <2>1. j \in Jobs /\ processing[j] \in Lease
    BY DEF TypeOK, Leased
  <2>2. [id |-> j, attempts |-> processing[j].attempts] \in Copy
    BY <2>1 DEF Copy, Lease
  <2>3. held[processing[j].owner] = [id |-> j, attempts |-> processing[j].attempts]
    BY DEF LeaseHasRunner
  <2> QED
    BY <2>1, <2>2, <2>3, QueueAssumption
<1> QED
  BY <1>1

\* What every restore of the expired leases does to the leases that remain: they
\* are unchanged, and none of their owners becomes stale.
LEMMA RestoreKeepsRunners ==
  ASSUME TypeOK, RunnerInv, RecordRestore
  PROVE  /\ \A j \in Jobs : KeptLeases[j] # None =>
              /\ KeptLeases[j] = processing[j] /\ j \in Leased
              /\ processing[j].owner \notin stale'
         /\ \A w \in stale' : held[w] # None
<1>1. Expired \subseteq Leased
  BY DEF Expired
<1>2. ASSUME NEW j \in Jobs, KeptLeases[j] # None
      PROVE  /\ KeptLeases[j] = processing[j] /\ j \in Leased
             /\ processing[j].owner \notin stale'
  <2>1. KeptLeases[j] = processing[j] /\ j \in Leased /\ j \notin Expired
    BY <1>2 DEF KeptLeases, Leased
  <2>2. processing[j].owner \notin stale
    BY <2>1 DEF RunnerInv, LeaseHasRunner
  <2>3. \A k \in Expired : processing[k].owner # processing[j].owner
    BY <1>1, <2>1, OneLeasePerOwner DEF RunnerInv
  <2> QED
    BY <2>1, <2>2, <2>3 DEF RecordRestore
<1>3. ASSUME NEW w \in stale' PROVE held[w] # None
  BY <1>1, <1>3, OneLeasePerOwner DEF RecordRestore, RunnerInv
<1> QED
  BY <1>2, <1>3

\* A report ends the lease of the reported job, whoever received it last.
LEMMA ReportKeepsRunners ==
  ASSUME TypeOK, RunnerInv, NEW w \in Workers, held[w] # None,
         processing' = [processing EXCEPT ![held[w].id] = None],
         held' = [held EXCEPT ![w] = None], stale' = stale \ {w}
  PROVE  RunnerInv'
<1>1. ASSUME NEW j \in Leased'
      PROVE  j \in Leased /\ processing'[j] = processing[j] /\ j # held[w].id
  BY <1>1 DEF Leased, TypeOK
<1>2. ASSUME NEW j \in Leased'
      PROVE  /\ held'[processing'[j].owner] = [id |-> j, attempts |-> processing'[j].attempts]
             /\ processing'[j].owner \notin stale'
  <2>1. processing[j].owner # w
    BY <1>1, OneLeasePerOwner DEF RunnerInv
  <2>2. processing[j].owner \in Workers
    BY <1>1, OneLeasePerOwner DEF RunnerInv, Lease
  <2>3. /\ held[processing[j].owner] = [id |-> j, attempts |-> processing[j].attempts]
        /\ processing[j].owner \notin stale
    BY <1>1 DEF RunnerInv, LeaseHasRunner
  <2> QED
    BY <1>1, <2>1, <2>2, <2>3 DEF TypeOK
<1>3. \A x \in stale' : held'[x] # None
  BY DEF RunnerInv, TypeOK
<1> QED
  BY <1>2, <1>3 DEF RunnerInv, LeaseHasRunner

(***************************************************************************)
(* No report of a worker leaves a lease behind, and no late report leaves  *)
(* one to nobody: who holds a lease runs the delivery it was granted for,  *)
(* and has not been overtaken by _restore_expired_jobs.                    *)
(***************************************************************************)
THEOREM LeaseHasRunnerHolds == Spec => []LeaseHasRunner
<1>1. Init => RunnerInv
  BY DEF Init, RunnerInv, LeaseHasRunner, Leased
<1>2. TypeOK /\ TypeOK' /\ RunnerInv /\ [Next]_vars => RunnerInv'
  <2> SUFFICES ASSUME TypeOK, TypeOK', RunnerInv, [Next]_vars PROVE RunnerInv'
    OBVIOUS
  <2>1. ASSUME UNCHANGED <<processing, held, stale>> PROVE RunnerInv'
    BY <2>1 DEF RunnerInv, LeaseHasRunner, Leased
  <2>2. ASSUME NEW j \in Jobs, Enqueue(j) \/ \E d \in 1..MaxDelay : Schedule(j, d)
        PROVE  RunnerInv'
    BY <2>2, <2>1 DEF Enqueue, Schedule
  <2>3. ASSUME NEW w \in Workers, Dequeue(w) PROVE RunnerInv'
    <3>1. PICK copy \in Copy :
            /\ held' = [held EXCEPT ![w] = [id |-> copy.id, attempts |-> copy.attempts + 1]]
            /\ processing' = [KeptLeases EXCEPT ![copy.id] =
                 [attempts |-> copy.attempts + 1, left |-> Visibility, owner |-> w]]
      BY <2>3, DequeueTakes
    <3>2. copy.id \in Jobs /\ RecordRestore /\ held[w] = None
      BY <2>3 DEF Dequeue, TypeOK, Copy
    <3>3. w \notin stale'
      BY <3>2, RestoreKeepsRunners
    <3>4. held'[w] # None
      BY <2>3 DEF Dequeue, TypeOK
    <3>5. ASSUME NEW j \in Leased'
          PROVE  /\ held'[processing'[j].owner] = [id |-> j, attempts |-> processing'[j].attempts]
                 /\ processing'[j].owner \notin stale'
      <4>1. j \in Jobs /\ processing'[j] # None
        BY <3>5 DEF Leased
      <4>2. CASE j = copy.id
        BY <4>2, <3>1, <3>2, <3>3, KeptLeasesType DEF TypeOK
      <4>3. CASE j # copy.id
        <5>1. processing'[j] = KeptLeases[j]
          BY <4>1, <4>3, <3>1, <3>2, KeptLeasesType
        <5>2. /\ processing'[j] = processing[j] /\ j \in Leased
              /\ processing[j].owner \notin stale'
          BY <5>1, <4>1, <3>2, RestoreKeepsRunners
        <5>3. processing[j].owner \in Workers /\ processing[j].owner # w
          BY <5>2, <3>2, OneLeasePerOwner DEF RunnerInv, Lease
        <5> QED
          BY <5>2, <5>3, <3>1 DEF TypeOK, RunnerInv, LeaseHasRunner
      <4> QED
        BY <4>2, <4>3
    <3>6. \A x \in stale' : held'[x] # None
      BY <3>1, <3>2, <3>4, RestoreKeepsRunners DEF TypeOK
    <3> QED
      BY <3>5, <3>6 DEF RunnerInv, LeaseHasRunner
  <2>4. ASSUME NEW w \in Workers, WaitForJob(w) \/ DequeueTimeout(w) PROVE RunnerInv'
    BY <2>4, <2>1 DEF WaitForJob, DequeueTimeout, backend, history
  <2>5. ASSUME NEW w \in Workers, Finish(w) PROVE RunnerInv'
    <3>1. /\ held[w] # None
          /\ processing' = [processing EXCEPT ![held[w].id] = None]
          /\ held' = [held EXCEPT ![w] = None] /\ stale' = stale \ {w}
      BY <2>5 DEF Finish, Acknowledge, Reject, TypeOK
    <3> QED
      BY <3>1, ReportKeepsRunners
  <2>6. ASSUME NEW w \in Workers, ExtendVisibility(w) PROVE RunnerInv'
    <3>1. UNCHANGED <<held, stale>>
      BY <2>6 DEF ExtendVisibility, history
    <3>2. ASSUME NEW j \in Leased'
          PROVE  /\ j \in Leased
                 /\ processing'[j].owner = processing[j].owner
                 /\ processing'[j].attempts = processing[j].attempts
      <4>1. held[w].id \in Jobs /\ processing[held[w].id] \in Lease
        BY <2>6 DEF ExtendVisibility, TypeOK, Copy
      <4>2. CASE j = held[w].id
        <5>1. processing'[j] = [processing[j] EXCEPT !.left = ExtendedLeft(@)]
          BY <2>6, <4>1, <4>2 DEF ExtendVisibility, TypeOK
        <5>2. j \in Leased
          BY <4>1, <4>2, QueueAssumption DEF Leased
        <5> QED
          BY <4>1, <4>2, <5>1, <5>2 DEF Lease
      <4>3. CASE j # held[w].id
        BY <2>6, <3>2, <4>1, <4>3 DEF ExtendVisibility, TypeOK, Leased
      <4> QED
        BY <4>2, <4>3
    <3> QED
      BY <3>1, <3>2 DEF RunnerInv, LeaseHasRunner
  <2>7. ASSUME Refresh \/ ActiveCount PROVE RunnerInv'
    <3>1. RecordRestore /\ processing' = KeptLeases /\ held' = held
      BY <2>7 DEF Refresh, ActiveCount
    <3>2. \A j \in Leased' : /\ processing'[j] = processing[j] /\ j \in Leased
                             /\ processing'[j].owner \notin stale'
      BY <3>1, RestoreKeepsRunners DEF Leased
    <3> QED
      BY <3>1, <3>2, RestoreKeepsRunners DEF RunnerInv, LeaseHasRunner
  <2>8. ASSUME Tick PROVE RunnerInv'
    <3>1. UNCHANGED <<held, stale>>
      BY <2>8 DEF Tick
    <3>2. ASSUME NEW j \in Leased'
          PROVE  /\ j \in Leased
                 /\ processing'[j].owner = processing[j].owner
                 /\ processing'[j].attempts = processing[j].attempts
      <4>1. j \in Leased /\ processing'[j] = Older(processing[j])
        BY <2>8, <3>2 DEF Tick, Leased
      <4>2. processing[j] \in Lease
        BY <4>1, OneLeasePerOwner DEF RunnerInv
      <4> QED
        BY <4>1, <4>2, OlderType
    <3> QED
      BY <3>1, <3>2 DEF RunnerInv, LeaseHasRunner
  <2>9. ASSUME UNCHANGED vars PROVE RunnerInv'
    BY <2>9, <2>1 DEF vars, backend, history
  <2> QED
    BY <2>2, <2>3, <2>4, <2>5, <2>6, <2>7, <2>8, <2>9 DEF Next
<1>3. RunnerInv => LeaseHasRunner
  BY DEF RunnerInv
<1> QED
  BY <1>1, <1>2, <1>3, TypeCorrect, PTL DEF Spec

------------------------------------------------------------------------------
(***************************************************************************)
(* NoMissedWakeup with the elements of the sequences in place of their     *)
(* indices; a copy that _move_scheduled_jobs will put into the queue is    *)
(* already known to be a delayed one.                                      *)
(***************************************************************************)
SleepInv ==
  /\ (\E w \in Workers : mode[w] = "waiting") =>
       \A c \in Range(queue) : c.id \in lapsed \cup delayed
  /\ \A e \in Range(scheduled) : e.job.id \in delayed

LEMMA SleepInvIsNoMissedWakeup == SleepInv => NoMissedWakeup
BY DEF SleepInv, NoMissedWakeup, Range

\* What a restore and a move add to the queue is known as restored or delayed.
LEMMA RefreshWakesNobody ==
  ASSUME TypeOK, SleepInv, RecordRestore, delayed' = delayed,
         NEW o \in Orderings(Expired), NEW n \in 0..Len(scheduled)
  PROVE  /\ (\E w \in Workers : mode[w] = "waiting") =>
              \A c \in Range(RefreshedQueue(o, n)) : c.id \in lapsed' \cup delayed'
         /\ (\E w \in Workers : mode[w] = "waiting") =>
              \A c \in Range(Restored(o)) \cup Range(queue) : c.id \in lapsed' \cup delayed'
         /\ \A e \in Range(Remaining(n)) : e.job.id \in delayed'
<1>1. ASSUME NEW c \in Range(Restored(o)) PROVE c.id \in lapsed'
  <2>1. PICK j \in Expired : c = [id |-> j, attempts |-> processing[j].attempts]
    BY <1>1, RefreshMoves
  <2> QED
    BY <2>1 DEF RecordRestore
<1>2. ASSUME NEW i \in 1..n PROVE scheduled[i].job.id \in delayed'
  <2>1. scheduled[i] \in Range(scheduled)
    BY RefreshMoves
  <2> QED
    BY <2>1 DEF SleepInv
<1>3. \A e \in Range(Remaining(n)) : e.job.id \in delayed'
  BY RefreshMoves DEF SleepInv
<1>4. ASSUME \E w \in Workers : mode[w] = "waiting", NEW c \in Range(queue)
      PROVE  c.id \in lapsed' \cup delayed'
  BY <1>4 DEF SleepInv, RecordRestore
<1>5. ASSUME \E w \in Workers : mode[w] = "waiting", NEW c \in Range(RefreshedQueue(o, n))
      PROVE  c.id \in lapsed' \cup delayed'
  <2>1. \/ c \in Range(Restored(o))
        \/ c \in Range(queue)
        \/ \E i \in 1..n : c = scheduled[i].job
    BY <1>5, RefreshMoves
  <2> QED
    BY <2>1, <1>1, <1>2, <1>4, <1>5
<1> QED
  BY <1>1, <1>3, <1>4, <1>5

\* After the signal nobody sleeps.
LEMMA WakeWakesAll ==
  ASSUME NEW m
  PROVE  \A w \in Workers : Wake(m)[w] # "waiting"
BY DEF Wake

(***************************************************************************)
(* While a consumer sleeps in dequeue, nothing waits that was put into the *)
(* queue by enqueue or reject.                                             *)
(***************************************************************************)
THEOREM NoMissedWakeupHolds == Spec => []NoMissedWakeup
<1>1. Init => SleepInv
  BY DEF Init, SleepInv, Range
<1>2. TypeOK /\ SleepInv /\ [Next]_vars => SleepInv'
  <2> SUFFICES ASSUME TypeOK, SleepInv, [Next]_vars PROVE SleepInv'
    OBVIOUS
  <2>1. ASSUME NEW j \in Jobs, Enqueue(j) PROVE SleepInv'
    BY <2>1, WakeWakesAll DEF Enqueue, SleepInv
  <2>2. ASSUME NEW j \in Jobs, NEW d \in 1..MaxDelay, Schedule(j, d) PROVE SleepInv'
    <3>1. Range(scheduled') = Range(scheduled)
            \cup {[job |-> [id |-> j, attempts |-> 0], left |-> d]}
      BY <2>2, ScheduleStores
    <3> QED
      BY <2>2, <3>1 DEF Schedule, SleepInv
  <2>3. ASSUME NEW w \in Workers, Dequeue(w) PROVE SleepInv'
    <3>1. PICK o \in Orderings(Expired), n \in 0..Len(scheduled), copy \in Copy :
            /\ Range(RefreshedQueue(o, n)) = {copy} \cup Range(queue')
            /\ scheduled' = Remaining(n)
      BY <2>3, DequeueTakes
    <3>2. RecordRestore /\ delayed' = delayed
      BY <2>3 DEF Dequeue
    <3>3. (\E x \in Workers : mode'[x] = "waiting") => \E x \in Workers : mode[x] = "waiting"
      BY <2>3 DEF Dequeue, TypeOK
    <3> QED
      BY <3>1, <3>2, <3>3, RefreshWakesNobody DEF SleepInv
  <2>4. ASSUME NEW w \in Workers, WaitForJob(w) PROVE SleepInv'
    <3>1. Range(queue') = {}
      BY <2>4 DEF WaitForJob, backend, Range
    <3> QED
      BY <2>4, <3>1 DEF WaitForJob, backend, history, SleepInv
  <2>5. ASSUME NEW w \in Workers, DequeueTimeout(w) \/ Acknowledge(w) PROVE SleepInv'
    <3>1. UNCHANGED <<queue, scheduled, lapsed, delayed>>
      BY <2>5 DEF DequeueTimeout, Acknowledge, backend, history
    <3>2. (\E x \in Workers : mode'[x] = "waiting") => \E x \in Workers : mode[x] = "waiting"
      BY <2>5 DEF DequeueTimeout, Acknowledge, TypeOK
    <3> QED
      BY <3>1, <3>2 DEF SleepInv
  <2>6. ASSUME NEW w \in Workers, NEW requeue \in BOOLEAN, Reject(w, requeue) PROVE SleepInv'
    <3>1. UNCHANGED <<scheduled, lapsed, delayed>>
      BY <2>6 DEF Reject
    <3>2. CASE requeue /\ MayRequeue(held[w])
      BY <2>6, <3>1, <3>2, WakeWakesAll DEF Reject, SleepInv
    <3>3. CASE ~(requeue /\ MayRequeue(held[w]))
      <4>1. (\E x \in Workers : mode'[x] = "waiting") => \E x \in Workers : mode[x] = "waiting"
        BY <2>6, <3>3 DEF Reject, TypeOK
      <4> QED
        BY <2>6, <3>1, <3>3, <4>1 DEF Reject, SleepInv
    <3> QED
      BY <3>2, <3>3
  <2>7. ASSUME NEW w \in Workers, ExtendVisibility(w) PROVE SleepInv'
    BY <2>7 DEF ExtendVisibility, history, SleepInv
  <2>8. ASSUME Refresh PROVE SleepInv'
    <3>1. PICK o \in Orderings(Expired), n \in 0..Len(scheduled) :
            queue' = RefreshedQueue(o, n) /\ scheduled' = Remaining(n)
      BY <2>8 DEF Refresh
    <3> QED
      BY <2>8, <3>1, RefreshWakesNobody DEF Refresh, SleepInv
  <2>9. ASSUME ActiveCount PROVE SleepInv'
    <3>1. PICK o \in Orderings(Expired) : queue' = Restored(o) \o queue
      BY <2>9 DEF ActiveCount
    <3>2. 0 \in 0..Len(scheduled)
      BY LenProperties DEF TypeOK
    <3>3. Restored(o) \in Seq(Copy) /\ queue \in Seq(Copy)
      BY <3>2, RefreshMoves DEF TypeOK
    <3>4. Range(queue') = Range(Restored(o)) \cup Range(queue)
      BY <3>1, <3>3, RangeConcatenation
    <3>5. RecordRestore /\ UNCHANGED <<scheduled, mode, delayed>>
      BY <2>9 DEF ActiveCount
    <3> QED
      BY <3>2, <3>4, <3>5, RefreshWakesNobody DEF SleepInv
  <2>10. ASSUME Tick PROVE SleepInv'
    <3>1. UNCHANGED <<queue, mode, lapsed, delayed>>
      BY <2>10 DEF Tick
    <3>2. ASSUME NEW e \in Range(scheduled') PROVE e.job.id \in delayed
      <4>1. scheduled \in Seq(Delayed) /\ DOMAIN scheduled = 1..Len(scheduled)
        BY LenProperties DEF TypeOK, Delayed
      <4>2. PICK i \in DOMAIN scheduled : e = Sooner(scheduled[i])
        BY <2>10, <3>2 DEF Tick, Range
      <4>3. scheduled[i] \in Delayed /\ scheduled[i] \in Range(scheduled)
        BY <4>1, <4>2, ElementOfSeq DEF Range
      <4> QED
        BY <4>2, <4>3, SoonerType DEF SleepInv
    <3> QED
      BY <3>1, <3>2 DEF SleepInv
  <2>11. ASSUME UNCHANGED vars PROVE SleepInv'
    BY <2>11 DEF vars, backend, history, SleepInv
  <2> QED
    BY <2>1, <2>2, <2>3, <2>4, <2>5, <2>6, <2>7, <2>8, <2>9, <2>10, <2>11 DEF Next, Finish
<1> QED
  BY <1>1, <1>2, SleepInvIsNoMissedWakeup, TypeCorrect, PTL DEF Spec

==============================================================================
