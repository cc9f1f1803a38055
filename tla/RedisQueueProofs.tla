-------------------------- MODULE RedisQueueProofs --------------------------
(***************************************************************************)
(* The Redis backend for any jobs, workers, timeouts and attempts: what    *)
(* its structures hold, and that the races between its commands lose no    *)
(* job.                                                                    *)
(***************************************************************************)
EXTENDS RedisQueue, SequenceTheorems, FiniteSetTheorems, TLAPS

------------------------------------------------------------------------------
(***************************************************************************)
(* The parts of the type invariant that commands disturb apart.            *)
(***************************************************************************)
Payload == [copy : Copy, ttl : Nat \ {0}]
Beat    == [left : Nat, set : BOOLEAN]
Steps   == {"idle", "get", "rpush", "zrem", "del", "scan due", "lpush", "unschedule", "rpop"} \cup Received

Lists   == list \in Seq(Copy)
Leases  == processing \in [Jobs -> Nat \cup {None}] /\ scheduled \in [Jobs -> Nat \cup {None}]
Stores  == payload \in [Jobs -> Payload \cup {None}]
Places  == at \in [Workers -> Steps]
Ids     == todo \in [Workers -> SUBSET Jobs] /\ cur \in [Workers -> Jobs \cup {None}]
Copies  == copy \in [Workers -> Copy \cup {None}]
             /\ \A w \in Workers : copy[w] # None <=> at[w] \in Received \cup {"rpush"}
Beats   == beat \in [Workers -> Beat \cup {None}]
             /\ \A w \in Workers : beat[w] # None => at[w] = "handling"
History == sent \subseteq Jobs /\ done \subseteq Jobs /\ dropped \subseteq Jobs /\ risked \subseteq Jobs
             /\ lapses \in Nat /\ crashes \in Nat /\ faults \in Nat

Typed == Lists /\ Leases /\ Stores /\ Places /\ Ids /\ Copies /\ Beats /\ History

LEMMA TypeParts == TypeOK <=> Typed
BY DEF TypeOK, Typed, Lists, Leases, Stores, Places, Ids, Copies, Beats, History, Payload, Beat, Steps

LEMMA ReturnType ==
  ASSUME Typed, NEW w \in Workers, Return(w)
  PROVE  Places' /\ Ids' /\ Copies' /\ Beats'
<1>1. Places' /\ at'[w] = "idle" /\ \A v \in Workers \ {w} : at'[v] = at[v]
  BY DEF Typed, Return, Places, Steps
<1>2. Ids'
  BY DEF Typed, Return, Ids
<1>3. Copies'
  BY <1>1 DEF Typed, Return, Copies, Received, Rejecting
<1>4. Beats'
  BY <1>1 DEF Typed, Return, Beats
<1> QED BY <1>1, <1>2, <1>3, <1>4

LEMMA CallType ==
  ASSUME Typed, NEW w \in Workers, Call(w) \/ EndInspection(w)
  PROVE  Typed'
<1> USE DEF Typed
<1>1. CASE ScanExpired(w)
  <2>1. Places' /\ Copies' /\ Beats'
    BY <1>1 DEF ScanExpired, OrNext, Places, Steps, Copies, Beats, Received, Rejecting
  <2>2. Ids'
    BY <1>1 DEF ScanExpired, OrNext, Reached, Ids
  <2> QED BY <1>1, <2>1, <2>2 DEF ScanExpired, redis, settled, counts, Lists, Leases, Stores, History
<1>2. CASE GetPayload(w)
  <2>1. PICK j \in todo[w] : /\ cur' = [cur EXCEPT ![w] = j]
                             /\ IF payload[j] = None
                                  THEN Goto(w, "zrem") /\ UNCHANGED copy
                                  ELSE Goto(w, "rpush") /\ copy' = [copy EXCEPT ![w] = payload[j].copy]
    BY <1>2 DEF GetPayload
  <2>2. j \in Jobs /\ Ids'
    BY <1>2, <2>1 DEF GetPayload, Ids
  <2>3. payload[j] # None => payload[j].copy \in Copy
    BY <2>2 DEF Stores, Payload
  <2>4. ASSUME payload[j] = None PROVE Places' /\ Copies' /\ Beats'
    <3>1. Goto(w, "zrem") /\ UNCHANGED copy /\ at[w] = "get" /\ beat' = beat
      BY <1>2, <2>1, <2>4 DEF GetPayload
    <3>2. Places' /\ at'[w] = "zrem" /\ \A v \in Workers \ {w} : at'[v] = at[v]
      BY <3>1 DEF Goto, Places, Steps
    <3>3. Copies'
      BY <3>1, <3>2 DEF Copies, Received, Rejecting
    <3>4. Beats'
      BY <3>1, <3>2 DEF Beats
    <3> QED BY <3>2, <3>3, <3>4
  <2>5. ASSUME payload[j] # None PROVE Places' /\ Copies' /\ Beats'
    <3>1. Goto(w, "rpush") /\ copy' = [copy EXCEPT ![w] = payload[j].copy] /\ at[w] = "get" /\ beat' = beat
      BY <1>2, <2>1, <2>5 DEF GetPayload
    <3>2. Places' /\ at'[w] = "rpush" /\ \A v \in Workers \ {w} : at'[v] = at[v]
      BY <3>1 DEF Goto, Places, Steps
    <3>3. Copies'
      BY <2>3, <2>5, <3>1, <3>2, RedisAssumption DEF Copies
    <3>4. Beats'
      BY <3>1, <3>2 DEF Beats
    <3> QED BY <3>2, <3>3, <3>4
  <2>6. Places' /\ Copies' /\ Beats'
    BY <2>4, <2>5
  <2> QED BY <1>2, <2>2, <2>6 DEF GetPayload, redis, settled, counts, Lists, Leases, Stores, History
<1>3. CASE Rpush(w)
  <2>1. copy[w] \in Copy
    BY <1>3 DEF Rpush, Copies
  <2>2. Lists'
    BY <1>3, <2>1 DEF Rpush, Lists
  <2>3. Places' /\ Copies' /\ Beats'
    BY <1>3 DEF Rpush, Goto, Places, Steps, Copies, Beats, Received, Rejecting
  <2> QED BY <1>3, <2>2, <2>3 DEF Rpush, settled, counts, Ids, Leases, Stores, History
<1>4. CASE ZremExpired(w)
  <2>1. Places' /\ Copies' /\ Beats'
    BY <1>4 DEF ZremExpired, Goto, Places, Steps, Copies, Beats, Received, Rejecting
  <2>2. Leases'
    BY <1>4 DEF ZremExpired, Leases
  <2> QED BY <1>4, <2>1, <2>2 DEF ZremExpired, settled, counts, Lists, Ids, Stores, History
<1>5. CASE DelExpired(w)
  <2>1. Places' /\ Copies' /\ Beats'
    BY <1>5 DEF DelExpired, OrNext, Places, Steps, Copies, Beats, Received, Rejecting
  <2>2. Ids' /\ Stores'
    BY <1>5 DEF DelExpired, OrNext, Ids, Stores
  <2> QED BY <1>5, <2>1, <2>2 DEF DelExpired, settled, counts, Lists, Leases, History
<1>6. CASE ScanDue(w)
  <2>1. Places' /\ Copies' /\ Beats'
    BY <1>6 DEF ScanDue, OrNext, Places, Steps, Copies, Beats, Received, Rejecting
  <2>2. Ids'
    BY <1>6 DEF ScanDue, OrNext, Reached, Ids
  <2> QED BY <1>6, <2>1, <2>2 DEF ScanDue, redis, settled, counts, Lists, Leases, Stores, History
<1>7. CASE Lpush(w)
  <2>1. PICK j \in todo[w] : /\ list' = Append(list, [id |-> j, attempts |-> 0])
                             /\ cur' = [cur EXCEPT ![w] = j]
                             /\ todo' = [todo EXCEPT ![w] = @ \ {j}]
    BY <1>7 DEF Lpush
  <2>2. j \in Jobs /\ Ids'
    BY <2>1 DEF Ids
  <2>3. Lists'
    BY <2>1, <2>2 DEF Lists, Copy
  <2>4. Places' /\ Copies' /\ Beats'
    BY <1>7 DEF Lpush, Goto, Places, Steps, Copies, Beats, Received, Rejecting
  <2> QED BY <1>7, <2>2, <2>3, <2>4 DEF Lpush, settled, counts, Leases, Stores, History
<1>8. CASE Unschedule(w)
  <2>1. Places' /\ Copies' /\ Beats'
    BY <1>8 DEF Unschedule, OrNext, Places, Steps, Copies, Beats, Received, Rejecting
  <2>2. Ids' /\ Leases'
    BY <1>8 DEF Unschedule, OrNext, Ids, Leases
  <2> QED BY <1>8, <2>1, <2>2 DEF Unschedule, settled, counts, Lists, Stores, History
<1>9. CASE EndInspection(w)
  BY <1>9, ReturnType DEF EndInspection, redis, settled, counts, Lists, Leases, Stores, History
<1>10. CASE Rpop(w)
  <2>1. Head(list) \in Copy /\ Lists'
    BY <1>10 DEF Rpop, Lists
  <2>2. [Head(list) EXCEPT !.attempts = @ + 1] \in Copy
    BY <2>1 DEF Copy
  <2>3. Places' /\ Copies' /\ Beats'
    BY <1>10, <2>2, RedisAssumption DEF Rpop, Goto, Places, Steps, Copies, Beats, Received, Rejecting
  <2> QED BY <1>10, <2>1, <2>3 DEF Rpop, settled, counts, Ids, Leases, Stores, History
<1>11. CASE AddLease(w)
  <2>1. Places' /\ Copies' /\ Beats'
    BY <1>11 DEF AddLease, Goto, Places, Steps, Copies, Beats, Received, Rejecting
  <2>2. Leases'
    BY <1>11, RedisAssumption DEF AddLease, Leases
  <2> QED BY <1>11, <2>1, <2>2 DEF AddLease, settled, counts, Lists, Ids, Stores, History
<1>12. CASE StorePayload(w)
  <2>1. Places' /\ Copies' /\ Beats'
    BY <1>12 DEF StorePayload, Goto, Places, Steps, Copies, Beats, Received, Rejecting
  <2>4. Visibility + Buffer \in Nat \ {0}
    BY RedisAssumption
  <2>5. at[w] = "store"
    BY <1>12 DEF StorePayload
  <2>2. copy[w] \in Copy /\ Visibility + Buffer \in Nat \ {0}
    BY <2>4, <2>5 DEF Copies, Received
  <2>3. Stores'
    BY <1>12, <2>2 DEF StorePayload, Stores, Payload
  <2> QED BY <1>12, <2>1, <2>3 DEF StorePayload, settled, counts, Lists, Leases, Ids, History
<1>13. CASE AckZrem(w) \/ RejectZrem(w)
  <2>1. Places' /\ Copies' /\ Beats'
    BY <1>13 DEF AckZrem, RejectZrem, Goto, Places, Steps, Copies, Beats, Received, Rejecting
  <2>2. Leases'
    BY <1>13 DEF AckZrem, RejectZrem, Leases
  <2> QED BY <1>13, <2>1, <2>2 DEF AckZrem, RejectZrem, settled, counts, Lists, Ids, Stores, History
<1>14. CASE AckDel(w) \/ RejectDel(w)
  <2>1. Places' /\ Copies' /\ Beats' /\ Ids'
    <3>1. CASE Return(w)
      BY <3>1, ReturnType
    <3>2. CASE Goto(w, "retry push") /\ UNCHANGED <<todo, cur, copy, beat>> /\ at[w] = "retry del"
      BY <3>2 DEF Goto, Places, Steps, Copies, Beats, Ids, Received, Rejecting
    <3> QED BY <1>14, <3>1, <3>2 DEF AckDel, RejectDel
  <2>2. Stores'
    BY <1>14 DEF AckDel, RejectDel, Stores
  <2> QED BY <1>14, <2>1, <2>2 DEF AckDel, RejectDel, settled, counts, Lists, Leases, History
<1>15. CASE RejectPush(w)
  <2>1. copy[w] \in Copy
    BY <1>15 DEF RejectPush, Copies, Received, Rejecting
  <2>3. list' = Append(list, copy[w])
    BY <1>15 DEF RejectPush
  <2>2. Lists'
    BY <2>1, <2>3 DEF Lists
  <2> QED BY <1>15, <2>2, ReturnType DEF RejectPush, settled, counts, Leases, Stores, History
<1> QED
  BY <1>1, <1>2, <1>3, <1>4, <1>5, <1>6, <1>7, <1>8, <1>9, <1>10, <1>11, <1>12, <1>13, <1>14, <1>15 DEF Call

LEMMA OtherType ==
  ASSUME Typed, NEW w \in Workers, Handle(w) \/ Heartbeat(w) \/ Crash(w) \/ Raise(w)
  PROVE  Typed'
<1> USE DEF Typed
<1>1. CASE HandlerReturns(w)
  <2>1. Places' /\ Copies' /\ Beats'
    BY <1>1 DEF HandlerReturns, Goto, Places, Steps, Copies, Beats, Received, Rejecting
  <2>2. copy[w].id \in Jobs
    BY <1>1 DEF HandlerReturns, Copies, Copy, Received
  <2> QED BY <1>1, <2>1, <2>2 DEF HandlerReturns, redis, counts, Lists, Leases, Ids, Stores, History
<1>2. ASSUME NEW again \in BOOLEAN, Decide(w, again), UNCHANGED copy, copy[w] # None
      PROVE  Places' /\ Copies' /\ Beats' /\ dropped' \subseteq Jobs
  <2>1. copy[w].id \in Jobs /\ at[w] \in Received \cup {"rpush"}
    BY <1>2 DEF Copies, Copy
  <2>2. PICK s \in {"retry", "drop"} : at' = [at EXCEPT ![w] = s]
    BY <1>2 DEF Decide, Goto
  <2>3. Places' /\ Copies'
    BY <1>2, <2>1, <2>2 DEF Places, Steps, Copies, Received, Rejecting
  <2>4. Beats'
    BY <1>2, <2>2 DEF Decide, Beats, Places
  <2> QED BY <1>2, <2>1, <2>3, <2>4 DEF Decide, History
<1>3. ASSUME NEW again \in BOOLEAN, HandlerRaises(w, again) PROVE Typed'
  <2>1. copy[w] # None
    BY <1>3 DEF HandlerRaises, Copies, Received
  <2> QED BY <1>2, <1>3, <2>1 DEF HandlerRaises, redis, counts, Lists, Leases, Ids, Stores, History
<1>4. CASE ReadScore(w)
  <2>1. copy[w].id \in Jobs
    BY <1>4 DEF ReadScore, Copies, Copy, Received
  <2>2. processing[copy[w].id] + Extension \in Nat
    BY <1>4, <2>1, RedisAssumption DEF ReadScore, Leases
  <2>3. Beats'
    BY <1>4, <2>2 DEF ReadScore, Beats, Beat
  <2> QED BY <1>4, <2>3 DEF ReadScore, redis, settled, counts, Lists, Leases, Places, Ids, Copies, Stores, History
<1>5. CASE SetScore(w)
  <2>1. beat[w] \in Beat
    BY <1>5 DEF SetScore, Beats
  <2>2. Leases'
    BY <1>5, <2>1 DEF SetScore, Leases, Beat
  <2>3. Beats'
    <3>1. beat' = [beat EXCEPT ![w] = None] \/ beat' = [beat EXCEPT ![w].set = TRUE]
      BY <1>5 DEF SetScore
    <3>2. [beat[w] EXCEPT !.set = TRUE] \in Beat
      BY <2>1 DEF Beat
    <3>3. beat' \in [Workers -> Beat \cup {None}]
      BY <3>1, <3>2 DEF Beats
    <3>4. at' = at /\ at[w] = "handling" /\ \A v \in Workers \ {w} : beat'[v] = beat[v]
      BY <1>5, <3>1 DEF SetScore, Beats
    <3> QED BY <3>3, <3>4 DEF Beats
  <2> QED BY <1>5, <2>2, <2>3 DEF SetScore, settled, counts, Lists, Places, Ids, Copies, Stores, History
<1>6. CASE RefreshTTL(w)
  <2>1. beat[w] \in Beat
    BY <1>6 DEF RefreshTTL, Beats
  <2>2. beat[w].left + Buffer \in Nat \ {0}
    BY <2>1, RedisAssumption DEF Beat
  <2>3. Stores'
    BY <1>6, <2>2 DEF RefreshTTL, Stores, Payload
  <2>4. Beats'
    BY <1>6 DEF RefreshTTL, Beats
  <2> QED BY <1>6, <2>3, <2>4 DEF RefreshTTL, settled, counts, Lists, Leases, Places, Ids, Copies, History
<1>r. ASSUME Risk(w) PROVE risked' \subseteq Jobs
  BY <1>r DEF Risk, Copies, Copy, History
<1>7. CASE Crash(w)
  <2>1. crashes' \in Nat /\ risked' \subseteq Jobs
    BY <1>7, <1>r DEF Crash, History
  <2> QED BY <1>7, <2>1, ReturnType DEF Crash, redis, settled, Lists, Leases, Stores, History
<1>8. CASE Raise(w)
  <2>1. faults' = faults + 1 /\ Risk(w)
    BY <1>8 DEF Raise
  <2>3. faults' \in Nat /\ risked' \subseteq Jobs
    BY <2>1, <1>r DEF History
  <2>2. Places' /\ Ids' /\ Copies' /\ Beats' /\ dropped' \subseteq Jobs
    <3>1. CASE /\ at[w] \in Restoring
               /\ at' = [at EXCEPT ![w] = "scan due"]
               /\ todo' = [todo EXCEPT ![w] = {}]
               /\ cur' = [cur EXCEPT ![w] = None]
               /\ copy' = [copy EXCEPT ![w] = None]
               /\ UNCHANGED <<beat, dropped>>
      BY <3>1 DEF Places, Steps, Ids, Copies, Beats, Received, Rejecting, Restoring, History
    <3>2. CASE /\ at[w] \in {"lpush", "unschedule"}
               /\ at' = [at EXCEPT ![w] = "rpop"]
               /\ todo' = [todo EXCEPT ![w] = {}]
               /\ cur' = [cur EXCEPT ![w] = None]
               /\ UNCHANGED <<copy, beat, dropped>>
      BY <3>2 DEF Places, Steps, Ids, Copies, Beats, Received, Rejecting, History
    <3>3. CASE Return(w) /\ UNCHANGED dropped
      BY <3>3, ReturnType DEF History
    <3>4. CASE at[w] \in {"ack", "ack del"} /\ Decide(w, MayRetry(w)) /\ UNCHANGED <<todo, cur, copy>>
      <4>1. copy[w] # None
        BY <3>4 DEF Copies, Received
      <4>2. MayRetry(w) \in BOOLEAN
        BY DEF MayRetry
      <4> QED BY <1>2, <3>4, <4>1, <4>2 DEF Ids
    <3> QED BY <1>8, <3>1, <3>2, <3>3, <3>4 DEF Raise
  <2> QED BY <1>8, <2>2, <2>3 DEF Raise, redis, Lists, Leases, Stores, History
<1> QED
  BY <1>1, <1>3, <1>4, <1>5, <1>6, <1>7, <1>8 DEF Handle, Heartbeat

LEMMA TickType == ASSUME Typed, Tick PROVE Typed'
<1> USE DEF Typed
<1>1. \A left \in Nat \cup {None} : Sooner(left) \in Nat \cup {None}
  BY RedisAssumption DEF Sooner
<1>2. Leases'
  BY <1>1 DEF Tick, Leases
<1>3. \A entry \in Payload \cup {None} : Aged(entry) \in Payload \cup {None}
  BY DEF Aged, Payload
<1>4. Stores'
  BY <1>3 DEF Tick, Stores
<1>5. \A left \in Nat : Sooner(left) \in Nat
  BY RedisAssumption DEF Sooner
<1>6. Beats'
  BY <1>5 DEF Tick, Beats, Beat
<1>7. lapses' \in Nat
  <2> DEFINE Held == {copy[w].id : w \in Workers}
             f == [w \in Workers |-> copy[w].id]
  <2>4. f \in Surjection(Workers, Held)
    BY DEF Surjection
  <2>1. IsFiniteSet(Held)
    BY <2>4, RedisAssumption, FS_Surjection
  <2>2. Lapsing \subseteq Held
    BY DEF Lapsing, HasCopy
  <2>3. Cardinality(Lapsing) \in Nat
    BY <2>1, <2>2, FS_Subset, FS_CardinalityType
  <2> QED BY <2>3 DEF Tick, History
<1> QED BY <1>2, <1>4, <1>6, <1>7 DEF Tick, settled, Lists, Places, Ids, Copies, History

LEMMA TypeStep == Typed /\ [Next]_vars => Typed'
<1>1. ASSUME Typed, NEW j \in Jobs, Enqueue(j) PROVE Typed'
  <2>1. Lists'
    BY <1>1 DEF Enqueue, Typed, Lists, Copy
  <2> QED BY <1>1, <2>1 DEF Enqueue, local, settled, counts, Typed, Leases, Stores, Places, Ids, Copies, Beats, History
<1>2. ASSUME Typed, NEW j \in Jobs, NEW d \in 1..MaxDelay, Schedule(j, d) PROVE Typed'
  <2>1. Leases'
    BY <1>2, RedisAssumption DEF Schedule, Typed, Leases
  <2> QED BY <1>2, <2>1 DEF Schedule, local, settled, counts, Typed, Lists, Stores, Places, Ids, Copies, Beats, History
<1>3. ASSUME Typed, UNCHANGED vars PROVE Typed'
  BY <1>3 DEF vars, redis, local, settled, counts, Typed, Lists, Leases, Stores, Places, Ids, Copies, Beats, History
<1> QED BY <1>1, <1>2, <1>3, CallType, OtherType, TickType DEF Next

LEMMA TypeInit == Init => Typed
<1> SUFFICES ASSUME Init PROVE Typed
  OBVIOUS
<1>1. Lists /\ Leases /\ Stores /\ Places /\ Ids
  BY RedisAssumption DEF Init, Lists, Leases, Stores, Places, Steps, Ids
<1>2. Copies /\ Beats /\ History
  BY DEF Init, Copies, Beats, History, Received, Rejecting
<1> QED BY <1>1, <1>2 DEF Typed

\* TypeOK: what Redis and the workers hold, whatever fails.
THEOREM TypeCorrect == Spec => []TypeOK
<1>1. Spec => []Typed
  BY TypeInit, TypeStep, PTL DEF Spec
<1> QED BY <1>1, TypeParts, PTL

------------------------------------------------------------------------------
(***************************************************************************)
(* What a worker in the middle of a call holds, and that nothing names a   *)
(* job that was not sent.  A worker that is about to report has its job    *)
(* settled; one that restores holds the copy of the job it deals with.     *)
(***************************************************************************)
Settling == {"ack", "ack del", "drop", "drop del"}

Control(w) ==
  /\ at[w] \in {"rpush", "zrem", "del"} => cur[w] \in todo[w]
  /\ at[w] = "unschedule" => cur[w] \in sent
  /\ at[w] \notin {"rpush", "zrem", "del", "unschedule"} => cur[w] = None
  /\ at[w] = "rpush" => copy[w].id = cur[w]
  /\ at[w] \notin Restoring \cup {"lpush", "unschedule"} => todo[w] = {}
  /\ at[w] \in Settling => copy[w].id \in Settled
  /\ copy[w] # None => copy[w].id \in sent
  /\ todo[w] \subseteq sent

Known ==
  /\ \A i \in DOMAIN list : list[i].id \in sent
  /\ \A j \in Jobs : processing[j] # None \/ scheduled[j] # None \/ payload[j] # None => j \in sent
  /\ \A j \in Jobs : payload[j] # None => payload[j].copy.id = j

Ordered == Known /\ \A w \in Workers : Control(w)

\* The ids in the list, as each command leaves them.
Listed(j) == \E i \in DOMAIN list : list[i].id = j

LEMMA AppendLists ==
  ASSUME Lists, NEW c \in Copy, list' = Append(list, c)
  PROVE  \A j : Listed(j)' <=> Listed(j) \/ j = c.id
<1>1. /\ DOMAIN list' = 1..(Len(list) + 1) /\ DOMAIN list = 1..Len(list) /\ Len(list) \in Nat
      /\ \A i \in 1..Len(list) : list'[i] = list[i]
      /\ list'[Len(list) + 1] = c
  BY DEF Lists
<1>2. \A i \in 1..(Len(list) + 1) : i \in 1..Len(list) \/ i = Len(list) + 1
  BY <1>1
<1>3. Len(list) + 1 \in 1..(Len(list) + 1) /\ 1..Len(list) \subseteq 1..(Len(list) + 1)
  BY <1>1
<1> QED BY <1>1, <1>2, <1>3 DEF Listed

LEMMA PrependLists ==
  ASSUME Lists, NEW c \in Copy, list' = <<c>> \o list
  PROVE  \A j : Listed(j)' <=> Listed(j) \/ j = c.id
<1>1. /\ DOMAIN list' = 1..(Len(list) + 1) /\ DOMAIN list = 1..Len(list) /\ Len(list) \in Nat
      /\ \A i \in 1..Len(list) : list'[i + 1] = list[i]
      /\ list'[1] = c
  <2>1. list \in Seq(Copy) /\ <<c>> \in Seq(Copy) /\ Len(<<c>>) = 1 /\ <<c>>[1] = c /\ Len(list) \in Nat
    BY DEF Lists
  <2>2. /\ list' \in Seq(Copy) /\ Len(list') = 1 + Len(list)
        /\ \A i \in 1..(1 + Len(list)) : list'[i] = IF i <= 1 THEN <<c>>[i] ELSE list[i - 1]
    BY <2>1, ConcatProperties
  <2>3. DOMAIN list = 1..Len(list) /\ DOMAIN list' = 1..(Len(list) + 1)
    BY <2>1, <2>2
  <2>4. \A i \in 1..Len(list) : i + 1 \in 1..(1 + Len(list)) /\ ~(i + 1 <= 1) /\ (i + 1) - 1 = i
    BY <2>1
  <2>5. 1 \in 1..(1 + Len(list))
    BY <2>1
  <2> QED BY <2>1, <2>2, <2>3, <2>4, <2>5
<1>2. \A i \in 1..(Len(list) + 1) : i = 1 \/ (i - 1 \in 1..Len(list) /\ list'[i] = list[i - 1])
  <2> SUFFICES ASSUME NEW i \in 1..(Len(list) + 1), i # 1
               PROVE  i - 1 \in 1..Len(list) /\ list'[i] = list[i - 1]
    OBVIOUS
  <2>1. i - 1 \in 1..Len(list) /\ (i - 1) + 1 = i
    BY <1>1
  <2> QED BY <1>1, <2>1
<1>3. 1 \in 1..(Len(list) + 1) /\ \A i \in 1..Len(list) : i + 1 \in 1..(Len(list) + 1)
  BY <1>1
<1>4. \A j : Listed(j)' => Listed(j) \/ j = c.id
  BY <1>1, <1>2 DEF Listed
<1>5. \A j : Listed(j) \/ j = c.id => Listed(j)'
  BY <1>1, <1>3 DEF Listed
<1> QED BY <1>4, <1>5

LEMMA TailLists ==
  ASSUME Lists, list # <<>>, list' = Tail(list)
  PROVE  \A j : Listed(j) <=> Listed(j)' \/ j = Head(list).id
<1>1. /\ DOMAIN list' = 1..(Len(list) - 1) /\ DOMAIN list = 1..Len(list) /\ Len(list) \in Nat \ {0}
      /\ \A i \in 1..(Len(list) - 1) : list'[i] = list[i + 1]
      /\ Head(list) = list[1]
  BY DEF Lists
<1>2. \A i \in 1..Len(list) : i = 1 \/ (i - 1 \in 1..(Len(list) - 1) /\ list[i] = list'[i - 1])
  <2> SUFFICES ASSUME NEW i \in 1..Len(list), i # 1
               PROVE  i - 1 \in 1..(Len(list) - 1) /\ list[i] = list'[i - 1]
    OBVIOUS
  <2>1. i - 1 \in 1..(Len(list) - 1) /\ (i - 1) + 1 = i
    BY <1>1
  <2> QED BY <1>1, <2>1
<1>3. 1 \in 1..Len(list) /\ \A i \in 1..(Len(list) - 1) : i + 1 \in 1..Len(list)
  BY <1>1
<1>4. ASSUME NEW j, Listed(j) PROVE Listed(j)' \/ j = Head(list).id
  <2>1. PICK i \in 1..Len(list) : list[i].id = j
    BY <1>1, <1>4 DEF Listed
  <2> QED BY <1>1, <1>2, <2>1 DEF Listed
<1>5. \A j : Listed(j)' \/ j = Head(list).id => Listed(j)
  BY <1>1, <1>3 DEF Listed
<1> QED BY <1>4, <1>5

LEMMA KnownByIds == Known <=>
  /\ \A j : Listed(j) => j \in sent
  /\ \A j \in Jobs : processing[j] # None \/ scheduled[j] # None \/ payload[j] # None => j \in sent
  /\ \A j \in Jobs : payload[j] # None => payload[j].copy.id = j
BY DEF Known, Listed

\* Only the worker that acts changes what it holds.
Others(w) == \A v \in Workers \ {w} :
  at'[v] = at[v] /\ todo'[v] = todo[v] /\ cur'[v] = cur[v] /\ copy'[v] = copy[v]

LEMMA OthersStay ==
  ASSUME Typed, NEW w \in Workers, Call(w) \/ EndInspection(w) \/ Handle(w) \/ Heartbeat(w)
  PROVE  Others(w)
<1>1. CASE Call(w) \/ EndInspection(w)
  BY <1>1 DEF Typed, Places, Ids, Copies, Others, Call, EndInspection, ScanExpired, GetPayload, Rpush, ZremExpired,
     DelExpired, ScanDue, Lpush, Unschedule, Rpop, AddLease, StorePayload, AckZrem, AckDel, RejectZrem, RejectDel,
     RejectPush, Goto, Return, OrNext
<1>2. CASE Handle(w) \/ Heartbeat(w)
  BY <1>2 DEF Typed, Places, Ids, Copies, Others, Handle, HandlerReturns, HandlerRaises, Decide, Heartbeat, ReadScore,
     SetScore, RefreshTTL, Goto
<1> QED BY <1>1, <1>2

\* Where each command leaves the worker that sends it.
Moved(w, a, t, c, p) == at'[w] = a /\ todo'[w] = t /\ cur'[w] = c /\ copy'[w] = p

LEMMA ScanMoves ==
  ASSUME Typed, NEW w \in Workers
  PROVE  /\ ScanExpired(w) => \/ /\ Reached(processing) = {}
                                 /\ Moved(w, "scan due", {}, cur[w], None)
                              \/ Moved(w, "get", Reached(processing), cur[w], None)
         /\ Rpush(w) => Moved(w, "zrem", todo[w], cur[w], None)
         /\ ZremExpired(w) => Moved(w, "del", todo[w], cur[w], None)
         /\ DelExpired(w) => \/ /\ todo[w] \ {cur[w]} = {}
                                /\ Moved(w, "scan due", {}, None, None)
                             \/ Moved(w, "get", todo[w] \ {cur[w]}, None, None)
         /\ ScanDue(w) => \/ /\ Reached(scheduled) = {}
                             /\ Moved(w, "rpop", {}, cur[w], None)
                          \/ Moved(w, "lpush", Reached(scheduled), cur[w], None)
         /\ Unschedule(w) => \/ /\ todo[w] = {}
                                /\ Moved(w, "rpop", {}, None, None)
                             \/ Moved(w, "lpush", todo[w], None, None)
<1> USE DEF Typed
<1>e. at[w] \in {"idle", "zrem", "del", "scan due", "unschedule"} => copy[w] = None
  BY DEF Copies, Received, Rejecting
<1>1. ScanExpired(w) => \/ /\ Reached(processing) = {}
                           /\ Moved(w, "scan due", {}, cur[w], None)
                        \/ Moved(w, "get", Reached(processing), cur[w], None)
  BY <1>e DEF ScanExpired, OrNext, Places, Ids, Moved
<1>2. Rpush(w) => Moved(w, "zrem", todo[w], cur[w], None)
  BY DEF Rpush, Goto, Places, Copies, Moved
<1>3. ZremExpired(w) => Moved(w, "del", todo[w], cur[w], None)
  BY <1>e DEF ZremExpired, Goto, Places, Moved
<1>4. DelExpired(w) => \/ /\ todo[w] \ {cur[w]} = {}
                          /\ Moved(w, "scan due", {}, None, None)
                       \/ Moved(w, "get", todo[w] \ {cur[w]}, None, None)
  BY <1>e DEF DelExpired, OrNext, Places, Ids, Moved
<1>5. ScanDue(w) => \/ /\ Reached(scheduled) = {}
                       /\ Moved(w, "rpop", {}, cur[w], None)
                    \/ Moved(w, "lpush", Reached(scheduled), cur[w], None)
  BY <1>e DEF ScanDue, OrNext, Places, Ids, Moved
<1>6. Unschedule(w) => \/ /\ todo[w] = {}
                          /\ Moved(w, "rpop", {}, None, None)
                       \/ Moved(w, "lpush", todo[w], None, None)
  BY <1>e DEF Unschedule, OrNext, Places, Ids, Moved
<1> QED BY <1>1, <1>2, <1>3, <1>4, <1>5, <1>6

LEMMA PickMoves ==
  ASSUME Typed, NEW w \in Workers
  PROVE  /\ GetPayload(w) => \E j \in todo[w] :
              \/ payload[j] = None /\ Moved(w, "zrem", todo[w], j, None)
              \/ payload[j] # None /\ Moved(w, "rpush", todo[w], j, payload[j].copy)
         /\ Lpush(w) => \E j \in todo[w] :
              /\ list' = Append(list, [id |-> j, attempts |-> 0])
              /\ Moved(w, "unschedule", todo[w] \ {j}, j, None)
<1> USE DEF Typed
<1>e. at[w] \in {"get", "lpush"} => copy[w] = None
  BY DEF Copies, Received, Rejecting
<1>1. ASSUME GetPayload(w)
      PROVE  \E j \in todo[w] :
              \/ payload[j] = None /\ Moved(w, "zrem", todo[w], j, None)
              \/ payload[j] # None /\ Moved(w, "rpush", todo[w], j, payload[j].copy)
  <2>1. PICK j \in todo[w] : /\ cur' = [cur EXCEPT ![w] = j]
                             /\ IF payload[j] = None
                                  THEN Goto(w, "zrem") /\ UNCHANGED copy
                                  ELSE Goto(w, "rpush") /\ copy' = [copy EXCEPT ![w] = payload[j].copy]
    BY <1>1 DEF GetPayload
  <2>2. todo' = todo /\ copy[w] = None
    BY <1>1, <1>e DEF GetPayload
  <2>3. payload[j] = None => Moved(w, "zrem", todo[w], j, None)
    BY <2>1, <2>2 DEF Goto, Places, Ids, Moved
  <2>4. payload[j] # None => Moved(w, "rpush", todo[w], j, payload[j].copy)
    BY <2>1, <2>2 DEF Goto, Places, Ids, Copies, Moved
  <2> QED BY <2>3, <2>4
<1>2. ASSUME Lpush(w)
      PROVE  \E j \in todo[w] : /\ list' = Append(list, [id |-> j, attempts |-> 0])
                                /\ Moved(w, "unschedule", todo[w] \ {j}, j, None)
  <2>1. PICK j \in todo[w] : /\ list' = Append(list, [id |-> j, attempts |-> 0])
                             /\ cur' = [cur EXCEPT ![w] = j]
                             /\ todo' = [todo EXCEPT ![w] = @ \ {j}]
    BY <1>2 DEF Lpush
  <2>2. at' = [at EXCEPT ![w] = "unschedule"] /\ copy' = copy /\ copy[w] = None
    BY <1>2, <1>e DEF Lpush, Goto
  <2>3. Moved(w, "unschedule", todo[w] \ {j}, j, None)
    BY <2>1, <2>2 DEF Places, Ids, Moved
  <2> QED BY <2>1, <2>3
<1> QED BY <1>1, <1>2

LEMMA WorkMoves ==
  ASSUME Typed, NEW w \in Workers
  PROVE  /\ Rpop(w) => /\ Moved(w, "lease", todo[w], cur[w], [Head(list) EXCEPT !.attempts = @ + 1])
                       /\ copy'[w] \in Copy /\ copy'[w].id = Head(list).id
         /\ AddLease(w) => Moved(w, "store", todo[w], cur[w], copy[w])
         /\ StorePayload(w) => Moved(w, "handling", todo[w], cur[w], copy[w])
         /\ AckZrem(w) => Moved(w, "ack del", todo[w], cur[w], copy[w])
         /\ RejectZrem(w) => \/ at[w] = "retry" /\ Moved(w, "retry del", todo[w], cur[w], copy[w])
                             \/ at[w] = "drop" /\ Moved(w, "drop del", todo[w], cur[w], copy[w])
         /\ RejectDel(w) => \/ at[w] = "retry del" /\ Moved(w, "retry push", todo[w], cur[w], copy[w])
                            \/ at[w] = "drop del" /\ Moved(w, "idle", {}, None, None)
         /\ Return(w) => Moved(w, "idle", {}, None, None)
         /\ Handle(w) => \E s \in {"ack", "retry", "drop"} :
              /\ at[w] = "handling" /\ Moved(w, s, todo[w], cur[w], copy[w])
              /\ Settled' = IF s = "retry" THEN Settled ELSE Settled \cup {copy[w].id}
         /\ Heartbeat(w) => Moved(w, at[w], todo[w], cur[w], copy[w])
<1> USE DEF Typed
<1>1. ASSUME Rpop(w) PROVE /\ Moved(w, "lease", todo[w], cur[w], [Head(list) EXCEPT !.attempts = @ + 1])
                           /\ copy'[w] \in Copy /\ copy'[w].id = Head(list).id
  <2>1. Head(list) \in Copy
    BY <1>1 DEF Rpop, Lists
  <2>2. [Head(list) EXCEPT !.attempts = @ + 1] \in Copy /\ [Head(list) EXCEPT !.attempts = @ + 1].id = Head(list).id
    BY <2>1 DEF Copy
  <2>3. Moved(w, "lease", todo[w], cur[w], [Head(list) EXCEPT !.attempts = @ + 1])
    BY <1>1 DEF Rpop, Goto, Places, Copies, Moved
  <2> QED BY <2>2, <2>3 DEF Moved
<1>2. AddLease(w) => Moved(w, "store", todo[w], cur[w], copy[w])
  BY DEF AddLease, Goto, Places, Moved
<1>3. StorePayload(w) => Moved(w, "handling", todo[w], cur[w], copy[w])
  BY DEF StorePayload, Goto, Places, Moved
<1>4. AckZrem(w) => Moved(w, "ack del", todo[w], cur[w], copy[w])
  BY DEF AckZrem, Goto, Places, Moved
<1>5. RejectZrem(w) => \/ at[w] = "retry" /\ Moved(w, "retry del", todo[w], cur[w], copy[w])
                       \/ at[w] = "drop" /\ Moved(w, "drop del", todo[w], cur[w], copy[w])
  BY DEF RejectZrem, Goto, Places, Moved
<1>6. Return(w) => Moved(w, "idle", {}, None, None)
  BY DEF Return, Places, Ids, Copies, Moved
<1>7. RejectDel(w) => \/ at[w] = "retry del" /\ Moved(w, "retry push", todo[w], cur[w], copy[w])
                      \/ at[w] = "drop del" /\ Moved(w, "idle", {}, None, None)
  <2>1. UNCHANGED <<todo, cur, copy>> /\ Goto(w, "retry push") => Moved(w, "retry push", todo[w], cur[w], copy[w])
    BY DEF Goto, Places, Moved
  <2> QED BY <1>6, <2>1 DEF RejectDel
<1>8. ASSUME Handle(w)
      PROVE  \E s \in {"ack", "retry", "drop"} :
              /\ at[w] = "handling" /\ Moved(w, s, todo[w], cur[w], copy[w])
              /\ Settled' = IF s = "retry" THEN Settled ELSE Settled \cup {copy[w].id}
  <2>1. PICK s \in {"ack", "retry", "drop"} :
          /\ at[w] = "handling" /\ at' = [at EXCEPT ![w] = s] /\ UNCHANGED <<todo, cur, copy>>
          /\ Settled' = IF s = "retry" THEN Settled ELSE Settled \cup {copy[w].id}
    BY <1>8 DEF Handle, HandlerReturns, HandlerRaises, Decide, Goto, Settled
  <2> QED BY <2>1 DEF Places, Moved
<1>9. Heartbeat(w) => Moved(w, at[w], todo[w], cur[w], copy[w])
  BY DEF Heartbeat, ReadScore, SetScore, RefreshTTL, Moved
<1> QED BY <1>1, <1>2, <1>3, <1>4, <1>5, <1>6, <1>7, <1>8, <1>9

LEMMA ControlStep ==
  ASSUME Typed, Ordered, NEW w \in Workers, Call(w) \/ EndInspection(w) \/ Handle(w) \/ Heartbeat(w)
  PROVE  \A v \in Workers : Control(v)'
<1>1. sent' = sent /\ Settled \subseteq Settled'
  BY DEF Call, ScanExpired, GetPayload, Rpush, ZremExpired, DelExpired, ScanDue, Lpush, Unschedule, EndInspection,
     Rpop, AddLease, StorePayload, AckZrem, AckDel, RejectZrem, RejectDel, RejectPush, Handle, HandlerReturns,
     HandlerRaises, Decide, Heartbeat, ReadScore, SetScore, RefreshTTL, settled, Settled
<1>2. ASSUME NEW v \in Workers \ {w} PROVE Control(v)'
  BY <1>1, <1>2, OthersStay DEF Others, Ordered, Control
<1> SUFFICES Control(w)'
  BY <1>2
<1>o. Control(w)
  BY DEF Ordered
<1>p. Reached(processing) \subseteq sent /\ Reached(scheduled) \subseteq sent
  BY DEF Ordered, Known, Reached
<1>n. None \notin Jobs
  BY RedisAssumption
<1>3. CASE ScanExpired(w)
  <2>1. cur[w] = None
    BY <1>3, <1>o DEF ScanExpired, Control
  <2>2. Moved(w, "scan due", {}, None, None) \/ Moved(w, "get", Reached(processing), None, None)
    BY <1>3, <2>1, ScanMoves
  <2> QED BY <1>1, <1>p, <2>2 DEF Moved, Control, Restoring, Settling
<1>4. CASE ScanDue(w)
  <2>1. cur[w] = None
    BY <1>4, <1>o DEF ScanDue, Control
  <2>2. Moved(w, "rpop", {}, None, None) \/ Moved(w, "lpush", Reached(scheduled), None, None)
    BY <1>4, <2>1, ScanMoves
  <2> QED BY <1>1, <1>p, <2>2 DEF Moved, Control, Restoring, Settling
<1>5. CASE GetPayload(w)
  <2>1. PICK j \in todo[w] : \/ payload[j] = None /\ Moved(w, "zrem", todo[w], j, None)
                             \/ payload[j] # None /\ Moved(w, "rpush", todo[w], j, payload[j].copy)
    BY <1>5, PickMoves
  <2>2. j \in sent /\ (payload[j] # None => payload[j].copy.id = j)
    BY <1>o DEF Control, Ordered, Known, Typed, Ids
  <2>3. todo[w] \subseteq sent
    BY <1>o DEF Control
  <2> QED BY <1>1, <2>1, <2>2, <2>3 DEF Moved, Control, Restoring, Settling
<1>6. CASE Rpush(w) \/ ZremExpired(w)
  <2>1. cur[w] \in todo[w] /\ todo[w] \subseteq sent
    BY <1>6, <1>o DEF Control, Rpush, ZremExpired
  <2>2. Moved(w, "zrem", todo[w], cur[w], None) \/ Moved(w, "del", todo[w], cur[w], None)
    BY <1>6, ScanMoves
  <2> QED BY <1>1, <2>1, <2>2 DEF Moved, Control, Restoring, Settling
<1>7. CASE DelExpired(w)
  <2>1. todo[w] \subseteq sent
    BY <1>o DEF Control
  <2>2. Moved(w, "scan due", {}, None, None) \/ Moved(w, "get", todo[w] \ {cur[w]}, None, None)
    BY <1>7, ScanMoves
  <2> QED BY <1>1, <2>1, <2>2 DEF Moved, Control, Restoring, Settling
<1>8. CASE Lpush(w)
  <2>1. PICK j \in todo[w] : Moved(w, "unschedule", todo[w] \ {j}, j, None)
    BY <1>8, PickMoves
  <2>2. todo[w] \subseteq sent
    BY <1>o DEF Control
  <2> QED BY <1>1, <2>1, <2>2 DEF Moved, Control, Restoring, Settling
<1>9. CASE Unschedule(w)
  <2>1. todo[w] \subseteq sent
    BY <1>o DEF Control
  <2>2. Moved(w, "rpop", {}, None, None) \/ Moved(w, "lpush", todo[w], None, None)
    BY <1>9, ScanMoves
  <2> QED BY <1>1, <2>1, <2>2 DEF Moved, Control, Restoring, Settling
<1>10. CASE Rpop(w)
  <2>1. list # <<>> /\ list \in Seq(Copy) /\ at[w] = "rpop"
    BY <1>10 DEF Rpop, Typed, Lists
  <2>2. 1 \in DOMAIN list /\ Head(list) = list[1]
    BY <2>1
  <2>3. Head(list).id \in sent
    BY <2>2 DEF Ordered, Known
  <2>4. cur[w] = None /\ todo[w] = {}
    BY <1>o, <2>1 DEF Control, Restoring
  <2>5. at'[w] = "lease" /\ todo'[w] = {} /\ cur'[w] = None /\ copy'[w].id \in sent
    BY <1>10, <2>3, <2>4, WorkMoves DEF Moved
  <2> QED BY <1>1, <2>5 DEF Control, Restoring, Settling
<1>11. ASSUME NEW a, Moved(w, a, todo[w], cur[w], copy[w]),
              at[w] \in Received, a \in Received, a \in Settling => copy[w].id \in Settled'
       PROVE  Control(w)'
  <2>1. cur[w] = None /\ todo[w] = {} /\ (copy[w] # None => copy[w].id \in sent)
    BY <1>o, <1>11 DEF Control, Restoring, Received, Rejecting
  <2>2. at'[w] = a /\ todo'[w] = {} /\ cur'[w] = None /\ copy'[w] = copy[w]
    BY <1>11, <2>1 DEF Moved
  <2>3. a \notin {"rpush", "zrem", "del", "unschedule"}
    BY <1>11 DEF Received, Rejecting
  <2> QED BY <1>1, <1>11, <2>1, <2>2, <2>3 DEF Control
<1>12. CASE AddLease(w) \/ StorePayload(w) \/ AckZrem(w) \/ RejectZrem(w)
  <2>1. CASE AddLease(w) \/ StorePayload(w)
    <3>1. at[w] \in Received
      BY <2>1 DEF AddLease, StorePayload, Received
    <3>2. Moved(w, "store", todo[w], cur[w], copy[w]) \/ Moved(w, "handling", todo[w], cur[w], copy[w])
      BY <2>1, WorkMoves
    <3> QED BY <1>11, <3>1, <3>2 DEF Received, Settling
  <2>2. CASE AckZrem(w) \/ RejectZrem(w)
    <3>1. at[w] \in Received /\ (at[w] \in Settling => copy[w].id \in Settled')
      BY <2>2, <1>1, <1>o DEF AckZrem, RejectZrem, Received, Rejecting, Control
    <3>2. \/ at[w] = "ack" /\ Moved(w, "ack del", todo[w], cur[w], copy[w])
          \/ at[w] = "retry" /\ Moved(w, "retry del", todo[w], cur[w], copy[w])
          \/ at[w] = "drop" /\ Moved(w, "drop del", todo[w], cur[w], copy[w])
      BY <2>2, WorkMoves DEF AckZrem
    <3>3. {"ack del", "drop del", "retry del"} \subseteq Received
      BY DEF Received, Rejecting
    <3>4. CASE at[w] = "retry"
      BY <1>11, <3>1, <3>2, <3>3, <3>4 DEF Settling
    <3>5. CASE at[w] # "retry"
      <4>1. copy[w].id \in Settled'
        BY <3>1, <3>2, <3>5 DEF Settling
      <4> QED BY <1>11, <3>1, <3>2, <3>3, <3>5, <4>1
    <3> QED BY <3>4, <3>5
  <2> QED BY <1>12, <2>1, <2>2
<1>r. ASSUME Moved(w, "idle", {}, None, None) PROVE Control(w)'
  BY <1>r DEF Moved, Control, Restoring, Settling
<1>13. CASE AckDel(w) \/ RejectPush(w) \/ EndInspection(w)
  BY <1>13, <1>r, WorkMoves DEF AckDel, RejectPush, EndInspection
<1>14. CASE RejectDel(w)
  <2>1. CASE at[w] = "retry del" /\ Moved(w, "retry push", todo[w], cur[w], copy[w])
    BY <1>11, <2>1 DEF Received, Rejecting, Settling
  <2>2. CASE Moved(w, "idle", {}, None, None)
    BY <2>2, <1>r
  <2> QED BY <1>14, <2>1, <2>2, WorkMoves
<1>15. CASE Handle(w)
  <2>1. PICK s \in {"ack", "retry", "drop"} :
          /\ at[w] = "handling" /\ Moved(w, s, todo[w], cur[w], copy[w])
          /\ Settled' = IF s = "retry" THEN Settled ELSE Settled \cup {copy[w].id}
    BY <1>15, WorkMoves
  <2>2. s \in Settling => copy[w].id \in Settled'
    BY <2>1 DEF Settling
  <2> QED BY <1>11, <2>1, <2>2 DEF Received, Rejecting
<1>16. CASE Heartbeat(w)
  <2>1. Moved(w, at[w], todo[w], cur[w], copy[w]) /\ at[w] = "handling"
    BY <1>16, WorkMoves DEF Heartbeat, ReadScore, SetScore, RefreshTTL
  <2> QED BY <1>11, <2>1 DEF Received, Settling
<1> QED
  BY <1>3, <1>4, <1>5, <1>6, <1>7, <1>8, <1>9, <1>10, <1>12, <1>13, <1>14, <1>15, <1>16 DEF Call

\* The three structures that name jobs by id.
Timed == \A j \in Jobs : processing[j] # None \/ scheduled[j] # None => j \in sent
Stored == \A j \in Jobs : payload[j] # None => j \in sent /\ payload[j].copy.id = j

LEMMA KnownParts == Known <=> (\A j : Listed(j) => j \in sent) /\ Timed /\ Stored
BY KnownByIds DEF Timed, Stored

LEMMA KnownStep ==
  ASSUME Typed, Ordered, NEW w \in Workers, Call(w) \/ EndInspection(w) \/ Handle(w) \/ Heartbeat(w)
  PROVE  Known'
<1> USE DEF Typed
<1>k. /\ \A j : Listed(j) => j \in sent
      /\ Timed /\ Stored
  BY KnownParts DEF Ordered
<1>o. Control(w)
  BY DEF Ordered
<1>p. (\A j : Listed(j)' => j \in sent') /\ Timed' /\ Stored' => Known'
  BY DEF Known, Listed, Timed, Stored
<1>l. list' = list => \A j : Listed(j)' => Listed(j)
  BY DEF Listed
<1>1. ASSUME UNCHANGED <<processing, scheduled, payload, sent>>, \A j : Listed(j)' => j \in sent PROVE Known'
  BY <1>k, <1>1, <1>p DEF Timed, Stored
<1>2. ASSUME UNCHANGED <<list, sent>>, Timed', Stored' PROVE Known'
  BY <1>k, <1>l, <1>2, <1>p
<1>c. ASSUME copy[w] # None PROVE copy[w] \in Copy /\ copy[w].id \in sent /\ copy[w].id \in Jobs
  BY <1>c, <1>o DEF Control, Copies, Copy
<1>3. CASE UNCHANGED <<redis, sent>>
  BY <1>3, <1>1, <1>k, <1>l DEF redis
<1>4. CASE Rpush(w) \/ RejectPush(w)
  <2>1. copy[w] # None
    BY <1>4 DEF Rpush, RejectPush, Copies, Received, Rejecting
  <2>2. \A j : Listed(j)' => Listed(j) \/ j = copy[w].id
    BY <1>4, <1>c, <2>1, AppendLists, PrependLists DEF Rpush, RejectPush
  <2> QED BY <1>4, <1>1, <1>k, <1>c, <2>1, <2>2 DEF Rpush, RejectPush
<1>5. CASE Lpush(w)
  <2>1. PICK j \in todo[w] : list' = Append(list, [id |-> j, attempts |-> 0])
    BY <1>5 DEF Lpush
  <2>2. j \in sent /\ j \in Jobs /\ [id |-> j, attempts |-> 0] \in Copy
    BY <1>o DEF Control, Ids, Copy
  <2>3. \A k : Listed(k)' => Listed(k) \/ k = j
    BY <2>1, <2>2, AppendLists
  <2> QED BY <1>5, <1>1, <1>k, <2>2, <2>3 DEF Lpush
<1>6. CASE Rpop(w)
  <2>1. list' = Tail(list) /\ list # <<>> /\ UNCHANGED <<processing, scheduled, payload, sent>>
    BY <1>6 DEF Rpop
  <2> QED BY <1>1, <1>k, <2>1, TailLists
<1>7. CASE ZremExpired(w) \/ AckZrem(w) \/ RejectZrem(w) \/ Unschedule(w)
  <2>1. Timed'
    BY <1>7, <1>k DEF ZremExpired, AckZrem, RejectZrem, Unschedule, Leases, Timed
  <2>2. UNCHANGED <<list, sent, payload>>
    BY <1>7 DEF ZremExpired, AckZrem, RejectZrem, Unschedule
  <2> QED BY <1>2, <1>k, <2>1, <2>2 DEF Stored
<1>8. CASE AddLease(w) \/ SetScore(w)
  <2>1. copy[w] # None
    BY <1>8 DEF AddLease, SetScore, Copies, Received
  <2>2. Timed'
    BY <1>8, <1>k, <1>c, <2>1 DEF AddLease, SetScore, Leases, Timed
  <2>3. UNCHANGED <<list, sent, payload>>
    BY <1>8 DEF AddLease, SetScore
  <2> QED BY <1>2, <1>k, <2>2, <2>3 DEF Stored
<1>9. CASE DelExpired(w) \/ AckDel(w) \/ RejectDel(w)
  <2>1. Stored'
    BY <1>9, <1>k DEF DelExpired, AckDel, RejectDel, Stores, Stored
  <2>2. UNCHANGED <<list, sent, processing, scheduled>>
    BY <1>9 DEF DelExpired, AckDel, RejectDel
  <2> QED BY <1>2, <1>k, <2>1, <2>2 DEF Timed
<1>10. CASE StorePayload(w)
  <2>1. copy[w] # None
    BY <1>10 DEF StorePayload, Copies, Received
  <2>2. Stored'
    BY <1>10, <1>k, <1>c, <2>1 DEF StorePayload, Stores, Stored
  <2>3. UNCHANGED <<list, sent, processing, scheduled>>
    BY <1>10 DEF StorePayload
  <2> QED BY <1>2, <1>k, <2>2, <2>3 DEF Timed
<1>11. CASE RefreshTTL(w)
  <2>1. copy[w].id \in Jobs
    BY <1>11 DEF RefreshTTL, Copies, Copy, Received
  <2>2. \A j \in Jobs : payload'[j] # None => payload[j] # None /\ payload'[j].copy = payload[j].copy
    BY <1>11, <2>1 DEF RefreshTTL, Stores, Payload
  <2>3. UNCHANGED <<list, sent, processing, scheduled>>
    BY <1>11 DEF RefreshTTL
  <2> QED BY <1>2, <1>k, <2>2, <2>3 DEF Timed, Stored
<1> QED
  BY <1>3, <1>4, <1>5, <1>6, <1>7, <1>8, <1>9, <1>10, <1>11 DEF Call, Handle, Heartbeat, ScanExpired, GetPayload,
     ScanDue, EndInspection, HandlerReturns, HandlerRaises, ReadScore, redis

LEMMA OrderedInit == Init => Ordered
<1> SUFFICES ASSUME Init PROVE Ordered
  OBVIOUS
<1>1. Known
  BY DEF Init, Known
<1>2. \A w \in Workers : Control(w)
  BY DEF Init, Control, Restoring, Settling
<1> QED BY <1>1, <1>2 DEF Ordered

LEMMA OrderedSend ==
  ASSUME Typed, Ordered, NEW j \in Jobs, Enqueue(j) \/ \E d \in 1..MaxDelay : Schedule(j, d)
  PROVE  Ordered'
<1>1. sent' = sent \cup {j} /\ UNCHANGED <<processing, payload, local, settled>>
  BY DEF Enqueue, Schedule
<1>2. \A v \in Workers : Control(v)'
  BY <1>1 DEF Ordered, Control, local, settled, Settled
<1>3. \A k : Listed(k)' => Listed(k) \/ k = j
  <2>1. CASE Enqueue(j)
    <3>1. [id |-> j, attempts |-> 0] \in Copy
      BY DEF Copy
    <3> QED BY <2>1, <3>1, AppendLists DEF Enqueue, Typed
  <2>2. CASE list' = list
    BY <2>2 DEF Listed
  <2> QED BY <2>1, <2>2 DEF Schedule
<1>4. Timed'
  BY <1>1, KnownParts DEF Ordered, Enqueue, Schedule, Typed, Leases, Timed
<1>5. Stored'
  BY <1>1, KnownParts DEF Ordered, Stored
<1>6. Known'
  <2>1. (\A k : Listed(k)' => k \in sent') /\ Timed' /\ Stored' => Known'
    BY DEF Known, Listed, Timed, Stored
  <2> QED BY <1>1, <1>3, <1>4, <1>5, <2>1, KnownParts DEF Ordered
<1> QED BY <1>2, <1>6 DEF Ordered

LEMMA OrderedTick == ASSUME Typed, Ordered, Tick PROVE Ordered'
<1>1. UNCHANGED <<list, sent, settled, at, todo, cur, copy>>
  BY DEF Tick, settled
<1>2. \A v \in Workers : Control(v)'
  BY <1>1 DEF Ordered, Control, settled, Settled
<1>3. \A j \in Jobs : (processing'[j] = None <=> processing[j] = None) /\ (scheduled'[j] = None <=> scheduled[j] = None)
  BY RedisAssumption DEF Tick, Typed, Leases, Sooner
<1>4. \A j \in Jobs : payload'[j] # None => payload[j] # None /\ payload'[j].copy = payload[j].copy
  BY DEF Tick, Aged, Typed, Stores, Payload
<1>5. Known'
  BY <1>1, <1>3, <1>4 DEF Ordered, Known
<1> QED BY <1>2, <1>5 DEF Ordered

------------------------------------------------------------------------------
(***************************************************************************)
(* What of a job's deliverability one worker's command can change.         *)
(***************************************************************************)
Carrying == {"rpush", "lease", "store", "handling", "retry", "retry del", "retry push"}
Mine(w, j) == \/ HasCopy(w, j) /\ at[w] \in Carrying
              \/ at[w] \in {"lpush", "unschedule"} /\ j \in todo[w]
Restores(w, j) == at[w] \in Restoring /\ j \in todo[w] \ {cur[w]}

Same(j) == Deliverable(j)' <=> Deliverable(j)

LEMMA DeliverableSplit ==
  ASSUME NEW w \in Workers, Others(w), NEW j \in Jobs
  PROVE  \E theirs, restored \in BOOLEAN :
           /\ Deliverable(j) <=>
                \/ Listed(j) \/ scheduled[j] # None \/ Mine(w, j) \/ theirs
                \/ payload[j] # None /\ (processing[j] # None \/ Restores(w, j) \/ restored)
           /\ Deliverable(j)' <=>
                \/ Listed(j)' \/ scheduled'[j] # None \/ Mine(w, j)' \/ theirs
                \/ payload'[j] # None /\ (processing'[j] # None \/ Restores(w, j)' \/ restored)
<1> DEFINE theirs == \E v \in Workers \ {w} : Mine(v, j)
           restored == \E v \in Workers \ {w} : Restores(v, j)
<1>1. \A v \in Workers \ {w} : (Mine(v, j)' <=> Mine(v, j)) /\ (Restores(v, j)' <=> Restores(v, j))
  BY DEF Others, Mine, Restores, HasCopy
<1>2. theirs' <=> theirs
  BY <1>1
<1>3. restored' <=> restored
  BY <1>1
<1>4. Deliverable(j) <=>
        \/ Listed(j) \/ scheduled[j] # None \/ Mine(w, j) \/ theirs
        \/ payload[j] # None /\ (processing[j] # None \/ Restores(w, j) \/ restored)
  <2>1. Mine(w, j) \/ theirs <=>
          \/ \E v \in Workers : HasCopy(v, j) /\ at[v] \in Carrying
          \/ \E v \in Workers : at[v] \in {"lpush", "unschedule"} /\ j \in todo[v]
    BY DEF Mine
  <2>2. Restores(w, j) \/ restored <=> \E v \in Workers : at[v] \in Restoring /\ j \in todo[v] \ {cur[v]}
    BY DEF Restores
  <2> QED BY <2>1, <2>2 DEF Deliverable, Listed, Carrying
<1>5. Deliverable(j)' <=>
        \/ Listed(j)' \/ scheduled'[j] # None \/ Mine(w, j)' \/ theirs'
        \/ payload'[j] # None /\ (processing'[j] # None \/ Restores(w, j)' \/ restored')
  <2>1. Mine(w, j)' \/ theirs' <=>
          \/ \E v \in Workers : HasCopy(v, j)' /\ at'[v] \in Carrying
          \/ \E v \in Workers : at'[v] \in {"lpush", "unschedule"} /\ j \in todo'[v]
    BY DEF Mine
  <2>2. Restores(w, j)' \/ restored' <=> \E v \in Workers : at'[v] \in Restoring /\ j \in todo'[v] \ {cur'[v]}
    BY DEF Restores
  <2> QED BY <2>1, <2>2 DEF Deliverable, Listed, Carrying
<1> HIDE DEF theirs, restored
<1>6. theirs \in BOOLEAN /\ restored \in BOOLEAN
  BY DEF theirs, restored
<1> QED BY <1>2, <1>3, <1>4, <1>5, <1>6

\* Commands that leave every job as deliverable as it was.
LEMMA ScansKeep ==
  ASSUME Typed, Ordered, NEW w \in Workers, NEW j \in Jobs,
         ScanExpired(w) \/ GetPayload(w) \/ Rpush(w) \/ ScanDue(w) \/ Lpush(w) \/ EndInspection(w)
  PROVE  Same(j)
<1>1. Others(w) /\ Control(w) /\ None \notin Jobs
  BY OthersStay, RedisAssumption DEF Call, Ordered
<1>2. PICK theirs \in BOOLEAN, restored \in BOOLEAN :
           /\ Deliverable(j) <=>
                \/ Listed(j) \/ scheduled[j] # None \/ Mine(w, j) \/ theirs
                \/ payload[j] # None /\ (processing[j] # None \/ Restores(w, j) \/ restored)
           /\ Deliverable(j)' <=>
                \/ Listed(j)' \/ scheduled'[j] # None \/ Mine(w, j)' \/ theirs
                \/ payload'[j] # None /\ (processing'[j] # None \/ Restores(w, j)' \/ restored)
  BY <1>1, DeliverableSplit
<1>l. list' = list => (Listed(j)' <=> Listed(j))
  BY DEF Listed
<1>3. CASE ScanExpired(w)
  <2>1. UNCHANGED redis /\ at[w] = "idle"
    BY <1>3 DEF ScanExpired
  <2>2. ~Mine(w, j) /\ ~Restores(w, j)
    BY <2>1 DEF Mine, Carrying, Restores, Restoring
  <2>3. ~Mine(w, j)' /\ (Restores(w, j)' => processing[j] # None)
    BY <1>3, ScanMoves DEF Moved, Mine, Carrying, HasCopy, Restores, Restoring, Reached
  <2> QED BY <1>2, <1>l, <2>1, <2>2, <2>3 DEF redis, Same
<1>4. CASE GetPayload(w)
  <2>1. UNCHANGED redis /\ at[w] = "get" /\ cur[w] = None /\ todo[w] \subseteq Jobs
    BY <1>1, <1>4 DEF GetPayload, Control, Typed, Ids
  <2>2. ~Mine(w, j) /\ (Restores(w, j) <=> j \in todo[w])
    BY <1>1, <2>1 DEF Mine, Carrying, Restores, Restoring
  <2>3. PICK k \in todo[w] : \/ payload[k] = None /\ Moved(w, "zrem", todo[w], k, None)
                             \/ payload[k] # None /\ Moved(w, "rpush", todo[w], k, payload[k].copy)
    BY <1>4, PickMoves
  <2>4. payload[k] # None => payload[k].copy # None /\ payload[k].copy.id = k
    BY <2>1, KnownParts, RedisAssumption DEF Ordered, Stored, Typed, Stores, Payload
  <2>5. /\ Mine(w, j)' <=> j = k /\ payload[k] # None
        /\ Restores(w, j)' <=> j \in todo[w] \ {k}
    BY <2>3, <2>4 DEF Moved, Mine, Carrying, HasCopy, Restores, Restoring
  <2> QED BY <1>2, <1>l, <2>1, <2>2, <2>5 DEF redis, Same
<1>5. CASE Rpush(w)
  <2>1. at[w] = "rpush" /\ UNCHANGED <<processing, payload, scheduled>> /\ list' = <<copy[w]>> \o list
    BY <1>5 DEF Rpush
  <2>2. copy[w] \in Copy /\ copy[w] # None
    BY <2>1 DEF Typed, Copies
  <2>3. Listed(j)' <=> Listed(j) \/ j = copy[w].id
    BY <2>1, <2>2, PrependLists DEF Typed
  <2>4. Mine(w, j) <=> j = copy[w].id
    <3>1. at[w] = "rpush"
      BY <2>1
    <3> QED BY <2>2, <3>1 DEF Mine, Carrying, HasCopy
  <2>5. ~Mine(w, j)' /\ (Restores(w, j)' <=> Restores(w, j))
    BY <1>5, <2>1, ScanMoves DEF Moved, Mine, Carrying, HasCopy, Restores, Restoring
  <2> QED BY <1>2, <2>1, <2>3, <2>4, <2>5 DEF Same
<1>6. CASE ScanDue(w)
  <2>1. UNCHANGED redis /\ at[w] = "scan due"
    BY <1>6 DEF ScanDue
  <2>2. ~Mine(w, j) /\ ~Restores(w, j)
    BY <2>1 DEF Mine, Carrying, Restores, Restoring
  <2>3. ~Restores(w, j)' /\ (Mine(w, j)' => scheduled[j] # None)
    BY <1>6, ScanMoves DEF Moved, Mine, Carrying, HasCopy, Restores, Restoring, Reached
  <2> QED BY <1>2, <1>l, <2>1, <2>2, <2>3 DEF redis, Same
<1>7. CASE Lpush(w)
  <2>1. PICK k \in todo[w] : /\ list' = Append(list, [id |-> k, attempts |-> 0])
                             /\ Moved(w, "unschedule", todo[w] \ {k}, k, None)
    BY <1>7, PickMoves
  <2>2. k \in Jobs /\ [id |-> k, attempts |-> 0] \in Copy /\ [id |-> k, attempts |-> 0].id = k
    BY DEF Typed, Ids, Copy
  <2>3. Listed(j)' <=> Listed(j) \/ j = k
    BY <2>1, <2>2, AppendLists DEF Typed
  <2>4. at[w] = "lpush" /\ UNCHANGED <<processing, payload, scheduled>>
    BY <1>7 DEF Lpush
  <2>5. ~Restores(w, j) /\ (Mine(w, j) <=> j \in todo[w])
    BY <2>4 DEF Mine, Carrying, Restores, Restoring
  <2>6. ~Restores(w, j)' /\ (Mine(w, j)' <=> j \in todo[w] \ {k})
    BY <2>1 DEF Moved, Mine, Carrying, HasCopy, Restores, Restoring
  <2> QED BY <1>2, <2>1, <2>3, <2>4, <2>5, <2>6 DEF Same
<1>8. CASE EndInspection(w)
  <2>1. UNCHANGED redis /\ at[w] \in {"scan due", "rpop"}
    BY <1>8 DEF EndInspection
  <2>2. ~Mine(w, j) /\ ~Restores(w, j)
    BY <2>1 DEF Mine, Carrying, Restores, Restoring
  <2>3. ~Restores(w, j)' /\ ~Mine(w, j)'
    BY <1>8, WorkMoves DEF EndInspection, Moved, Mine, Carrying, HasCopy, Restores, Restoring
  <2> QED BY <1>2, <1>l, <2>1, <2>2, <2>3 DEF redis, Same
<1> QED BY <1>3, <1>4, <1>5, <1>6, <1>7, <1>8

\* A command of a worker that has received a job touches the lease and the
\* payload of that job only.
Touches(id) == \A j \in Jobs \ {id} : /\ payload'[j] = None <=> payload[j] = None
                                      /\ processing'[j] = None <=> processing[j] = None
Clears(id) == Touches(id) /\ (payload[id] = None => payload'[id] = None)
                          /\ (processing[id] = None => processing'[id] = None)

LEMMA HandSplit ==
  ASSUME Typed, Ordered, NEW w \in Workers, Others(w), at[w] \in Received,
         NEW id, id = copy[w].id,
         UNCHANGED <<list, scheduled>>, Touches(id),
         NEW a \in Received \cup {"idle"},
         \/ Moved(w, a, todo[w], cur[w], copy[w])
         \/ a = "idle" /\ Moved(w, a, {}, None, None)
  PROVE  /\ \A j \in Jobs \ {id} : Same(j)
         /\ at[w] \in Carrying /\ a \in Carrying => Same(id)
         /\ a \notin Carrying \/ at[w] \in Carrying => (Clears(id) /\ Deliverable(id)' => Deliverable(id))
<1>1. copy[w] # None /\ id \in Jobs
  BY DEF Typed, Copies, Copy
<1>2. ASSUME NEW j \in Jobs
      PROVE  /\ ~Restores(w, j) /\ ~Restores(w, j)'
             /\ Mine(w, j) <=> j = id /\ at[w] \in Carrying
             /\ Mine(w, j)' <=> j = id /\ a \in Carrying
             /\ Listed(j)' <=> Listed(j)
  <2>1. at[w] \notin Restoring \cup {"lpush", "unschedule"} /\ a \notin Restoring \cup {"lpush", "unschedule"}
    BY DEF Received, Rejecting, Restoring
  <2>2. at'[w] = a /\ (a \in Carrying => copy'[w] = copy[w])
    BY DEF Moved, Carrying
  <2>3. ~Restores(w, j) /\ ~Restores(w, j)'
    BY <2>1, <2>2 DEF Restores
  <2>4. Mine(w, j) <=> j = id /\ at[w] \in Carrying
    BY <1>1, <2>1 DEF Mine, HasCopy
  <2>5. Mine(w, j)' <=> j = id /\ a \in Carrying
    BY <1>1, <2>1, <2>2 DEF Mine, HasCopy
  <2>6. Listed(j)' <=> Listed(j)
    BY DEF Listed
  <2> QED BY <2>3, <2>4, <2>5, <2>6
<1>3. ASSUME NEW j \in Jobs
      PROVE  /\ j # id => Same(j)
             /\ j = id /\ at[w] \in Carrying /\ a \in Carrying => Same(j)
             /\ j = id /\ (a \notin Carrying \/ at[w] \in Carrying) /\ Clears(id) /\ Deliverable(j)' => Deliverable(j)
  <2>1. PICK theirs \in BOOLEAN, restored \in BOOLEAN :
           /\ Deliverable(j) <=>
                \/ Listed(j) \/ scheduled[j] # None \/ Mine(w, j) \/ theirs
                \/ payload[j] # None /\ (processing[j] # None \/ Restores(w, j) \/ restored)
           /\ Deliverable(j)' <=>
                \/ Listed(j)' \/ scheduled'[j] # None \/ Mine(w, j)' \/ theirs
                \/ payload'[j] # None /\ (processing'[j] # None \/ Restores(w, j)' \/ restored)
    BY DeliverableSplit
  <2>2. j # id => Same(j)
    <3>1. j # id => (payload'[j] = None <=> payload[j] = None) /\ (processing'[j] = None <=> processing[j] = None)
      BY DEF Touches
    <3> QED BY <1>2, <2>1, <3>1 DEF Same
  <2>3. j = id /\ at[w] \in Carrying /\ a \in Carrying => Same(j)
    BY <1>2, <2>1 DEF Same
  <2>4. j = id /\ (a \notin Carrying \/ at[w] \in Carrying) /\ Clears(id) /\ Deliverable(j)' => Deliverable(j)
    <3>1. j = id /\ Clears(id) => (payload[j] = None => payload'[j] = None) /\ (processing[j] = None => processing'[j] = None)
      BY DEF Clears
    <3> QED BY <1>2, <2>1, <3>1
  <2> QED BY <2>2, <2>3, <2>4
<1> QED BY <1>1, <1>3

LEMMA WorkKeeps ==
  ASSUME Typed, Ordered, NEW w \in Workers, NEW j \in Jobs,
         \/ Rpop(w) \/ AddLease(w) \/ StorePayload(w) \/ RejectPush(w) \/ Heartbeat(w)
         \/ at[w] \in {"retry", "retry del"} /\ (RejectZrem(w) \/ RejectDel(w))
  PROVE  Same(j)
<1>1. Others(w) /\ Control(w) /\ None \notin Jobs
  BY OthersStay, RedisAssumption DEF Call, Ordered
<1>2. PICK theirs \in BOOLEAN, restored \in BOOLEAN :
           /\ Deliverable(j) <=>
                \/ Listed(j) \/ scheduled[j] # None \/ Mine(w, j) \/ theirs
                \/ payload[j] # None /\ (processing[j] # None \/ Restores(w, j) \/ restored)
           /\ Deliverable(j)' <=>
                \/ Listed(j)' \/ scheduled'[j] # None \/ Mine(w, j)' \/ theirs
                \/ payload'[j] # None /\ (processing'[j] # None \/ Restores(w, j)' \/ restored)
  BY <1>1, DeliverableSplit
<1>3. CASE Rpop(w)
  <2>1. at[w] = "rpop" /\ list # <<>> /\ list' = Tail(list) /\ UNCHANGED <<processing, payload, scheduled>>
    BY <1>3 DEF Rpop
  <2>2. Listed(j) <=> Listed(j)' \/ j = Head(list).id
    BY <2>1, TailLists DEF Typed
  <2>3. ~Mine(w, j) /\ ~Restores(w, j)
    <3>1. at[w] = "rpop"
      BY <2>1
    <3> QED BY <3>1 DEF Mine, Carrying, Restores, Restoring
  <2>4. at'[w] = "lease" /\ copy'[w] # None /\ copy'[w].id = Head(list).id
    BY <1>3, WorkMoves, RedisAssumption DEF Moved
  <2>5. ~Restores(w, j)' /\ (Mine(w, j)' <=> j = Head(list).id)
    BY <2>4 DEF Mine, Carrying, HasCopy, Restores, Restoring
  <2> QED BY <1>2, <2>1, <2>2, <2>3, <2>5 DEF Same
<1>4. CASE RejectPush(w)
  <2>1. at[w] = "retry push" /\ list' = Append(list, copy[w]) /\ UNCHANGED <<processing, payload, scheduled>>
    BY <1>4 DEF RejectPush
  <2>2. copy[w] \in Copy /\ copy[w] # None
    BY <2>1 DEF Typed, Copies, Received, Rejecting
  <2>3. Listed(j)' <=> Listed(j) \/ j = copy[w].id
    BY <2>1, <2>2, AppendLists DEF Typed
  <2>4. ~Restores(w, j) /\ (Mine(w, j) <=> j = copy[w].id)
    <3>1. at[w] = "retry push"
      BY <2>1
    <3> QED BY <2>2, <3>1 DEF Mine, Carrying, HasCopy, Restores, Restoring
  <2>5. at'[w] = "idle"
    BY <1>4, WorkMoves DEF RejectPush, Moved
  <2>6. ~Mine(w, j)' /\ ~Restores(w, j)'
    BY <2>5 DEF Mine, Carrying, HasCopy, Restores, Restoring
  <2> QED BY <1>2, <2>1, <2>3, <2>4, <2>6 DEF Same
<1>5. ASSUME at[w] \in Received \cap Carrying, UNCHANGED <<list, scheduled>>, Touches(copy[w].id),
             NEW a \in Received \cap Carrying, Moved(w, a, todo[w], cur[w], copy[w])
      PROVE  Same(j)
  <2>1. PICK id : id = copy[w].id
    OBVIOUS
  <2>2. Touches(id)
    BY <1>5, <2>1
  <2>3. (\A k \in Jobs \ {id} : Same(k)) /\ Same(id)
    BY <1>1, <1>5, <2>1, <2>2, HandSplit
  <2> QED BY <2>3
<1>c. at[w] \in Received => copy[w].id \in Jobs
  BY DEF Typed, Copies, Copy
<1>6. CASE AddLease(w)
  <2>1. at[w] = "lease" /\ UNCHANGED <<list, scheduled, payload>>
    BY <1>6 DEF AddLease
  <2>2. Touches(copy[w].id)
    BY <1>6 DEF AddLease, Typed, Leases, Touches
  <2> QED BY <1>5, <1>6, <2>1, <2>2, WorkMoves DEF Received, Carrying
<1>7. CASE StorePayload(w)
  <2>1. at[w] = "store" /\ UNCHANGED <<list, scheduled, processing>>
    BY <1>7 DEF StorePayload
  <2>2. Touches(copy[w].id)
    BY <1>7 DEF StorePayload, Typed, Stores, Touches
  <2> QED BY <1>5, <1>7, <2>1, <2>2, WorkMoves DEF Received, Carrying
<1>8. CASE Heartbeat(w)
  <2>1. at[w] = "handling" /\ UNCHANGED <<list, scheduled>>
    BY <1>8 DEF Heartbeat, ReadScore, SetScore, RefreshTTL, redis
  <2>2. Touches(copy[w].id)
    <3>1. CASE UNCHANGED <<processing, payload>>
      BY <3>1 DEF Touches
    <3>2. CASE SetScore(w)
      BY <3>2 DEF SetScore, Typed, Leases, Touches
    <3>3. CASE RefreshTTL(w)
      BY <3>3 DEF RefreshTTL, Typed, Stores, Touches
    <3> QED BY <1>8, <3>1, <3>2, <3>3 DEF Heartbeat, ReadScore, redis
  <2> QED BY <1>5, <1>8, <2>1, <2>2, WorkMoves DEF Received, Carrying
<1>9. CASE at[w] \in {"retry", "retry del"} /\ (RejectZrem(w) \/ RejectDel(w))
  <2>1. at[w] \in Received \cap Carrying /\ UNCHANGED <<list, scheduled>>
    BY <1>9 DEF RejectZrem, RejectDel, Received, Rejecting, Carrying
  <2>2. Touches(copy[w].id)
    BY <1>9, <2>1, <1>c DEF RejectZrem, RejectDel, Typed, Leases, Stores, Touches
  <2>3. Moved(w, "retry del", todo[w], cur[w], copy[w]) \/ Moved(w, "retry push", todo[w], cur[w], copy[w])
    BY <1>9, WorkMoves
  <2>4. {"retry del", "retry push"} \subseteq Received \cap Carrying
    BY DEF Received, Rejecting, Carrying
  <2> QED BY <1>5, <2>1, <2>2, <2>3, <2>4
<1> QED BY <1>3, <1>4, <1>6, <1>7, <1>8, <1>9

\* Commands after which one job may be less deliverable than before.
Loses(id) == (\A j \in Jobs \ {id} : Same(j)) /\ (Deliverable(id)' => Deliverable(id))

LEMMA ScansLose ==
  ASSUME Typed, Ordered, NEW w \in Workers, ZremExpired(w) \/ DelExpired(w) \/ Unschedule(w)
  PROVE  \E id \in sent : id = cur[w] /\ Loses(id)
<1>1. Others(w) /\ Control(w) /\ None \notin Jobs
  BY OthersStay, RedisAssumption DEF Call, Ordered
<1>2. cur[w] \in sent /\ cur[w] \in Jobs /\ at[w] \in {"zrem", "del", "unschedule"}
  BY <1>1 DEF ZremExpired, DelExpired, Unschedule, Control, Typed, Ids, History
<1>3. PICK id \in sent : id = cur[w] /\ id \in Jobs
  BY <1>2
<1>4. ASSUME NEW j \in Jobs PROVE (j # id => Same(j)) /\ (Deliverable(j)' => Deliverable(j))
  <2>1. PICK theirs \in BOOLEAN, restored \in BOOLEAN :
           /\ Deliverable(j) <=>
                \/ Listed(j) \/ scheduled[j] # None \/ Mine(w, j) \/ theirs
                \/ payload[j] # None /\ (processing[j] # None \/ Restores(w, j) \/ restored)
           /\ Deliverable(j)' <=>
                \/ Listed(j)' \/ scheduled'[j] # None \/ Mine(w, j)' \/ theirs
                \/ payload'[j] # None /\ (processing'[j] # None \/ Restores(w, j)' \/ restored)
    BY <1>1, DeliverableSplit
  <2>2. Listed(j)' <=> Listed(j)
    BY DEF ZremExpired, DelExpired, Unschedule, Listed
  <2>3. CASE ZremExpired(w)
    <3>1. at[w] = "zrem" /\ UNCHANGED <<payload, scheduled>>
      BY <2>3 DEF ZremExpired
    <3>2. ~Mine(w, j) /\ (Restores(w, j) <=> j \in todo[w] \ {id})
      BY <1>3, <3>1 DEF Mine, Carrying, Restores, Restoring
    <3>3. ~Mine(w, j)' /\ (Restores(w, j)' <=> j \in todo[w] \ {id})
      BY <1>3, <2>3, ScanMoves DEF Moved, Mine, Carrying, HasCopy, Restores, Restoring
    <3>4. processing'[j] = IF j = id THEN None ELSE processing[j]
      BY <1>3, <2>3 DEF ZremExpired, Typed, Leases
    <3> QED BY <2>1, <2>2, <3>1, <3>2, <3>3, <3>4 DEF Same
  <2>4. CASE DelExpired(w)
    <3>1. at[w] = "del" /\ UNCHANGED <<processing, scheduled>>
      BY <2>4 DEF DelExpired
    <3>2. ~Mine(w, j) /\ (Restores(w, j) <=> j \in todo[w] \ {id})
      BY <1>3, <3>1 DEF Mine, Carrying, Restores, Restoring
    <3>3. ~Mine(w, j)' /\ (Restores(w, j)' <=> j \in todo[w] \ {id})
      BY <1>1, <1>3, <2>4, ScanMoves DEF Moved, Mine, Carrying, HasCopy, Restores, Restoring
    <3>4. payload'[j] = IF j = id THEN None ELSE payload[j]
      BY <1>3, <2>4 DEF DelExpired, Typed, Stores
    <3> QED BY <2>1, <2>2, <3>1, <3>2, <3>3, <3>4 DEF Same
  <2>5. CASE Unschedule(w)
    <3>1. at[w] = "unschedule" /\ UNCHANGED <<processing, payload>>
      BY <2>5 DEF Unschedule
    <3>2. ~Restores(w, j) /\ (Mine(w, j) <=> j \in todo[w])
      BY <3>1 DEF Mine, Carrying, Restores, Restoring
    <3>3. ~Restores(w, j)' /\ (Mine(w, j)' <=> j \in todo[w])
      BY <2>5, ScanMoves DEF Moved, Mine, Carrying, HasCopy, Restores, Restoring
    <3>4. scheduled'[j] = IF j = id THEN None ELSE scheduled[j]
      BY <1>3, <2>5 DEF Unschedule, Typed, Leases
    <3> QED BY <2>1, <2>2, <3>1, <3>2, <3>3, <3>4 DEF Same
  <2> QED BY <2>3, <2>4, <2>5
<1> QED BY <1>3, <1>4 DEF Loses

LEMMA ReportsLose ==
  ASSUME Typed, Ordered, NEW w \in Workers, NEW id, id = copy[w].id,
         \/ AckZrem(w) \/ AckDel(w) \/ Handle(w)
         \/ at[w] \in {"drop", "drop del"} /\ (RejectZrem(w) \/ RejectDel(w))
  PROVE  Loses(id)
<1>1. Others(w) /\ Control(w) /\ at[w] \in Received
  BY OthersStay, WorkMoves DEF Call, Ordered, AckZrem, AckDel, Received, Rejecting
<1>2. id \in Jobs
  BY <1>1 DEF Typed, Copies, Copy
<1>3. ASSUME UNCHANGED <<list, scheduled>>, Touches(id), Clears(id), NEW a \in Received \cup {"idle"},
             \/ Moved(w, a, todo[w], cur[w], copy[w])
             \/ a = "idle" /\ Moved(w, a, {}, None, None),
             a \notin Carrying \/ at[w] \in Carrying
      PROVE  Loses(id)
  BY <1>1, <1>3, HandSplit DEF Loses
<1>4. UNCHANGED <<list, scheduled>>
  BY DEF AckZrem, AckDel, Handle, HandlerReturns, HandlerRaises, RejectZrem, RejectDel, redis
<1>5. CASE AckZrem(w) \/ (RejectZrem(w) /\ at[w] = "drop")
  <2>1. Touches(id) /\ Clears(id)
    BY <1>2, <1>5 DEF AckZrem, RejectZrem, Typed, Leases, Touches, Clears
  <2>2. Moved(w, "ack del", todo[w], cur[w], copy[w]) \/ Moved(w, "drop del", todo[w], cur[w], copy[w])
    BY <1>5, WorkMoves
  <2>3. {"ack del", "drop del"} \subseteq Received \ Carrying
    BY DEF Received, Rejecting, Carrying
  <2> QED BY <1>3, <1>4, <2>1, <2>2, <2>3
<1>6. CASE AckDel(w) \/ (RejectDel(w) /\ at[w] = "drop del")
  <2>1. Touches(id) /\ Clears(id)
    BY <1>2, <1>6 DEF AckDel, RejectDel, Typed, Stores, Touches, Clears
  <2>2. Moved(w, "idle", {}, None, None)
    BY <1>6, WorkMoves DEF AckDel
  <2>3. "idle" \notin Carrying
    BY DEF Carrying
  <2> QED BY <1>3, <1>4, <2>1, <2>2, <2>3
<1>7. CASE Handle(w)
  <2>1. Touches(id) /\ Clears(id)
    BY <1>7 DEF Handle, HandlerReturns, HandlerRaises, redis, Touches, Clears
  <2>2. PICK s \in {"ack", "retry", "drop"} : at[w] = "handling" /\ Moved(w, s, todo[w], cur[w], copy[w])
    BY <1>7, WorkMoves
  <2>3. s \in Received /\ at[w] \in Carrying
    BY <2>2 DEF Received, Rejecting, Carrying
  <2> QED BY <1>3, <1>4, <2>1, <2>2, <2>3
<1> QED BY <1>5, <1>6, <1>7 DEF RejectZrem, RejectDel

------------------------------------------------------------------------------
(***************************************************************************)
(* Where an unsettled job is while nothing fails: in the list, in a hand   *)
(* that will report it or push it back, or still among the delayed ones;   *)
(* and the worker that is about to take it from those has pushed it first. *)
(* Leases and payloads only duplicate it.                                  *)
(***************************************************************************)
Bears == Carrying \ {"rpush"}
Held(j) == Listed(j) \/ \E w \in Workers : HasCopy(w, j) /\ at[w] \in Bears

Covered ==
  /\ \A j \in sent \ Settled : Held(j) \/ scheduled[j] # None
  /\ \A w \in Workers : at[w] = "unschedule" => cur[w] \in Settled \/ Held(cur[w])

LEMMA HeldIsDeliverable == \A j : Held(j) \/ scheduled[j] # None => Deliverable(j)
BY DEF Held, Listed, Bears, Carrying, Deliverable

LEMMA ListedStays ==
  ASSUME Typed, Ordered, NEW w \in Workers, Call(w) \/ EndInspection(w) \/ Handle(w) \/ Heartbeat(w),
         NEW j, Listed(j)
  PROVE  Listed(j)' \/ (Rpop(w) /\ j = Head(list).id)
<1> USE DEF Typed
<1>1. CASE list' = list
  BY <1>1 DEF Listed
<1>2. CASE Rpush(w) \/ RejectPush(w)
  <2>1. copy[w] \in Copy
    BY <1>2 DEF Rpush, RejectPush, Copies, Received, Rejecting
  <2> QED BY <1>2, <2>1, AppendLists, PrependLists DEF Rpush, RejectPush
<1>3. CASE Lpush(w)
  <2>1. PICK k \in todo[w] : list' = Append(list, [id |-> k, attempts |-> 0])
    BY <1>3 DEF Lpush
  <2>2. [id |-> k, attempts |-> 0] \in Copy
    BY DEF Ids, Copy
  <2> QED BY <2>1, <2>2, AppendLists
<1>4. CASE Rpop(w)
  BY <1>4, TailLists DEF Rpop
<1> QED BY <1>1, <1>2, <1>3, <1>4 DEF Call, EndInspection, ScanExpired, GetPayload, ZremExpired, DelExpired, ScanDue,
           Unschedule, AddLease, StorePayload, AckZrem, AckDel, RejectZrem, RejectDel, Handle, HandlerReturns,
           HandlerRaises, Heartbeat, ReadScore, SetScore, RefreshTTL, redis

LEMMA HandStays ==
  ASSUME Typed, Ordered, NEW w \in Workers, Call(w) \/ EndInspection(w) \/ Handle(w) \/ Heartbeat(w),
         NEW j, HasCopy(w, j), at[w] \in Bears
  PROVE  (HasCopy(w, j)' /\ at'[w] \in Bears) \/ Listed(j)' \/ j \in Settled'
<1>1. at[w] \in {"lease", "store", "handling", "retry", "retry del", "retry push"}
  BY DEF Bears, Carrying
<1>2. ASSUME NEW a \in Bears, Moved(w, a, todo[w], cur[w], copy[w]) PROVE HasCopy(w, j)' /\ at'[w] \in Bears
  BY <1>2 DEF Moved, HasCopy
<1>3. CASE AddLease(w) \/ StorePayload(w) \/ Heartbeat(w)
  BY <1>2, <1>3, WorkMoves DEF Bears, Carrying
<1>4. CASE RejectZrem(w) \/ RejectDel(w)
  BY <1>1, <1>2, <1>4, WorkMoves DEF Bears, Carrying
<1>5. CASE RejectPush(w)
  <2>1. copy[w] \in Copy /\ copy[w].id = j
    BY DEF HasCopy, Typed, Copies
  <2> QED BY <1>5, <2>1, AppendLists DEF RejectPush, Typed
<1>6. CASE Handle(w)
  <2>1. PICK s \in {"ack", "retry", "drop"} :
          /\ Moved(w, s, todo[w], cur[w], copy[w])
          /\ Settled' = IF s = "retry" THEN Settled ELSE Settled \cup {copy[w].id}
    BY <1>6, WorkMoves
  <2>2. CASE s = "retry"
    BY <1>2, <2>1, <2>2 DEF Bears, Carrying
  <2>3. CASE s # "retry"
    BY <2>1, <2>3 DEF HasCopy
  <2> QED BY <2>2, <2>3
<1> QED
  BY <1>1, <1>3, <1>4, <1>5, <1>6 DEF Call, EndInspection, ScanExpired, GetPayload, Rpush, ZremExpired, DelExpired,
     ScanDue, Lpush, Unschedule, Rpop, AckZrem, AckDel

LEMMA HeldStays ==
  ASSUME Typed, Ordered, NEW w \in Workers, Call(w) \/ EndInspection(w) \/ Handle(w) \/ Heartbeat(w),
         NEW j, Held(j)
  PROVE  Held(j)' \/ j \in Settled'
<1>1. CASE Listed(j) /\ ~Listed(j)'
  <2>1. Rpop(w) /\ j = Head(list).id
    BY <1>1, ListedStays
  <2>2. at'[w] = "lease" /\ copy'[w] # None /\ copy'[w].id = j
    BY <2>1, WorkMoves, RedisAssumption DEF Moved
  <2> QED BY <2>2 DEF Held, HasCopy, Bears, Carrying
<1>2. ASSUME NEW v \in Workers \ {w}, HasCopy(v, j), at[v] \in Bears PROVE Held(j)'
  <2>1. HasCopy(v, j)' /\ at'[v] \in Bears
    BY <1>2, OthersStay DEF Others, HasCopy
  <2> QED BY <2>1 DEF Held
<1>3. CASE HasCopy(w, j) /\ at[w] \in Bears
  BY <1>3, HandStays DEF Held
<1> QED BY <1>1, <1>2, <1>3 DEF Held

LEMMA CoveredStep ==
  ASSUME Typed, Ordered, Covered, NEW w \in Workers,
         Call(w) \/ EndInspection(w) \/ Handle(w) \/ Heartbeat(w)
  PROVE  Covered'
<1>1. sent' = sent /\ Settled \subseteq Settled'
  BY DEF Call, ScanExpired, GetPayload, Rpush, ZremExpired, DelExpired, ScanDue, Lpush, Unschedule, EndInspection,
     Rpop, AddLease, StorePayload, AckZrem, AckDel, RejectZrem, RejectDel, RejectPush, Handle, HandlerReturns,
     HandlerRaises, Decide, Heartbeat, ReadScore, SetScore, RefreshTTL, settled, Settled
<1>2. \A j \in Jobs : scheduled[j] # None => scheduled'[j] # None \/ (Unschedule(w) /\ j = cur[w])
  BY DEF Typed, Leases, Call, ScanExpired, GetPayload, Rpush, ZremExpired, DelExpired, ScanDue, Lpush, Unschedule,
     EndInspection, Rpop, AddLease, StorePayload, AckZrem, AckDel, RejectZrem, RejectDel, RejectPush, Handle,
     HandlerReturns, HandlerRaises, Heartbeat, ReadScore, SetScore, RefreshTTL, redis
<1>3. ASSUME NEW j \in sent \ Settled' PROVE Held(j)' \/ scheduled'[j] # None
  <2>1. Held(j) \/ scheduled[j] # None
    BY <1>1, <1>3 DEF Covered
  <2>2. CASE Held(j)
    BY <2>2, <1>3, HeldStays
  <2>3. CASE scheduled[j] # None /\ scheduled'[j] = None
    <3>1. Unschedule(w) /\ j = cur[w] /\ at[w] = "unschedule"
      BY <1>2, <1>3, <2>3 DEF Unschedule, Typed, History
    <3>2. Held(j)
      BY <1>1, <1>3, <3>1 DEF Covered
    <3> QED BY <3>2, <1>3, HeldStays
  <2> QED BY <2>1, <2>2, <2>3
<1>4. ASSUME NEW v \in Workers \ {w}, at'[v] = "unschedule", NEW j, j = cur'[v] PROVE j \in Settled' \/ Held(j)'
  <2>1. at[v] = "unschedule" /\ cur[v] = j
    BY <1>4, OthersStay DEF Others
  <2>2. j \in Settled \/ Held(j)
    BY <2>1 DEF Covered
  <2> QED BY <1>1, <2>2, HeldStays
<1>5. ASSUME at'[w] = "unschedule", NEW j, j = cur'[w] PROVE Held(j)'
  <2>1. Lpush(w)
    BY <1>5, ScanMoves, PickMoves, WorkMoves DEF Moved, Call, EndInspection, RejectPush, AckDel, Heartbeat, ReadScore,
       SetScore, RefreshTTL
  <2>2. PICK k \in todo[w] : /\ list' = Append(list, [id |-> k, attempts |-> 0])
                             /\ Moved(w, "unschedule", todo[w] \ {k}, k, None)
    BY <2>1, PickMoves
  <2>3. [id |-> k, attempts |-> 0] \in Copy /\ [id |-> k, attempts |-> 0].id = k /\ j = k
    BY <1>5, <2>2 DEF Typed, Ids, Copy, Moved
  <2>4. Listed(j)'
    BY <2>2, <2>3, AppendLists DEF Typed
  <2> QED BY <2>4 DEF Held
<1>6. ASSUME NEW v \in Workers, at'[v] = "unschedule" PROVE cur'[v] \in Settled' \/ Held(cur[v])'
  <2>1. PICK j : j = cur'[v]
    OBVIOUS
  <2>2. j \in Settled' \/ Held(j)'
    BY <1>4, <1>5, <1>6, <2>1
  <2> QED BY <2>1, <2>2 DEF Held, Listed, HasCopy
<1> QED BY <1>1, <1>3, <1>6 DEF Covered

LEMMA CoveredInit == Init => Covered
BY DEF Init, Covered

LEMMA CoveredSend ==
  ASSUME Typed, Ordered, Covered, NEW j \in Jobs, Enqueue(j) \/ \E d \in 1..MaxDelay : Schedule(j, d)
  PROVE  Covered'
<1>1. sent' = sent \cup {j} /\ UNCHANGED <<local, settled>>
  BY DEF Enqueue, Schedule
<1>2. [id |-> j, attempts |-> 0] \in Copy /\ [id |-> j, attempts |-> 0].id = j
  BY DEF Copy
<1>3. \A k : Listed(k) => Listed(k)'
  BY <1>2, AppendLists DEF Enqueue, Schedule, Typed, Listed
<1>4. \A k : Held(k) => Held(k)'
  BY <1>1, <1>3 DEF Held, HasCopy, local
<1>5. \A k \in Jobs : scheduled[k] # None => scheduled'[k] # None
  BY RedisAssumption DEF Enqueue, Schedule, Typed, Leases
<1>6. Held(j)' \/ scheduled'[j] # None
  <2>1. CASE Enqueue(j)
    BY <2>1, <1>2, AppendLists DEF Enqueue, Typed, Held
  <2>2. ASSUME NEW d \in 1..MaxDelay, Schedule(j, d) PROVE scheduled'[j] # None
    BY <2>2, RedisAssumption DEF Schedule, Typed, Leases
  <2> QED BY <2>1, <2>2
<1>7. \A k \in sent' \ Settled' : Held(k)' \/ scheduled'[k] # None
  BY <1>1, <1>4, <1>5, <1>6 DEF Covered, settled, Settled, Typed, History
<1>8. ASSUME NEW v \in Workers, at'[v] = "unschedule" PROVE cur'[v] \in Settled' \/ Held(cur[v])'
  <2>1. PICK k : k = cur'[v]
    OBVIOUS
  <2>2. at[v] = "unschedule" /\ cur[v] = k
    BY <1>1, <1>8, <2>1 DEF local
  <2>3. k \in Settled' \/ Held(k)'
    BY <1>1, <1>4, <2>2 DEF Covered, settled, Settled
  <2> QED BY <2>1, <2>3 DEF Held, Listed, HasCopy
<1> QED BY <1>7, <1>8 DEF Covered

LEMMA CoveredTick == ASSUME Typed, Ordered, Covered, Tick PROVE Covered'
<1>1. UNCHANGED <<list, sent, settled, at, todo, cur, copy>>
  BY DEF Tick, settled
<1>2. \A j \in Jobs : scheduled'[j] = None <=> scheduled[j] = None
  BY RedisAssumption DEF Tick, Typed, Leases, Sooner
<1>3. \A j : Held(j)' <=> Held(j)
  BY <1>1 DEF Held, Listed, HasCopy
<1>4. \A j \in sent' \ Settled' : Held(j)' \/ scheduled'[j] # None
  BY <1>1, <1>2, <1>3 DEF Covered, settled, Settled, Typed, History
<1>5. ASSUME NEW v \in Workers, at'[v] = "unschedule" PROVE cur'[v] \in Settled' \/ Held(cur[v])'
  <2>1. PICK k : k = cur'[v]
    OBVIOUS
  <2>2. k \in Settled' \/ Held(k)'
    BY <1>1, <1>3, <1>5, <2>1 DEF Covered, settled, Settled
  <2> QED BY <2>1, <2>2 DEF Held, Listed, HasCopy
<1> QED BY <1>4, <1>5 DEF Covered

LEMMA NothingFails ==
  ASSUME MaxCrashes = 0, MaxFaults = 0, Typed, NEW w \in Workers
  PROVE  ~Crash(w) /\ ~Raise(w)
<1>1. ~(crashes < MaxCrashes) /\ ~(faults < MaxFaults)
  BY DEF Typed, History
<1>2. (Crash(w) => crashes < MaxCrashes) /\ (Raise(w) => faults < MaxFaults)
  BY DEF Crash, Raise
<1> QED BY <1>1, <1>2

Inv == Typed /\ Ordered /\ Covered

LEMMA InvHolds == ASSUME MaxCrashes = 0, MaxFaults = 0 PROVE Spec => []Inv
<1>1. Init => Inv
  BY TypeInit, OrderedInit, CoveredInit DEF Inv
<1>2. Inv /\ [Next]_vars => Inv'
  <2> SUFFICES ASSUME Inv, [Next]_vars PROVE Ordered' /\ Covered'
    BY TypeStep DEF Inv
  <2> USE DEF Inv
  <2>1. ASSUME NEW j \in Jobs, Enqueue(j) \/ \E d \in 1..MaxDelay : Schedule(j, d) PROVE Ordered' /\ Covered'
    BY <2>1, OrderedSend, CoveredSend
  <2>2. ASSUME NEW w \in Workers, Call(w) \/ EndInspection(w) \/ Handle(w) \/ Heartbeat(w) PROVE Ordered' /\ Covered'
    BY <2>2, ControlStep, KnownStep, CoveredStep DEF Ordered
  <2>3. ASSUME Tick PROVE Ordered' /\ Covered'
    BY <2>3, OrderedTick, CoveredTick
  <2>4. ASSUME UNCHANGED vars PROVE Ordered' /\ Covered'
    BY <2>4 DEF vars, redis, local, settled, counts, Ordered, Known, Control, Covered, Held, Listed, HasCopy, Settled
  <2> QED BY <2>1, <2>2, <2>3, <2>4, NothingFails DEF Next
<1> QED BY <1>1, <1>2, PTL DEF Spec

(***************************************************************************)
(* As long as no process dies and no command raises, every job that was    *)
(* enqueued or scheduled and that nobody finished or gave up can still be  *)
(* delivered, however the commands of the workers interleave, whichever    *)
(* leases run out under them, and even if nobody looks for as long as the  *)
(* payloads live.                                                          *)
(***************************************************************************)
THEOREM NothingLostHolds == ASSUME MaxCrashes = 0, MaxFaults = 0 PROVE Spec => []NothingLost
<1>1. Inv => NothingLost
  BY HeldIsDeliverable DEF Inv, Covered, NothingLost
<1> QED BY <1>1, InvHolds, PTL

------------------------------------------------------------------------------
(***************************************************************************)
(* While processes die and commands raise, a job that no hand bears is     *)
(* parked: its lease and the payload the lease leads to are both there,    *)
(* and no restore is past the point where it has pushed the job and goes   *)
(* on to remove them.  A hand that fails either leaves its job parked or   *)
(* puts it at risk.                                                        *)
(***************************************************************************)
Parked(j) ==
  /\ processing[j] # None /\ payload[j] # None
  /\ \A v \in Workers : at[v] \in {"zrem", "del"} => cur[v] # j
Kept(j) == Held(j) \/ Parked(j)

Sheltered ==
  /\ \A j \in sent \ (Settled \cup risked) : Kept(j) \/ scheduled[j] # None
  /\ \A w \in Workers : at[w] = "unschedule" => cur[w] \in Settled \cup risked \/ Kept(cur[w])

\* What a worker does when its process dies or its command raises.
Fails(w) == Crash(w) \/ Raise(w)

LEMMA FailKeeps ==
  ASSUME Typed, Ordered, NEW w \in Workers, Fails(w)
  PROVE  /\ UNCHANGED <<redis, sent>> /\ Settled \subseteq Settled' /\ risked \subseteq risked' /\ Risk(w)
         /\ Others(w)
         /\ \/ Moved(w, "idle", {}, None, None)
            \/ at[w] \in Restoring /\ Moved(w, "scan due", {}, None, None)
            \/ at[w] \in {"lpush", "unschedule"} /\ Moved(w, "rpop", {}, None, copy[w])
            \/ /\ at[w] \in {"ack", "ack del"} /\ copy[w].id \in Settled'
               /\ \E a \in {"retry", "drop"} : Moved(w, a, todo[w], cur[w], copy[w])
<1> USE DEF Typed
<1>1. UNCHANGED <<redis, sent>> /\ Risk(w)
  BY DEF Fails, Crash, Raise
<1>2. risked \subseteq risked'
  BY <1>1 DEF Risk
<1>3. Settled \subseteq Settled'
  BY DEF Fails, Crash, Raise, Decide, settled, Settled
<1>4. CASE Return(w)
  <2>1. Others(w)
    BY <1>4 DEF Return, Others, Places, Ids, Copies
  <2> QED BY <1>1, <1>2, <1>3, <1>4, <2>1, WorkMoves
<1>5. CASE /\ at[w] \in Restoring
           /\ at' = [at EXCEPT ![w] = "scan due"]
           /\ todo' = [todo EXCEPT ![w] = {}]
           /\ cur' = [cur EXCEPT ![w] = None]
           /\ copy' = [copy EXCEPT ![w] = None]
  <2>1. Others(w) /\ Moved(w, "scan due", {}, None, None)
    BY <1>5 DEF Others, Moved, Places, Ids, Copies
  <2> QED BY <1>1, <1>2, <1>3, <1>5, <2>1
<1>6. CASE /\ at[w] \in {"lpush", "unschedule"}
           /\ at' = [at EXCEPT ![w] = "rpop"]
           /\ todo' = [todo EXCEPT ![w] = {}]
           /\ cur' = [cur EXCEPT ![w] = None]
           /\ UNCHANGED copy
  <2>1. Others(w) /\ Moved(w, "rpop", {}, None, copy[w])
    BY <1>6 DEF Others, Moved, Places, Ids
  <2> QED BY <1>1, <1>2, <1>3, <1>6, <2>1
<1>7. CASE at[w] \in {"ack", "ack del"} /\ Decide(w, MayRetry(w)) /\ UNCHANGED <<todo, cur, copy>>
  <2>1. PICK a \in {"retry", "drop"} : at' = [at EXCEPT ![w] = a]
    BY <1>7 DEF Decide, Goto
  <2>2. Others(w) /\ Moved(w, a, todo[w], cur[w], copy[w])
    BY <1>7, <2>1 DEF Others, Moved, Places
  <2>3. copy[w].id \in Settled'
    BY <1>3, <1>7 DEF Ordered, Control, Settling
  <2> QED BY <1>1, <1>2, <1>3, <1>7, <2>2, <2>3
<1> QED BY <1>4, <1>5, <1>6, <1>7 DEF Fails, Crash, Raise

LEMMA OrderedFail == ASSUME Typed, Ordered, NEW w \in Workers, Fails(w) PROVE Ordered'
<1>1. /\ UNCHANGED <<redis, sent>> /\ Settled \subseteq Settled' /\ Others(w)
      /\ \/ Moved(w, "idle", {}, None, None)
         \/ at[w] \in Restoring /\ Moved(w, "scan due", {}, None, None)
         \/ at[w] \in {"lpush", "unschedule"} /\ Moved(w, "rpop", {}, None, copy[w])
         \/ /\ at[w] \in {"ack", "ack del"} /\ copy[w].id \in Settled'
            /\ \E a \in {"retry", "drop"} : Moved(w, a, todo[w], cur[w], copy[w])
  BY FailKeeps
<1>2. Known'
  BY <1>1 DEF Ordered, Known, redis
<1>3. ASSUME NEW v \in Workers \ {w} PROVE Control(v)'
  BY <1>1, <1>3 DEF Others, Ordered, Control
<1>o. Control(w)
  BY DEF Ordered
<1>4. Control(w)'
  <2>1. CASE \/ Moved(w, "idle", {}, None, None)
             \/ Moved(w, "scan due", {}, None, None)
             \/ Moved(w, "rpop", {}, None, copy[w])
    <3>1. /\ at'[w] \in {"idle", "scan due", "rpop"} /\ todo'[w] = {} /\ cur'[w] = None
          /\ copy'[w] = None \/ copy'[w] = copy[w]
      BY <2>1 DEF Moved
    <3>2. copy'[w] # None => copy'[w].id \in sent'
      BY <1>1, <1>o, <3>1 DEF Control
    <3> QED BY <1>1, <3>1, <3>2 DEF Control, Restoring, Settling
  <2>2. ASSUME NEW a \in {"retry", "drop"}, at[w] \in {"ack", "ack del"}, copy[w].id \in Settled',
               Moved(w, a, todo[w], cur[w], copy[w])
        PROVE  Control(w)'
    <3>1. cur[w] = None /\ todo[w] = {} /\ (copy[w] # None => copy[w].id \in sent)
      BY <1>o, <2>2 DEF Control, Restoring
    <3>2. at'[w] = a /\ todo'[w] = {} /\ cur'[w] = None /\ copy'[w] = copy[w]
      BY <2>2, <3>1 DEF Moved
    <3> QED BY <1>1, <2>2, <3>1, <3>2 DEF Control, Restoring, Settling
  <2> QED BY <1>1, <2>1, <2>2
<1> QED BY <1>2, <1>3, <1>4 DEF Ordered

\* A command leaves a parked job parked, or listed, or it is the report of a hand
\* that bears the job or has settled it.
LEMMA ParkedStays ==
  ASSUME Typed, Ordered, NEW w \in Workers, Call(w) \/ EndInspection(w) \/ Handle(w) \/ Heartbeat(w),
         NEW j \in Jobs, Parked(j)
  PROVE  Parked(j)' \/ Listed(j)' \/ Held(j) \/ j \in Settled
<1>1. Others(w) /\ Control(w)
  BY OthersStay DEF Ordered
<1>2. ASSUME processing'[j] # None, payload'[j] # None, at'[w] \in {"zrem", "del"} => cur'[w] # j
      PROVE  Parked(j)'
  <2>1. \A v \in Workers : at'[v] \in {"zrem", "del"} => cur'[v] # j
    BY <1>1, <1>2 DEF Others, Parked
  <2> QED BY <1>2, <2>1 DEF Parked
<1>p. processing[j] # None /\ payload[j] # None /\ (at[w] \in {"zrem", "del"} => cur[w] # j)
  BY DEF Parked
<1>3. CASE ScanExpired(w) \/ ScanDue(w) \/ Lpush(w) \/ Unschedule(w) \/ EndInspection(w) \/ Rpop(w) \/ RejectPush(w)
  <2>1. processing' = processing /\ payload' = payload
    BY <1>3 DEF ScanExpired, ScanDue, Lpush, Unschedule, EndInspection, Rpop, RejectPush, redis
  <2>2. at'[w] \notin {"zrem", "del"}
    BY <1>3, ScanMoves, PickMoves, WorkMoves DEF Moved, EndInspection, RejectPush
  <2> QED BY <1>2, <1>p, <2>1, <2>2
<1>4. CASE GetPayload(w)
  <2>1. processing' = processing /\ payload' = payload
    BY <1>4 DEF GetPayload, redis
  <2>2. PICK k \in todo[w] : \/ payload[k] = None /\ Moved(w, "zrem", todo[w], k, None)
                             \/ payload[k] # None /\ Moved(w, "rpush", todo[w], k, payload[k].copy)
    BY <1>4, PickMoves
  <2>3. at'[w] \in {"zrem", "del"} => cur'[w] # j
    BY <1>p, <2>2 DEF Moved
  <2> QED BY <1>2, <1>p, <2>1, <2>3
<1>5. CASE Rpush(w)
  <2>1. processing' = processing /\ payload' = payload /\ at[w] = "rpush" /\ list' = <<copy[w]>> \o list
    BY <1>5 DEF Rpush
  <2>2. copy[w] \in Copy /\ copy[w].id = cur[w]
    BY <1>1, <2>1 DEF Control, Typed, Copies
  <2>3. CASE cur[w] = j
    BY <2>1, <2>2, <2>3, PrependLists DEF Typed
  <2>4. CASE cur[w] # j
    <3>1. cur'[w] # j
      BY <1>5, <2>4, ScanMoves DEF Moved
    <3> QED BY <1>2, <1>p, <2>1, <3>1
  <2> QED BY <2>3, <2>4
<1>6. CASE ZremExpired(w) \/ DelExpired(w)
  <2>1. cur[w] # j
    BY <1>6, <1>p DEF ZremExpired, DelExpired
  <2>2. processing'[j] = processing[j] /\ payload'[j] = payload[j]
    BY <1>6, <2>1 DEF ZremExpired, DelExpired, Typed, Leases, Stores
  <2>3. at'[w] \in {"zrem", "del"} => cur'[w] # j
    BY <1>6, <2>1, ScanMoves DEF Moved
  <2> QED BY <1>2, <1>p, <2>2, <2>3
<1>c. at[w] \in Received => copy[w] \in Copy /\ copy[w] # None
  BY DEF Typed, Copies
<1>7. CASE AddLease(w) \/ StorePayload(w) \/ Heartbeat(w)
  <2>1. processing'[j] # None
    <3>1. CASE AddLease(w)
      BY <1>p, <3>1, RedisAssumption DEF AddLease, Typed, Leases
    <3>2. CASE SetScore(w)
      <4>1. beat[w] \in Beat
        BY <3>2 DEF SetScore, Typed, Beats
      <4>2. beat[w].left # None
        BY <4>1, RedisAssumption DEF Beat
      <4> QED BY <1>p, <3>2, <4>2 DEF SetScore, Typed, Leases
    <3> QED BY <1>7, <1>p, <3>1, <3>2 DEF Heartbeat, StorePayload, ReadScore, RefreshTTL, redis
  <2>2. payload'[j] # None
    <3>1. CASE StorePayload(w)
      <4>1. PICK e : e = [copy |-> copy[w], ttl |-> Visibility + Buffer]
        OBVIOUS
      <4>2. e # None
        BY <1>c, <3>1, <4>1, RedisAssumption DEF StorePayload, Received
      <4> QED BY <1>p, <3>1, <4>1, <4>2 DEF StorePayload, Typed, Stores
    <3>2. CASE RefreshTTL(w)
      <4>1. Stores'
        BY <3>2, OtherType DEF Heartbeat, Typed
      <4>2. PICK id : id = copy[w].id
        OBVIOUS
      <4>3. payload' = payload \/ payload' = [payload EXCEPT ![id] = [payload[id] EXCEPT !.ttl = beat[w].left + Buffer]]
        BY <3>2, <4>2 DEF RefreshTTL
      <4>4. CASE j = id /\ payload' # payload
        <5>1. payload'[j] = [payload[j] EXCEPT !.ttl = beat[w].left + Buffer] /\ payload[j] \in Payload
          BY <1>p, <4>3, <4>4 DEF Typed, Stores
        <5>2. beat[w] \in Beat
          BY <3>2 DEF RefreshTTL, Typed, Beats
        <5>3. [payload[j] EXCEPT !.ttl = beat[w].left + Buffer] \in [copy : Copy, ttl : Nat]
          BY <5>1, <5>2, RedisAssumption DEF Payload, Beat
        <5> QED BY <5>1, <5>3, RedisAssumption
      <4> QED BY <1>p, <4>3, <4>4 DEF Typed, Stores
    <3> QED BY <1>7, <1>p, <3>1, <3>2 DEF Heartbeat, AddLease, ReadScore, SetScore, redis
  <2>3. at'[w] \notin {"zrem", "del"}
    BY <1>7, WorkMoves DEF Moved, Heartbeat, ReadScore, SetScore, RefreshTTL
  <2> QED BY <1>2, <2>1, <2>2, <2>3
<1>8. CASE AckZrem(w) \/ AckDel(w) \/ RejectZrem(w) \/ RejectDel(w)
  <2>1. at[w] \in Settling \cup {"retry", "retry del"} /\ at[w] \in Received
    BY <1>8 DEF AckZrem, AckDel, RejectZrem, RejectDel, Settling, Received, Rejecting
  <2>2. CASE copy[w].id = j
    <3>1. CASE at[w] \in Settling
      BY <1>1, <2>2, <3>1 DEF Control
    <3>2. CASE at[w] \in {"retry", "retry del"}
      BY <1>c, <2>1, <2>2, <3>2 DEF Held, HasCopy, Bears, Carrying
    <3> QED BY <2>1, <3>1, <3>2
  <2>3. CASE copy[w].id # j
    <3>1. processing'[j] = processing[j] /\ payload'[j] = payload[j]
      BY <1>8, <2>3 DEF AckZrem, AckDel, RejectZrem, RejectDel, Typed, Leases, Stores
    <3>2. at'[w] \notin {"zrem", "del"}
      BY <1>8, WorkMoves DEF Moved, AckDel
    <3> QED BY <1>2, <1>p, <3>1, <3>2
  <2> QED BY <2>2, <2>3
<1>9. CASE Handle(w)
  <2>1. processing' = processing /\ payload' = payload
    BY <1>9 DEF Handle, HandlerReturns, HandlerRaises, redis
  <2>2. at'[w] \notin {"zrem", "del"}
    BY <1>9, WorkMoves DEF Moved
  <2> QED BY <1>2, <1>p, <2>1, <2>2
<1> QED BY <1>3, <1>4, <1>5, <1>6, <1>7, <1>8, <1>9 DEF Call

LEMMA KeptStays ==
  ASSUME Typed, Ordered, NEW w \in Workers, Call(w) \/ EndInspection(w) \/ Handle(w) \/ Heartbeat(w),
         NEW j \in Jobs, Kept(j)
  PROVE  Kept(j)' \/ j \in Settled'
<1>1. Settled \subseteq Settled'
  BY DEF Call, ScanExpired, GetPayload, Rpush, ZremExpired, DelExpired, ScanDue, Lpush, Unschedule, EndInspection,
     Rpop, AddLease, StorePayload, AckZrem, AckDel, RejectZrem, RejectDel, RejectPush, Handle, HandlerReturns,
     HandlerRaises, Decide, Heartbeat, ReadScore, SetScore, RefreshTTL, settled, Settled
<1>2. CASE Held(j)
  BY <1>2, HeldStays DEF Kept
<1>3. CASE Parked(j) /\ ~Held(j)
  <2>1. Listed(j)' => Held(j)'
    BY DEF Held
  <2> QED BY <1>1, <1>3, <2>1, ParkedStays DEF Kept
<1> QED BY <1>2, <1>3 DEF Kept

\* A hand that fails leaves its job parked, unless it is at risk.
LEMMA KeptFail ==
  ASSUME Typed, Ordered, NEW w \in Workers, Fails(w), NEW j \in Jobs, Kept(j)
  PROVE  Kept(j)' \/ j \in risked'
<1>1. /\ UNCHANGED <<redis, sent>> /\ Risk(w) /\ Others(w)
      /\ \/ Moved(w, "idle", {}, None, None)
         \/ at[w] \in Restoring /\ Moved(w, "scan due", {}, None, None)
         \/ at[w] \in {"lpush", "unschedule"} /\ Moved(w, "rpop", {}, None, copy[w])
         \/ /\ at[w] \in {"ack", "ack del"} /\ copy[w].id \in Settled'
            /\ \E a \in {"retry", "drop"} : Moved(w, a, todo[w], cur[w], copy[w])
  BY FailKeeps
<1>2. at'[w] \notin {"zrem", "del"}
  BY <1>1 DEF Moved
<1>3. CASE Listed(j)
  <2>1. Listed(j)'
    BY <1>1, <1>3 DEF Listed, redis
  <2> QED BY <2>1 DEF Kept, Held
<1>4. ASSUME NEW v \in Workers \ {w}, HasCopy(v, j), at[v] \in Bears PROVE Kept(j)'
  <2>1. HasCopy(v, j)' /\ at'[v] \in Bears
    BY <1>1, <1>4 DEF Others, HasCopy
  <2> QED BY <2>1 DEF Kept, Held
<1>5. CASE HasCopy(w, j) /\ j \notin risked'
  <2>1. ~Uncovered(w, j)
    BY <1>1, <1>5 DEF Risk, HasCopy
  <2>2. processing[j] # None /\ payload[j] # None /\ \A v \in Workers \ {w} : ~Removing(v, j)
    BY <2>1 DEF Uncovered, Outlived
  <2>3. ASSUME NEW v \in Workers \ {w}, at'[v] \in {"zrem", "del"} PROVE cur'[v] # j
    <3>1. at[v] \in {"zrem", "del"} /\ cur'[v] = cur[v]
      BY <1>1, <2>3 DEF Others
    <3>2. cur[v] \in todo[v]
      BY <3>1 DEF Ordered, Control
    <3> QED BY <2>2, <3>1, <3>2 DEF Removing, Restoring
  <2>4. Parked(j)'
    BY <1>1, <1>2, <2>2, <2>3 DEF Parked, redis
  <2> QED BY <2>4 DEF Kept
<1>6. CASE Parked(j)
  <2>1. Parked(j)'
    BY <1>1, <1>2, <1>6 DEF Parked, Others, redis
  <2> QED BY <2>1 DEF Kept
<1> QED BY <1>3, <1>4, <1>5, <1>6 DEF Kept, Held

LEMMA ShelteredStep ==
  ASSUME Typed, Ordered, Sheltered, NEW w \in Workers,
         Call(w) \/ EndInspection(w) \/ Handle(w) \/ Heartbeat(w)
  PROVE  Sheltered'
<1>1. sent' = sent /\ Settled \subseteq Settled' /\ risked' = risked
  BY DEF Call, ScanExpired, GetPayload, Rpush, ZremExpired, DelExpired, ScanDue, Lpush, Unschedule, EndInspection,
     Rpop, AddLease, StorePayload, AckZrem, AckDel, RejectZrem, RejectDel, RejectPush, Handle, HandlerReturns,
     HandlerRaises, Decide, Heartbeat, ReadScore, SetScore, RefreshTTL, settled, Settled
<1>2. \A j \in Jobs : scheduled[j] # None => scheduled'[j] # None \/ (Unschedule(w) /\ j = cur[w])
  BY DEF Typed, Leases, Call, ScanExpired, GetPayload, Rpush, ZremExpired, DelExpired, ScanDue, Lpush, Unschedule,
     EndInspection, Rpop, AddLease, StorePayload, AckZrem, AckDel, RejectZrem, RejectDel, RejectPush, Handle,
     HandlerReturns, HandlerRaises, Heartbeat, ReadScore, SetScore, RefreshTTL, redis
<1>j. sent \subseteq Jobs
  BY DEF Typed, History
<1>3. ASSUME NEW j \in sent' \ (Settled \cup risked)' PROVE Kept(j)' \/ scheduled'[j] # None
  <2>1. j \in sent \ (Settled \cup risked) /\ j \in Jobs /\ j \notin Settled'
    BY <1>1, <1>3, <1>j
  <2>2. Kept(j) \/ scheduled[j] # None
    BY <2>1 DEF Sheltered
  <2>3. CASE Kept(j)
    BY <2>1, <2>3, KeptStays
  <2>4. CASE scheduled[j] # None /\ scheduled'[j] = None
    <3>1. Unschedule(w) /\ j = cur[w] /\ at[w] = "unschedule"
      BY <1>2, <2>1, <2>4 DEF Unschedule
    <3>2. Kept(j)
      BY <2>1, <3>1 DEF Sheltered
    <3> QED BY <3>2, <2>1, KeptStays
  <2> QED BY <2>2, <2>3, <2>4
<1>4. ASSUME NEW v \in Workers \ {w}, at'[v] = "unschedule", NEW j, j = cur'[v]
      PROVE  j \in Settled' \cup risked' \/ Kept(j)'
  <2>1. at[v] = "unschedule" /\ cur[v] = j
    BY <1>4, OthersStay DEF Others
  <2>2. (j \in Settled \cup risked \/ Kept(j)) /\ j \in Jobs
    BY <1>j, <2>1 DEF Sheltered, Ordered, Control
  <2> QED BY <1>1, <2>2, KeptStays
<1>5. ASSUME at'[w] = "unschedule", NEW j, j = cur'[w] PROVE Kept(j)'
  <2>1. Lpush(w)
    BY <1>5, ScanMoves, PickMoves, WorkMoves DEF Moved, Call, EndInspection, RejectPush, AckDel, Heartbeat, ReadScore,
       SetScore, RefreshTTL
  <2>2. PICK k \in todo[w] : /\ list' = Append(list, [id |-> k, attempts |-> 0])
                             /\ Moved(w, "unschedule", todo[w] \ {k}, k, None)
    BY <2>1, PickMoves
  <2>3. [id |-> k, attempts |-> 0] \in Copy /\ [id |-> k, attempts |-> 0].id = k /\ j = k
    BY <1>5, <2>2 DEF Typed, Ids, Copy, Moved
  <2>4. Listed(j)'
    BY <2>2, <2>3, AppendLists DEF Typed
  <2> QED BY <2>4 DEF Kept, Held
<1>6. ASSUME NEW v \in Workers, at'[v] = "unschedule" PROVE cur'[v] \in (Settled \cup risked)' \/ Kept(cur[v])'
  <2>1. PICK j : j = cur'[v]
    OBVIOUS
  <2>2. j \in Settled' \cup risked' \/ Kept(j)'
    BY <1>4, <1>5, <1>6, <2>1
  <2> QED BY <2>1, <2>2 DEF Kept, Held, Parked, Listed, HasCopy
<1> QED BY <1>3, <1>6 DEF Sheltered

LEMMA ShelteredInit == Init => Sheltered
BY DEF Init, Sheltered

LEMMA ShelteredSend ==
  ASSUME Typed, Ordered, Sheltered, NEW j \in Jobs, Enqueue(j) \/ \E d \in 1..MaxDelay : Schedule(j, d)
  PROVE  Sheltered'
<1>1. sent' = sent \cup {j} /\ UNCHANGED <<local, settled, processing, payload, risked>>
  BY DEF Enqueue, Schedule
<1>2. [id |-> j, attempts |-> 0] \in Copy /\ [id |-> j, attempts |-> 0].id = j
  BY DEF Copy
<1>3. \A k : Listed(k) => Listed(k)'
  BY <1>2, AppendLists DEF Enqueue, Schedule, Typed, Listed
<1>4. \A k : Kept(k) => Kept(k)'
  BY <1>1, <1>3 DEF Kept, Held, Parked, HasCopy, local
<1>5. \A k \in Jobs : scheduled[k] # None => scheduled'[k] # None
  BY RedisAssumption DEF Enqueue, Schedule, Typed, Leases
<1>6. Kept(j)' \/ scheduled'[j] # None
  <2>1. CASE Enqueue(j)
    BY <2>1, <1>2, AppendLists DEF Enqueue, Typed, Kept, Held
  <2>2. ASSUME NEW d \in 1..MaxDelay, Schedule(j, d) PROVE scheduled'[j] # None
    BY <2>2, RedisAssumption DEF Schedule, Typed, Leases
  <2> QED BY <2>1, <2>2
<1>7. \A k \in sent' \ (Settled \cup risked)' : Kept(k)' \/ scheduled'[k] # None
  BY <1>1, <1>4, <1>5, <1>6 DEF Sheltered, settled, Settled, Typed, History
<1>8. ASSUME NEW v \in Workers, at'[v] = "unschedule" PROVE cur'[v] \in (Settled \cup risked)' \/ Kept(cur[v])'
  <2>1. PICK k : k = cur'[v]
    OBVIOUS
  <2>2. at[v] = "unschedule" /\ cur[v] = k
    BY <1>1, <1>8, <2>1 DEF local
  <2>3. k \in Settled' \cup risked' \/ Kept(k)'
    BY <1>1, <1>4, <2>2 DEF Sheltered, settled, Settled
  <2> QED BY <2>1, <2>3 DEF Kept, Held, Parked, Listed, HasCopy
<1> QED BY <1>7, <1>8 DEF Sheltered

\* While the queue is polled, time takes no payload whose lease is still there.
LEMMA TickPolled ==
  ASSUME ~Unpolled, Typed, Tick
  PROVE  \A j \in Jobs : /\ processing'[j] = None <=> processing[j] = None
                         /\ scheduled'[j] = None <=> scheduled[j] = None
                         /\ payload'[j] = None <=> payload[j] = None
<1>1. \A j \in Jobs : (processing'[j] = None <=> processing[j] = None) /\ (scheduled'[j] = None <=> scheduled[j] = None)
  BY RedisAssumption DEF Tick, Typed, Leases, Sooner
<1>2. ASSUME NEW j \in Jobs PROVE payload'[j] = None <=> payload[j] = None
  <2>1. payload'[j] = Aged(payload[j]) /\ (payload[j] # None => payload[j].ttl > 1)
    BY DEF Tick
  <2>2. payload[j] # None => [payload[j] EXCEPT !.ttl = @ - 1] \in [copy : Copy, ttl : Int]
    BY DEF Typed, Stores, Payload
  <2>3. CASE payload[j] # None
    <3>1. payload[j].ttl # 1
      BY <2>1, <2>3
    <3>2. payload'[j] = [payload[j] EXCEPT !.ttl = @ - 1]
      BY <2>1, <2>3, <3>1 DEF Aged
    <3>3. payload'[j] \in Payload
      BY <2>1, <2>3, <3>2 DEF Typed, Stores, Payload
    <3> QED BY <2>3, <3>3, RedisAssumption DEF Payload
  <2>4. CASE payload[j] = None
    BY <2>1, <2>4 DEF Aged
  <2> QED BY <2>3, <2>4
<1> QED BY <1>1, <1>2

LEMMA ShelteredTick == ASSUME ~Unpolled, Typed, Ordered, Sheltered, Tick PROVE Sheltered'
<1>1. UNCHANGED <<list, sent, settled, at, todo, cur, copy, risked>>
  BY DEF Tick, settled
<1>2. \A j \in Jobs : Kept(j)' <=> Kept(j)
  BY <1>1, TickPolled DEF Kept, Held, Parked, Listed, HasCopy
<1>3. \A j \in sent' \ (Settled \cup risked)' : Kept(j)' \/ scheduled'[j] # None
  BY <1>1, <1>2, TickPolled DEF Sheltered, settled, Settled, Typed, History
<1>4. ASSUME NEW v \in Workers, at'[v] = "unschedule" PROVE cur'[v] \in (Settled \cup risked)' \/ Kept(cur[v])'
  <2>1. PICK k : k = cur'[v]
    OBVIOUS
  <2>2. k \in Jobs /\ at[v] = "unschedule" /\ cur[v] = k
    BY <1>1, <1>4, <2>1 DEF Ordered, Control, Typed, History
  <2>3. k \in Settled' \cup risked' \/ Kept(k)'
    BY <1>1, <1>2, <2>2 DEF Sheltered, settled, Settled
  <2> QED BY <2>1, <2>3 DEF Kept, Held, Parked, Listed, HasCopy
<1> QED BY <1>3, <1>4 DEF Sheltered

LEMMA ShelteredFail ==
  ASSUME Typed, Ordered, Sheltered, NEW w \in Workers, Fails(w)
  PROVE  Sheltered'
<1>1. /\ UNCHANGED <<redis, sent>> /\ Settled \subseteq Settled' /\ risked \subseteq risked' /\ Others(w)
      /\ at'[w] # "unschedule"
  BY FailKeeps DEF Moved
<1>j. sent \subseteq Jobs
  BY DEF Typed, History
<1>2. ASSUME NEW j \in sent' \ (Settled \cup risked)' PROVE Kept(j)' \/ scheduled'[j] # None
  <2>1. j \in sent \ (Settled \cup risked) /\ j \in Jobs /\ j \notin risked'
    BY <1>1, <1>2, <1>j
  <2>2. Kept(j) \/ scheduled[j] # None
    BY <2>1 DEF Sheltered
  <2> QED BY <1>1, <2>1, <2>2, KeptFail DEF redis
<1>3. ASSUME NEW v \in Workers, at'[v] = "unschedule" PROVE cur'[v] \in (Settled \cup risked)' \/ Kept(cur[v])'
  <2>1. PICK k : k = cur'[v]
    OBVIOUS
  <2>2. at[v] = "unschedule" /\ cur[v] = k
    BY <1>1, <1>3, <2>1 DEF Others
  <2>3. (k \in Settled \cup risked \/ Kept(k)) /\ k \in Jobs
    BY <1>j, <2>2 DEF Sheltered, Ordered, Control
  <2>4. k \in Settled' \cup risked' \/ Kept(k)'
    BY <1>1, <2>3, KeptFail
  <2> QED BY <2>1, <2>4 DEF Kept, Held, Parked, Listed, HasCopy
<1> QED BY <1>2, <1>3 DEF Sheltered

FailingInv == Typed /\ Ordered /\ Sheltered

(***************************************************************************)
(* Whichever processes die and whichever commands raise, as long as the    *)
(* queue is polled before payloads expire: a job that nobody finished or   *)
(* gave up can still be delivered, unless a hand that failed held it where *)
(* no lease covered it, or where another worker's restore was removing the *)
(* lease.  The handler that dies under an ordinary lease loses nothing.    *)
(***************************************************************************)
THEOREM LostOnlyAtRiskHolds == ASSUME ~Unpolled PROVE Spec => []LostOnlyAtRisk
<1>1. Init => FailingInv
  BY TypeInit, OrderedInit, ShelteredInit DEF FailingInv
<1>2. FailingInv /\ [Next]_vars => FailingInv'
  <2> SUFFICES ASSUME FailingInv, [Next]_vars PROVE Ordered' /\ Sheltered'
    BY TypeStep DEF FailingInv
  <2> USE DEF FailingInv
  <2>1. ASSUME NEW j \in Jobs, Enqueue(j) \/ \E d \in 1..MaxDelay : Schedule(j, d) PROVE Ordered' /\ Sheltered'
    BY <2>1, OrderedSend, ShelteredSend
  <2>2. ASSUME NEW w \in Workers, Call(w) \/ EndInspection(w) \/ Handle(w) \/ Heartbeat(w) PROVE Ordered' /\ Sheltered'
    BY <2>2, ControlStep, KnownStep, ShelteredStep DEF Ordered
  <2>3. ASSUME NEW w \in Workers, Crash(w) \/ Raise(w) PROVE Ordered' /\ Sheltered'
    BY <2>3, OrderedFail, ShelteredFail DEF Fails
  <2>4. ASSUME Tick PROVE Ordered' /\ Sheltered'
    BY <2>4, OrderedTick, ShelteredTick
  <2>5. ASSUME UNCHANGED vars PROVE Ordered' /\ Sheltered'
    BY <2>5 DEF vars, redis, local, settled, counts, Ordered, Known, Control, Sheltered, Kept, Parked, Held, Listed,
       HasCopy, Settled
  <2> QED BY <2>1, <2>2, <2>3, <2>4, <2>5 DEF Next
<1>3. \A j : Kept(j) \/ scheduled[j] # None => Deliverable(j)
  BY HeldIsDeliverable DEF Kept, Parked, Deliverable
<1>4. FailingInv => LostOnlyAtRisk
  BY <1>3 DEF FailingInv, Sheltered, LostOnlyAtRisk
<1> QED BY <1>1, <1>2, <1>4, PTL DEF Spec

------------------------------------------------------------------------------
(***************************************************************************)
(* The refinement: what each command is in the protocol.                   *)
(***************************************************************************)
StoredJobs == {j \in Jobs : Deliverable(j)}

LEMMA StoredSame == ASSUME \A j \in Jobs : Same(j) PROVE StoredJobs' = StoredJobs
BY DEF StoredJobs, Same

LEMMA StoredLoses == ASSUME NEW id, Loses(id) PROVE StoredJobs' \in {StoredJobs, StoredJobs \ {id}}
<1>1. \A j \in Jobs : j # id => (Deliverable(j)' <=> Deliverable(j))
  BY DEF Loses, Same
<1>2. Deliverable(id)' => Deliverable(id)
  BY DEF Loses
<1>3. CASE Deliverable(id)' <=> Deliverable(id)
  BY <1>1, <1>3 DEF StoredJobs
<1>4. CASE ~Deliverable(id)' /\ Deliverable(id)
  <2>1. StoredJobs' = StoredJobs \ {id}
    BY <1>1, <1>4 DEF StoredJobs
  <2> QED BY <2>1
<1> QED BY <1>2, <1>3, <1>4

\* The worker runs a job as long as it bears it.
LEMMA RunningIs == Running = [w \in Workers |-> IF copy[w] # None /\ at[w] \in Bears THEN copy[w].id ELSE None]
BY DEF Running, Bears, Carrying

LEMMA RunningMoves ==
  ASSUME NEW w \in Workers, Others(w), NEW a, NEW p, at'[w] = a, copy'[w] = p
  PROVE  /\ Running \in [Workers -> {Running[v] : v \in Workers}]
         /\ Running' = [Running EXCEPT ![w] = IF p # None /\ a \in Bears THEN p.id ELSE None]
<1>1. Running' = [v \in Workers |-> IF copy'[v] # None /\ at'[v] \in Bears THEN copy'[v].id ELSE None]
  BY DEF Running, Bears, Carrying
<1>2. \A v \in Workers \ {w} : at'[v] = at[v] /\ copy'[v] = copy[v]
  BY DEF Others
<1>3. Running' = [Running EXCEPT ![w] = IF p # None /\ a \in Bears THEN p.id ELSE None]
  BY <1>1, <1>2, RunningIs
<1> QED BY <1>3, RunningIs

Hidden == UNCHANGED <<StoredJobs, Running, Settled, sent>>

\* A command the protocol does not see, or one that drops what is left of a
\* settled job.
LEMMA Unseen ==
  ASSUME \A j \in Jobs : Same(j), UNCHANGED <<Running, Settled, sent>>
  PROVE  [Promise!Next]_Promise!vars
<1>1. UNCHANGED <<StoredJobs, Running, Settled, sent>>
  BY StoredSame
<1> QED BY <1>1 DEF Promise!vars, StoredJobs

LEMMA Forgets ==
  ASSUME NEW id \in Jobs, id \in Settled, Loses(id), UNCHANGED <<Running, Settled, sent>>
  PROVE  [Promise!Next]_Promise!vars
<1>1. StoredJobs' \in {StoredJobs, StoredJobs \ {id}}
  BY StoredLoses
<1>2. CASE StoredJobs' = StoredJobs
  BY <1>2 DEF Promise!vars, StoredJobs
<1>3. CASE StoredJobs' = StoredJobs \ {id}
  <2>1. Promise!Forget(id)
    BY <1>3 DEF Promise!Forget, StoredJobs
  <2> QED BY <2>1 DEF Promise!Next
<1> QED BY <1>1, <1>2, <1>3

LEMMA CommandMaps ==
  ASSUME Inv, NEW w \in Workers, Call(w) \/ EndInspection(w) \/ Handle(w) \/ Heartbeat(w), Inv'
  PROVE  [Promise!Next]_Promise!vars
<1> USE DEF Inv
<1>o. Others(w) /\ Control(w)
  BY OthersStay DEF Ordered
<1>s. sent' = sent
  BY DEF Call, ScanExpired, GetPayload, Rpush, ZremExpired, DelExpired, ScanDue, Lpush, Unschedule, EndInspection,
     Rpop, AddLease, StorePayload, AckZrem, AckDel, RejectZrem, RejectDel, RejectPush, Handle, HandlerReturns,
     HandlerRaises, Heartbeat, ReadScore, SetScore, RefreshTTL
<1>t. ~Handle(w) => Settled' = Settled
  BY DEF Call, ScanExpired, GetPayload, Rpush, ZremExpired, DelExpired, ScanDue, Lpush, Unschedule, EndInspection,
     Rpop, AddLease, StorePayload, AckZrem, AckDel, RejectZrem, RejectDel, RejectPush, Heartbeat, ReadScore, SetScore,
     RefreshTTL, settled, Settled
<1>c. at[w] \in Received => copy[w] # None /\ copy[w].id \in Jobs
  BY DEF Typed, Copies, Copy
<1>r. ASSUME NEW a, NEW p, at'[w] = a, copy'[w] = p,
             (p # None /\ a \in Bears <=> copy[w] # None /\ at[w] \in Bears),
             copy[w] # None /\ at[w] \in Bears => p.id = copy[w].id
      PROVE  Running' = Running
  BY <1>o, <1>r, RunningIs, RunningMoves
<1>b. Bears = {"lease", "store", "handling", "retry", "retry del", "retry push"}
  BY DEF Bears, Carrying
<1>1. CASE ScanExpired(w) \/ GetPayload(w) \/ Rpush(w) \/ ScanDue(w) \/ Lpush(w) \/ EndInspection(w)
           \/ ZremExpired(w) \/ DelExpired(w) \/ Unschedule(w)
  <2>1. at[w] \notin Bears
    BY <1>1, <1>b DEF ScanExpired, GetPayload, Rpush, ScanDue, Lpush, EndInspection, ZremExpired, DelExpired, Unschedule
  <2>2. at'[w] \notin Bears
    BY <1>1, <1>b, ScanMoves, PickMoves, WorkMoves DEF EndInspection, Moved
  <2>3. Running' = Running
    BY <1>r, <2>1, <2>2
  <2>4. Settled' = Settled
    BY <1>1, <1>t DEF Handle, HandlerReturns, HandlerRaises, ScanExpired, GetPayload, Rpush, ScanDue, Lpush,
       EndInspection, ZremExpired, DelExpired, Unschedule
  <2>5. CASE ScanExpired(w) \/ GetPayload(w) \/ Rpush(w) \/ ScanDue(w) \/ Lpush(w) \/ EndInspection(w)
    BY <1>s, <2>3, <2>4, <2>5, ScansKeep, Unseen
  <2>6. CASE ZremExpired(w) \/ DelExpired(w) \/ Unschedule(w)
    <3>1. PICK id \in sent : Loses(id)
      BY <2>6, ScansLose
    <3>2. id \in Jobs
      BY DEF Typed, History
    <3>3. CASE id \in Settled
      BY <1>s, <2>3, <2>4, <3>1, <3>2, <3>3, Forgets
    <3>4. CASE id \notin Settled
      <4>1. id \in sent' \ Settled'
        BY <1>s, <2>4, <3>4
      <4>2. Held(id)' \/ scheduled'[id] # None
        BY <4>1 DEF Covered
      <4>3. Deliverable(id)'
        BY <4>2 DEF Held, Listed, Bears, Carrying, Deliverable
      <4>4. \A j \in Jobs : Same(j)
        BY <3>1, <4>3 DEF Loses, Same
      <4> QED BY <1>s, <2>3, <2>4, <4>4, Unseen
    <3> QED BY <3>3, <3>4
  <2> QED BY <1>1, <2>5, <2>6
<1>2. CASE AddLease(w) \/ StorePayload(w) \/ Heartbeat(w)
           \/ (at[w] \in {"retry", "retry del"} /\ (RejectZrem(w) \/ RejectDel(w)))
  <2>1. at[w] \in Bears /\ at'[w] \in Bears /\ copy'[w] = copy[w]
    BY <1>2, <1>b, WorkMoves DEF AddLease, StorePayload, Heartbeat, ReadScore, SetScore, RefreshTTL, Moved
  <2>2. Running' = Running
    BY <1>r, <2>1
  <2>3. Settled' = Settled
    BY <1>2, <1>t DEF Handle, HandlerReturns, HandlerRaises, AddLease, StorePayload, Heartbeat, ReadScore, SetScore,
       RefreshTTL, RejectZrem, RejectDel, settled, Settled
  <2> QED BY <1>2, <1>s, <2>2, <2>3, WorkKeeps, Unseen
<1>3. CASE AckZrem(w) \/ AckDel(w) \/ (at[w] \in {"drop", "drop del"} /\ (RejectZrem(w) \/ RejectDel(w)))
  <2>1. at[w] \in Settling
    BY <1>3 DEF AckZrem, AckDel, Settling
  <2>2. PICK id : id = copy[w].id
    OBVIOUS
  <2>3. id \in Jobs /\ id \in Settled /\ at[w] \notin Bears
    BY <1>b, <1>c, <1>o, <2>1, <2>2 DEF Control, Settling, Received, Rejecting
  <2>4. at'[w] \notin Bears
    BY <1>3, <1>b, WorkMoves DEF AckDel, Moved
  <2>5. Running' = Running
    BY <1>r, <2>3, <2>4
  <2>6. Settled' = Settled
    BY <1>3, <1>t DEF AckZrem, AckDel, RejectZrem, RejectDel, settled, Settled
  <2>7. Loses(id)
    BY <1>3, <2>2, ReportsLose
  <2> QED BY <1>s, <2>3, <2>5, <2>6, <2>7, Forgets
<1>4. CASE Rpop(w)
  <2>1. PICK id : id = Head(list).id
    OBVIOUS
  <2>2. list # <<>> /\ list \in Seq(Copy) /\ at[w] = "rpop"
    BY <1>4 DEF Rpop, Typed, Lists
  <2>3. 1 \in DOMAIN list /\ list[1].id = id /\ id \in Jobs
    <3>1. 1 \in DOMAIN list /\ Head(list) = list[1] /\ Head(list) \in Copy
      BY <2>2
    <3> QED BY <2>1, <3>1 DEF Copy
  <2>4. Deliverable(id)
    BY <2>3 DEF Deliverable
  <2>5. Running[w] = None
    BY <1>b, <2>2, RunningIs
  <2>6. at'[w] = "lease" /\ copy'[w] # None /\ copy'[w].id = id
    BY <1>4, <2>1, WorkMoves, RedisAssumption DEF Moved
  <2>7. Running' = [Running EXCEPT ![w] = id]
    BY <1>b, <1>o, <2>6, RunningMoves
  <2>8. StoredJobs' = StoredJobs
    BY <1>4, WorkKeeps, StoredSame
  <2>9. Settled' = Settled
    BY <1>4 DEF Rpop, settled, Settled
  <2>10. Promise!Deliver(w, id)
    BY <1>s, <2>3, <2>4, <2>5, <2>7, <2>8, <2>9 DEF Promise!Deliver, StoredJobs
  <2> QED BY <2>3, <2>10 DEF Promise!Next
<1>5. CASE RejectPush(w)
  <2>1. PICK id : id = copy[w].id
    OBVIOUS
  <2>2. at[w] = "retry push" /\ id \in Jobs /\ copy[w] # None
    BY <1>5, <1>c, <2>1 DEF RejectPush, Received, Rejecting
  <2>3. Running[w] = id
    BY <1>b, <2>1, <2>2, RunningIs
  <2>4. at'[w] = "idle" /\ copy'[w] = None
    BY <1>5, WorkMoves DEF RejectPush, Moved
  <2>5. Running' = [Running EXCEPT ![w] = None]
    BY <1>o, <2>4, RunningMoves
  <2>6. StoredJobs' = StoredJobs
    BY <1>5, WorkKeeps, StoredSame
  <2>7. id \in StoredJobs
    BY <1>b, <2>1, <2>2 DEF StoredJobs, Deliverable, HasCopy
  <2>8. Settled' = Settled
    BY <1>5 DEF RejectPush, settled, Settled
  <2>9. Promise!Return(w, id)
    BY <1>s, <2>3, <2>5, <2>6, <2>7, <2>8 DEF Promise!Return, StoredJobs
  <2> QED BY <2>2, <2>9 DEF Promise!Next
<1>6. CASE Handle(w)
  <2>1. PICK id : id = copy[w].id
    OBVIOUS
  <2>2. PICK s \in {"ack", "retry", "drop"} :
          /\ at[w] = "handling" /\ Moved(w, s, todo[w], cur[w], copy[w])
          /\ Settled' = IF s = "retry" THEN Settled ELSE Settled \cup {id}
    BY <1>6, <2>1, WorkMoves
  <2>3. id \in Jobs /\ copy[w] # None /\ at'[w] = s /\ copy'[w] = copy[w]
    BY <1>c, <2>1, <2>2 DEF Received, Moved
  <2>4. Loses(id)
    BY <1>6, <2>1, ReportsLose
  <2>5. Running[w] = id
    BY <1>b, <2>1, <2>2, <2>3, RunningIs
  <2>6. CASE s = "retry"
    <3>1. Running' = Running
      BY <1>b, <1>r, <2>2, <2>3, <2>6
    <3>2. Deliverable(id)'
      BY <1>b, <2>1, <2>3, <2>6 DEF Deliverable, HasCopy
    <3>3. \A j \in Jobs : Same(j)
      <4>1. Deliverable(id)
        BY <2>4, <3>2 DEF Loses
      <4> QED BY <2>4, <3>2, <4>1 DEF Loses, Same
    <3> QED BY <1>s, <2>2, <2>6, <3>1, <3>3, Unseen
  <2>7. CASE s # "retry"
    <3>1. Running' = [Running EXCEPT ![w] = None]
      BY <1>b, <1>o, <2>2, <2>3, <2>7, RunningMoves
    <3>2. StoredJobs' \in {StoredJobs, StoredJobs \ {id}}
      BY <2>4, StoredLoses
    <3>3. Promise!Settle(w, id)
      BY <1>s, <2>2, <2>5, <2>7, <3>1, <3>2 DEF Promise!Settle, StoredJobs
    <3> QED BY <2>3, <3>3 DEF Promise!Next
  <2> QED BY <2>6, <2>7
<1> QED BY <1>1, <1>2, <1>3, <1>4, <1>5, <1>6, WorkMoves DEF Call

LEMMA SendMaps ==
  ASSUME Inv, NEW j \in Jobs, Enqueue(j) \/ \E d \in 1..MaxDelay : Schedule(j, d)
  PROVE  Promise!Submit(j)
<1> USE DEF Inv
<1>1. j \notin sent /\ sent' = sent \cup {j} /\ UNCHANGED <<processing, payload, local, settled>>
  BY DEF Enqueue, Schedule
<1>2. [id |-> j, attempts |-> 0] \in Copy /\ [id |-> j, attempts |-> 0].id = j
  BY DEF Copy
<1>3. \A k \in Jobs : \/ (Listed(k)' <=> Listed(k) \/ k = j) /\ scheduled' = scheduled
                      \/ (Listed(k)' <=> Listed(k)) /\ (scheduled'[k] # None <=> scheduled[k] # None \/ k = j)
  <2>1. CASE Enqueue(j)
    BY <1>2, <2>1, AppendLists DEF Enqueue, Typed
  <2>2. ASSUME NEW d \in 1..MaxDelay, Schedule(j, d), NEW k \in Jobs
        PROVE  (Listed(k)' <=> Listed(k)) /\ (scheduled'[k] # None <=> scheduled[k] # None \/ k = j)
    BY <2>2, RedisAssumption DEF Schedule, Typed, Leases, Listed
  <2> QED BY <2>1, <2>2
<1>4. \A k \in Jobs : Deliverable(k)' <=> Deliverable(k) \/ k = j
  <2> SUFFICES ASSUME NEW k \in Jobs PROVE Deliverable(k)' <=> Deliverable(k) \/ k = j
    OBVIOUS
  <2> DEFINE other == \/ \E w \in Workers : /\ HasCopy(w, k)
                                            /\ at[w] \in {"rpush", "lease", "store", "handling", "retry",
                                                          "retry del", "retry push"}
                      \/ \E w \in Workers : at[w] \in {"lpush", "unschedule"} /\ k \in todo[w]
                      \/ /\ payload[k] # None
                         /\ \/ processing[k] # None
                            \/ \E w \in Workers : at[w] \in Restoring /\ k \in todo[w] \ {cur[w]}
  <2>1. Deliverable(k) <=> Listed(k) \/ scheduled[k] # None \/ other
    BY DEF Deliverable, Listed
  <2>2. Deliverable(k)' <=> Listed(k)' \/ scheduled'[k] # None \/ other'
    BY DEF Deliverable, Listed
  <2>3. other' <=> other
    BY <1>1 DEF HasCopy, local
  <2> HIDE DEF other
  <2> QED BY <1>3, <2>1, <2>2, <2>3
<1>5. StoredJobs' = StoredJobs \cup {j}
  BY <1>4 DEF StoredJobs
<1>6. Running' = Running /\ Settled' = Settled
  BY <1>1 DEF Running, local, settled, Settled
<1> QED BY <1>1, <1>5, <1>6 DEF Promise!Submit, StoredJobs

LEMMA TickMaps == ASSUME ~Unpolled, Inv, Tick PROVE [Promise!Next]_Promise!vars
<1> USE DEF Inv
<1>1. UNCHANGED <<list, sent, settled, at, todo, cur, copy>>
  BY DEF Tick, settled
<1>2. \A j \in Jobs : Same(j)
  BY <1>1, TickPolled DEF Same, Deliverable, HasCopy
<1>3. UNCHANGED <<Running, Settled, sent>>
  BY <1>1 DEF Running, settled, Settled
<1> QED BY <1>2, <1>3, Unseen

(***************************************************************************)
(* KeepsPromise, as long as no process dies, no command raises and the     *)
(* queue is polled before payloads expire: the Redis backend implements    *)
(* the protocol.  Whatever races the restores, the moves and the reports   *)
(* run, every command is a step of AtLeastOnce or changes nothing the      *)
(* protocol speaks of; only what is left of a settled job may go.          *)
(***************************************************************************)
THEOREM KeepsPromiseHolds ==
  ASSUME MaxCrashes = 0, MaxFaults = 0, ~Unpolled
  PROVE  Spec => KeepsPromise
<1>1. Init => Promise!Init
  BY DEF Init, Promise!Init, Deliverable, HasCopy, Running, Settled, Restoring
<1>2. Inv /\ Inv' /\ [Next]_vars => [Promise!Next]_Promise!vars
  <2> SUFFICES ASSUME Inv, Inv', [Next]_vars PROVE [Promise!Next]_Promise!vars
    OBVIOUS
  <2>1. ASSUME NEW j \in Jobs, Enqueue(j) \/ \E d \in 1..MaxDelay : Schedule(j, d)
        PROVE  Promise!Next
    BY <2>1, SendMaps DEF Promise!Next
  <2>2. ASSUME NEW w \in Workers, Call(w) \/ EndInspection(w) \/ Handle(w) \/ Heartbeat(w)
        PROVE  [Promise!Next]_Promise!vars
    BY <2>2, CommandMaps
  <2>3. ASSUME Tick PROVE [Promise!Next]_Promise!vars
    BY <2>3, TickMaps
  <2>4. ASSUME UNCHANGED vars PROVE [Promise!Next]_Promise!vars
    <3>1. \A j \in Jobs : Same(j)
      BY <2>4 DEF vars, redis, local, Same, Deliverable, HasCopy
    <3>2. UNCHANGED <<Running, Settled, sent>>
      BY <2>4 DEF vars, local, settled, Running, Settled
    <3> QED BY <3>1, <3>2, Unseen
  <2> QED BY <2>1, <2>2, <2>3, <2>4, NothingFails DEF Next, Inv
<1> QED BY <1>1, <1>2, InvHolds, PTL DEF Spec, KeepsPromise, Promise!Spec

=============================================================================
