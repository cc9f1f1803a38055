---------------------------- MODULE BillingState ----------------------------
(***************************************************************************)
(* The billing state a process works from: the cache of what the control   *)
(* plane (CP) last said (billing/billing_state_cache.py), the copy in      *)
(* system_settings it falls back on, the trial endpoints of                *)
(* billing/router.py that change what CP says, and the gate of             *)
(* billing/enforcement.py in front of every call that costs money.         *)
(***************************************************************************)
EXTENDS Integers, FiniteSets, FiniteSetsExt

CONSTANTS Processes,
          Calls,       \* billable calls; each costs 1
          Grant,       \* what a period of a hard-capped subscription may cost
          Periods,     \* 1..n, the billing periods
          MaxOutages,  \* bounds the failures of CP
          MaxSpent,    \* bounds the calls
          Lost, NoState

VARIABLES cp,       \* [v, status, period]: CP's state and its version
          today,    \* the period the clock is in; CP may lag behind
          cache,    \* process -> [value, fresh, backoff]
          fetch,    \* process -> the answer of CP that is on its way, Lost, or NoState
          disk,     \* system_settings: the value saved last, or NoState
          trial,    \* process -> a trial endpoint waits for invalidate()
          known,    \* process -> the version its last answered trial action made
          call,     \* call -> [at, p, s]: where the call is, in which process, with which state
          spent,    \* period -> cost recorded
          outages

stateVars == <<cp, today, cache, fetch, disk, trial, known>>
billingVars == <<stateVars, call, spent, outages>>

\* HEALTHY_DEFAULT: not paused, no status, no period, hard_cap with a grant of 0.
Default == [v |-> 0, status |-> "none", period |-> NoState]

Cold == [value |-> NoState, fresh |-> FALSE, backoff |-> FALSE]

BillingInit ==
  /\ cp = [v |-> 1, status |-> "trial", period |-> 1]
  /\ today = 1
  /\ cache = [p \in Processes |-> Cold] /\ fetch = [p \in Processes |-> NoState]
  /\ disk = NoState
  /\ trial = [p \in Processes |-> NoState] /\ known = [p \in Processes |-> 0]
  /\ call = [c \in Calls |-> NoState]
  /\ spent = [k \in Periods |-> 0]
  /\ outages = 0

-----------------------------------------------------------------------------
(* BillingStateCache: get() holds an asyncio lock from the check to the answer. *)

Unlocked(p) == fetch[p] = NoState

\* _is_fresh fails: the ttl has passed.
TtlOver(p) ==
  /\ cache[p].fresh
  /\ cache' = [cache EXCEPT ![p].fresh = FALSE]
  /\ UNCHANGED <<cp, today, fetch, disk, trial, known, call, spent, outages>>

\* _next_retry_after has passed; a success does not clear it.
BackoffOver(p) ==
  /\ cache[p].backoff
  /\ cache' = [cache EXCEPT ![p].backoff = FALSE]
  /\ UNCHANGED <<cp, today, fetch, disk, trial, known, call, spent, outages>>

\* get() asks CP; the answer is formed now and arrives later, or never.
StartFetch(p, answered) ==
  /\ Unlocked(p) /\ ~cache[p].fresh /\ ~cache[p].backoff
  /\ IF answered
     THEN fetch' = [fetch EXCEPT ![p] = cp] /\ UNCHANGED outages
     ELSE /\ outages < MaxOutages /\ outages' = outages + 1
          /\ fetch' = [fetch EXCEPT ![p] = Lost]
  /\ UNCHANGED <<cp, today, cache, disk, trial, known, call, spent>>

Fetched(p) ==
  /\ fetch[p] \notin {NoState, Lost}
  /\ cache' = [cache EXCEPT ![p].value = fetch[p], ![p].fresh = TRUE]
  /\ disk' = fetch[p]
  /\ fetch' = [fetch EXCEPT ![p] = NoState]
  /\ UNCHANGED <<cp, today, trial, known, call, spent, outages>>

\* _serve_stale_or_default: without a value the saved one is restored.
FetchFailed(p) ==
  /\ fetch[p] = Lost
  /\ cache' = [cache EXCEPT ![p].backoff = TRUE,
                            ![p].value = IF cache[p].value = NoState THEN disk ELSE @]
  /\ fetch' = [fetch EXCEPT ![p] = NoState]
  /\ UNCHANGED <<cp, today, disk, trial, known, call, spent, outages>>

\* What get() returns without asking CP.
Cached(p) == IF cache[p].value = NoState THEN Default ELSE cache[p].value
MayServe(p) == Unlocked(p) /\ (cache[p].fresh \/ cache[p].backoff)

-----------------------------------------------------------------------------
(* CP and the trial endpoints. *)

\* _post_trial_action: CP acts, then the cache is invalidated.  If the answer is
\* lost the endpoint reports 502 and invalidates nothing.
TrialAction(p, status, answered) ==
  /\ trial[p] = NoState /\ cp.status = "trial"
  /\ cp' = [cp EXCEPT !.v = @ + 1, !.status = status]
  /\ IF answered
     THEN trial' = [trial EXCEPT ![p] = cp'.v] /\ UNCHANGED outages
     ELSE outages < MaxOutages /\ outages' = outages + 1 /\ UNCHANGED trial
  /\ UNCHANGED <<today, cache, fetch, disk, known, call, spent>>

ForgetUnlocked(p) == cache' = [cache EXCEPT ![p] = Cold]

Forget(p) == Unlocked(p) /\ cache' = [cache EXCEPT ![p] = Cold]

TrialAnswered(p) ==
  /\ trial[p] # NoState
  /\ Forget(p)
  /\ known' = [known EXCEPT ![p] = trial[p]]
  /\ trial' = [trial EXCEPT ![p] = NoState]
  /\ UNCHANGED <<cp, today, fetch, disk, call, spent, outages>>

\* The end of the period passes: a value of that period is no longer fresh.
PeriodEnds ==
  /\ today + 1 \in Periods /\ today' = today + 1
  /\ cache' = [p \in Processes |->
       IF cache[p].value # NoState /\ cache[p].value.period = today
       THEN [cache[p] EXCEPT !.fresh = FALSE] ELSE cache[p]]
  /\ UNCHANGED <<cp, fetch, disk, trial, known, call, spent, outages>>

CpRolls ==
  /\ cp.period < today
  /\ cp' = [cp EXCEPT !.v = @ + 1, !.period = today]
  /\ UNCHANGED <<today, cache, fetch, disk, trial, known, call, spent, outages>>

\* A process starts again: its cache is empty.
Restart(p) ==
  /\ outages < MaxOutages /\ outages' = outages + 1
  /\ cache' = [cache EXCEPT ![p] = Cold]
  /\ fetch' = [fetch EXCEPT ![p] = NoState] /\ trial' = [trial EXCEPT ![p] = NoState]
  /\ known' = [known EXCEPT ![p] = 0]
  /\ call' = [c \in Calls |-> IF call[c] # NoState /\ call[c].p = p THEN NoState ELSE call[c]]
  /\ UNCHANGED <<cp, today, disk, spent>>

-----------------------------------------------------------------------------
(* assert_subscription_active. *)

\* get_usage_summary from the start of the period the state names.
Summary(from) == MapThenSumSet(LAMBDA k : spent[k], {k \in Periods : k >= from})

GateReads(c, p) ==
  /\ call[c] = NoState /\ MayServe(p)
  /\ MapThenSumSet(LAMBDA k : spent[k], Periods) < MaxSpent
  /\ call' = [call EXCEPT ![c] = [at |-> "gate", p |-> p, s |-> Cached(p)]]
  /\ UNCHANGED <<stateVars, spent, outages>>

\* A canceled subscription is refused, and a hard-capped one (here: a trial, and
\* the default) that has no period or has used up its grant.
HardCap(s) == s.status \in {"trial", "none"}
Admits(s) ==
  /\ s.status # "canceled"
  /\ HardCap(s) => s.period # NoState /\ Summary(s.period) < Grant

GateAnswers(c) ==
  /\ call[c] # NoState /\ call[c].at = "gate"
  /\ call' = [call EXCEPT ![c].at = IF Admits(call[c].s) THEN "paid" ELSE "refused"]
  /\ UNCHANGED <<stateVars, spent, outages>>

\* The provider answers and the usage is recorded.
RecordUsage(c) ==
  /\ call[c] # NoState /\ call[c].at = "paid"
  /\ call' = [call EXCEPT ![c] = NoState]
  /\ spent' = [spent EXCEPT ![today] = @ + 1]
  /\ UNCHANGED <<stateVars, outages>>

Refused(c) ==
  /\ call[c] # NoState /\ call[c].at = "refused"
  /\ call' = [call EXCEPT ![c] = NoState]
  /\ UNCHANGED <<stateVars, spent, outages>>

BillingNext ==
  \/ \E p \in Processes :
       \/ TtlOver(p) \/ BackoffOver(p) \/ Fetched(p) \/ FetchFailed(p)
       \/ \E answered \in BOOLEAN : StartFetch(p, answered)
       \/ \E status \in {"active", "canceled"}, answered \in BOOLEAN : TrialAction(p, status, answered)
       \/ TrialAnswered(p) \/ Restart(p)
       \/ \E c \in Calls : GateReads(c, p)
  \/ \E c \in Calls : GateAnswers(c) \/ RecordUsage(c) \/ Refused(c)
  \/ PeriodEnds \/ CpRolls

BillingSpec == BillingInit /\ [][BillingNext]_billingVars

-----------------------------------------------------------------------------
(* Properties. *)

\* Once a trial endpoint has answered, its process serves nothing older than the
\* action as fresh, also when another request had asked CP before the action
\* (the lock makes invalidate() wait for it).
ActionIsSeen ==
  \A p \in Processes : cache[p].fresh => cache[p].value.v >= known[p]

\* While CP says trial, a period costs at most the grant and what the calls that
\* passed the gate together cost: the gate adds up the records itself, and a state that
\* is stale names an earlier period, which only adds more.
CapHolds ==
  cp.status = "trial" => \A k \in Periods : spent[k] <= Grant - 1 + Cardinality(Calls)

\* The state is as new as the answers given with it, and stops what the grant does not pay.
StateIsCurrent == ActionIsSeen /\ CapHolds

\* The comment on HEALTHY_DEFAULT in cp_client.py: OCR and embeddings keep
\* working during an outage of CP.
OutageLetsThrough ==
  \A c \in Calls : call[c] # NoState /\ call[c].s = Default => call[c].at # "refused"
=============================================================================
