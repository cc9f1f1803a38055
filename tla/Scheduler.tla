----------------------------- MODULE Scheduler -----------------------------
(***************************************************************************)
(* The unified scheduler of a process: services/scheduler_service.py with  *)
(* the billing sources of billing/sync.py.  A round gives every tenant of  *)
(* the deployment a session of its own (for_each_tenant_in_deployment of   *)
(* core/tenant.py) and asks every source for its work there.  What the     *)
(* sources do is modelled elsewhere; here it is when they are asked.       *)
(***************************************************************************)
EXTENDS Integers, Sequences

CONSTANTS Tenants,    \* 1..n, in the order of the catalog
          Sources,    \* a sequence: the sources in the order of start_scheduler
          Throttled,  \* the billing sources, which run once in an interval
          Interval,   \* ... in rounds
          Backoff,    \* rounds until a billing source that failed runs again
          MaxRounds   \* bounds the rounds

VARIABLES round,    \* the number of the round: the clock
          at,       \* [tenant, source]: who is asked next; tenant 0 between rounds
          broken,   \* a statement failed in the session of this tenant
          lastRun,  \* billing source -> the round its _last_run stands for
          did,      \* source -> tenant -> the rounds in which it worked for the tenant
          trouble   \* tenant -> the rounds in which something failed for this tenant

schedVars == <<round, at, broken, lastRun, did, trouble>>

SourceSet == {Sources[i] : i \in DOMAIN Sources}

SchedInit ==
  /\ round = 0 /\ at = [tenant |-> 0, source |-> 1] /\ broken = FALSE
  /\ lastRun = [s \in Throttled |-> -Interval]
  /\ did = [s \in SourceSet |-> [t \in Tenants |-> {}]]
  /\ trouble = [t \in Tenants |-> {}]

\* The round begins when the sleep is over.
Wake ==
  /\ at.tenant = 0 /\ round < MaxRounds
  /\ round' = round + 1
  /\ at' = [tenant |-> 1, source |-> 1]
  /\ UNCHANGED <<broken, lastRun, did, trouble>>

\* The next tenant, in a session of its own, or the sleep.
NextTenant ==
  /\ at' = [tenant |-> IF at.tenant + 1 \in Tenants THEN at.tenant + 1 ELSE 0, source |-> 1]
  /\ broken' = FALSE

InTrouble == trouble' = [trouble EXCEPT ![at.tenant] = @ \cup {round}]

\* A source object serves all tenants of its process.
Due(s) == s \in Throttled => round - lastRun[s] >= Interval

RaiseEndsRound(breaks) == at' = [tenant |-> 0, source |-> 1] /\ broken' = FALSE

\* A source that raises is logged and the next one asked; nothing rolls the
\* session back, so after a statement that failed all the others fail too.
GoOn(breaks) ==
  IF at.source = Len(Sources) THEN NextTenant
  ELSE at' = [at EXCEPT !.source = @ + 1] /\ broken' = (broken \/ breaks)

\* cleanup_stale and enqueue_due of one source for one tenant.
Works ==
  LET s == Sources[at.source] IN
  /\ at.tenant # 0 /\ Due(s) /\ ~broken
  /\ did' = [did EXCEPT ![s][at.tenant] = @ \cup {round}]
  /\ lastRun' = IF s \in Throttled THEN [lastRun EXCEPT ![s] = round] ELSE lastRun
  /\ GoOn(FALSE)
  /\ UNCHANGED <<round, trouble>>

Skips ==
  /\ at.tenant # 0 /\ ~Due(Sources[at.source])
  /\ GoOn(FALSE)
  /\ UNCHANGED <<round, lastRun, did, trouble>>

Fails(breaks) ==
  LET s == Sources[at.source] IN
  /\ at.tenant # 0 /\ Due(s)
  /\ lastRun' = IF s \in Throttled THEN [lastRun EXCEPT ![s] = round - Interval + Backoff]
                ELSE lastRun
  /\ InTrouble
  /\ GoOn(breaks)
  /\ UNCHANGED <<round, did>>

\* No session for the tenant, or anything else outside the sources.
TenantFails ==
  /\ at.tenant # 0 /\ at.source = 1
  /\ InTrouble /\ NextTenant
  /\ UNCHANGED <<round, lastRun, did>>

SchedNext ==
  \/ Wake \/ Works \/ Skips \/ TenantFails
  \/ \E breaks \in BOOLEAN : Fails(breaks)

SchedSpec == SchedInit /\ [][SchedNext]_schedVars
-----------------------------------------------------------------------------
\* When a round is over, each of the sources S worked in every round so far for
\* every tenant that had no trouble of its own in that round.
Served(S, rounds(_)) ==
  at.tenant = 0 =>
    \A s \in S, t \in Tenants : rounds(s) \subseteq did[s][t] \cup trouble[t]

\* The trouble of one tenant costs no other tenant its turn at plugin feeds,
\* experiences and maintenance.
NoTenantLeftBehind == LET all(s) == 1..round IN Served(SourceSet \ Throttled, all)

\* Usage reporting "runs uniformly across tenants": when it runs for one tenant it
\* runs for all that are not in trouble.  The throttle is in the source object that
\* all tenants share, so the first tenant's run makes it skip the others.
RunsUniformly ==
  LET some(s) == UNION {did[s][t] : t \in Tenants} IN Served(Throttled, some)
=============================================================================
