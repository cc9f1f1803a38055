----------------------------- MODULE PluginCalls -----------------------------
(***************************************************************************)
(* Calls of a plugin, by the API, by a chat or by the job of a feed: the   *)
(* checks each of them makes before, the executor with its quotas, rate    *)
(* limits and slots of a provider, and the record the API keeps.  The      *)
(* counters are in the cache and shared by all processes; any step may be  *)
(* the last one of a process.                                              *)
(***************************************************************************)
EXTENDS Integers, Sequences, FiniteSets

CONSTANTS Invocations,
          PluginOperations,  \* auth: how it is authorised, "none", "user" or "service"; day, month:
                             \* calls in a period, slots: calls at once, 0 for as many as there are
          MaxCalls, MaxEvents, \* events: changes of the grounds and troubles
          Lacking

VARIABLES holding,    \* what holds now of Grounds
          operation,  \* the operation called
          counted,    \* the counters of the cache
          lapses,     \* the counters that have a time to live
          invoking,   \* what each call is doing
          passed,     \* calls let through in the period
          guards,     \* the guards around importlib.import_module, the outer one first
          budget,     \* calls begun, events had
          troubled    \* a death, a lapse or an outage has left a counter wrong

callVars == <<holding, operation, counted, lapses, invoking, passed, guards, budget, troubled>>

QuotaPeriods == {"day", "month"}
Counters == QuotaPeriods \cup {"slots"}

\* Plugins entitled, execution allowed by a policy, subscribed, the token to be had.
Grounds == {"entitled", "allowed", "subscribed", "token"}

NoCall == [at |-> "idle", from |-> Lacking, n |-> 0, held |-> FALSE, orig |-> <<>>,
           was |-> {}, record |-> Lacking, result |-> Lacking]

CallsInit ==
  /\ holding = Grounds /\ operation \in PluginOperations
  /\ counted = [c \in Counters |-> 0] /\ lapses = {}
  /\ invoking = [r \in Invocations |-> NoCall]
  /\ passed = [p \in QuotaPeriods |-> 0] /\ guards = <<>>
  /\ budget = [calls |-> 0, events |-> 0] /\ troubled = FALSE

CallAt(r, step) == invoking[r].at = step
MoveTo(r, step) == invoking' = [invoking EXCEPT ![r].at = step]
counters == <<counted, lapses, passed>>
fixed == <<operation, budget, troubled>>
Spend(what, max) == budget[what] < max /\ budget' = [budget EXCEPT ![what] = @ + 1]

\* A call that ends settles the record the API has made of it.
EndCall(r, result) ==
  invoking' = [invoking EXCEPT ![r] = [NoCall EXCEPT !.at = "over", !.result = result,
                               !.record = IF invoking[r].record = Lacking THEN Lacking
                                          ELSE IF result = "success" THEN "COMPLETED" ELSE "FAILED"]]
RefuseCall(r) == EndCall(r, "refused")

-----------------------------------------------------------------------------
(* What is checked before the executor is asked. *)

ChangeGround(ground) ==
  /\ Spend("events", MaxEvents)
  /\ holding' = IF ground \in holding THEN holding \ {ground} ELSE holding \cup {ground}
  /\ invoking' = [r \in Invocations |-> [invoking[r] EXCEPT !.was = @ \cup holding']]
  /\ UNCHANGED <<operation, counters, guards, troubled>>

\* resolve_auth_requirements: the mode of the operation.
By(mode) == operation.auth = mode

\* Only the preflight of a feed asks for the token of a service account.
FirstCheck(from) ==
  CASE By("user") -> "subscription"
    [] By("service") /\ from = "feed" -> "token"
    [] OTHER -> "secrets"

\* assert_plugin_entitlement, plugin_dispatch_allowed
Enter(r, from) ==
  /\ invoking[r].at \in {"idle", "over"} /\ Spend("calls", MaxCalls)
  /\ invoking' = [invoking EXCEPT ![r] = [NoCall EXCEPT !.at = IF "entitled" \in holding THEN FirstCheck(from) ELSE "over",
                                            !.from = from, !.was = holding]]
  /\ UNCHANGED <<holding, operation, counters, guards, troubled>>

\* _check_subscription, _is_plugin_subscribed
CheckSubscription(r) ==
  /\ CallAt(r, "subscription")
  /\ IF "subscribed" \in holding THEN MoveTo(r, "token") ELSE RefuseCall(r)
  /\ UNCHANGED <<holding, counters, guards, fixed>>

CheckToken(r) ==
  /\ CallAt(r, "token")
  /\ IF "token" \in holding THEN MoveTo(r, "secrets") ELSE RefuseCall(r)
  /\ UNCHANGED <<holding, counters, guards, fixed>>

\* A check that fails refuses the call of a chat or a feed; the API goes on without it.
PreflightFails(r) ==
  /\ invoking[r].at \in {"subscription", "token"}
  /\ IF invoking[r].from # "api" THEN RefuseCall(r)
     ELSE invoking' = [invoking EXCEPT ![r].was = @ \cup {"subscribed", "token"},
                                       ![r].at = IF @ = "subscription" THEN "token" ELSE "secrets"]
  /\ UNCHANGED <<holding, counters, guards, fixed>>

\* ensure_secrets_for_plugin: the tools of a chat leave it to the plugin.
MissingSecrets(r) ==
  /\ CallAt(r, "secrets") /\ invoking[r].from # "chat"
  /\ RefuseCall(r)
  /\ UNCHANGED <<holding, counters, guards, fixed>>

\* The API commits its record before it calls.
Prepared(r) ==
  /\ CallAt(r, "secrets")
  /\ invoking' = [invoking EXCEPT ![r] = [@ EXCEPT !.at = "policy", !.record = IF invoking[r].from = "api" THEN "RUNNING" ELSE Lacking]]
  /\ UNCHANGED <<holding, counters, guards, fixed>>

-----------------------------------------------------------------------------
(* The executor. *)

\* What follows: the periods that have no limit are passed over.
Following(step) == IF step = "policy" /\ operation.day > 0 THEN "day"
                   ELSE IF step # "month" /\ operation.month > 0 THEN "month" ELSE "limits"

CheckPolicy(r) ==
  /\ CallAt(r, "policy")
  /\ IF "allowed" \in holding THEN MoveTo(r, Following("policy")) ELSE RefuseCall(r)
  /\ UNCHANGED <<holding, counters, guards, fixed>>

\* The two steps that may follow the count of a period.
Expiring(p) == IF p = "day" THEN "dayExpire" ELSE "monthExpire"
Over(p) == IF p = "day" THEN "dayOver" ELSE "monthOver"

\* _check_and_consume_quota: counted first, and given a life by the first of a period.
Consume(r, p) ==
  /\ CallAt(r, p)
  /\ counted' = [counted EXCEPT ![p] = @ + 1]
  /\ passed' = IF counted[p] < operation[p] THEN [passed EXCEPT ![p] = @ + 1] ELSE passed
  /\ MoveTo(r, IF counted'[p] = 1 THEN Expiring(p) ELSE IF counted'[p] > operation[p] THEN Over(p) ELSE Following(p))
  /\ UNCHANGED <<holding, lapses, guards, fixed>>

GiveLife(r, p) ==
  /\ CallAt(r, Expiring(p))
  /\ lapses' = lapses \cup {p} /\ MoveTo(r, Following(p))
  /\ UNCHANGED <<holding, counted, passed, guards, fixed>>

\* What a refused call has consumed is given back, of the day too when the month is over.
GiveBack(r, p) ==
  /\ CallAt(r, Over(p))
  /\ counted' = [counted EXCEPT ![p] = @ - 1]
  /\ IF p = "month" /\ operation.day > 0 THEN MoveTo(r, "refund") ELSE RefuseCall(r)
  /\ UNCHANGED <<holding, lapses, passed, guards, fixed>>

Refund(r) ==
  /\ CallAt(r, "refund")
  /\ counted' = [counted EXCEPT !["day"] = @ - 1]
  /\ passed' = [passed EXCEPT !["day"] = @ - 1] /\ RefuseCall(r)
  /\ UNCHANGED <<holding, lapses, guards, fixed>>

\* The limiters of the user and of the provider; the quotas are not given back.
RateLimited(r) ==
  /\ CallAt(r, "limits")
  /\ RefuseCall(r)
  /\ UNCHANGED <<holding, counters, guards, fixed>>

\* _acquire_provider_concurrency: counted first, and alive for a while from then on.
AskSlot(r) ==
  /\ CallAt(r, "limits") /\ operation.slots > 0
  /\ counted' = [counted EXCEPT !["slots"] = @ + 1]
  /\ invoking' = [invoking EXCEPT ![r] = [@ EXCEPT !.at = "slot", !.n = counted["slots"] + 1]]
  /\ UNCHANGED <<holding, lapses, passed, guards, fixed>>

NoSlots(r) ==
  /\ CallAt(r, "limits") /\ operation.slots = 0
  /\ MoveTo(r, "params")
  /\ UNCHANGED <<holding, counters, guards, fixed>>

GetSlot(r) ==
  /\ CallAt(r, "slot")
  /\ lapses' = lapses \cup {"slots"}
  /\ IF invoking[r].n > operation.slots
       THEN invoking' = [invoking EXCEPT ![r].at = "slotOver", ![r].n = 0]
       ELSE invoking' = [invoking EXCEPT ![r].at = "params", ![r].n = 0, ![r].held = TRUE]
  /\ UNCHANGED <<holding, counted, passed, guards, fixed>>

NoSlot(r) ==
  /\ CallAt(r, "slotOver")
  /\ counted' = [counted EXCEPT !["slots"] = @ - 1] /\ RefuseCall(r)
  /\ UNCHANGED <<holding, lapses, passed, guards, fixed>>

\* Whatever happens then, the slot is released: finally.
InvalidParams(r) ==
  /\ CallAt(r, "params")
  /\ invoking' = [invoking EXCEPT ![r].at = "release", ![r].result = "refused"]
  /\ UNCHANGED <<holding, counters, guards, fixed>>

\* The guard that imports go through while the plugin runs.
Guarded(r) == <<r>> \o guards
Unguarded(r) == invoking[r].orig

RunPlugin(r) ==
  /\ CallAt(r, "params")
  /\ invoking' = [invoking EXCEPT ![r] = [@ EXCEPT !.at = "running", !.orig = guards]]
  /\ guards' = Guarded(r)
  /\ UNCHANGED <<holding, counters, fixed>>

\* An error of the plugin and an output that does not fit its schema are results; a
\* refusal by the host is raised.
Returns(r, result) ==
  /\ CallAt(r, "running")
  /\ guards' = Unguarded(r)
  /\ invoking' = [invoking EXCEPT ![r] = [@ EXCEPT !.at = "release", !.result = result, !.orig = <<>>]]
  /\ UNCHANGED <<holding, counters, fixed>>

\* _release_provider_concurrency
SlotReleasedIfFine(r) == IF invoking[r].result = "success" THEN [counted EXCEPT !["slots"] = @ - 1] ELSE counted
SlotReleased(r) == [counted EXCEPT !["slots"] = @ - 1]

\* A result that is too large fails the call it was the result of.
Release(r, fits) ==
  /\ CallAt(r, "release")
  /\ counted' = IF invoking[r].held THEN SlotReleased(r) ELSE counted
  /\ EndCall(r, IF fits \/ invoking[r].result # "success" THEN invoking[r].result ELSE "error")
  /\ UNCHANGED <<holding, lapses, passed, guards, fixed>>

-----------------------------------------------------------------------------
(* What goes wrong around it. *)

Counting(p) == {p, Expiring(p), Over(p)}
Mishap == Spend("events", MaxEvents)

\* Without a cache, or when the slot cannot be counted, nothing is counted, and what was
\* not counted is released.
NoCache(r) ==
  /\ Mishap
  /\ \/ CallAt(r, Following("policy")) /\ ~CallAt(r, "limits") /\ MoveTo(r, "limits")
     \/ CallAt(r, "limits") /\ operation.slots > 0
        /\ invoking' = [invoking EXCEPT ![r] = [@ EXCEPT !.at = "params", !.held = TRUE]]
  /\ troubled' = TRUE
  /\ UNCHANGED <<holding, operation, counters, guards>>

\* One command fails once the cache is there.  A quota that cannot be counted or given a
\* life ends the call, and one that cannot be given back stays counted; a call whose slot
\* cannot be given a life or given back runs as if it had one.
CacheFails(r) ==
  /\ Mishap
  /\ \/ invoking[r].at \in Counting("day") \cup Counting("month") \cup {"refund"}
        /\ IF CallAt(r, Over("month")) /\ operation.day > 0 THEN MoveTo(r, "refund") ELSE RefuseCall(r)
     \/ invoking[r].at \in {"slot", "slotOver"}
        /\ invoking' = [invoking EXCEPT ![r] = [@ EXCEPT !.at = "params", !.n = 0, !.held = TRUE]]
     \/ CallAt(r, "release") /\ \E result \in {invoking[r].result, "error"} : EndCall(r, result)
  /\ troubled' = TRUE
  /\ UNCHANGED <<holding, operation, counters, guards>>

\* The process of a call dies: its record stays as it is, and so do the counters.
CallDies(r) ==
  /\ invoking[r].at \notin {"idle", "over"} /\ Mishap
  /\ invoking' = [invoking EXCEPT ![r] = [NoCall EXCEPT !.at = "over", !.record = invoking[r].record, !.result = "dead"]]
  /\ troubled' = TRUE
  /\ guards' = SelectSeq(guards, LAMBDA q : q # r)
  /\ UNCHANGED <<holding, operation, counters>>

\* A period ends, or no slot has been asked for in a while: the counter is gone.  A call
\* that was just counting, or that outlasts its slot, will count it down from nothing.
Lapse(c) ==
  /\ c \in lapses
  /\ lapses' = lapses \ {c} /\ counted' = [counted EXCEPT ![c] = 0]
  /\ passed' = IF c = "slots" THEN passed ELSE [passed EXCEPT ![c] = 0]
  /\ troubled' = (troubled \/ IF c = "slots" THEN counted["slots"] # 0
                             ELSE \E r \in Invocations : invoking[r].at \in Counting("day") \cup Counting("month") \cup {"refund"})
  /\ UNCHANGED <<holding, operation, invoking, guards, budget>>

CallsNext ==
  \/ \E r \in Invocations :
       \/ \E from \in {"api", "chat", "feed"} : Enter(r, from)
       \/ CheckSubscription(r) \/ CheckToken(r) \/ PreflightFails(r)
       \/ MissingSecrets(r) \/ Prepared(r) \/ CheckPolicy(r)
       \/ \E p \in QuotaPeriods : Consume(r, p) \/ GiveLife(r, p) \/ GiveBack(r, p)
       \/ Refund(r) \/ RateLimited(r) \/ AskSlot(r) \/ NoSlots(r) \/ GetSlot(r) \/ NoSlot(r)
       \/ InvalidParams(r) \/ RunPlugin(r) \/ NoCache(r) \/ CacheFails(r) \/ CallDies(r)
       \/ \E result \in {"success", "error", "refused"} : Returns(r, result)
       \/ \E fits \in BOOLEAN : Release(r, fits)
  \/ \E ground \in Grounds : ChangeGround(ground)
  \/ \E c \in Counters : Lapse(c)

CallsSpec == CallsInit /\ [][CallsNext]_callVars

-----------------------------------------------------------------------------
(* Properties. *)

\* As long as no process dies, the cache answers and no call outlasts its slot or its
\* period, the counters are what they count: a call that was refused a quota has cost
\* none, no more pass in a period and run at once than allowed, and when nothing runs
\* all slots are free.
CountersAddUp ==
  ~troubled =>
    /\ \A p \in QuotaPeriods :
         /\ operation[p] > 0 => passed[p] <= operation[p]
         /\ counted[p] = passed[p] + Cardinality({r \in Invocations : CallAt(r, Over(p))})
    /\ counted["slots"] = Cardinality({r \in Invocations : invoking[r].at \in {"slot", "slotOver"} \/ invoking[r].held})
    /\ operation.slots > 0 => Cardinality({r \in Invocations : CallAt(r, "running")}) <= operation.slots

\* Whoever calls, a plugin runs only if since the call began its owner was entitled and
\* allowed to, subscribed and in possession of a token where the operation asks for it
\* (the checks of the API that fail are passed over), and what the API has recorded as
\* running ends as what came of it.
CheckedAndSettled ==
  \A r \in Invocations :
    /\ CallAt(r, "running") =>
         /\ {"entitled", "allowed"} \subseteq invoking[r].was
         /\ By("user") => {"subscribed", "token"} \subseteq invoking[r].was
         /\ By("service") /\ invoking[r].from = "feed" => "token" \in invoking[r].was
    /\ CallAt(r, "over") /\ invoking[r].record # Lacking /\ invoking[r].result # "dead" =>
         /\ invoking[r].record # "RUNNING"
         /\ invoking[r].record = "COMPLETED" <=> invoking[r].result = "success"

\* A call is counted, checked and settled as it went.
CallsAccounted == CountersAddUp /\ CheckedAndSettled

\* Not promised: when no plugin runs, importlib.import_module is what it was.  The guards
\* of two plugins that overlap are not taken down in the order they were put up.
ImportsRestored == (\A r \in Invocations : ~CallAt(r, "running")) => guards = <<>>

\* Not promised: a quota that has been counted will lapse.  Between the count and its
\* life a process may die, and nobody gives it one later.
QuotaLapses == \A p \in QuotaPeriods : counted[p] > 0 /\ (\A r \in Invocations : ~CallAt(r, Expiring(p))) => p \in lapses
=============================================================================
