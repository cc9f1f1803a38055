--------------------------- MODULE UsageReporting ---------------------------
(***************************************************************************)
(* Usage reported to Stripe's meter: report_and_reconcile_usage of         *)
(* billing/service.py, run by UsageReportingSource of billing/sync.py in   *)
(* every process that has a scheduler.                                     *)
(*                                                                         *)
(* A run compares the cost recorded in the database with what Stripe says  *)
(* it has received, which lags, and sends the difference.  The meter adds  *)
(* up what it gets; it refuses an event whose identifier it has seen.      *)
(*                                                                         *)
(* The start of the period comes from the cached state of the control      *)
(* plane and may be that of a period that is over; the sums of a run go    *)
(* from there to the present, and its event is stamped with the present.   *)
(***************************************************************************)
EXTENDS Integers, FiniteSets, FiniteSetsExt

CONSTANTS Reporters,    \* processes
          Months,       \* 1..n, the billing periods
          MaxUsage,     \* bounds the cost of a period
          MaxReports,   \* bounds the runs
          MaxLosses,    \* bounds lost answers and deaths
          NoPeriod

VARIABLES usage,    \* period -> cost recorded
          month,    \* the period in progress
          sent,     \* period -> what the meter has received
          seen,     \* period -> what its summary shows
          ids,      \* identifiers the meter has received
          lastTotal, lastMonth,  \* last_reported_total, last_reported_period_start
          report,   \* reporter -> the run in progress
          \* history: two runs were in progress at once; the usage, from the first
          \* period on, that the reports written down speak for; how much of it
          \* may be sent again
          overlapped, covered, doubled,
          reports, losses

tally == <<overlapped, covered, doubled>>
meterVars == <<usage, month, sent, seen, ids, lastTotal, lastMonth, report, tally, reports, losses>>

Idle == [pc |-> "idle", month |-> NoPeriod, last |-> 0, lastMonth |-> NoPeriod, total |-> 0, delta |-> 0]

UsageInit ==
  /\ usage = [k \in Months |-> 0] /\ month = 1
  /\ sent = [k \in Months |-> 0] /\ seen = [k \in Months |-> 0] /\ ids = {}
  /\ lastTotal = 0 /\ lastMonth = NoPeriod
  /\ report = [r \in Reporters |-> Idle]
  /\ overlapped = FALSE /\ covered = 0 /\ doubled = 0
  /\ reports = 0 /\ losses = 0

SumOver(f, from, to) == MapThenSumSet(LAMBDA k : f[k], {k \in Months : from <= k /\ k < to})

\* A report starts from this much: what was covered beyond it is sent again.
StartsFrom(basis) ==
  /\ covered' = basis
  /\ doubled' = doubled + (IF covered > basis THEN covered - basis ELSE 0)

-----------------------------------------------------------------------------
(* Around the runs. *)

Use ==
  /\ usage[month] < MaxUsage
  /\ usage' = [usage EXCEPT ![month] = @ + 1]
  /\ UNCHANGED <<month, sent, seen, ids, lastTotal, lastMonth, report, tally, reports, losses>>

NextMonth ==
  /\ month + 1 \in Months /\ month' = month + 1
  /\ UNCHANGED <<usage, sent, seen, ids, lastTotal, lastMonth, report, tally, reports, losses>>

\* Stripe has processed what it has received for a period.
Processed(k) ==
  /\ seen[k] # sent[k]
  /\ seen' = [seen EXCEPT ![k] = sent[k]]
  /\ UNCHANGED <<usage, month, sent, ids, lastTotal, lastMonth, report, tally, reports, losses>>

-----------------------------------------------------------------------------
(* A run. *)

\* The settings and the period are read, the period from the cached state of the
\* control plane; a period that has been left is caught up.
BeginReport(r, period) ==
  /\ report[r].pc = "idle" /\ period <= month
  /\ reports < MaxReports /\ reports' = reports + 1
  /\ LET rolled == lastMonth \notin {NoPeriod, period}
     IN /\ report' = [report EXCEPT ![r] = [pc |-> IF rolled THEN "catchup" ELSE "report",
                                            month |-> period, last |-> lastTotal, lastMonth |-> lastMonth,
                                            total |-> 0, delta |-> 0]]
        /\ IF rolled THEN UNCHANGED <<covered, doubled>>
           ELSE StartsFrom(SumOver(usage, 1, period) + lastTotal)
  /\ overlapped' = (overlapped \/ \E q \in Reporters : report[q].pc # "idle")
  /\ UNCHANGED <<usage, month, sent, seen, ids, lastTotal, lastMonth, losses>>

\* report_usage_to_stripe: the identifier carries the start of the period and its
\* total after the event, which counts for the period of its stamp.  "lost":
\* Stripe has taken the event and the caller sees an error.
Report(r, start, stamp, delta, total, outcome, pc) ==
  LET counts == <<start, total>> \notin ids /\ outcome # "refused"
  IN /\ sent' = IF counts THEN [sent EXCEPT ![stamp] = @ + delta] ELSE sent
     /\ ids' = IF counts THEN ids \cup {<<start, total>>} ELSE ids
     /\ report' = [report EXCEPT ![r] = IF counts /\ outcome = "taken"
                                        THEN [@ EXCEPT !.pc = pc, !.total = total, !.delta = delta] ELSE Idle]
     /\ doubled' = IF counts /\ outcome = "lost" THEN doubled + delta ELSE doubled
     /\ outcome # "taken" => losses < MaxLosses
     /\ losses' = IF outcome = "taken" THEN losses ELSE losses + 1
     /\ UNCHANGED <<overlapped, covered>>

\* _catchup_old_period: from the start of the period reported last to the start
\* of the one the run was given, which is also the stamp of the event.
CatchUp(r, outcome) ==
  /\ report[r].pc = "catchup"
  /\ LET old   == report[r].lastMonth
         total == SumOver(usage, old, report[r].month)
         shown == SumOver(seen, old, report[r].month)
         delta == total - (IF shown > report[r].last THEN shown ELSE report[r].last)
     IN IF delta > 0
        THEN Report(r, old, report[r].month, delta, total, outcome, "reset")
        ELSE /\ outcome = "taken"
             /\ report' = [report EXCEPT ![r].pc = "reset"]
             /\ UNCHANGED <<sent, ids, tally, losses>>
  /\ UNCHANGED <<usage, month, seen, lastTotal, lastMonth, reports>>

Reset(r) ==
  /\ report[r].pc = "reset"
  /\ lastTotal' = 0 /\ lastMonth' = NoPeriod
  /\ report' = [report EXCEPT ![r].pc = "report", ![r].last = 0, ![r].delta = 0]
  /\ StartsFrom(SumOver(usage, 1, report[r].month))
  /\ UNCHANGED <<usage, month, sent, seen, ids, overlapped, reports, losses>>

BaselineOfStripe(shown, last) == shown

\* What has been reported: Stripe's word once it has caught up, else our own.
Baseline(shown, last) == IF shown >= last THEN shown ELSE last

\* From the start of the period the run was given to the present.
ReportPeriod(r, outcome) ==
  /\ report[r].pc = "report"
  /\ LET start == report[r].month
         total == SumOver(usage, start, month + 1)
         delta == total - Baseline(SumOver(seen, start, month + 1), report[r].last)
     IN IF delta > 0
        THEN Report(r, start, month, delta, total, outcome, "save")
        ELSE /\ outcome = "taken"
             /\ report' = [report EXCEPT ![r] = Idle]
             /\ UNCHANGED <<sent, ids, tally, losses>>
  /\ UNCHANGED <<usage, month, seen, lastTotal, lastMonth, reports>>

\* BillingStateService.update
Save(r) ==
  /\ report[r].pc = "save"
  /\ lastTotal' = report[r].total /\ lastMonth' = report[r].month
  /\ report' = [report EXCEPT ![r] = Idle]
  /\ covered' = SumOver(usage, 1, report[r].month) + report[r].total
  /\ UNCHANGED <<usage, month, sent, seen, ids, overlapped, doubled, reports, losses>>

\* The process dies, or Stripe or the database does not answer: what it sent and
\* has not written down may be sent again.
Die(r) ==
  /\ report[r].pc # "idle" /\ losses < MaxLosses /\ losses' = losses + 1
  /\ doubled' = doubled + report[r].delta
  /\ report' = [report EXCEPT ![r] = Idle]
  /\ UNCHANGED <<usage, month, sent, seen, ids, lastTotal, lastMonth, overlapped, covered, reports>>

UsageNext ==
  \/ Use \/ NextMonth \/ \E k \in Months : Processed(k)
  \/ \E r \in Reporters :
       \/ \E period \in Months : BeginReport(r, period)
       \/ Reset(r) \/ Save(r) \/ Die(r)
       \/ \E outcome \in {"taken", "lost", "refused"} : CatchUp(r, outcome) \/ ReportPeriod(r, outcome)

UsageSpec == UsageInit /\ [][UsageNext]_meterVars

-----------------------------------------------------------------------------
(* Properties. *)

InAll(f) == MapThenSumSet(LAMBDA k : f[k], Months)

\* Runs that do not overlap never bill more than was used, plus what they may have
\* sent twice: an event that was accepted and not written down, and what a report
\* had covered beyond the point from which a later one starts, because it was
\* given a period that was over or the later one is.  However far Stripe's summary
\* lags, and whatever fails.
NotOverbilled == ~overlapped => InAll(sent) <= InAll(usage) + doubled

\* Nobody is billed for more than was used.  False of the code: a run that is
\* given a period that is over reports the next one's usage with it, the catch-up
\* ends that period, and the next one's usage is reported again.
NothingTwice == ~overlapped /\ losses = 0 => InAll(sent) <= InAll(usage)

\* The docstring of report_and_reconcile_usage: any missed events from prior
\* runs are caught automatically.  Once a run has written down a report of a
\* period, nothing of the periods before it is missing.
MissedIsCaught ==
  lastMonth # NoPeriod => InAll(sent) >= SumOver(usage, 1, lastMonth)
=============================================================================
