-------------------------------- MODULE Seats --------------------------------
(***************************************************************************)
(* Paid seats: billing/seat_service.py, check_user_limit of                *)
(* billing/enforcement.py, the quantity calls of billing/stripe_client.py, *)
(* the invoice.paid webhook (billing/router.py, webhook_handlers.py,       *)
(* adapters.py) and the daily synchronisation of billing/sync.py, with the *)
(* endpoints of api/auth.py that make users active.                        *)
(*                                                                         *)
(* Stripe holds the number of seats; the database holds who is active and  *)
(* who is flagged for deactivation at the end of the period.  The row lock *)
(* of billing_state (get_for_update) orders the operations that take it;   *)
(* it is held until the transaction ends.                                  *)
(***************************************************************************)
EXTENDS Integers, FiniteSets, FiniteSetsExt

CONSTANTS Members,      \* numbers, in the order in which the users were created
          Operations,   \* operations that may be under way at once
          Enforcements, \* the values of user_limit_enforcement: "hard", "soft", "none"
          Seated,       \* the users active at the start
          Bought,       \* the seats bought at the start
          MaxOperations, \* bounds the operations
          MaxCycles,    \* bounds the billing periods
          MaxMishaps,   \* bounds failures between two steps and redeliveries
          NoSeat

VARIABLES stripe,   \* [live, target, schedule]: the subscription and its schedule
          active, flagged,  \* the users' is_active and deactivation_scheduled_at
          seatLock, \* the request that holds the row of billing_state, or NoSeat
          req,      \* the operations under way
          unpaid,   \* invoice.paid events not yet processed
          again,    \* events that were processed and will be delivered again
          mode,     \* user_limit_enforcement
          open, leaked,  \* reductions of the target that no flag stands for
          late,     \* an admission relied on a quantity of an earlier period
          served, cycles, mishaps

users == <<active, flagged>>
bounds == <<served, cycles, mishaps>>
ghosts == <<open, leaked, late>>
seatVars == <<stripe, users, seatLock, req, unpaid, again, mode, ghosts, bounds>>

Subscription == [live: Nat, target: Nat, schedule: BOOLEAN]
Operation == [op: {"admit", "flag", "unflag", "cancel", "sync"}, u: Members \cup {NoSeat},
              step: {"read", "write"}, n: Nat, stale: BOOLEAN]

SeatsTypeOK ==
  /\ stripe \in Subscription
  /\ active \subseteq Members /\ flagged \subseteq Members
  /\ seatLock \in Operations \cup {NoSeat}
  /\ req \in [Operations -> Operation \cup {NoSeat}]
  /\ unpaid \subseteq Nat /\ again \subseteq Nat
  /\ mode \in Enforcements /\ late \in BOOLEAN
  /\ open \in Nat /\ leaked \in Nat

SeatInit ==
  /\ stripe = [live |-> Bought, target |-> Bought, schedule |-> FALSE]
  /\ active = Seated /\ flagged = {}
  /\ seatLock = NoSeat
  /\ req = [r \in Operations |-> NoSeat]
  /\ unpaid = {} /\ again = {}
  /\ mode \in Enforcements
  /\ open = 0 /\ leaked = 0 /\ late = FALSE
  /\ served = 0 /\ cycles = 0 /\ mishaps = 0

-----------------------------------------------------------------------------
(* Stripe. *)

\* update_subscription_quantity: an upgrade is immediate and drops the schedule
\* (_apply_upgrade); a reduction is scheduled for the end of the period
\* (_schedule_downgrade); the present quantity drops the schedule.
Quantity(s, n) ==
  IF n >= s.live
  THEN [live |-> n, target |-> n, schedule |-> FALSE]
  ELSE [s EXCEPT !.target = n, !.schedule = TRUE]

\* SeatService.confirm_upgrade: one seat more at once, and any reduction that is
\* pending kept, which takes a second call.
Upgraded(s) ==
  IF s.target < s.live
  THEN Quantity(Quantity(s, s.live + 1), s.target + 1)
  ELSE Quantity(s, s.live + 1)

\* The period ends: the schedule takes effect, and the invoice is paid.
Cycle ==
  /\ cycles < MaxCycles /\ cycles' = cycles + 1
  /\ stripe' = [stripe EXCEPT !.live = stripe.target, !.schedule = FALSE]
  /\ unpaid' = unpaid \cup {cycles'}
  /\ open' = 0 /\ leaked' = 0
  /\ req' = [r \in Operations |-> IF req[r] = NoSeat THEN NoSeat ELSE [req[r] EXCEPT !.stale = TRUE]]
  /\ UNCHANGED <<users, seatLock, again, mode, late, served, mishaps>>

-----------------------------------------------------------------------------
(* Operations. *)

StartOperation(r, op, u, n) ==
  /\ req[r] = NoSeat /\ served < MaxOperations
  /\ served' = served + 1
  /\ req' = [req EXCEPT ![r] = [op |-> op, u |-> u, step |-> "read", n |-> n, stale |-> FALSE]]
  /\ UNCHANGED <<stripe, users, seatLock, unpaid, again, mode, ghosts, cycles, mishaps>>

Reached(r, op, step) == req[r] # NoSeat /\ req[r].op = op /\ req[r].step = step

\* get_for_update, which waits for the row; n is remembered for the commit.
LockFree(r) == seatLock \in {NoSeat, r}
LockState(r) == LockFree(r) /\ seatLock' = r
Step(r, n) == req' = [req EXCEPT ![r].step = "write", ![r].n = n]

Finish(r) ==
  /\ req' = [req EXCEPT ![r] = NoSeat]
  /\ seatLock' = IF seatLock = r THEN NoSeat ELSE seatLock

\* Only one request holds the row of a user.
UserFree(u) == \A q \in Operations : req[q] # NoSeat => req[q].op # "admit" \/ req[q].u # u

\* create_user, activate_user and update_user: a user becomes active. The seats
\* are read from Stripe before the lock is taken (check_user_limit).
Admit(r, u) ==
  /\ u \notin active /\ UserFree(u)
  /\ StartOperation(r, "admit", u, stripe.live)

LockForNothing(r) == UNCHANGED seatLock

\* check_user_limit goes on: with hard enforcement it takes the lock first.
LockForLimit(r) == IF mode = "hard" THEN LockState(r) ELSE UNCHANGED seatLock

AtLimit(r) == Cardinality(active) >= req[r].n

\* _seat_charge_preview and _seat_charge_confirm. Above the limit an
\* unconfirmed request is refused; a confirmed one buys a seat.
AdmitWithin(r) ==
  /\ Reached(r, "admit", "read")
  /\ mode = "none" \/ ~AtLimit(r)
  /\ LockForLimit(r)
  /\ Step(r, 0)
  /\ UNCHANGED <<stripe, users, unpaid, again, mode, ghosts, bounds>>

AdmitRefused(r) ==
  /\ Reached(r, "admit", "read")
  /\ mode # "none" /\ AtLimit(r)
  /\ seatLock = NoSeat \/ mode = "soft"
  /\ Finish(r)
  /\ UNCHANGED <<stripe, users, unpaid, again, mode, ghosts, bounds>>

AdmitCharged(r) ==
  /\ Reached(r, "admit", "read")
  /\ mode # "none" /\ AtLimit(r)
  /\ LockState(r)
  /\ stripe' = Upgraded(stripe)
  /\ Step(r, 0)
  /\ UNCHANGED <<users, unpaid, again, mode, ghosts, bounds>>

AdmitCommit(r) ==
  /\ Reached(r, "admit", "write")
  /\ active' = active \cup {req[r].u}
  /\ late' = (late \/ req[r].stale)
  /\ Finish(r)
  /\ UNCHANGED <<stripe, flagged, unpaid, again, mode, open, leaked, bounds>>

\* flag_user checks the user before it waits for the lock.
Flag(r, u) ==
  /\ u \in active \ flagged
  /\ StartOperation(r, "flag", u, 0)

\* It lowers the target, unless a reduction that is pending has room for the
\* user; the session still holds the user as it was read.
FlagCharge(r) ==
  /\ Reached(r, "flag", "read")
  /\ LET remain == Cardinality(active) - Cardinality(flagged \cap active) - 1
         lowers == stripe.target > (IF remain > 0 THEN remain ELSE 0)
     IN IF lowers /\ stripe.target - 1 < 1
        THEN LockFree(r) /\ Finish(r) /\ UNCHANGED stripe
        ELSE /\ LockState(r)
             /\ stripe' = IF lowers THEN Quantity(stripe, stripe.target - 1) ELSE stripe
             /\ Step(r, IF lowers THEN 1 ELSE 0)
  /\ UNCHANGED <<users, unpaid, again, mode, ghosts, bounds>>

\* A second flag of the same user lowers the target for nothing.
FlagCommit(r) ==
  /\ Reached(r, "flag", "write")
  /\ flagged' = flagged \cup {req[r].u}
  /\ leaked' = IF req[r].u \in flagged THEN leaked + req[r].n ELSE leaked
  /\ Finish(r)
  /\ UNCHANGED <<stripe, active, unpaid, again, mode, open, late, bounds>>

Unflag(r, u) ==
  /\ u \in flagged
  /\ StartOperation(r, "unflag", u, 0)

UnflagCharge(r) ==
  /\ Reached(r, "unflag", "read")
  /\ LockState(r)
  /\ stripe' = IF stripe.target < stripe.live THEN Quantity(stripe, stripe.target + 1) ELSE stripe
  /\ Step(r, 0)
  /\ UNCHANGED <<users, unpaid, again, mode, ghosts, bounds>>

UnflagCommit(r) ==
  /\ Reached(r, "unflag", "write")
  /\ flagged' = flagged \ {req[r].u}
  /\ Finish(r)
  /\ UNCHANGED <<stripe, active, unpaid, again, mode, ghosts, bounds>>

\* release_open_seat changes no row: one step under the lock.
ReleaseOpenSeat ==
  /\ served < MaxOperations /\ served' = served + 1
  /\ seatLock = NoSeat
  /\ stripe.target - 1 >= 1 /\ stripe.target - 1 >= Cardinality(active)
  /\ stripe' = Quantity(stripe, stripe.target - 1)
  /\ open' = open + 1
  /\ UNCHANGED <<users, seatLock, req, unpaid, again, mode, leaked, late, cycles, mishaps>>

\* cancel_pending_release: the schedule goes at once, the flags with the commit.
CancelRelease(r) ==
  /\ seatLock = NoSeat
  /\ req[r] = NoSeat /\ served < MaxOperations /\ served' = served + 1
  /\ seatLock' = r
  /\ stripe' = [stripe EXCEPT !.target = stripe.live, !.schedule = FALSE]
  /\ req' = [req EXCEPT ![r] = [op |-> "cancel", u |-> NoSeat, step |-> "write", n |-> 0, stale |-> FALSE]]
  /\ UNCHANGED <<users, unpaid, again, mode, ghosts, cycles, mishaps>>

CancelCommit(r) ==
  /\ Reached(r, "cancel", "write")
  /\ flagged' = {}
  /\ Finish(r)
  /\ UNCHANGED <<stripe, active, unpaid, again, mode, ghosts, bounds>>

\* deactivate_user and delete_user take no lock; a row that is deleted takes its
\* flag with it.
Deactivate(u, deleted) ==
  /\ served < MaxOperations /\ served' = served + 1
  /\ u \in active /\ UserFree(u)
  /\ active' = active \ {u}
  /\ flagged' = IF deleted THEN flagged \ {u} ELSE flagged
  /\ open' = IF deleted /\ u \in flagged THEN open + 1 ELSE open
  /\ UNCHANGED <<stripe, seatLock, req, unpaid, again, mode, leaked, late, cycles, mishaps>>

\* BillingQuantitySyncSource, without the lock: when more users are active than
\* seats are paid for, it sets the quantity to the number it has counted.
Sync(r) ==
  /\ Cardinality(active) > stripe.live
  /\ StartOperation(r, "sync", NoSeat, Cardinality(active))

SyncWrite(r) ==
  /\ Reached(r, "sync", "read")
  /\ stripe' = Quantity(stripe, req[r].n)
  /\ leaked' = IF req[r].n < stripe.live THEN stripe.live - req[r].n ELSE leaked
  /\ Finish(r)
  /\ UNCHANGED <<users, unpaid, again, mode, open, late, bounds>>

-----------------------------------------------------------------------------
(* The end of a period. *)

NewestOf(S, n) == {u \in S : Cardinality({v \in S : v > u}) < n}

\* SeatService.rollover: flagged users, then the newest above the quantity, are
\* deactivated, and all flags cleared.
Rollover(quantity) ==
  LET kept == active \ flagged
  IN /\ active' = kept \ NewestOf(kept, Cardinality(kept) - quantity)
     /\ flagged' = {}

\* The webhook of a paid invoice runs it under the lock. When the answer is
\* lost, Stripe delivers the event again.
Webhook(e, answered) ==
  /\ e \in unpaid \cup again
  /\ seatLock = NoSeat
  /\ Rollover(stripe.live)
  /\ unpaid' = unpaid \ {e}
  /\ again' = IF answered THEN again \ {e} ELSE again \cup {e}
  /\ answered \/ mishaps < MaxMishaps
  /\ mishaps' = IF answered THEN mishaps ELSE mishaps + 1
  /\ leaked' = IF stripe.target < stripe.live THEN leaked + Cardinality(flagged) ELSE leaked
  /\ UNCHANGED <<stripe, seatLock, req, mode, open, late, served, cycles>>

\* An operation fails before its commit, or its process dies: Stripe keeps what
\* it was told.
Fail(r) ==
  /\ req[r] # NoSeat /\ mishaps < MaxMishaps
  /\ mishaps' = mishaps + 1
  /\ leaked' = IF req[r].op = "flag" THEN leaked + req[r].n ELSE leaked
  /\ Finish(r)
  /\ UNCHANGED <<stripe, users, unpaid, again, mode, open, late, served, cycles>>

\* The second call of confirm_upgrade fails: the reduction is lost with the
\* schedule, and the endpoint rolls back the user it was to make active.
UpgradeFailsHalfWay(r) ==
  /\ Reached(r, "admit", "read")
  /\ mode # "none" /\ AtLimit(r) /\ stripe.target < stripe.live
  /\ LockFree(r)
  /\ mishaps < MaxMishaps /\ mishaps' = mishaps + 1
  /\ stripe' = Quantity(stripe, stripe.live + 1)
  /\ Finish(r)
  /\ UNCHANGED <<users, unpaid, again, mode, ghosts, served, cycles>>

-----------------------------------------------------------------------------
SeatNext ==
  \/ \E r \in Operations :
       \/ \E u \in Members : Admit(r, u) \/ Flag(r, u) \/ Unflag(r, u)
       \/ AdmitWithin(r) \/ AdmitRefused(r) \/ AdmitCharged(r) \/ AdmitCommit(r) \/ UpgradeFailsHalfWay(r)
       \/ FlagCharge(r) \/ FlagCommit(r) \/ UnflagCharge(r) \/ UnflagCommit(r)
       \/ CancelRelease(r) \/ CancelCommit(r) \/ Sync(r) \/ SyncWrite(r)
       \/ Fail(r)
  \/ ReleaseOpenSeat
  \/ \E u \in Members, deleted \in BOOLEAN : Deactivate(u, deleted)
  \/ Cycle
  \/ \E e \in unpaid \cup again, answered \in BOOLEAN : Webhook(e, answered)

SeatSpec == SeatInit /\ [][SeatNext]_seatVars

-----------------------------------------------------------------------------
(* Properties. *)

\* With hard enforcement no more users are active than seats are paid for, once
\* the paid invoices are processed; save for an admission that had read the
\* quantity before the period ended (check_user_limit reads Stripe before it
\* locks billing_state).
WithinPaidSeats ==
  mode = "hard" /\ unpaid = {} /\ ~late => Cardinality(active) <= stripe.live

\* Every seat that is to go at the end of the period stands for a flagged user
\* or for a seat released as open; save for those lost by a flag that failed
\* after Stripe was told, by two flags of one user at once, by a flag set before
\* the invoice of the last period was processed, which clears it, and by the
\* synchronisation, which does not take the lock.
BeingFlagged == {r \in Operations : req[r] # NoSeat /\ req[r].op = "flag" /\ req[r].n = 1}

PendingAccounted ==
  stripe.live - stripe.target <= Cardinality(flagged) + Cardinality(BeingFlagged) + open + leaked

\* Stripe and the users agree, now and about the next period.
SeatsAddUp == WithinPaidSeats /\ PendingAccounted

\* What the docstring of rollover says of a redelivery: all three passes no-op.
RedeliveryNoOps ==
  [][\A e \in again : e \notin again' /\ unpaid' = unpaid => UNCHANGED users]_seatVars
=============================================================================
