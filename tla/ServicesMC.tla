------------------------------ MODULE ServicesMC ------------------------------
(***************************************************************************)
(* Thirteen components that share no state, checked by one run: the initial   *)
(* state picks the one that runs, the others stand still.                  *)
(***************************************************************************)
EXTENDS Integers, TLC, HostAuth, PolicyCache, UsageReporting, Scheduler, CacheBackends, RateLimits,
        BillingState, PluginSync, Experiences, CountLimits, Seats, PluginCalls

CONSTANTS k1, k2, k3, r1, r2

VARIABLE part

Three == {k1, k2, k3}
Two == {r1, r2}
Symmetry == Permutations(Two)

\* The sources of the scheduler, and the times to live of the caches.
Order == <<"feeds", "usage">>
Spans == {Missing, 0, 1}

\* What the user of HostAuth may do, and what is asked of them.
Digests == {"digest", "send"}
ReadAndSend == [digest |-> {"read"}, send |-> {"read", "send"}]
Grants == {{"read"}, {"read", "send"}}

\* Plugins: an operation with quotas, and one with slots.
TwoOperations == {[auth |-> "user", day |-> 1, month |-> 1, slots |-> 0],
                  [auth |-> "service", day |-> 0, month |-> 0, slots |-> 1]}

billing == billingVars
reporting == meterVars
seats == seatVars
bases == kbVars
documents == countVars
rounds == schedVars
experiences == expVars
syncing == syncVars
caching == cacheVars
limits == rateVars
grantees == hostVars
policies == policyVars
calling == callVars

Parts == {"billing", "usage", "seats", "bases", "documents", "rounds", "experiences",
          "syncing", "caching", "limits", "grantees", "policies", "calling"}

ServicesInit ==
  /\ part \in Parts
  /\ BillingInit /\ UsageInit /\ SeatInit /\ KbInit /\ CountInit
  /\ SchedInit /\ ExpInit /\ SyncInit /\ CacheInit /\ RateInit
  /\ HostInit /\ PolicyInit /\ CallsInit
  /\ part = "seats" \/ mode = "none"
  /\ part = "syncing" \/ plugin = "gmail"
  /\ part = "calling" \/ operation.auth = "user"

ServicesNext ==
  \/ part = "billing" /\ BillingNext
     /\ UNCHANGED <<part, reporting, seats, bases, documents, rounds, experiences,
                    syncing, caching, limits, grantees, policies, calling>>
  \/ part = "usage" /\ UsageNext
     /\ UNCHANGED <<part, billing, seats, bases, documents, rounds, experiences,
                    syncing, caching, limits, grantees, policies, calling>>
  \/ part = "seats" /\ SeatNext
     /\ UNCHANGED <<part, billing, reporting, bases, documents, rounds, experiences,
                    syncing, caching, limits, grantees, policies, calling>>
  \/ part = "bases" /\ KbNext
     /\ UNCHANGED <<part, billing, reporting, seats, documents, rounds, experiences,
                    syncing, caching, limits, grantees, policies, calling>>
  \/ part = "documents" /\ CountNext
     /\ UNCHANGED <<part, billing, reporting, seats, bases, rounds, experiences,
                    syncing, caching, limits, grantees, policies, calling>>
  \/ part = "rounds" /\ SchedNext
     /\ UNCHANGED <<part, billing, reporting, seats, bases, documents, experiences,
                    syncing, caching, limits, grantees, policies, calling>>
  \/ part = "experiences" /\ ExpNext
     /\ UNCHANGED <<part, billing, reporting, seats, bases, documents, rounds,
                    syncing, caching, limits, grantees, policies, calling>>
  \/ part = "syncing" /\ SyncNext
     /\ UNCHANGED <<part, billing, reporting, seats, bases, documents, rounds,
                    experiences, caching, limits, grantees, policies, calling>>
  \/ part = "caching" /\ CacheNext
     /\ UNCHANGED <<part, billing, reporting, seats, bases, documents, rounds,
                    experiences, syncing, limits, grantees, policies, calling>>
  \/ part = "limits" /\ RateNext
     /\ UNCHANGED <<part, billing, reporting, seats, bases, documents, rounds,
                    experiences, syncing, caching, grantees, policies, calling>>
  \/ part = "grantees" /\ HostNext
     /\ UNCHANGED <<part, billing, reporting, seats, bases, documents, rounds,
                    experiences, syncing, caching, limits, policies, calling>>
  \/ part = "policies" /\ PolicyNext
     /\ UNCHANGED <<part, billing, reporting, seats, bases, documents, rounds,
                    experiences, syncing, caching, limits, grantees, calling>>
  \/ part = "calling" /\ CallsNext
     /\ UNCHANGED <<part, billing, reporting, seats, bases, documents, rounds,
                    experiences, syncing, caching, limits, grantees, policies>>

ServicesSpec == ServicesInit /\ [][ServicesNext]_<<part, billing, reporting, seats, bases, documents,
                                                   rounds, experiences, syncing, caching, limits,
                                                   grantees, policies, calling>>
=============================================================================
