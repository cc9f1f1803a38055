----------------------------- MODULE RateLimits -----------------------------
(***************************************************************************)
(* Limits on requests: TokenBucketRateLimiter of core/rate_limiting.py,    *)
(* and its twin for plugins in plugins/rate_limit.py.  In spite of the     *)
(* name they count per fixed window: a window has a key of its own in the  *)
(* cache, which a request increments first and decrements again when it    *)
(* comes out over the capacity.  The cache is shared by all processes, and *)
(* each of its commands is atomic (CacheBackends).                         *)
(***************************************************************************)
EXTENDS Integers

CONSTANTS Requests,   \* those that may be under way at once
          Costs,      \* 1, or the tokens a call is expected to take
          Capacity,
          Window,     \* window_s, also the time to live of a key
          MaxClock,   \* bounds the clock
          MaxAsks,    \* bounds the requests
          MaxHitches, \* bounds failures and deaths
          Unset

VARIABLES hour,
          counter,   \* window -> [n, until]: its key, or Unset
          checks,    \* request -> [window, cost, at, new]: where it is in check, or Unset
          admitted,  \* window -> the cost let through
          letBy,     \* window -> the cost let through because the cache failed, or
                     \* answered when the window was over
          charged,   \* window -> the cost counted for nothing: of requests that died or failed
          asks, hitches

rateVars == <<hour, counter, checks, admitted, letBy, charged, asks, hitches>>

Windows == 0..MaxClock \div Window
Zero == [w \in Windows |-> 0]

RateInit ==
  /\ hour = 0 /\ counter = [w \in Windows |-> Unset]
  /\ checks = [r \in Requests |-> Unset]
  /\ admitted = Zero /\ letBy = Zero /\ charged = Zero /\ asks = 0 /\ hitches = 0

KeyAlive(w) == counter[w] # Unset /\ (counter[w].until = Unset \/ hour <= counter[w].until)
Count(w) == IF KeyAlive(w) THEN counter[w].n ELSE 0
End(w) == IF KeyAlive(w) THEN counter[w].until ELSE Unset
Hitch == hitches < MaxHitches /\ hitches' = hitches + 1
Add(f, r) == [f EXCEPT ![checks[r].window] = @ + checks[r].cost]

Ticks == hour < MaxClock /\ hour' = hour + 1
        /\ UNCHANGED <<counter, checks, admitted, letBy, charged, asks, hitches>>

Ask(r) ==
  /\ checks[r] = Unset /\ asks < MaxAsks /\ asks' = asks + 1
  /\ \E c \in Costs : checks' = [checks EXCEPT ![r] = [window |-> hour \div Window, cost |-> c, at |-> "incr", new |-> 0]]
  /\ UNCHANGED <<hour, counter, admitted, letBy, charged, hitches>>

\* The answer of the cache decides, and nothing is awaited between the two.
InTime(r) == hour \div Window = checks[r].window

Settle(r, new) ==
  IF new <= Capacity
    THEN /\ checks' = [checks EXCEPT ![r] = Unset]
         /\ admitted' = IF InTime(r) THEN Add(admitted, r) ELSE admitted
         /\ letBy' = IF InTime(r) THEN letBy ELSE Add(letBy, r)
    ELSE checks' = [checks EXCEPT ![r].at = "decr"] /\ UNCHANGED <<admitted, letBy>>

\* Slip: the count before the request decides.
SettleBefore(r, new) == Settle(r, new - checks[r].cost)

Judge(r, new) == Settle(r, new)

\* incr keeps the end of a key, and makes one without.
Increment(r) ==
  /\ checks[r] # Unset /\ checks[r].at = "incr"
  /\ LET w == checks[r].window
         new == Count(w) + checks[r].cost
     IN /\ counter' = [counter EXCEPT ![w] = [n |-> new, until |-> End(w)]]
        /\ IF new = checks[r].cost
             THEN checks' = [checks EXCEPT ![r].at = "expire", ![r].new = new] /\ UNCHANGED <<admitted, letBy>>
             ELSE Judge(r, new)
  /\ UNCHANGED <<hour, charged, asks, hitches>>

SetEnd(r) ==
  /\ checks[r] # Unset /\ checks[r].at = "expire"
  /\ LET w == checks[r].window IN
       counter' = IF KeyAlive(w) THEN [counter EXCEPT ![w].until = hour + Window] ELSE counter
  /\ Judge(r, checks[r].new)
  /\ UNCHANGED <<hour, charged, asks, hitches>>

Decrement(r) ==
  /\ checks[r] # Unset /\ checks[r].at = "decr"
  /\ LET w == checks[r].window IN
       counter' = [counter EXCEPT ![w] = [n |-> Count(w) - checks[r].cost, until |-> End(w)]]
  /\ checks' = [checks EXCEPT ![r] = Unset]
  /\ UNCHANGED <<hour, admitted, letBy, charged, asks, hitches>>

\* A command fails: the request is let through, or stays refused when it only could
\* not take its count back.  A command that timed out may have been carried out.
CommandFails(r) ==
  /\ checks[r] # Unset /\ Hitch
  /\ checks' = [checks EXCEPT ![r] = Unset]
  /\ letBy' = IF checks[r].at = "decr" THEN letBy ELSE Add(letBy, r)
  /\ charged' = IF checks[r].at = "incr" THEN charged ELSE Add(charged, r)
  /\ UNCHANGED <<hour, counter, admitted, asks>>

CommandTimesOut(r) ==
  /\ checks[r] # Unset /\ checks[r].at = "incr" /\ Hitch
  /\ LET w == checks[r].window IN
       counter' = [counter EXCEPT ![w] = [n |-> Count(w) + checks[r].cost, until |-> End(w)]]
  /\ checks' = [checks EXCEPT ![r] = Unset]
  /\ letBy' = Add(letBy, r) /\ charged' = Add(charged, r)
  /\ UNCHANGED <<hour, admitted, asks>>

CheckerDies(r) ==
  /\ checks[r] # Unset /\ Hitch
  /\ checks' = [checks EXCEPT ![r] = Unset]
  /\ charged' = IF checks[r].at = "incr" THEN charged ELSE Add(charged, r)
  /\ UNCHANGED <<hour, counter, admitted, letBy, asks>>

RateNext ==
  \/ Ticks
  \/ \E r \in Requests :
       \/ Ask(r) \/ Increment(r) \/ SetEnd(r) \/ Decrement(r)
       \/ CommandFails(r) \/ CommandTimesOut(r) \/ CheckerDies(r)

RateSpec == RateInit /\ [][RateNext]_rateVars
-----------------------------------------------------------------------------
\* Whatever requests come at once, a window lets no more through while it lasts than
\* its capacity, save what it lets through when the cache fails.
WithinCapacity == \A w \in Windows : admitted[w] <= Capacity
=============================================================================
