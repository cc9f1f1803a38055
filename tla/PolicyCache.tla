---------------------------- MODULE PolicyCache ----------------------------
(***************************************************************************)
(* What one process believes of the access policies of one tenant:         *)
(* PolicyCache of services/policy_engine.py, with the endpoints of         *)
(* services/policy_service.py that change policies and then call           *)
(* invalidate().                                                           *)
(*                                                                         *)
(* A refresh reads five tables one after the other, each as it is then.    *)
(* Policies, bindings and statements change together, and what is kept of  *)
(* them is the number of the oldest edit they show; memberships and admins *)
(* change without anybody invalidating, and are seen at the next refresh.  *)
(* Decisions are pure functions of what is kept.                           *)
(***************************************************************************)
EXTENDS Integers

CONSTANTS Checks,      \* check, is_admin, get_denied_resources under way at once
          Editors,     \* edits of policies under way at once
          Ttl,         \* policy_cache_ttl
          MaxTime,     \* bounds the clock
          MaxChanges,  \* bounds the edits
          MaxAsked,    \* bounds the checks
          MaxFailures, \* bounds reads that fail and requests that are cancelled
          Absent

VARIABLES now,
          db,        \* the number of the last edit of policies that is committed
          kept,      \* the number of the edit the cache knows
          loaded,    \* _last_refresh
          stale,     \* _stale
          lock,      \* the check that holds _lock, or Absent
          check,     \* check -> [at, reads, oldest, due, promised], or Absent
          edit,      \* editor -> "idle", "committed"
          due,       \* ghost: the edit a check that begins now has to see, given that
                     \* no refresh was under way when it was invalidated
          promised,  \* ghost: the same for every edit
          answer,    \* what the last check knew: [edit, due, promised], or Absent
          asked, failures

policyVars == <<now, db, kept, loaded, stale, lock, check, edit, due, promised, answer, asked,
                failures>>

\* policies, bindings, statements, memberships, admins
Queries == 5

\* Nothing is loaded before the first check.
PolicyInit ==
  /\ now = 0 /\ db = 0
  /\ kept = 0 /\ loaded = 0 /\ stale = TRUE /\ lock = Absent
  /\ check = [c \in Checks |-> Absent] /\ edit = [e \in Editors |-> "idle"]
  /\ due = 0 /\ promised = 0 /\ answer = Absent /\ asked = 0 /\ failures = 0

Tick == now < MaxTime /\ now' = now + 1
        /\ UNCHANGED <<db, kept, loaded, stale, lock, check, edit, due, promised, answer, asked, failures>>

\* create_policy, update_policy, delete_policy, cp_replace_and_bind: commit, then,
\* after another query, invalidate.
Commit(e) ==
  /\ edit[e] = "idle" /\ db < MaxChanges /\ db' = db + 1
  /\ edit' = [edit EXCEPT ![e] = "committed"]
  /\ UNCHANGED <<now, kept, loaded, stale, lock, check, due, promised, answer, asked, failures>>

Invalidate(e) ==
  /\ edit[e] = "committed" /\ edit' = [edit EXCEPT ![e] = "idle"]
  /\ stale' = TRUE
  /\ promised' = db
  /\ due' = IF lock = Absent THEN db ELSE due
  /\ UNCHANGED <<now, db, kept, loaded, lock, check, answer, asked, failures>>

\* Another process edits: its invalidate() reaches its own cache only.
EditElsewhere ==
  /\ db < MaxChanges /\ db' = db + 1
  /\ UNCHANGED <<now, kept, loaded, stale, lock, check, edit, due, promised, answer, asked, failures>>
-----------------------------------------------------------------------------
\* Slip: only time makes the cache stale.
ExpiredOnly == now - loaded >= Ttl
Outdated == stale \/ now - loaded >= Ttl

\* The check ends with what is in the cache.
Answer(c, k) ==
  /\ check' = [check EXCEPT ![c] = Absent]
  /\ answer' = [edit |-> k, due |-> check[c].due, promised |-> check[c].promised]

Begin(c) ==
  /\ check[c] = Absent /\ asked < MaxAsked /\ asked' = asked + 1
  /\ check' = [check EXCEPT ![c] = [at |-> "asks", reads |-> 0, oldest |-> 0, due |-> due, promised |-> promised]]
  /\ UNCHANGED <<now, db, kept, loaded, stale, lock, edit, due, promised, answer, failures>>

\* _maybe_refresh, before and after the lock: between two awaits.
Fresh(c) ==
  /\ check[c] # Absent /\ check[c].at = "asks" /\ ~Outdated
  /\ Answer(c, kept)
  /\ UNCHANGED <<now, db, kept, loaded, stale, lock, edit, due, promised, asked, failures>>

Lock(c) ==
  /\ check[c] # Absent /\ check[c].at = "asks" /\ Outdated /\ lock = Absent
  /\ lock' = c /\ check' = [check EXCEPT ![c].at = "reads"]
  /\ UNCHANGED <<now, db, kept, loaded, stale, edit, due, promised, answer, asked, failures>>

\* One query of _refresh.
Read(c) ==
  /\ check[c] # Absent /\ check[c].at = "reads" /\ check[c].reads < Queries
  /\ LET n == check[c].reads + 1 IN
       check' = [check EXCEPT ![c].reads = n, ![c].oldest = IF n = 1 THEN db ELSE @]
  /\ UNCHANGED <<now, db, kept, loaded, stale, lock, edit, due, promised, answer, asked, failures>>

Refreshed(c) ==
  /\ check[c] # Absent /\ check[c].reads = Queries
  /\ kept' = check[c].oldest /\ loaded' = now /\ stale' = FALSE /\ lock' = Absent
  /\ Answer(c, kept')
  /\ UNCHANGED <<now, db, edit, due, promised, asked, failures>>

\* A query fails: the check goes on with what there is, and later ones try again.
ReadFails(c) ==
  /\ check[c] # Absent /\ check[c].at = "reads" /\ failures < MaxFailures /\ failures' = failures + 1
  /\ stale' = TRUE /\ lock' = Absent
  /\ check' = [check EXCEPT ![c] = Absent] /\ answer' = Absent
  /\ UNCHANGED <<now, db, kept, loaded, edit, due, promised, asked>>

\* The request is cancelled while it waits for the lock or a query.
Cancelled(c) ==
  /\ check[c] # Absent /\ failures < MaxFailures /\ failures' = failures + 1
  /\ lock' = IF lock = c THEN Absent ELSE lock
  /\ check' = [check EXCEPT ![c] = Absent]
  /\ UNCHANGED <<now, db, kept, loaded, stale, edit, due, promised, answer, asked>>

PolicyNext ==
  \/ Tick
  \/ EditElsewhere
  \/ \E e \in Editors : Commit(e) \/ Invalidate(e)
  \/ \E c \in Checks : \/ Begin(c) \/ Fresh(c) \/ Lock(c) \/ Read(c) \/ Refreshed(c)
                       \/ ReadFails(c) \/ Cancelled(c)

PolicySpec == PolicyInit /\ [][PolicyNext]_policyVars
-----------------------------------------------------------------------------
\* A check that begins after an edit was invalidated decides by that edit or a later
\* one, whatever failed or was cancelled in between: save when a refresh was under
\* way at the invalidation, or the refresh of the check itself fails.
EditIsSeen == answer # Absent => answer.edit >= answer.due

\* PolicyCache.invalidate: mark the cache as stale so the next access check triggers
\* a refresh; _maybe_refresh: concurrent callers then see the fresh data.
InvalidateIsSeen == answer # Absent => answer.edit >= answer.promised
=============================================================================
