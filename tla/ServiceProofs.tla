---------------------------- MODULE ServiceProofs ----------------------------
(***************************************************************************)
(* Services that share no state: a policy edit is seen by the checks that  *)
(* follow it (PolicyCache), the last consent or disconnection of a user    *)
(* stands (HostAuth), every tenant has its turn in a round (Scheduler),    *)
(* the two cache backends answer alike (CacheBackends), a cursor does not  *)
(* run ahead of what was copied (PluginSync), and a run of an experience   *)
(* that is active is in hand (Experiences), for any checks, editors,       *)
(* exchanges, runs, scopes, tenants, sources of work, keys, items, users   *)
(* and workers.                                                            *)
(***************************************************************************)
EXTENDS PolicyCache, HostAuth, Scheduler, CacheBackends, PluginSync, Experiences,
        FiniteSetTheorems, WellFoundedInduction, TLAPS

------------------------------------------------------------------------------
(***************************************************************************)
(* PolicyCache.                                                            *)
(***************************************************************************)
CheckState == [at: {"asks", "reads"}, reads: Nat, oldest: Nat, due: Nat, promised: Nat]

PolicyTyped ==
  /\ db \in Nat /\ kept \in Nat /\ due \in Nat /\ promised \in Nat
  /\ stale \in BOOLEAN
  /\ check \in [Checks -> CheckState \cup {Absent}]

\* Only the holder of the lock refreshes.
Mutex == \A c \in Checks : check[c] # Absent =>
  /\ check[c].at = "reads" => lock = c
  /\ check[c].at = "asks" => check[c].reads = 0

\* What is due is committed; a refresh that has read the policies, and a cache that
\* is not stale, show it; and nothing is due to a check that was not due to the cache.
DueKept ==
  /\ due <= db
  /\ ~stale => kept >= due
  /\ \A c \in Checks : check[c] # Absent =>
       /\ check[c].due <= due
       /\ check[c].reads > 0 => check[c].oldest >= due

PolicyInv == PolicyTyped /\ Mutex /\ DueKept /\ EditIsSeen

LEMMA PolicyInvInitially == Absent \notin CheckState /\ PolicyInit => PolicyInv
BY DEF PolicyInit, PolicyInv, PolicyTyped, Mutex, DueKept, EditIsSeen

\* The actions in which no check moves.
LEMMA EditsKeepPolicyInv ==
  ASSUME PolicyInv, Absent \notin Checks,
         \/ Tick \/ EditElsewhere \/ \E e \in Editors : Commit(e) \/ Invalidate(e)
  PROVE  PolicyInv'
<1> USE DEF PolicyInv
<1>1. CASE Tick
  BY <1>1 DEF Tick, PolicyTyped, Mutex, DueKept, EditIsSeen
<1>2. CASE EditElsewhere
  BY <1>2 DEF EditElsewhere, PolicyTyped, Mutex, DueKept, EditIsSeen
<1>3. ASSUME NEW e \in Editors, Commit(e)
      PROVE  PolicyInv'
  BY <1>3 DEF Commit, PolicyTyped, Mutex, DueKept, EditIsSeen
<1>4. ASSUME NEW e \in Editors, Invalidate(e)
      PROVE  PolicyInv'
  <2>1. /\ stale' = TRUE /\ promised' = db
        /\ UNCHANGED <<db, kept, lock, check, answer>>
        /\ due' = IF lock = Absent THEN db ELSE due
    BY <1>4 DEF Invalidate
  <2>2. PolicyTyped' /\ Mutex' /\ EditIsSeen'
    BY <2>1 DEF PolicyTyped, Mutex, EditIsSeen
  <2>3. \A c \in Checks : check[c] # Absent /\ check[c].reads > 0 => lock # Absent
    BY DEF Mutex, PolicyTyped, CheckState
  <2>4. due <= due'
    BY <2>1 DEF PolicyTyped, DueKept
  <2>5. DueKept'
    BY <2>1, <2>3, <2>4 DEF DueKept, PolicyTyped, CheckState
  <2> QED
    BY <2>2, <2>5
<1> QED
  BY <1>1, <1>2, <1>3, <1>4

\* A check that ends leaves the others as they are.
LEMMA EndsKeepPolicyInv ==
  ASSUME PolicyInv, Absent \notin Checks, NEW c \in Checks,
         check' = [check EXCEPT ![c] = Absent],
         UNCHANGED <<db, due, promised>>,
         lock' = lock \/ \A d \in Checks \ {c} : check[d] # Absent => check[d].at = "asks",
         stale' \in BOOLEAN, kept' \in Nat, ~stale' => kept' >= due,
         answer' = Absent \/ answer' = answer \/ answer'.edit >= answer'.due
  PROVE  PolicyInv'
<1>1. \A d \in Checks : check'[d] # Absent => d # c /\ check'[d] = check[d]
  BY DEF PolicyInv, PolicyTyped
<1> QED
  BY <1>1 DEF PolicyInv, PolicyTyped, Mutex, DueKept, EditIsSeen

LEMMA StepsKeepPolicyInv ==
  ASSUME PolicyInv, Absent \notin Checks \cup CheckState, NEW c \in Checks,
         \/ Begin(c) \/ Fresh(c) \/ Lock(c) \/ Read(c) \/ Refreshed(c) \/ ReadFails(c) \/ Cancelled(c)
  PROVE  PolicyInv'
<1> USE DEF PolicyInv
<1>0. check[c] # Absent => check[c] \in CheckState
  BY DEF PolicyTyped
<1>1. CASE Begin(c)
  BY <1>1 DEF Begin, PolicyTyped, CheckState, Mutex, DueKept, EditIsSeen
<1>2. CASE Fresh(c)
  <2>1. answer'.edit = kept /\ answer'.due = check[c].due /\ ~stale
    BY <1>2 DEF Fresh, Answer, Outdated
  <2>2. answer'.edit >= answer'.due
    BY <2>1, <1>0, <1>2 DEF Fresh, DueKept, PolicyTyped, CheckState
  <2> QED
    BY <1>2, <2>2, EndsKeepPolicyInv DEF Fresh, Answer, PolicyTyped, DueKept
<1>3. CASE Lock(c)
  <2>1. \A d \in Checks : check[d] # Absent => check[d].at = "asks" /\ check[d].reads = 0
    BY <1>0, <1>3 DEF Lock, Mutex, PolicyTyped, CheckState
  <2>2. /\ check' = [check EXCEPT ![c].at = "reads"] /\ lock' = c
        /\ UNCHANGED <<db, kept, stale, due, promised, answer>> /\ check[c] # Absent
    BY <1>3 DEF Lock
  <2>3. check'[c] \in CheckState /\ check'[c].reads = 0 /\ check'[c].due = check[c].due
    BY <1>0, <2>1, <2>2 DEF PolicyTyped, CheckState
  <2>4. \A d \in Checks \ {c} : check'[d] = check[d]
    BY <2>2 DEF PolicyTyped
  <2>5. check' \in [Checks -> CheckState \cup {Absent}]
    BY <2>2, <2>3, <2>4 DEF PolicyTyped
  <2>6. PolicyTyped' /\ EditIsSeen'
    BY <2>2, <2>5 DEF PolicyTyped, EditIsSeen
  <2>7. Mutex'
    BY <2>1, <2>2, <2>3, <2>4 DEF Mutex, CheckState
  <2>8. DueKept'
    BY <2>1, <2>2, <2>3, <2>4 DEF DueKept
  <2> QED
    BY <2>6, <2>7, <2>8
<1>4. CASE Read(c)
  <2>1. /\ check[c] # Absent /\ check[c].at = "reads"
        /\ UNCHANGED <<db, kept, stale, lock, due, promised, answer>>
    BY <1>4 DEF Read
  <2> DEFINE first == IF check[c].reads + 1 = 1 THEN db ELSE check[c].oldest
  <2>a. check[c] \in CheckState /\ db \in Nat
    BY <1>0, <2>1 DEF PolicyTyped
  <2>b. first \in Nat /\ check[c].reads + 1 \in Nat
    BY <2>a DEF CheckState
  <2>c. check'[c] = [check[c] EXCEPT !.reads = check[c].reads + 1, !.oldest = first]
    BY <1>4 DEF Read, PolicyTyped
  <2>2. /\ check'[c] \in CheckState
        /\ check'[c].at = "reads" /\ check'[c].due = check[c].due
        /\ check'[c].oldest = first
    <3> HIDE DEF first
    <3> QED
      BY <2>1, <2>a, <2>b, <2>c DEF CheckState
  <2>3. \A d \in Checks \ {c} : check'[d] = check[d]
    BY <1>4 DEF Read, PolicyTyped
  <2>4. check' \in [Checks -> CheckState \cup {Absent}]
    BY <1>4, <2>2, <2>3 DEF Read, PolicyTyped
  <2>5. PolicyTyped' /\ Mutex' /\ EditIsSeen'
    BY <2>1, <2>2, <2>3, <2>4 DEF PolicyTyped, Mutex, EditIsSeen
  <2>6. check'[c].oldest >= due
    BY <1>0, <2>1, <2>2 DEF DueKept, PolicyTyped, CheckState
  <2>7. DueKept'
    BY <2>1, <2>2, <2>3, <2>6 DEF DueKept
  <2> QED
    BY <2>5, <2>7
<1>5. CASE Refreshed(c)
  <2>1. /\ check[c] # Absent /\ check[c].reads = Queries
        /\ kept' = check[c].oldest /\ stale' = FALSE /\ lock' = Absent
        /\ check' = [check EXCEPT ![c] = Absent]
        /\ answer'.edit = kept' /\ answer'.due = check[c].due
        /\ UNCHANGED <<db, due, promised>>
    BY <1>5 DEF Refreshed, Answer
  <2>2. check[c].reads > 0
    BY <2>1 DEF Queries
  <2>3. kept' \in Nat /\ kept' >= due /\ answer'.edit >= answer'.due
    BY <1>0, <2>1, <2>2 DEF DueKept, PolicyTyped, CheckState
  <2>4. lock = c
    BY <1>0, <2>1, <2>2 DEF Mutex, CheckState
  <2>5. \A d \in Checks \ {c} : check[d] # Absent => check[d].at = "asks"
    BY <2>4 DEF Mutex, PolicyTyped, CheckState
  <2> QED
    BY <2>1, <2>3, <2>5, EndsKeepPolicyInv
<1>6. CASE ReadFails(c)
  <2>1. \A d \in Checks \ {c} : check[d] # Absent => check[d].at = "asks"
    BY <1>6 DEF ReadFails, Mutex, PolicyTyped, CheckState
  <2> QED
    BY <1>6, <2>1, EndsKeepPolicyInv DEF ReadFails, PolicyTyped
<1>7. CASE Cancelled(c)
  <2>1. lock = c => \A d \in Checks \ {c} : check[d] # Absent => check[d].at = "asks"
    BY DEF Mutex, PolicyTyped, CheckState
  <2> QED
    BY <1>7, <2>1, EndsKeepPolicyInv DEF Cancelled, PolicyTyped, DueKept
<1> QED
  BY <1>1, <1>2, <1>3, <1>4, <1>5, <1>6, <1>7

------------------------------------------------------------------------------
\* A check that begins after an edit was invalidated decides by that edit or a
\* later one, save when a refresh was under way at the invalidation
\* (PolicyCache.invalidate, _maybe_refresh, _refresh).
THEOREM EditIsSeenHolds ==
  ASSUME Absent \notin Checks \cup CheckState
  PROVE  PolicySpec => []EditIsSeen
<1>1. PolicyInit => PolicyInv
  BY PolicyInvInitially
<1>2. PolicyInv /\ [PolicyNext]_policyVars => PolicyInv'
  <2> SUFFICES ASSUME PolicyInv, [PolicyNext]_policyVars PROVE PolicyInv'
    OBVIOUS
  <2>1. CASE UNCHANGED policyVars
    BY <2>1 DEF policyVars, PolicyInv, PolicyTyped, Mutex, DueKept, EditIsSeen
  <2>2. CASE PolicyNext
    BY <2>2, EditsKeepPolicyInv, StepsKeepPolicyInv DEF PolicyNext
  <2> QED
    BY <2>1, <2>2
<1>3. PolicyInv => EditIsSeen
  BY DEF PolicyInv
<1> QED
  BY <1>1, <1>2, <1>3, PTL DEF PolicySpec

------------------------------------------------------------------------------
(***************************************************************************)
(* HostAuth.                                                               *)
(***************************************************************************)

\* None is told from the records of credentials.
NoneApart == \A s, n : None # [scopes |-> s, updated |-> n]

HostTyped ==
  /\ clock \in Nat
  /\ DOMAIN credentials = Exchanges
  /\ credentials = [e \in Exchanges |-> credentials[e]]
  /\ \A e \in Exchanges : credentials[e] # None =>
       credentials[e].updated \in Nat /\ credentials[e].updated <= clock
  /\ exchange \in [Exchanges -> {"new", "stored", "named", "over"}]
  /\ grant = [r \in Runs |-> grant[r]]

\* After a disconnection no exchange can still write.
Disconnected == out => UnderWay = {}

\* The last consent is stored, the newest, and all that may write is about it.
LastIsNewest == last # None /\ last \notin overlap =>
  /\ last \in Stored
  /\ \A e \in Stored \ {last} : credentials[e].updated < credentials[last].updated
  /\ UnderWay \subseteq {last}
  /\ \A r \in Runs : grant[r] # None => grant[r].cred = last

NewIsApart == \A e \in Exchanges : exchange[e] = "new" => e \notin overlap

HostInv == HostTyped /\ Disconnected /\ DisconnectEnds /\ LastIsNewest /\ NewIsApart

------------------------------------------------------------------------------
LEMMA WriteEffect ==
  ASSUME NoneApart, HostTyped, NEW e, NEW s, Write(e, s)
  PROVE  /\ clock' \in Nat /\ clock' = clock + 1
         /\ credentials' = [f \in Exchanges |-> credentials'[f]]
         /\ DOMAIN credentials' = Exchanges
         /\ \A f \in Exchanges : f # e => credentials'[f] = credentials[f]
         /\ e \in Exchanges => credentials'[e] = [scopes |-> s, updated |-> clock + 1]
         /\ \A f \in Exchanges : credentials'[f] # None =>
              credentials'[f].updated \in Nat /\ credentials'[f].updated <= clock'
<1>1. clock' = clock + 1 /\ credentials' = [credentials EXCEPT ![e] = [scopes |-> s, updated |-> clock + 1]]
  BY DEF Write
<1>2. \A f \in Exchanges : f # e => credentials'[f] = credentials[f]
  BY <1>1 DEF HostTyped
<1>3. e \in Exchanges => credentials'[e] = [scopes |-> s, updated |-> clock + 1]
  BY <1>1 DEF HostTyped
<1>4. e \in Exchanges => credentials'[e].updated = clock + 1
  BY <1>3
<1>5. credentials' = [f \in Exchanges |-> credentials'[f]] /\ DOMAIN credentials' = Exchanges
  BY <1>1 DEF HostTyped
<1> QED
  BY <1>1, <1>2, <1>3, <1>4, <1>5 DEF HostTyped

\* A write about the last consent keeps it the newest.
LEMMA WriteKeepsNewest ==
  ASSUME NoneApart, HostTyped, NEW e \in Exchanges, NEW s, Write(e, s)
  PROVE  /\ e \in Stored' /\ Stored' = Stored \cup {e}
         /\ \A f \in Stored' \ {e} : credentials'[f].updated < credentials'[e].updated
<1>1. /\ credentials'[e] = [scopes |-> s, updated |-> clock + 1]
      /\ \A f \in Exchanges : f # e => credentials'[f] = credentials[f]
  BY WriteEffect
<1>2. credentials'[e] # None /\ credentials'[e].updated = clock + 1
  BY <1>1 DEF NoneApart
<1>3. e \in Stored' /\ Stored' = Stored \cup {e}
  BY <1>1, <1>2 DEF Stored
<1>4. \A f \in Stored' \ {e} : credentials'[f].updated \in Nat /\ credentials'[f].updated <= clock
  BY <1>1 DEF Stored, HostTyped
<1> QED
  BY <1>2, <1>3, <1>4 DEF HostTyped

LEMMA HostInvInitially == HostInit => HostInv
BY DEF HostInit, HostInv, HostTyped, Disconnected, DisconnectEnds, LastIsNewest, NewIsApart, UnderWay, Stored

LEMMA ExchangesKeepHostInv ==
  ASSUME NoneApart, HostInv, NEW e \in Exchanges,
         Exchange(e) \/ NameAccount(e) \/ UpsertIdentity(e) \/ ExchangeEnds(e)
  PROVE  HostInv'
<1> USE DEF HostInv
<1>1. CASE Exchange(e)
  <2>1. /\ exchange[e] = "new" /\ exchange' = [exchange EXCEPT ![e] = "stored"]
        /\ last' = e /\ out' = FALSE /\ UNCHANGED grant
        /\ overlap' = IF UnderWay # {} \/ \E r \in Runs : grant[r] # None
                        THEN overlap \cup {e} ELSE overlap
    BY <1>1 DEF Exchange
  <2>2. PICK s \in Consents : Write(e, s)
    BY <1>1 DEF Exchange
  <2>3. HostTyped'
    BY <2>1, <2>2, WriteEffect DEF HostTyped
  <2>4. UnderWay' = UnderWay \cup {e}
    BY <2>1 DEF UnderWay, HostTyped
  <2>5. LastIsNewest'
    BY <2>1, <2>2, <2>4, WriteKeepsNewest DEF LastIsNewest
  <2>6. NewIsApart'
    BY <2>1 DEF NewIsApart, HostTyped
  <2> QED
    BY <2>1, <2>3, <2>5, <2>6 DEF Disconnected, DisconnectEnds
<1>2. ASSUME NameAccount(e), credentials[e] = None
      PROVE  HostInv'
  <2>1. /\ exchange' = [exchange EXCEPT ![e] = "over"]
        /\ UNCHANGED <<clock, credentials, identity, grant, last, out, overlap>>
    BY <1>2 DEF NameAccount
  <2>2. UnderWay' \subseteq UnderWay /\ Stored' = Stored
    BY <2>1 DEF UnderWay, Stored, HostTyped
  <2> QED
    BY <2>1, <2>2 DEF HostTyped, Disconnected, DisconnectEnds, LastIsNewest, NewIsApart
<1>3. ASSUME NameAccount(e), credentials[e] # None
      PROVE  HostInv'
  <2>1. /\ exchange' = [exchange EXCEPT ![e] = "named"]
        /\ Write(e, credentials[e].scopes) /\ e \in UnderWay
        /\ UNCHANGED <<identity, grant, last, out, overlap>>
    BY <1>3 DEF NameAccount, UnderWay
  <2>2. UnderWay' = UnderWay
    BY <2>1 DEF UnderWay, HostTyped
  <2>3. HostTyped'
    BY <2>1, WriteEffect DEF HostTyped
  <2>4. ~out
    BY <2>1 DEF Disconnected
  <2>5. LastIsNewest'
    BY <2>1, <2>2, WriteKeepsNewest DEF LastIsNewest
  <2> QED
    BY <2>1, <2>2, <2>3, <2>4, <2>5 DEF Disconnected, DisconnectEnds, NewIsApart, HostTyped
<1>4. CASE UpsertIdentity(e)
  <2>1. /\ exchange' = [exchange EXCEPT ![e] = "over"] /\ e \in UnderWay
        /\ UNCHANGED <<credentials, grant, clock, last, out, overlap>>
    BY <1>4 DEF UpsertIdentity, UnderWay
  <2>2. UnderWay' \subseteq UnderWay /\ Stored' = Stored /\ ~out
    BY <2>1 DEF UnderWay, Stored, HostTyped, Disconnected
  <2> QED
    BY <2>1, <2>2 DEF HostTyped, Disconnected, DisconnectEnds, LastIsNewest, NewIsApart
<1>5. CASE ExchangeEnds(e)
  <2>1. /\ exchange' = [exchange EXCEPT ![e] = "over"]
        /\ UNCHANGED <<credentials, identity, grant, clock, last, out, overlap>>
    BY <1>5 DEF ExchangeEnds
  <2>2. UnderWay' \subseteq UnderWay /\ Stored' = Stored
    BY <2>1 DEF UnderWay, Stored, HostTyped
  <2> QED
    BY <2>1, <2>2 DEF HostTyped, Disconnected, DisconnectEnds, LastIsNewest, NewIsApart
<1> QED
  BY <1>1, <1>2, <1>3, <1>4, <1>5

LEMMA DisconnectKeepsHostInv ==
  ASSUME HostInv, Disconnect
  PROVE  HostInv'
BY DEF HostInv, Disconnect, HostTyped, Disconnected, DisconnectEnds, LastIsNewest, NewIsApart, UnderWay, Stored

\* Only the newest credential can be in use.
LEMMA NewestIsInUse ==
  ASSUME HostTyped, LastIsNewest, last # None, last \notin overlap
  PROVE  InUse = last
<1>1. last \in Stored /\ \A f \in Stored : credentials[f].updated <= credentials[last].updated
  BY DEF LastIsNewest, Stored, HostTyped
<1>2. \A e \in Stored : (\A f \in Stored : credentials[f].updated <= credentials[e].updated) => e = last
  BY DEF LastIsNewest, Stored, HostTyped
<1> QED
  BY <1>1, <1>2 DEF InUse

LEMMA RunsKeepHostInv ==
  ASSUME NoneApart, HostInv, NEW r \in Runs,
         (\E p \in Plugins : UserToken(r, p)) \/ Renewed(r) \/ NotRefreshed(r)
  PROVE  HostInv'
<1> USE DEF HostInv
<1>1. ASSUME NEW p \in Plugins, UserToken(r, p)
      PROVE  HostInv'
  <2>1. /\ grant' = [grant EXCEPT ![r] = [cred |-> InUse, scopes |-> credentials[InUse].scopes]]
        /\ UNCHANGED <<credentials, identity, exchange, clock, last, out, overlap>>
    BY <1>1 DEF UserToken
  <2>2. UnderWay' = UnderWay /\ Stored' = Stored
    BY <2>1 DEF UnderWay, Stored
  <2>3. grant' = [x \in Runs |-> grant'[x]] /\ grant'[r].cred = InUse
        /\ \A x \in Runs \ {r} : grant'[x] = grant[x]
    BY <2>1 DEF HostTyped
  <2>4. LastIsNewest'
    BY <2>1, <2>2, <2>3, NewestIsInUse DEF LastIsNewest
  <2> QED
    BY <2>1, <2>2, <2>3, <2>4 DEF HostTyped, Disconnected, DisconnectEnds, NewIsApart
<1>2. ASSUME grant' = [grant EXCEPT ![r] = None],
             UNCHANGED <<credentials, clock, identity, exchange, last, out, overlap>>
      PROVE  HostInv'
  <2>1. UnderWay' = UnderWay /\ Stored' = Stored
    BY <1>2 DEF UnderWay, Stored
  <2>2. grant' = [x \in Runs |-> grant'[x]] /\ grant'[r] = None
        /\ \A x \in Runs \ {r} : grant'[x] = grant[x]
    BY <1>2 DEF HostTyped
  <2> QED
    BY <1>2, <2>1, <2>2 DEF HostTyped, Disconnected, DisconnectEnds, LastIsNewest, NewIsApart
<1>3. ASSUME Renewed(r), credentials[grant[r].cred] # None, grant[r].cred \in Exchanges
      PROVE  HostInv'
  <2>1. /\ grant[r] # None /\ grant' = [grant EXCEPT ![r] = None]
        /\ Write(grant[r].cred, credentials[grant[r].cred].scopes)
        /\ UNCHANGED <<identity, exchange, last, out, overlap>>
    BY <1>3 DEF Renewed, StoreToken
  <2>2. UnderWay' = UnderWay /\ ~out
    BY <1>3, <2>1 DEF UnderWay, DisconnectEnds, Stored
  <2>3. grant' = [x \in Runs |-> grant'[x]] /\ grant'[r] = None
        /\ \A x \in Runs \ {r} : grant'[x] = grant[x]
    BY <2>1 DEF HostTyped
  <2>4. HostTyped'
    BY <2>1, <2>3, WriteEffect DEF HostTyped
  <2>5. LastIsNewest'
    BY <1>3, <2>1, <2>2, <2>3, WriteKeepsNewest DEF LastIsNewest
  <2> QED
    BY <2>1, <2>2, <2>4, <2>5 DEF Disconnected, DisconnectEnds, NewIsApart
<1>4. ASSUME Renewed(r), credentials[grant[r].cred] = None
      PROVE  HostInv'
  BY <1>4, <1>2 DEF Renewed, StoreToken
<1>5. ASSUME Renewed(r), grant[r].cred \notin Exchanges
      PROVE  HostInv'
  <2>1. /\ credentials' = credentials /\ clock' \in Nat /\ clock' >= clock
        /\ grant' = [grant EXCEPT ![r] = None]
        /\ UNCHANGED <<identity, exchange, last, out, overlap>>
    BY <1>5 DEF Renewed, StoreToken, Write, HostTyped
  <2>2. UnderWay' = UnderWay /\ Stored' = Stored
    BY <2>1 DEF UnderWay, Stored
  <2>3. grant' = [x \in Runs |-> grant'[x]] /\ grant'[r] = None
        /\ \A x \in Runs \ {r} : grant'[x] = grant[x]
    BY <2>1 DEF HostTyped
  <2>4. \A f \in Exchanges : credentials'[f] # None =>
          credentials'[f].updated \in Nat /\ credentials'[f].updated <= clock'
    BY <2>1 DEF HostTyped
  <2>5. HostTyped'
    BY <2>1, <2>3, <2>4 DEF HostTyped
  <2>6. LastIsNewest'
    BY <2>1, <2>2, <2>3 DEF LastIsNewest
  <2> QED
    BY <2>1, <2>2, <2>5, <2>6 DEF Disconnected, DisconnectEnds, NewIsApart
<1>6. CASE NotRefreshed(r)
  BY <1>6, <1>2 DEF NotRefreshed
<1> QED
  BY <1>1, <1>3, <1>4, <1>5, <1>6

------------------------------------------------------------------------------
\* After a disconnection nothing is stored until the user connects again, and the
\* last consent that nothing overlapped is the one that runs use, however often
\* they refresh it (api/host_auth.py, host_auth_service.py, the adapters).
THEOREM LastDecisionStandsHolds ==
  ASSUME NoneApart
  PROVE  HostSpec => []LastDecisionStands
<1>1. HostInit => HostInv
  BY HostInvInitially
<1>2. HostInv /\ [HostNext]_hostVars => HostInv'
  <2> SUFFICES ASSUME HostInv, [HostNext]_hostVars PROVE HostInv'
    OBVIOUS
  <2>1. CASE UNCHANGED hostVars
    BY <2>1 DEF hostVars, HostInv, HostTyped, Disconnected, DisconnectEnds, LastIsNewest, NewIsApart, UnderWay, Stored
  <2>2. ASSUME NEW p \in Plugins, Subscribe(p) \/ Unsubscribe(p)
        PROVE  HostInv'
    BY <2>2 DEF Subscribe, Unsubscribe, HostInv, HostTyped, Disconnected, DisconnectEnds, LastIsNewest,
                NewIsApart, UnderWay, Stored
  <2>3. CASE HostNext
    BY <2>2, <2>3, ExchangesKeepHostInv, DisconnectKeepsHostInv, RunsKeepHostInv DEF HostNext
  <2> QED
    BY <2>1, <2>3
<1>3. HostInv => LastDecisionStands
  BY NewestIsInUse DEF HostInv, LastDecisionStands, LastConsentCounts
<1> QED
  BY <1>1, <1>2, <1>3, PTL DEF HostSpec

------------------------------------------------------------------------------
(***************************************************************************)
(* Scheduler.                                                              *)
(***************************************************************************)
\* What the throttle and the parts of the state are made of.
SchedTyped ==
  /\ round \in Nat /\ broken \in BOOLEAN
  /\ at \in [tenant : Tenants \cup {0}, source : 1..Len(Sources)]
  /\ did \in [SourceSet -> [Tenants -> SUBSET Nat]]
  /\ trouble \in [Tenants -> SUBSET Nat]

\* Source s has had its turn with tenant t in round k, or t was in trouble.
HadTurn(s, t, k)  == k \in did[s][t] \cup trouble[t]
After(s, t, k) == k \in did'[s][t] \cup trouble'[t]

SchedInv ==
  /\ SchedTyped
  /\ broken => at.tenant # 0 /\ round \in trouble[at.tenant]
  /\ \A s \in SourceSet \ Throttled, t \in Tenants :
       /\ \A k \in 1..(round - 1) : HadTurn(s, t, k)
       /\ (at.tenant = 0 \/ t < at.tenant) /\ round > 0 => HadTurn(s, t, round)
  /\ at.tenant # 0 => \A i \in 1..(at.source - 1) :
       Sources[i] \notin Throttled => HadTurn(Sources[i], at.tenant, round)

\* Turns that were had are kept.
Grows ==
  /\ round' = round
  /\ did' \in [SourceSet -> [Tenants -> SUBSET Nat]] /\ trouble' \in [Tenants -> SUBSET Nat]
  /\ \A s \in SourceSet, t \in Tenants : did[s][t] \subseteq did'[s][t]
  /\ \A t \in Tenants : trouble[t] \subseteq trouble'[t]

LEMMA TurnsKept ==
  ASSUME SchedInv, Grows
  PROVE  /\ \A s \in SourceSet, t \in Tenants : \A k : HadTurn(s, t, k) => After(s, t, k)
         /\ \A s \in SourceSet \ Throttled, t \in Tenants :
              /\ \A k \in 1..(round - 1) : After(s, t, k)
              /\ (at.tenant = 0 \/ t < at.tenant) /\ round > 0 => After(s, t, round)
<1>1. \A s \in SourceSet, t \in Tenants : \A k : HadTurn(s, t, k) => After(s, t, k)
  BY DEF HadTurn, After, Grows
<1> QED BY <1>1 DEF SchedInv, Grows, HadTurn, After

\* All sources have had their turn with a tenant.
LEMMA TenantDone ==
  ASSUME NEW n \in Nat \ {0}, Tenants = 1..n, NEW S, Sources \in Seq(S), Sources # <<>>,
         SchedInv, Grows, at.tenant # 0, NextTenant,
         \A s \in SourceSet \ Throttled : After(s, at.tenant, round)
  PROVE  SchedInv'
<1> DEFINE t0 == at.tenant
           t1 == IF t0 + 1 \in Tenants THEN t0 + 1 ELSE 0
<1>1. SchedTyped
  BY DEF SchedInv
<1>2. t0 \in 1..n /\ Len(Sources) \in Nat \ {0} /\ 1 \in 1..Len(Sources) /\ t1 \in Tenants \cup {0}
  BY <1>1 DEF SchedTyped
<1>3. at' = [tenant |-> t1, source |-> 1] /\ broken' = FALSE
  BY DEF NextTenant
<1>4. SchedTyped'
  BY <1>1, <1>2, <1>3 DEF SchedTyped, Grows
<1>5. at'.tenant = t1 /\ at'.source = 1
  BY <1>3
<1>6. ASSUME NEW t \in Tenants, t1 = 0 \/ t < t1 PROVE t < t0 \/ t = t0
  BY <1>2, <1>6
<1> HIDE DEF t1
<1>7. ASSUME NEW s \in SourceSet \ Throttled, NEW t \in Tenants
      PROVE  /\ \A k \in 1..(round - 1) : After(s, t, k)
             /\ (t1 = 0 \/ t < t1) /\ round > 0 => After(s, t, round)
  BY <1>6, TurnsKept
<1>8. \A i \in 1..(at'.source - 1) : FALSE
  BY <1>5
<1> QED BY <1>3, <1>4, <1>5, <1>7, <1>8 DEF SchedInv, Grows, HadTurn, After

LEMMA RoundGoesOn ==
  ASSUME NEW n \in Nat \ {0}, Tenants = 1..n, NEW S, Sources \in Seq(S), Sources # <<>>,
         SchedInv, Grows, at.tenant # 0, NEW breaks \in BOOLEAN, GoOn(breaks),
         breaks => round \in trouble'[at.tenant],
         Sources[at.source] \notin Throttled => After(Sources[at.source], at.tenant, round)
  PROVE  SchedInv'
<1> DEFINE t0 == at.tenant
           i0 == at.source
<1>1. SchedTyped
  BY DEF SchedInv
<1>2. t0 \in Tenants /\ i0 \in 1..Len(Sources) /\ Len(Sources) \in Nat
  BY <1>1 DEF SchedTyped
<1>3. \A i \in 1..Len(Sources) : Sources[i] \in SourceSet
  BY DEF SourceSet
<1>4. ASSUME NEW i \in 1..i0, Sources[i] \notin Throttled PROVE After(Sources[i], t0, round)
  <2>1. CASE i = i0
    BY <1>4, <2>1
  <2>2. CASE i # i0
    <3>1. i \in 1..(i0 - 1) /\ Sources[i] \in SourceSet
      BY <1>2, <1>3, <2>2
    <3>2. HadTurn(Sources[i], t0, round)
      BY <1>4, <3>1 DEF SchedInv
    <3> QED BY <1>2, <3>1, <3>2, TurnsKept DEF Grows
  <2> QED BY <2>1, <2>2
<1>5. CASE i0 = Len(Sources)
  <2>1. NextTenant
    BY <1>5 DEF GoOn
  <2>2. \A s \in SourceSet \ Throttled : After(s, t0, round)
    <3>1. \A s \in SourceSet : \E i \in 1..i0 : s = Sources[i]
      BY <1>5 DEF SourceSet
    <3> QED BY <1>4, <3>1
  <2> QED BY <2>1, <2>2, TenantDone
<1>6. CASE i0 # Len(Sources)
  <2>1. at' = [at EXCEPT !.source = @ + 1] /\ broken' = (broken \/ breaks)
    BY <1>6 DEF GoOn
  <2>2. at'.tenant = t0 /\ at'.source = i0 + 1 /\ at' \in [tenant : Tenants \cup {0}, source : 1..Len(Sources)]
    BY <1>1, <1>2, <1>6, <2>1 DEF SchedTyped
  <2>3. SchedTyped'
    BY <1>1, <2>1, <2>2 DEF SchedTyped, Grows
  <2>4. broken' => round \in trouble'[t0]
    BY <1>2, <2>1 DEF SchedInv, Grows, HadTurn, After
  <2>5. \A i \in 1..(at'.source - 1) : i \in 1..i0
    BY <1>2, <2>2
  <2>6. ASSUME NEW s \in SourceSet \ Throttled, NEW t \in Tenants
        PROVE  /\ \A k \in 1..(round - 1) : After(s, t, k)
               /\ t < t0 /\ round > 0 => After(s, t, round)
    BY TurnsKept
  <2> QED BY <1>4, <2>2, <2>3, <2>4, <2>5, <2>6 DEF SchedInv, Grows, HadTurn, After
<1> QED BY <1>5, <1>6

LEMMA SchedStep ==
  ASSUME NEW n \in Nat \ {0}, Tenants = 1..n, NEW S, Sources \in Seq(S), Sources # <<>>,
         SchedInv, [SchedNext]_schedVars
  PROVE  SchedInv'
<1>1. SchedTyped
  BY DEF SchedInv
<1>2. at.tenant # 0 => at.tenant \in Tenants /\ Sources[at.source] \in SourceSet
  BY <1>1 DEF SchedTyped, SourceSet
<1>3. CASE Wake
  <2>1. round' = round + 1 /\ at' = [tenant |-> 1, source |-> 1] /\ UNCHANGED <<broken, did, trouble>>
        /\ at.tenant = 0
    BY <1>3 DEF Wake
  <2>2. SchedTyped'
    BY <1>1, <2>1 DEF SchedTyped
  <2>3. broken' = FALSE
    BY <2>1 DEF SchedInv, SchedTyped
  <2>4. ASSUME NEW s \in SourceSet \ Throttled, NEW t \in Tenants, NEW k \in 1..(round' - 1)
        PROVE  After(s, t, k)
    <3>1. k \in 1..(round - 1) \/ (k = round /\ round > 0)
      BY <1>1, <2>1 DEF SchedTyped
    <3>2. HadTurn(s, t, k)
      BY <2>1, <3>1 DEF SchedInv
    <3> QED BY <2>1, <3>2 DEF HadTurn, After
  <2>5. at'.tenant = 1 /\ at'.source = 1 /\ (\A t \in Tenants : ~(t < 1)) /\ \A i \in 1..(1 - 1) : FALSE
    BY <2>1
  <2> QED BY <2>2, <2>3, <2>4, <2>5 DEF SchedInv, HadTurn, After
<1>4. CASE Works
  <2> DEFINE s0 == Sources[at.source]
             t0 == at.tenant
  <2>1. did' = [did EXCEPT ![s0][t0] = @ \cup {round}] /\ t0 # 0 /\ UNCHANGED <<round, trouble>>
        /\ GoOn(FALSE)
    BY <1>4 DEF Works
  <2>2. s0 \in SourceSet /\ t0 \in Tenants
    BY <1>2, <2>1
  <2> HIDE DEF s0, t0
  <2>3. Grows /\ round \in did'[s0][t0]
    BY <1>1, <2>1, <2>2 DEF SchedTyped, Grows
  <2>4. After(s0, t0, round)
    BY <2>3 DEF After
  <2> QED BY <2>1, <2>3, <2>4, RoundGoesOn DEF s0, t0
<1>5. CASE Skips
  <2>1. Grows /\ at.tenant # 0 /\ GoOn(FALSE) /\ Sources[at.source] \in Throttled
    BY <1>1, <1>5 DEF Skips, Grows, SchedTyped, Due
  <2> QED BY <2>1, RoundGoesOn
<1>6. ASSUME InTrouble, UNCHANGED <<round, did>>, at.tenant # 0
      PROVE  Grows /\ round \in trouble'[at.tenant] /\ \A s : After(s, at.tenant, round)
  <2>1. Grows /\ round \in trouble'[at.tenant]
    BY <1>1, <1>2, <1>6 DEF SchedTyped, Grows, InTrouble
  <2> QED BY <2>1 DEF After
<1>7. CASE TenantFails
  BY <1>6, <1>7, TenantDone DEF TenantFails
<1>8. ASSUME NEW breaks \in BOOLEAN, Fails(breaks) PROVE SchedInv'
  BY <1>6, <1>8, RoundGoesOn DEF Fails
<1>9. CASE UNCHANGED schedVars
  BY <1>9 DEF SchedInv, SchedTyped, HadTurn, schedVars
<1> QED BY <1>3, <1>4, <1>5, <1>7, <1>8, <1>9 DEF SchedNext

\* The trouble of one tenant, and a source that fails for it, cost no other tenant its
\* turn at the sources without a throttle, in any round (UnifiedSchedulerService.tick,
\* for_each_tenant_in_deployment).
THEOREM NoTenantLeftBehindHolds ==
  ASSUME NEW n \in Nat \ {0}, Tenants = 1..n, NEW S, Sources \in Seq(S), Sources # <<>>
  PROVE  SchedSpec => []NoTenantLeftBehind
<1>1. SchedInit => SchedInv
  <2> SUFFICES ASSUME SchedInit PROVE SchedInv
    OBVIOUS
  <2>1. Len(Sources) \in Nat \ {0}
    OBVIOUS
  <2>2. at \in [tenant : Tenants \cup {0}, source : 1..Len(Sources)]
    BY <2>1 DEF SchedInit
  <2>3. did \in [SourceSet -> [Tenants -> SUBSET Nat]] /\ trouble \in [Tenants -> SUBSET Nat]
    BY DEF SchedInit
  <2>4. round = 0 /\ broken = FALSE /\ at.tenant = 0
    BY DEF SchedInit
  <2>5. SchedTyped
    BY <2>2, <2>3, <2>4 DEF SchedTyped
  <2>6. ~(round > 0) /\ \A k \in 1..(round - 1) : FALSE
    BY <2>4
  <2> QED BY <2>4, <2>5, <2>6 DEF SchedInv
<1>2. SchedInv /\ [SchedNext]_schedVars => SchedInv'
  BY SchedStep
<1>3. SchedInv => NoTenantLeftBehind
  <2> SUFFICES ASSUME SchedInv, at.tenant = 0, NEW s \in SourceSet \ Throttled, NEW t \in Tenants, NEW k \in 1..round
               PROVE  k \in did[s][t] \cup trouble[t]
    BY DEF NoTenantLeftBehind, Served
  <2>1. round \in Nat
    BY DEF SchedInv, SchedTyped
  <2>2. k \in 1..(round - 1) \/ (k = round /\ round > 0)
    BY <2>1
  <2> QED BY <2>2 DEF SchedInv, HadTurn
<1> QED BY <1>1, <1>2, <1>3, PTL DEF SchedSpec

------------------------------------------------------------------------------
(***************************************************************************)
(* CacheBackends.                                                          *)
(***************************************************************************)
EntryOf(V) == [val : V, until : Int \cup {Missing}]
Dict(V)  == [Keys -> EntryOf(V) \cup {Missing}]
Texts    == Int \cup {Word}
Values   == Texts \cup {Raw}

CacheTyped == /\ moment \in Int
              /\ text \in Dict(Texts) /\ binary \in Dict({Raw}) /\ redis \in Dict(Values)

\* The values that stand for something else are no others.
Distinct == /\ Raw \notin Texts /\ Word \notin Int /\ Missing \notin Int /\ Missing \notin EntryOf(Values)
            /\ Lives \subseteq Int \cup {Missing} /\ Numbers \subseteq Int

LiveAt(m, e) == e # Missing /\ (e.until = Missing \/ m <= e.until)

\* What the two dictionaries hold under a key, t and b, is what Redis holds, r.
Agrees(m, t, b, r) == /\ LiveAt(m, t) \/ (LiveAt(m, r) /\ r.val # Raw) => t = r
                      /\ LiveAt(m, b) \/ (LiveAt(m, r) /\ r.val = Raw) => b = r

CacheInv == /\ CacheTyped /\ SameAnswers
            /\ \A k \in Keys : k \notin mixed => Agrees(moment, text[k], binary[k], redis[k])

\* An entry is left alone, or forgotten when it is over.
Fades(d, e) == e = d \/ (~LiveAt(moment, d) /\ e = Missing)

LEMMA AliveIsLive == \A e : Alive(e) <=> LiveAt(moment, e)
BY DEF Alive, LiveAt

LEMMA SweptFades ==
  ASSUME NEW V, NEW d \in Dict(V)
  PROVE  Swept(d) \in Dict(V) /\ \A q \in Keys : Fades(d[q], Swept(d)[q])
BY AliveIsLive DEF Swept, Dict, Fades

LEMMA MetFades ==
  ASSUME NEW V, NEW d \in Dict(V), NEW k \in Keys
  PROVE  Met(d, k) \in Dict(V) /\ \A q \in Keys : Fades(d[q], Met(d, k)[q])
BY AliveIsLive DEF Met, Dict, Fades

LEMMA FadesTwice ==
  ASSUME NEW d, NEW e, NEW f, Fades(d, e), Fades(e, f)
  PROVE  Fades(d, f)
BY DEF Fades

LEMMA PutKeeps ==
  ASSUME NEW V, NEW d \in Dict(V), NEW k \in Keys, NEW e \in EntryOf(V) \cup {Missing}
  PROVE  Put(d, k, e) \in Dict(V) /\ Put(d, k, e)[k] = e /\ \A q \in Keys : q # k => Put(d, k, e)[q] = d[q]
BY DEF Put, Dict

LEMMA ProlongedKeeps ==
  ASSUME NEW V, NEW d \in Dict(V), NEW k \in Keys, NEW life \in Int, moment \in Int, Missing \notin Int
  PROVE  /\ Prolonged(d, k, life) \in Dict(V) /\ \A q \in Keys : q # k => Prolonged(d, k, life)[q] = d[q]
         /\ LiveAt(moment, d[k]) => Prolonged(d, k, life)[k] = [d[k] EXCEPT !.until = moment + life]
         /\ ~LiveAt(moment, d[k]) => Prolonged(d, k, life)[k] = Missing
<1>1. Until(life) = moment + life /\ moment + life \in Int
  BY DEF Until
<1>2. CASE LiveAt(moment, d[k])
  <2>1. Prolonged(d, k, life) = [d EXCEPT ![k].until = moment + life]
    BY <1>1, <1>2, AliveIsLive DEF Prolonged
  <2>2. d[k] \in EntryOf(V)
    BY <1>2 DEF LiveAt, Dict
  <2>3. [d[k] EXCEPT !.until = moment + life] \in EntryOf(V)
    BY <1>1, <2>2 DEF EntryOf
  <2> QED BY <1>2, <2>1, <2>3 DEF Dict
<1>3. CASE ~LiveAt(moment, d[k])
  <2>1. Prolonged(d, k, life) = [d EXCEPT ![k] = Missing]
    BY <1>3, AliveIsLive DEF Prolonged, Evicted, Put
  <2> QED BY <1>3, <2>1 DEF Dict
<1> QED BY <1>2, <1>3

LEMMA FadedAgrees ==
  ASSUME NEW t, NEW b, NEW r, NEW t2, NEW b2, Agrees(moment, t, b, r), Fades(t, t2), Fades(b, b2)
  PROVE  Agrees(moment, t2, b2, r)
BY DEF Agrees, Fades, LiveAt

LEMMA AnswersAlike ==
  ASSUME NEW k, NEW m, NEW r, Answers(k, m, r), k \notin mixed' => m = r
  PROVE  SameAnswers'
BY DEF Answers, SameAnswers

\* A call about key k.
LEMMA CallHolds ==
  ASSUME CacheInv, NEW k \in Keys, moment' = moment, CacheTyped', SameAnswers',
         \A q \in Keys : q # k => /\ Fades(text[q], text'[q]) /\ Fades(binary[q], binary'[q])
                                  /\ redis'[q] = redis[q] /\ (q \in mixed => q \in mixed'),
         k \notin mixed' => Agrees(moment, text'[k], binary'[k], redis'[k])
  PROVE  CacheInv'
<1>1. ASSUME NEW q \in Keys, q \notin mixed' PROVE Agrees(moment', text'[q], binary'[q], redis'[q])
  <2>1. CASE q = k
    BY <1>1, <2>1
  <2>2. CASE q # k
    <3>1. Agrees(moment, text[q], binary[q], redis[q])
      BY <1>1, <2>2 DEF CacheInv
    <3>2. Agrees(moment, text'[q], binary'[q], redis[q])
      BY <2>2, <3>1, FadedAgrees
    <3> QED BY <2>2, <3>2
  <2> QED BY <2>1, <2>2
<1> QED BY <1>1 DEF CacheInv

\* A call that changes no entry, but for those that are over.
LEMMA ReadHolds ==
  ASSUME CacheInv, NEW k \in Keys, moment' = moment, UNCHANGED <<redis, mixed>>, SameAnswers',
         text' \in Dict(Texts), binary' \in Dict({Raw}),
         \A q \in Keys : Fades(text[q], text'[q]) /\ Fades(binary[q], binary'[q])
  PROVE  CacheInv'
<1>1. CacheTyped'
  BY DEF CacheInv, CacheTyped
<1>2. k \notin mixed' => Agrees(moment, text'[k], binary'[k], redis'[k])
  <2> SUFFICES ASSUME k \notin mixed PROVE Agrees(moment, text'[k], binary'[k], redis[k])
    OBVIOUS
  <2>1. Agrees(moment, text[k], binary[k], redis[k])
    BY DEF CacheInv
  <2> QED BY <2>1, FadedAgrees
<1> QED BY <1>1, <1>2, CallHolds

LEMMA TwiceFades ==
  ASSUME NEW V, NEW d \in Dict(V), NEW k \in Keys
  PROVE  Met(Swept(d), k) \in Dict(V) /\ \A q \in Keys : Fades(d[q], Met(Swept(d), k)[q])
<1> DEFINE e == Swept(d)
<1>1. e \in Dict(V) /\ \A q \in Keys : Fades(d[q], e[q])
  BY SweptFades
<1> HIDE DEF e
<1>2. Met(e, k) \in Dict(V) /\ \A q \in Keys : Fades(e[q], Met(e, k)[q])
  BY <1>1, MetFades
<1>3. \A q \in Keys : Fades(d[q], Met(e, k)[q])
  BY <1>1, <1>2, FadesTwice
<1> QED BY <1>2, <1>3 DEF e

\* What the two backends say of a key on which they agree.
LEMMA AgreedAnswers ==
  ASSUME CacheInv, Distinct, NEW k \in Keys, k \notin mixed
  PROVE  /\ Alive(redis[k]) <=> (Alive(text[k]) \/ Alive(binary[k]))
         /\ Alive(text[k]) => redis[k] = text[k] /\ text[k].val # Raw /\ ~Alive(binary[k])
         /\ Alive(binary[k]) => redis[k] = binary[k] /\ binary[k].val = Raw
         /\ Alive(redis[k]) /\ redis[k].val # Raw => text[k] = redis[k]
         /\ Alive(redis[k]) /\ redis[k].val = Raw => binary[k] = redis[k]
<1>1. Agrees(moment, text[k], binary[k], redis[k])
  BY DEF CacheInv
<1>2. Alive(text[k]) => text[k].val # Raw
  <2>1. Alive(text[k]) => text[k] \in EntryOf(Texts)
    BY DEF CacheInv, CacheTyped, Dict, Alive
  <2> QED BY <2>1 DEF EntryOf, Distinct
<1>3. Alive(binary[k]) => binary[k].val = Raw
  <2>1. Alive(binary[k]) => binary[k] \in EntryOf({Raw})
    BY DEF CacheInv, CacheTyped, Dict, Alive
  <2> QED BY <2>1 DEF EntryOf
<1> QED BY <1>1, <1>2, <1>3, AliveIsLive DEF Agrees

LEMMA GetHolds ==
  ASSUME CacheInv, Distinct, NEW k \in Keys, Apart(k, "text") /\ Get(k) PROVE CacheInv'
<1>1. moment' = moment /\ text' = Met(Swept(text), k) /\ binary' = Swept(binary) /\ UNCHANGED <<redis, mixed>>
  BY DEF Get, Sweep
<1>2. /\ text' \in Dict(Texts) /\ \A q \in Keys : Fades(text[q], text'[q])
      /\ binary' \in Dict({Raw}) /\ \A q \in Keys : Fades(binary[q], binary'[q])
  BY <1>1, TwiceFades, SweptFades DEF CacheInv, CacheTyped
<1>3. SameAnswers'
  <2>1. k \notin mixed => Value(text[k]) = Value(redis[k])
    BY AgreedAnswers DEF Value, Apart
  <2>2. Answers(k, Value(text[k]), Value(redis[k]))
    BY DEF Get, RedisGet
  <2> QED BY <1>1, <2>1, <2>2, AnswersAlike
<1> QED BY <1>1, <1>2, <1>3, ReadHolds

LEMMA GetBytesHolds ==
  ASSUME CacheInv, Distinct, NEW k \in Keys, Apart(k, "bytes") /\ GetBytes(k) PROVE CacheInv'
<1>1. moment' = moment /\ binary' = Met(Swept(binary), k) /\ text' = Swept(text) /\ UNCHANGED <<redis, mixed>>
  BY DEF GetBytes, Sweep
<1>2. /\ text' \in Dict(Texts) /\ \A q \in Keys : Fades(text[q], text'[q])
      /\ binary' \in Dict({Raw}) /\ \A q \in Keys : Fades(binary[q], binary'[q])
  BY <1>1, TwiceFades, SweptFades DEF CacheInv, CacheTyped
<1>3. SameAnswers'
  <2>1. k \notin mixed => Value(binary[k]) = Value(redis[k])
    BY AgreedAnswers DEF Value, Apart
  <2>2. Answers(k, Value(binary[k]), Value(redis[k]))
    BY DEF GetBytes, RedisGetBytes
  <2> QED BY <1>1, <2>1, <2>2, AnswersAlike
<1> QED BY <1>1, <1>2, <1>3, ReadHolds

LEMMA ExistsHolds ==
  ASSUME CacheInv, Distinct, NEW k \in Keys, Exists(k) PROVE CacheInv'
<1>1. moment' = moment /\ text' = Met(Swept(text), k) /\ UNCHANGED <<redis, mixed>>
      /\ (binary' = Swept(binary) \/ binary' = Met(Swept(binary), k))
  BY DEF Exists, Sweep
<1>2. /\ text' \in Dict(Texts) /\ \A q \in Keys : Fades(text[q], text'[q])
      /\ binary' \in Dict({Raw}) /\ \A q \in Keys : Fades(binary[q], binary'[q])
  BY <1>1, TwiceFades, SweptFades DEF CacheInv, CacheTyped
<1>3. SameAnswers'
  <2>1. k \notin mixed => ((Alive(text[k]) \/ Alive(binary[k])) = Alive(redis[k]))
    <3>1. k \notin mixed => ((Alive(text[k]) \/ Alive(binary[k])) <=> Alive(redis[k]))
      BY AgreedAnswers
    <3> QED BY <3>1 DEF Alive
  <2>2. Answers(k, Alive(text[k]) \/ Alive(binary[k]), Alive(redis[k]))
    BY DEF Exists, RedisExists
  <2> QED BY <1>1, <2>1, <2>2, AnswersAlike
<1> QED BY <1>1, <1>2, <1>3, ReadHolds

LEMMA PutSwept ==
  ASSUME NEW V, NEW d \in Dict(V), NEW k \in Keys, NEW e \in EntryOf(V) \cup {Missing}
  PROVE  /\ Put(Swept(d), k, e) \in Dict(V) /\ Put(Swept(d), k, e)[k] = e
         /\ \A q \in Keys : q # k => Fades(d[q], Put(Swept(d), k, e)[q])
<1> DEFINE w == Swept(d)
<1>1. w \in Dict(V) /\ \A q \in Keys : Fades(d[q], w[q])
  BY SweptFades
<1> HIDE DEF w
<1>2. Put(w, k, e) \in Dict(V) /\ Put(w, k, e)[k] = e /\ \A q \in Keys : q # k => Put(w, k, e)[q] = w[q]
  BY <1>1, PutKeeps
<1>3. \A q \in Keys : q # k => Fades(d[q], Put(w, k, e)[q])
  BY <1>1, <1>2
<1> QED BY <1>2, <1>3 DEF w

\* A call that writes entries t, b and r of a key.
LEMMA WriteHolds ==
  ASSUME CacheInv, NEW k \in Keys, moment' = moment, SameAnswers',
         NEW t \in EntryOf(Texts) \cup {Missing}, NEW b \in EntryOf({Raw}) \cup {Missing}, NEW r \in EntryOf(Values) \cup {Missing},
         text' = Put(Swept(text), k, t), binary' = Put(Swept(binary), k, b), redis' = Put(redis, k, r),
         \A q \in Keys : q # k /\ q \in mixed => q \in mixed',
         k \notin mixed' => Agrees(moment, t, b, r)
  PROVE  CacheInv'
<1>1. CacheTyped
  BY DEF CacheInv
<1>2. text' \in Dict(Texts) /\ text'[k] = t /\ \A q \in Keys : q # k => Fades(text[q], text'[q])
  BY <1>1, PutSwept DEF CacheTyped
<1>3. binary' \in Dict({Raw}) /\ binary'[k] = b /\ \A q \in Keys : q # k => Fades(binary[q], binary'[q])
  BY <1>1, PutSwept DEF CacheTyped
<1>4. redis' \in Dict(Values) /\ redis'[k] = r /\ \A q \in Keys : q # k => redis'[q] = redis[q]
  BY <1>1, PutKeeps DEF CacheTyped
<1>5. CacheTyped'
  BY <1>1, <1>2, <1>3, <1>4 DEF CacheTyped
<1>6. k \notin mixed' => Agrees(moment, text'[k], binary'[k], redis'[k])
  BY <1>2, <1>3, <1>4
<1> QED BY <1>2, <1>3, <1>4, <1>5, <1>6, CallHolds

\* An entry made for a time to live.
LEMMA MadeEntry ==
  ASSUME Distinct, moment \in Int, NEW life \in Lives, NEW V, NEW v \in V
  PROVE  [val |-> v, until |-> Until(life)] \in EntryOf(V)
<1>1. Until(life) \in Int \cup {Missing}
  BY DEF Until, Distinct
<1> QED BY <1>1 DEF EntryOf

LEMMA SetHolds ==
  ASSUME CacheInv, Distinct, NEW k \in Keys, NEW v \in Numbers \cup {Word}, NEW life \in Lives, Set(k, v, life)
  PROVE  CacheInv'
<1> DEFINE e == IF Ends(life) THEN Missing ELSE [val |-> v, until |-> Until(life)]
<1>1. /\ moment' = moment /\ text' = Put(Swept(text), k, e) /\ binary' = Put(Swept(binary), k, Missing)
      /\ redis' = Put(redis, k, e) /\ mixed' = mixed \ {k} /\ Answers(k, TRUE, TRUE)
  BY DEF Set, Sweep, Evicted, RedisSet
<1>2. e \in EntryOf(Texts) \cup {Missing} /\ (e # Missing => e.val # Raw)
  <2>1. v \in Texts /\ v # Raw
    BY DEF Distinct, Texts
  <2>2. [val |-> v, until |-> Until(life)] \in EntryOf(Texts)
    BY <2>1, MadeEntry DEF CacheInv, CacheTyped
  <2> QED BY <2>1, <2>2
<1> HIDE DEF e
<1>3. e \in EntryOf(Values) \cup {Missing}
  BY <1>2 DEF EntryOf, Values
<1>4. Agrees(moment, e, Missing, e)
  BY <1>2 DEF Agrees, LiveAt
<1>5. SameAnswers'
  BY <1>1, AnswersAlike
<1> QED BY <1>1, <1>2, <1>3, <1>4, <1>5, WriteHolds

LEMMA SetBytesHolds ==
  ASSUME CacheInv, Distinct, NEW k \in Keys, NEW life \in Lives, SetBytes(k, life)
  PROVE  CacheInv'
<1> DEFINE e == IF Ends(life) THEN Missing ELSE [val |-> Raw, until |-> Until(life)]
<1>1. /\ moment' = moment /\ binary' = Put(Swept(binary), k, e) /\ text' = Put(Swept(text), k, Missing)
      /\ redis' = Put(redis, k, e) /\ mixed' = mixed \ {k} /\ Answers(k, TRUE, TRUE)
  BY DEF SetBytes, Sweep, Evicted, RedisSetBytes
<1>2. e \in EntryOf({Raw}) \cup {Missing} /\ (e # Missing => e.val = Raw)
  <2>1. [val |-> Raw, until |-> Until(life)] \in EntryOf({Raw})
    BY MadeEntry DEF CacheInv, CacheTyped
  <2> QED BY <2>1
<1> HIDE DEF e
<1>3. e \in EntryOf(Values) \cup {Missing}
  BY <1>2 DEF EntryOf, Values
<1>4. Agrees(moment, Missing, e, e)
  BY <1>2 DEF Agrees, LiveAt
<1>5. SameAnswers'
  BY <1>1, AnswersAlike
<1> QED BY <1>1, <1>2, <1>3, <1>4, <1>5, WriteHolds

LEMMA DeleteHolds ==
  ASSUME CacheInv, Distinct, NEW k \in Keys, Delete(k) PROVE CacheInv'
<1>1. /\ moment' = moment /\ text' = Put(Swept(text), k, Missing) /\ binary' = Put(Swept(binary), k, Missing)
      /\ redis' = Put(redis, k, Missing) /\ mixed' = mixed
      /\ Answers(k, Alive(text[k]) \/ Alive(binary[k]), Alive(redis[k]))
  BY DEF Delete, Sweep, Evicted, RedisDelete, RedisExists
<1>2. k \notin mixed => ((Alive(text[k]) \/ Alive(binary[k])) = Alive(redis[k]))
  <2>1. k \notin mixed => ((Alive(text[k]) \/ Alive(binary[k])) <=> Alive(redis[k]))
    BY AgreedAnswers
  <2> QED BY <2>1 DEF Alive
<1>3. SameAnswers'
  BY <1>1, <1>2, AnswersAlike
<1>4. Agrees(moment, Missing, Missing, Missing)
  BY DEF Agrees, LiveAt
<1> QED BY <1>1, <1>3, <1>4, WriteHolds

LEMMA PassesHolds == CacheInv /\ Passes => CacheInv'
<1> SUFFICES ASSUME CacheInv, Passes PROVE CacheInv'
  OBVIOUS
<1>1. moment \in Int /\ moment' = moment + 1 /\ UNCHANGED <<text, binary, redis, told, mixed>>
  BY DEF Passes, CacheInv, CacheTyped
<1>2. CacheTyped' /\ SameAnswers'
  BY <1>1 DEF CacheInv, CacheTyped, SameAnswers
<1>3. ASSUME NEW V, NEW e \in EntryOf(V) \cup {Missing}, LiveAt(moment + 1, e) PROVE LiveAt(moment, e)
  <2>1. e \in EntryOf(V) /\ (e.until = Missing \/ (e.until \in Int /\ moment + 1 <= e.until))
    BY <1>3 DEF LiveAt, EntryOf
  <2> QED BY <1>1, <1>3, <2>1 DEF LiveAt
<1>4. ASSUME NEW k \in Keys, k \notin mixed' PROVE Agrees(moment', text'[k], binary'[k], redis'[k])
  <2>1. Agrees(moment, text[k], binary[k], redis[k])
    BY <1>1, <1>4 DEF CacheInv
  <2>2. text[k] \in EntryOf(Texts) \cup {Missing} /\ binary[k] \in EntryOf({Raw}) \cup {Missing}
        /\ redis[k] \in EntryOf(Values) \cup {Missing}
    BY DEF CacheInv, CacheTyped, Dict
  <2>3. /\ LiveAt(moment', text[k]) => LiveAt(moment, text[k])
        /\ LiveAt(moment', binary[k]) => LiveAt(moment, binary[k])
        /\ LiveAt(moment', redis[k]) => LiveAt(moment, redis[k])
    BY <1>1, <1>3, <2>2
  <2> QED BY <1>1, <2>1, <2>3 DEF Agrees
<1> QED BY <1>2, <1>4 DEF CacheInv

LEMMA ProlongedSwept ==
  ASSUME NEW V, NEW d \in Dict(V), NEW k \in Keys, NEW life \in Int, moment \in Int, Missing \notin Int
  PROVE  /\ Prolonged(Swept(d), k, life) \in Dict(V)
         /\ \A q \in Keys : q # k => Fades(d[q], Prolonged(Swept(d), k, life)[q])
         /\ LiveAt(moment, d[k]) => Prolonged(Swept(d), k, life)[k] = [d[k] EXCEPT !.until = moment + life]
         /\ ~LiveAt(moment, d[k]) => Prolonged(Swept(d), k, life)[k] = Missing
<1> DEFINE w == Swept(d)
<1>1. w \in Dict(V) /\ \A q \in Keys : Fades(d[q], w[q])
  BY SweptFades
<1> HIDE DEF w
<1>2. /\ Prolonged(w, k, life) \in Dict(V) /\ \A q \in Keys : q # k => Prolonged(w, k, life)[q] = w[q]
      /\ LiveAt(moment, w[k]) => Prolonged(w, k, life)[k] = [w[k] EXCEPT !.until = moment + life]
      /\ ~LiveAt(moment, w[k]) => Prolonged(w, k, life)[k] = Missing
  BY <1>1, ProlongedKeeps
<1>3. Fades(d[k], w[k])
  BY <1>1
<1>4. (LiveAt(moment, d[k]) => w[k] = d[k]) /\ (~LiveAt(moment, d[k]) => ~LiveAt(moment, w[k]))
  BY <1>3 DEF Fades, LiveAt
<1>5. \A q \in Keys : q # k => Fades(d[q], Prolonged(w, k, life)[q])
  BY <1>1, <1>2
<1> QED BY <1>2, <1>4, <1>5 DEF w

LEMMA ExpireHolds ==
  ASSUME CacheInv, Distinct, NEW k \in Keys, NEW life \in Lives, Expire(k, life) PROVE CacheInv'
<1>1. /\ life # Missing /\ moment' = moment /\ text' = Prolonged(Swept(text), k, life)
      /\ binary' = IF Alive(text[k]) THEN Swept(binary) ELSE Prolonged(Swept(binary), k, life)
      /\ redis' = Prolonged(redis, k, life) /\ mixed' = mixed
      /\ Answers(k, Alive(text[k]) \/ Alive(binary[k]), Alive(redis[k]))
  BY DEF Expire, Sweep, RedisExpire
<1>2. CacheTyped /\ life \in Int /\ moment \in Int /\ Missing \notin Int
  BY <1>1 DEF CacheInv, CacheTyped, Distinct
<1>3. /\ text' \in Dict(Texts) /\ \A q \in Keys : q # k => Fades(text[q], text'[q])
      /\ Alive(text[k]) => text'[k] = [text[k] EXCEPT !.until = moment + life]
      /\ ~Alive(text[k]) => text'[k] = Missing
  BY <1>1, <1>2, ProlongedSwept, AliveIsLive DEF CacheTyped
<1>4. /\ Prolonged(Swept(binary), k, life) \in Dict({Raw})
      /\ \A q \in Keys : q # k => Fades(binary[q], Prolonged(Swept(binary), k, life)[q])
      /\ Alive(binary[k]) => Prolonged(Swept(binary), k, life)[k] = [binary[k] EXCEPT !.until = moment + life]
      /\ ~Alive(binary[k]) => Prolonged(Swept(binary), k, life)[k] = Missing
  BY <1>2, ProlongedSwept, AliveIsLive DEF CacheTyped
<1>5. Swept(binary) \in Dict({Raw}) /\ \A q \in Keys : Fades(binary[q], Swept(binary)[q])
  BY <1>2, SweptFades DEF CacheTyped
<1>6. /\ redis' \in Dict(Values) /\ \A q \in Keys : q # k => redis'[q] = redis[q]
      /\ Alive(redis[k]) => redis'[k] = [redis[k] EXCEPT !.until = moment + life]
      /\ ~Alive(redis[k]) => redis'[k] = Missing
  BY <1>1, <1>2, ProlongedKeeps, AliveIsLive DEF CacheTyped
<1>7. binary' \in Dict({Raw}) /\ \A q \in Keys : q # k => Fades(binary[q], binary'[q])
  BY <1>1, <1>4, <1>5
<1>8. CacheTyped'
  BY <1>1, <1>2, <1>3, <1>6, <1>7 DEF CacheTyped
<1>9. SameAnswers'
  <2>1. k \notin mixed => ((Alive(text[k]) \/ Alive(binary[k])) = Alive(redis[k]))
    <3>1. k \notin mixed => ((Alive(text[k]) \/ Alive(binary[k])) <=> Alive(redis[k]))
      BY AgreedAnswers
    <3> QED BY <3>1 DEF Alive
  <2> QED BY <1>1, <2>1, AnswersAlike
<1>10. ASSUME k \notin mixed' PROVE Agrees(moment, text'[k], binary'[k], redis'[k])
  <2>0. k \notin mixed
    BY <1>1, <1>10
  <2>1. CASE Alive(text[k])
    <3>1. redis[k] = text[k] /\ Alive(redis[k]) /\ text[k].val # Raw /\ ~Alive(binary[k])
      BY <2>0, <2>1, AgreedAnswers
    <3>2. text'[k] = redis'[k] /\ redis'[k].val # Raw
      <4>1. text[k] \in EntryOf(Texts)
        BY <1>2, <2>1 DEF CacheTyped, Dict, Alive
      <4>2. [text[k] EXCEPT !.until = moment + life].val = text[k].val
        BY <4>1 DEF EntryOf
      <4> QED BY <1>3, <1>6, <2>1, <3>1, <4>2
    <3>3. Fades(binary[k], binary'[k])
      BY <1>1, <1>5, <2>1
    <3>4. ~LiveAt(moment, binary'[k])
      BY <3>1, <3>3, AliveIsLive DEF Fades, LiveAt
    <3> QED BY <3>2, <3>4 DEF Agrees
  <2>2. CASE ~Alive(text[k]) /\ Alive(binary[k])
    <3>1. redis[k] = binary[k] /\ Alive(redis[k]) /\ binary[k].val = Raw
      BY <2>0, <2>2, AgreedAnswers
    <3>2. binary'[k] = redis'[k] /\ redis'[k].val = Raw
      <4>1. binary[k] \in EntryOf({Raw})
        BY <1>2, <2>2 DEF CacheTyped, Dict, Alive
      <4>2. [binary[k] EXCEPT !.until = moment + life].val = binary[k].val
        BY <4>1 DEF EntryOf
      <4> QED BY <1>1, <1>4, <1>6, <2>2, <3>1, <4>2
    <3>3. text'[k] = Missing
      BY <1>3, <2>2
    <3> QED BY <3>2, <3>3 DEF Agrees, LiveAt
  <2>3. CASE ~Alive(text[k]) /\ ~Alive(binary[k])
    <3>1. ~Alive(redis[k])
      BY <2>0, <2>3, AgreedAnswers
    <3>2. text'[k] = Missing /\ binary'[k] = Missing /\ redis'[k] = Missing
      BY <1>1, <1>3, <1>4, <1>6, <2>3, <3>1
    <3> QED BY <3>2 DEF Agrees, LiveAt
  <2> QED BY <2>1, <2>2, <2>3
<1> QED BY <1>1, <1>3, <1>6, <1>7, <1>8, <1>9, <1>10, CallHolds

\* What a counter becomes.
LEMMA CountedEntry ==
  ASSUME Distinct, NEW V, Int \subseteq V, NEW e \in EntryOf(V) \cup {Missing}, NEW n \in Int, Numeric(e)
  PROVE  Counted(e, n) \in EntryOf(V) /\ Counted(e, n).val \in Int
<1>1. CASE Alive(e)
  <2>1. e \in EntryOf(V) /\ e.val \in Int
    BY <1>1 DEF Alive, Numeric
  <2>2. Counted(e, n) = [val |-> e.val + n, until |-> e.until]
    BY <1>1, <2>1 DEF Counted, EntryOf
  <2> QED BY <2>1, <2>2 DEF EntryOf
<1>2. CASE ~Alive(e)
  <2>1. Counted(e, n) = [val |-> n, until |-> Missing]
    BY <1>2 DEF Counted
  <2> QED BY <2>1 DEF EntryOf
<1> QED BY <1>1, <1>2

LEMMA MovedHolds ==
  ASSUME CacheInv, Distinct, NEW k \in Keys, NEW n \in Int, Moved(k, n) PROVE CacheInv'
<1> DEFINE ok == Numeric(text[k])
           next == Counted(text[k], n)
           okRedis == Numeric(redis[k])
           nextRedis == Counted(redis[k], n)
<1>1. /\ moment' = moment
      /\ text' = IF ok THEN Put(Swept(text), k, next) ELSE Swept(text)
      /\ binary' = Swept(binary)
      /\ redis' = IF okRedis THEN Put(redis, k, nextRedis) ELSE redis
      /\ mixed' = IF Alive(binary[k]) THEN mixed \cup {k} ELSE mixed
      /\ Answers(k, IF ok THEN next.val ELSE Error, IF okRedis THEN nextRedis.val ELSE Error)
  BY DEF Moved, Sweep, RedisCount, RedisAnswer
<1>2. CacheTyped /\ text[k] \in EntryOf(Texts) \cup {Missing} /\ redis[k] \in EntryOf(Values) \cup {Missing}
  BY DEF CacheInv, CacheTyped, Dict
<1>3. /\ ok => next \in EntryOf(Texts) /\ next.val \in Int
      /\ okRedis => nextRedis \in EntryOf(Values) /\ nextRedis.val \in Int
  BY <1>2, CountedEntry DEF Texts, Values
<1>4. ASSUME k \notin mixed, ~Alive(binary[k])
      PROVE  /\ Alive(text[k]) <=> Alive(redis[k])
             /\ Alive(text[k]) => text[k] = redis[k] /\ text[k].val # Raw
             /\ ok <=> okRedis
             /\ next = nextRedis
  <2>1. /\ Alive(redis[k]) <=> Alive(text[k])
        /\ Alive(text[k]) => redis[k] = text[k] /\ text[k].val # Raw
    BY <1>4, AgreedAnswers
  <2> QED BY <2>1 DEF Numeric, Counted
<1>5. /\ Swept(text) \in Dict(Texts) /\ \A q \in Keys : Fades(text[q], Swept(text)[q])
      /\ binary' \in Dict({Raw}) /\ \A q \in Keys : Fades(binary[q], binary'[q])
  BY <1>1, <1>2, SweptFades DEF CacheTyped
<1> HIDE DEF next, nextRedis, ok, okRedis
<1>6. ok => /\ text' \in Dict(Texts) /\ text'[k] = next
            /\ \A q \in Keys : q # k => Fades(text[q], text'[q])
  BY <1>1, <1>2, <1>3, PutSwept DEF CacheTyped
<1>7. okRedis => /\ redis' \in Dict(Values) /\ redis'[k] = nextRedis
                 /\ \A q \in Keys : q # k => redis'[q] = redis[q]
  BY <1>1, <1>2, <1>3, PutKeeps DEF CacheTyped
<1>8. text' \in Dict(Texts) /\ \A q \in Keys : q # k => Fades(text[q], text'[q])
  BY <1>1, <1>5, <1>6
<1>9. redis' \in Dict(Values) /\ \A q \in Keys : q # k => redis'[q] = redis[q]
  BY <1>1, <1>2, <1>7 DEF CacheTyped
<1>10. CacheTyped'
  BY <1>1, <1>2, <1>5, <1>8, <1>9 DEF CacheTyped
<1>11. \A q \in Keys : q \in mixed => q \in mixed'
  BY <1>1
<1>12. k \notin mixed' => k \notin mixed /\ ~Alive(binary[k])
  BY <1>1
<1>13. SameAnswers'
  BY <1>1, <1>4, <1>12, AnswersAlike
<1>14. ASSUME k \notin mixed' PROVE Agrees(moment, text'[k], binary'[k], redis'[k])
  <2>1. k \notin mixed /\ ~Alive(binary[k])
    BY <1>12, <1>14
  <2>2. Fades(binary[k], binary'[k])
    BY <1>5
  <2>3. ~LiveAt(moment, binary'[k])
    BY <2>1, <2>2, AliveIsLive DEF Fades, LiveAt
  <2>4. CASE ok
    <3>1. text'[k] = redis'[k] /\ redis'[k].val \in Int
      BY <1>3, <1>4, <1>6, <1>7, <2>1, <2>4
    <3>2. redis'[k].val # Raw
      BY <3>1 DEF Distinct, Texts
    <3> QED BY <2>3, <3>1, <3>2 DEF Agrees
  <2>5. CASE ~ok
    <3>1. text' = Swept(text) /\ redis' = redis
      BY <1>1, <1>4, <2>1, <2>5
    <3>2. Agrees(moment, text[k], binary[k], redis[k])
      BY <2>1 DEF CacheInv
    <3>3. Fades(text[k], text'[k])
      BY <1>5, <3>1
    <3> QED BY <2>2, <3>1, <3>2, <3>3, FadedAgrees
  <2> QED BY <2>4, <2>5
<1> QED BY <1>1, <1>5, <1>8, <1>9, <1>10, <1>11, <1>13, <1>14, CallHolds

LEMMA CacheStep ==
  ASSUME CacheInv, Distinct, [CacheNext]_cacheVars PROVE CacheInv'
<1>1. CASE CacheNext
  <2>1. \A k \in Keys : (Incr(k) => Moved(k, 1)) /\ (Decr(k) => Moved(k, -1)) /\ 1 \in Int /\ -1 \in Int
    BY DEF Incr, Decr
  <2>2. \A k \in Keys : /\ Apart(k, "text") /\ Get(k) => CacheInv'
                        /\ Apart(k, "bytes") /\ GetBytes(k) => CacheInv'
                        /\ Exists(k) => CacheInv'
                        /\ Delete(k) => CacheInv'
    BY GetHolds, GetBytesHolds, ExistsHolds, DeleteHolds
  <2>3. \A k \in Keys : \A n \in Int : Moved(k, n) => CacheInv'
    BY MovedHolds
  <2>4. \A k \in Keys, life \in Lives : /\ \A v \in Numbers \cup {Word} : Set(k, v, life) => CacheInv'
                                        /\ SetBytes(k, life) => CacheInv'
                                        /\ Expire(k, life) => CacheInv'
    BY SetHolds, SetBytesHolds, ExpireHolds
  <2>5. CASE Passes
    BY <2>5, PassesHolds
  <2>6. ASSUME NEW k \in Keys, Incr(k) \/ Decr(k) PROVE CacheInv'
    BY <2>1, <2>3, <2>6
  <2> QED BY <1>1, <2>2, <2>4, <2>5, <2>6, Zenon DEF CacheNext
<1>2. CASE UNCHANGED cacheVars
  <2>1. UNCHANGED <<moment, text, binary, redis, told, mixed>>
    BY <1>2 DEF cacheVars
  <2>2. CacheTyped' /\ SameAnswers'
    BY <2>1 DEF CacheInv, CacheTyped, SameAnswers
  <2> QED BY <2>1, <2>2 DEF CacheInv
<1> QED BY <1>1, <1>2

\* The two cache backends answer every call alike, whatever has expired, been swept
\* or been written in the other kind before, for any keys, times to live and sweeps;
\* save where a counter was made of a key that held bytes (core/cache_backend.py).
THEOREM SameAnswersHolds == ASSUME Distinct PROVE CacheSpec => []SameAnswers
<1>1. CacheInit => CacheInv
  <2> SUFFICES ASSUME CacheInit PROVE CacheInv
    OBVIOUS
  <2>1. \A k \in Keys : text[k] = Missing /\ binary[k] = Missing /\ redis[k] = Missing
    BY DEF CacheInit, Nothing
  <2>2. CacheTyped
    BY DEF CacheInit, CacheTyped, Nothing, Dict
  <2>3. SameAnswers
    BY DEF CacheInit, SameAnswers
  <2> QED BY <2>1, <2>2, <2>3 DEF CacheInv, Agrees, LiveAt
<1>2. CacheInv /\ [CacheNext]_cacheVars => CacheInv'
  BY CacheStep
<1>3. CacheInv => SameAnswers
  BY DEF CacheInv
<1> QED BY <1>1, <1>2, <1>3, PTL DEF CacheSpec

------------------------------------------------------------------------------
(***************************************************************************)
(* PluginSync.                                                             *)
(***************************************************************************)
Run == [mode : {"full", "delta"}, pc : {"fetch", "token", "apply", "save"}, todo : SUBSET [item : Items, at : Nat],
        seen : [Items -> Nat \cup {NoValue}], token : Nat \cup {NoValue}]

newestOf  == [i \in Items |-> Newest(i)]
versionOf == [i \in Items |-> Version(i)]

LogTyped == log \in Seq([item : Items, gone : BOOLEAN])

\* The source: mails come and go once, chats lose nothing, and those two keep their history.
SourceInv ==
  /\ LogTyped
  /\ oldest \in Nat /\ (plugin \in {"gdrive", "teams"} => oldest = 0)
  /\ plugin = "teams" => \A n \in 1..Now : ~log[n].gone
  /\ plugin \in Mail => \A n \in 1..Now :
       newestOf[log[n].item] = n \/ (~log[n].gone /\ log[newestOf[log[n].item]].gone)

CursorInv ==
  /\ copy \in [Items -> Nat] /\ \A i \in Items : copy[i] <= newestOf[i]
  /\ cursor \in Nat \cup {NoValue}
  /\ cursor # NoValue => cursor <= Now /\ \A i \in Items :
       i \in missed \/ newestOf[i] > cursor \/ copy[i] = versionOf[i]

Control == sync # NoValue =>
  /\ sync \in Run
  /\ sync.mode = "delta" => cursor # NoValue
  /\ sync.pc \in {"fetch", "token"} => sync.token = NoValue
  /\ sync.pc = "token" => plugin = "outlookMail" /\ \A e \in sync.todo : e.at # 0
  /\ sync.pc = "save" => sync.todo = {}
  /\ sync.pc # "fetch" => \A i \in Items : sync.seen[i] # NoValue

\* A run that has read something of the source.
Reading == sync # NoValue /\ (sync.pc # "fetch" \/ plugin = "teams")

SeenInv == Reading => \A i \in Items : sync.seen[i] # NoValue =>
  sync.seen[i] <= Now /\ (cursor # NoValue => cursor <= sync.seen[i])

\* What waits to be applied is as it was when it was read.
TodoInv == Reading => \A e \in sync.todo :
  /\ sync.seen[e.item] # NoValue /\ e.at <= sync.seen[e.item] /\ e.at <= newestOf[e.item]
  /\ plugin = "teams" => e.at # 0
  /\ sync.token # NoValue => sync.token <= sync.seen[e.item] \/ (plugin \notin Late /\ e.at # 0)
  /\ \/ e.at = versionOf[e.item] \/ newestOf[e.item] > sync.seen[e.item]
     \/ /\ plugin = "gmail" /\ e.at # 0 /\ versionOf[e.item] = 0
        /\ e.item \in missed \/ copy[e.item] = 0 \/ \E d \in sync.todo : d.item = e.item /\ d.at = 0

\* What was read is copied, waits, or was passed over.
ItemsInv == Reading /\ ~(plugin = "outlookCal" /\ sync.token = NoValue) =>
  \A i \in Items : sync.seen[i] # NoValue =>
    \/ i \in missed \/ copy[i] = versionOf[i] \/ newestOf[i] > sync.seen[i]
    \/ \E e \in sync.todo : e.item = i

\* What was not read lies after the cursor to be, or was passed over.
TokenInv == Reading /\ sync.token # NoValue =>
  sync.token <= Now /\ \A i \in Items :
    i \in missed \/ newestOf[i] > sync.token \/ newestOf[i] <= sync.seen[i]

RunInv == Control /\ SeenInv /\ TodoInv /\ ItemsInv /\ TokenInv

SyncInv == SourceInv /\ CursorInv /\ RunInv

------------------------------------------------------------------------------
\* Of numbers up to n there is a greatest.
LEMMA Greatest ==
  ASSUME NEW n \in Nat, NEW S \in SUBSET (0..n), S # {}
  PROVE  Max(S) \in S /\ \A x \in S : x <= Max(S)
<1> DEFINE below == {n - x : x \in S}
           less  == OpToRel(<, Nat)
<1>1. below \subseteq Nat /\ below # {}
  <2> HIDE DEF less
  <2>1. \A x \in S : n - x \in Nat
    OBVIOUS
  <2>2. \A d \in below : d \in Nat
    BY <2>1
  <2>3. PICK x \in S : TRUE
    OBVIOUS
  <2>4. n - x \in below
    OBVIOUS
  <2> HIDE DEF below
  <2> QED BY <2>2, <2>4
<1>2. IsWellFoundedOn(less, Nat)
  BY NatLessThanWellFounded
<1>3. \E d \in below : \A e \in below : ~(<<e, d>> \in less)
  <2> HIDE DEF below, less
  <2> QED BY <1>1, <1>2, WFMin
<1>4. PICK d \in below : \A e \in below : ~(e < d)
  <2>1. \A e \in Nat, d \in Nat : e < d => <<e, d>> \in less
    BY DEF OpToRel
  <2> HIDE DEF below, less
  <2> QED BY <1>1, <1>3, <2>1
<1>5. PICK x \in S : d = n - x
  BY <1>4
<1>6. \A y \in S : x >= y
  <2> TAKE y \in S
  <2>1. n - y \in below
    OBVIOUS
  <2> HIDE DEF below
  <2>2. ~(n - y < n - x)
    BY <1>4, <1>5, <2>1
  <2>3. x \in Nat /\ y \in Nat
    OBVIOUS
  <2> QED BY <2>2, <2>3
<1> HIDE DEF below, less
<1>7. \E m \in S : \A y \in S : m >= y
  BY <1>5, <1>6
<1>8. Max(S) \in S /\ \A y \in S : Max(S) >= y
  BY <1>7 DEF Max
<1>9. \A x_1 \in S, y \in S : y >= x_1 => x_1 <= y
  OBVIOUS
<1> QED BY <1>8, <1>9

\* What the newest entry about each item is.
LogFacts ==
  /\ Now \in Nat /\ newestOf \in [Items -> Nat] /\ versionOf \in [Items -> Nat]
  /\ \A i \in Items :
       /\ newestOf[i] <= Now /\ (newestOf[i] # 0 => log[newestOf[i]].item = i)
       /\ \A n \in 1..Now : log[n].item = i => n <= newestOf[i]
       /\ versionOf[i] = IF newestOf[i] = 0 \/ log[newestOf[i]].gone THEN 0 ELSE newestOf[i]

LEMMA LogHasFacts == LogTyped => LogFacts
<1> SUFFICES ASSUME LogTyped PROVE LogFacts
  OBVIOUS
<1>1. Now \in Nat
  BY DEF LogTyped, Now
<1>2. \A i \in Items : /\ Newest(i) \in Nat /\ Newest(i) <= Now /\ (Newest(i) # 0 => log[Newest(i)].item = i)
                       /\ \A n \in 1..Now : log[n].item = i => n <= Newest(i)
  <2> TAKE i \in Items
  <2> DEFINE S == {0} \cup {n \in 1..Now : log[n].item = i}
  <2>1. S \in SUBSET (0..Now) /\ S # {}
    BY <1>1
  <2>2. Newest(i) = Max(S)
    BY DEF Newest
  <2>3. \A x : x \in S <=> x = 0 \/ (x \in 1..Now /\ log[x].item = i)
    OBVIOUS
  <2> HIDE DEF S
  <2>4. Newest(i) \in S /\ \A x \in S : x <= Newest(i)
    BY <1>1, <2>1, <2>2, Greatest
  <2> QED BY <1>1, <2>1, <2>3, <2>4
<1>3. \A i \in Items : Version(i) \in Nat
  BY <1>2 DEF Version
<1> QED BY <1>1, <1>2, <1>3 DEF LogFacts, newestOf, versionOf, Version

LEMMA Named == \A i \in Items : newestOf[i] = Newest(i) /\ versionOf[i] = Version(i)
BY DEF newestOf, versionOf

LEMMA LogHasFactsToo == LogTyped' => LogFacts'
BY LogHasFacts, PTL

\* A step that leaves the source alone.
LEMMA SourceStays ==
  ASSUME log' = log
  PROVE  Now' = Now /\ newestOf' = newestOf /\ versionOf' = versionOf
BY DEF Now, newestOf, versionOf, Newest, Version

\* A change at the source is the newest of its item, and of no other.
LEMMA NewestMoves ==
  ASSUME LogFacts, LogFacts', Now' = Now + 1, \A n \in 1..Now : log'[n] = log[n],
         NEW i \in Items, log'[Now + 1].item = i, NEW k \in Items, k # i
  PROVE  newestOf'[i] = Now + 1 /\ newestOf'[k] = newestOf[k]
<1>1. Now \in Nat /\ newestOf[k] \in Nat /\ newestOf'[k] \in Nat /\ newestOf'[i] \in Nat
  BY DEF LogFacts
<1>2. newestOf[k] <= Now /\ (newestOf[k] # 0 => log[newestOf[k]].item = k)
  BY DEF LogFacts
<1>3. \A n \in 1..Now : log[n].item = k => n <= newestOf[k]
  BY DEF LogFacts
<1>4. newestOf'[k] <= Now + 1 /\ (newestOf'[k] # 0 => log'[newestOf'[k]].item = k) /\ newestOf'[i] <= Now + 1
  BY DEF LogFacts
<1>5. \A n \in 1..(Now + 1) : (log'[n].item = k => n <= newestOf'[k]) /\ (log'[n].item = i => n <= newestOf'[i])
  BY DEF LogFacts
<1>6. newestOf'[k] # Now + 1
  BY <1>1, <1>4
<1>7. newestOf[k] <= newestOf'[k]
  <2>1. CASE newestOf[k] = 0
    BY <1>1, <2>1
  <2>2. CASE newestOf[k] # 0
    <3>1. newestOf[k] \in 1..Now /\ newestOf[k] \in 1..(Now + 1)
      BY <1>1, <1>2, <2>2
    <3>2. log'[newestOf[k]].item = k
      BY <1>2, <2>2, <3>1
    <3> QED BY <1>5, <3>1, <3>2
  <2> QED BY <2>1, <2>2
<1>8. newestOf'[k] <= newestOf[k]
  <2>1. CASE newestOf'[k] = 0
    BY <1>1, <2>1
  <2>2. CASE newestOf'[k] # 0
    <3>1. newestOf'[k] \in 1..Now
      BY <1>1, <1>4, <1>6, <2>2
    <3>2. log[newestOf'[k]].item = k
      BY <1>4, <2>2, <3>1
    <3> QED BY <1>3, <3>1, <3>2
  <2> QED BY <2>1, <2>2
<1>9. newestOf'[i] = Now + 1
  <2>1. Now + 1 \in 1..(Now + 1)
    BY <1>1
  <2>2. Now + 1 <= newestOf'[i]
    BY <1>5, <2>1
  <2> QED BY <1>1, <1>4, <2>2
<1> QED BY <1>1, <1>7, <1>8, <1>9

LEMMA SourceGrows ==
  ASSUME LogTyped, NEW i \in Items, NEW g \in BOOLEAN, log' = Append(log, [item |-> i, gone |-> g])
  PROVE  /\ LogTyped' /\ Now' = Now + 1 /\ log'[Now + 1].item = i /\ log'[Now + 1].gone = g
         /\ \A n \in 1..Now : log'[n] = log[n]
         /\ newestOf'[i] = Now + 1 /\ \A k \in Items \ {i} : newestOf'[k] = newestOf[k]
         /\ versionOf'[i] = (IF g THEN 0 ELSE Now + 1) /\ \A k \in Items \ {i} : versionOf'[k] = versionOf[k]
<1> DEFINE e == [item |-> i, gone |-> g]
<1>1. e \in [item : Items, gone : BOOLEAN] /\ e.item = i /\ e.gone = g
  OBVIOUS
<1>2. log' = Append(log, e)
  OBVIOUS
<1> HIDE DEF e
<1>3. LogTyped' /\ Now' = Now + 1 /\ Now \in Nat /\ log'[Now + 1] = e /\ \A n \in 1..Now : log'[n] = log[n]
  BY <1>1, <1>2 DEF LogTyped, Now
<1>4. log'[Now + 1].item = i /\ log'[Now + 1].gone = g
  BY <1>1, <1>3
<1>5. LogFacts /\ LogFacts'
  BY <1>3, LogHasFacts, LogHasFactsToo
<1>6. \A k \in Items : k # i => newestOf'[i] = Now + 1 /\ newestOf'[k] = newestOf[k]
  <2> SUFFICES ASSUME NEW k \in Items, k # i PROVE newestOf'[i] = Now + 1 /\ newestOf'[k] = newestOf[k]
    OBVIOUS
  <2>1. Now' = Now + 1 /\ (\A n \in 1..Now : log'[n] = log[n]) /\ log'[Now + 1].item = i
    BY <1>3, <1>4
  <2> QED BY <1>5, <2>1, NewestMoves
<1>7. newestOf'[i] = Now + 1
  <2>1. newestOf'[i] \in Nat /\ newestOf'[i] <= Now + 1
    BY <1>3, <1>5 DEF LogFacts
  <2>2. Now + 1 \in 1..Now'
    BY <1>3
  <2>3. Now + 1 <= newestOf'[i]
    BY <1>4, <1>5, <2>2 DEF LogFacts
  <2> QED BY <1>3, <2>1, <2>3
<1>8. versionOf'[i] = IF g THEN 0 ELSE Now + 1
  <2>1. versionOf'[i] = IF newestOf'[i] = 0 \/ log'[newestOf'[i]].gone THEN 0 ELSE newestOf'[i]
    BY <1>5 DEF LogFacts
  <2>2. log'[newestOf'[i]].gone = g
    BY <1>4, <1>7
  <2> QED BY <1>3, <1>7, <2>1, <2>2
<1>9. \A k \in Items \ {i} : versionOf'[k] = versionOf[k]
  <2> TAKE k \in Items \ {i}
  <2>1. versionOf'[k] = IF newestOf'[k] = 0 \/ log'[newestOf'[k]].gone THEN 0 ELSE newestOf'[k]
    BY <1>5 DEF LogFacts
  <2>2. versionOf[k] = IF newestOf[k] = 0 \/ log[newestOf[k]].gone THEN 0 ELSE newestOf[k]
    BY <1>5 DEF LogFacts
  <2>3. newestOf'[k] = newestOf[k] /\ newestOf[k] \in Nat /\ newestOf[k] <= Now
    BY <1>5, <1>6 DEF LogFacts
  <2>4. newestOf[k] # 0 => log'[newestOf[k]] = log[newestOf[k]]
    <3>1. newestOf[k] # 0 => newestOf[k] \in 1..Now
      BY <1>3, <2>3
    <3> QED BY <1>3, <3>1
  <2> QED BY <2>1, <2>2, <2>3, <2>4
<1>10. \A k \in Items \ {i} : newestOf'[k] = newestOf[k]
  BY <1>6
<1> QED BY <1>3, <1>4, <1>7, <1>8, <1>9, <1>10

------------------------------------------------------------------------------
LEMMA SourceInvStays ==
  ASSUME SourceInv, UNCHANGED <<plugin, log, oldest>>
  PROVE  SourceInv' /\ Now' = Now /\ newestOf' = newestOf /\ versionOf' = versionOf
<1>1. Now' = Now /\ newestOf' = newestOf /\ versionOf' = versionOf
  BY SourceStays
<1> QED BY <1>1 DEF SourceInv, LogTyped

\* The cursor is kept or forgotten, and nothing is copied.
LEMMA CursorInvStays ==
  ASSUME SourceInv, CursorInv, UNCHANGED <<plugin, log, oldest, copy>>, cursor' \in {cursor, NoValue},
         missed \subseteq missed'
  PROVE  CursorInv'
<1>1. Now' = Now /\ newestOf' = newestOf /\ versionOf' = versionOf
  BY SourceInvStays
<1> QED BY <1>1 DEF CursorInv

\* A run that is over.
LEMMA RunEnds ==
  ASSUME sync' = NoValue
  PROVE  RunInv'
BY DEF RunInv, Control, Reading, SeenInv, TodoInv, ItemsInv, TokenInv

\* A run that has read nothing.
LEMMA RunWaits ==
  ASSUME sync' \in Run, sync'.pc = "fetch", sync'.token = NoValue,
         sync'.mode = "delta" => cursor' # NoValue,
         plugin' = "teams" => sync'.todo = {} /\ \A i \in Items : sync'.seen[i] = NoValue
  PROVE  RunInv'
<1>1. Control'
  BY DEF Control
<1>2. SeenInv' /\ ItemsInv'
  BY DEF Reading, SeenInv, ItemsInv
<1>3. TodoInv' /\ TokenInv'
  BY DEF Reading, TodoInv, TokenInv
<1> QED BY <1>1, <1>2, <1>3 DEF RunInv

\* The source changes.
LEMMA LogGrows ==
  ASSUME SyncInv, NEW i \in Items, NEW g \in BOOLEAN, log' = Append(log, [item |-> i, gone |-> g]),
         UNCHANGED <<plugin, oldest, copy, cursor, sync, missed>>,
         g => versionOf[i] # 0 /\ plugin # "teams", ~g /\ plugin \in Mail => newestOf[i] = 0
  PROVE  SyncInv'
<1>1. LogTyped /\ LogFacts
  BY LogHasFacts DEF SyncInv, SourceInv
<1>2. /\ LogTyped' /\ Now' = Now + 1 /\ log'[Now + 1].item = i /\ log'[Now + 1].gone = g
      /\ \A n \in 1..Now : log'[n] = log[n]
      /\ newestOf'[i] = Now + 1 /\ \A k \in Items \ {i} : newestOf'[k] = newestOf[k]
      /\ versionOf'[i] = (IF g THEN 0 ELSE Now + 1) /\ \A k \in Items \ {i} : versionOf'[k] = versionOf[k]
  BY <1>1, SourceGrows
<1>3. Now \in Nat /\ newestOf \in [Items -> Nat] /\ versionOf \in [Items -> Nat]
  BY <1>1 DEF LogFacts
<1>4. \A k \in Items : newestOf'[k] = Now + 1 \/ (newestOf'[k] = newestOf[k] /\ versionOf'[k] = versionOf[k])
  BY <1>2
<1>5. SourceInv'
  <2>1. oldest' \in Nat /\ (plugin' \in {"gdrive", "teams"} => oldest' = 0)
    BY DEF SyncInv, SourceInv
  <2>2. \A n \in 1..Now' : n = Now + 1 \/ n \in 1..Now
    BY <1>2, <1>3
  <2>3. plugin' = "teams" => \A n \in 1..Now' : ~log'[n].gone
    <3> SUFFICES ASSUME plugin = "teams", NEW n \in 1..Now' PROVE ~log'[n].gone
      OBVIOUS
    <3>1. CASE n = Now + 1
      BY <1>2, <3>1
    <3>2. CASE n \in 1..Now
      BY <1>2, <3>2 DEF SyncInv, SourceInv
    <3> QED BY <2>2, <3>1, <3>2
  <2>4. ASSUME plugin \in Mail, NEW n \in 1..Now'
        PROVE  newestOf'[log'[n].item] = n \/ (~log'[n].gone /\ log'[newestOf'[log'[n].item]].gone)
    <3>1. CASE n = Now + 1
      BY <1>2, <3>1
    <3>2. ASSUME n \in 1..Now PROVE newestOf'[log'[n].item] = n \/ (~log'[n].gone /\ log'[newestOf'[log'[n].item]].gone)
      <4> DEFINE k == log[n].item
      <4>1. log'[n] = log[n] /\ k \in Items
        <5> DEFINE events == [item : Items, gone : BOOLEAN]
        <5>1. log \in Seq(events) /\ n \in 1..Len(log)
          BY <1>1, <3>2 DEF LogTyped, Now
        <5>2. log[n] \in events
          <6> HIDE DEF events
          <6> QED BY <5>1
        <5> QED BY <1>2, <3>2, <5>2
      <4>2. newestOf[k] = n \/ (~log[n].gone /\ log[newestOf[k]].gone)
        BY <2>4, <3>2 DEF SyncInv, SourceInv
      <4>3. n <= newestOf[k] /\ newestOf[k] \in Nat /\ newestOf[k] <= Now
        BY <1>1, <1>3, <3>2, <4>1 DEF LogFacts
      <4>4. newestOf[k] # 0 /\ newestOf[k] \in 1..Now
        BY <1>3, <3>2, <4>3
      <4>5. CASE k # i
        <5>1. newestOf'[k] = newestOf[k]
          BY <1>2, <4>1, <4>5
        <5>2. log'[newestOf[k]] = log[newestOf[k]]
          BY <1>2, <4>4
        <5> QED BY <4>1, <4>2, <5>1, <5>2
      <4>6. CASE k = i
        <5>1. g
          BY <2>4, <4>4, <4>6
        <5>2. ~log[newestOf[k]].gone
          BY <1>1, <4>1, <4>6, <5>1 DEF LogFacts
        <5>3. ~log'[n].gone
          BY <4>1, <4>2, <5>2
        <5>4. log'[newestOf'[k]].gone
          BY <1>2, <4>6, <5>1
        <5> QED BY <4>1, <5>3, <5>4
      <4> QED BY <4>5, <4>6
    <3> QED BY <2>2, <3>1, <3>2
  <2> QED BY <1>2, <2>1, <2>3, <2>4 DEF SourceInv
<1>6. CursorInv'
  <2>1. copy' \in [Items -> Nat] /\ cursor' \in Nat \cup {NoValue}
    BY DEF SyncInv, CursorInv
  <2>4. \A k \in Items : copy[k] <= newestOf'[k]
    <3> SUFFICES ASSUME NEW k \in Items PROVE copy[k] <= newestOf'[k]
      OBVIOUS
    <3>1. copy[k] \in Nat /\ copy[k] <= newestOf[k] /\ newestOf[k] \in Nat /\ newestOf[k] <= Now
      BY <1>1 DEF SyncInv, CursorInv, LogFacts
    <3>2. copy[k] <= Now + 1
      BY <1>3, <3>1
    <3> QED BY <1>4, <3>1, <3>2
  <2>2. ASSUME cursor # NoValue, NEW k \in Items
        PROVE  cursor <= Now' /\ (k \in missed \/ newestOf'[k] > cursor \/ copy[k] = versionOf'[k])
    <3>1. cursor \in Nat /\ cursor <= Now
      BY <2>2 DEF SyncInv, CursorInv
    <3>2. k \in missed \/ newestOf[k] > cursor \/ copy[k] = versionOf[k]
      BY <2>2 DEF SyncInv, CursorInv
    <3>3. Now + 1 > cursor /\ cursor <= Now + 1
      BY <1>3, <3>1
    <3> QED BY <1>2, <1>4, <3>2, <3>3
  <2>3. cursor # NoValue => cursor <= Now'
    <3>1. cursor # NoValue => cursor \in Nat /\ cursor <= Now
      BY DEF SyncInv, CursorInv
    <3> QED BY <1>2, <1>3, <3>1
  <2> QED BY <2>1, <2>2, <2>3, <2>4 DEF CursorInv
<1>7. Control'
  BY DEF SyncInv, RunInv, Control
<1>8. ASSUME Reading PROVE SeenInv' /\ TodoInv' /\ ItemsInv' /\ TokenInv'
  <2>1. sync \in Run /\ sync # NoValue
    BY <1>8 DEF SyncInv, RunInv, Control, Reading
  <2>2. \A k \in Items : sync.seen[k] # NoValue =>
          sync.seen[k] \in Nat /\ sync.seen[k] <= Now /\ Now + 1 > sync.seen[k] /\ sync.seen[k] <= Now + 1
    <3> SUFFICES ASSUME NEW k \in Items, sync.seen[k] # NoValue
                 PROVE  sync.seen[k] \in Nat /\ sync.seen[k] <= Now /\ Now + 1 > sync.seen[k] /\ sync.seen[k] <= Now + 1
      OBVIOUS
    <3>1. sync.seen[k] \in Nat
      BY <2>1 DEF Run
    <3>2. sync.seen[k] <= Now
      BY <1>8 DEF SyncInv, RunInv, SeenInv
    <3> QED BY <1>3, <3>1, <3>2
  <2>3. SeenInv'
    <3>1. \A k \in Items : sync.seen[k] # NoValue => (cursor # NoValue => cursor <= sync.seen[k])
      BY <1>8 DEF SyncInv, RunInv, SeenInv
    <3> QED BY <1>2, <2>2, <3>1 DEF SeenInv
  <2>4. TodoInv'
    <3> SUFFICES ASSUME NEW e \in sync.todo
                 PROVE  /\ sync.seen[e.item] # NoValue /\ e.at <= sync.seen[e.item] /\ e.at <= newestOf'[e.item]
                        /\ plugin = "teams" => e.at # 0
                        /\ sync.token # NoValue => sync.token <= sync.seen[e.item] \/ (plugin \notin Late /\ e.at # 0)
                        /\ \/ e.at = versionOf'[e.item] \/ newestOf'[e.item] > sync.seen[e.item]
                           \/ /\ plugin = "gmail" /\ e.at # 0 /\ versionOf'[e.item] = 0
                              /\ e.item \in missed \/ copy[e.item] = 0 \/ \E d \in sync.todo : d.item = e.item /\ d.at = 0
      BY DEF TodoInv
    <3>1. /\ sync.seen[e.item] # NoValue /\ e.at <= sync.seen[e.item] /\ e.at <= newestOf[e.item]
          /\ plugin = "teams" => e.at # 0
          /\ sync.token # NoValue => sync.token <= sync.seen[e.item] \/ (plugin \notin Late /\ e.at # 0)
          /\ \/ e.at = versionOf[e.item] \/ newestOf[e.item] > sync.seen[e.item]
             \/ /\ plugin = "gmail" /\ e.at # 0 /\ versionOf[e.item] = 0
                /\ e.item \in missed \/ copy[e.item] = 0 \/ \E d \in sync.todo : d.item = e.item /\ d.at = 0
      BY <1>8 DEF SyncInv, RunInv, TodoInv
    <3>2. e.item \in Items /\ e.at \in Nat
      BY <2>1 DEF Run
    <3>3. Now + 1 > sync.seen[e.item] /\ e.at <= Now + 1
      BY <1>3, <2>2, <3>1, <3>2
    <3>4. CASE newestOf'[e.item] = Now + 1
      BY <3>1, <3>3, <3>4
    <3>5. CASE newestOf'[e.item] = newestOf[e.item] /\ versionOf'[e.item] = versionOf[e.item]
      BY <3>1, <3>5
    <3> QED BY <1>4, <3>2, <3>4, <3>5
  <2>5. ItemsInv'
    <3> SUFFICES ASSUME ~(plugin = "outlookCal" /\ sync.token = NoValue), NEW k \in Items, sync.seen[k] # NoValue
                 PROVE  \/ k \in missed \/ copy[k] = versionOf'[k] \/ newestOf'[k] > sync.seen[k]
                        \/ \E e \in sync.todo : e.item = k
      BY DEF ItemsInv
    <3>1. \/ k \in missed \/ copy[k] = versionOf[k] \/ newestOf[k] > sync.seen[k]
          \/ \E e \in sync.todo : e.item = k
      BY <1>8 DEF SyncInv, RunInv, ItemsInv
    <3> QED BY <1>4, <2>2, <3>1
  <2>6. TokenInv'
    <3> SUFFICES ASSUME sync.token # NoValue
                 PROVE  sync.token <= Now' /\ \A k \in Items :
                          k \in missed \/ newestOf'[k] > sync.token \/ newestOf'[k] <= sync.seen[k]
      BY DEF TokenInv
    <3>1. sync.token <= Now /\ \A k \in Items :
            k \in missed \/ newestOf[k] > sync.token \/ newestOf[k] <= sync.seen[k]
      BY <1>8 DEF SyncInv, RunInv, TokenInv
    <3>2. sync.token \in Nat
      BY <2>1 DEF Run
    <3>3. Now + 1 > sync.token /\ sync.token <= Now + 1
      BY <1>3, <3>1, <3>2
    <3> QED BY <1>2, <1>4, <3>1, <3>3
  <2> QED BY <2>3, <2>4, <2>5, <2>6
<1>9. Reading' => Reading
  BY DEF Reading
<1>10. SeenInv' /\ TodoInv' /\ ItemsInv' /\ TokenInv'
  BY <1>8, <1>9 DEF SeenInv, TodoInv, ItemsInv, TokenInv
<1> QED BY <1>5, <1>6, <1>7, <1>10 DEF SyncInv, RunInv

------------------------------------------------------------------------------
(* What a run fetches. *)
Todo == SUBSET [item : Items, at : Nat]

LEMMA GotFields ==
  ASSUME sync \in Run, NEW p \in {"token", "apply"}, NEW todo \in Todo, NEW token \in Nat \cup {NoValue},
         Got(p, todo, token), Now \in Nat
  PROVE  /\ sync' \in Run /\ sync'.mode = sync.mode /\ sync'.pc = p /\ sync'.todo = todo /\ sync'.token = token
         /\ sync'.seen = [i \in Items |-> Now]
<1>1. sync' = [mode |-> sync.mode, pc |-> p, todo |-> todo, seen |-> [i \in Items |-> Now], token |-> token]
  BY DEF Got, Run
<1>2. sync.mode \in {"full", "delta"} /\ [i \in Items |-> Now] \in [Items -> Nat \cup {NoValue}]
  BY DEF Run
<1>3. sync' \in Run
  BY <1>1, <1>2 DEF Run, Todo
<1> QED BY <1>1, <1>3

\* What is fetched is as it is now, and it is all there is to be done.
LEMMA Fetches ==
  ASSUME SyncInv, NoValue \notin Nat, sync # NoValue, sync.pc = "fetch", plugin # "teams",
         NEW p \in {"token", "apply"}, NEW todo \in Todo, NEW token \in {Now, NoValue}, Got(p, todo, token),
         p = "token" => plugin = "outlookMail" /\ token = NoValue /\ \A e \in todo : e.at # 0,
         UNCHANGED <<plugin, log, oldest, copy, cursor>>, missed \subseteq missed',
         \A e \in todo :
           /\ e.at <= Now /\ e.at <= newestOf[e.item]
           /\ \/ e.at = versionOf[e.item]
              \/ /\ plugin = "gmail" /\ e.at # 0 /\ versionOf[e.item] = 0
                 /\ \E d \in todo : d.item = e.item /\ d.at = 0,
         ~(plugin = "outlookCal" /\ token = NoValue) =>
           \A i \in Items : i \in missed' \/ copy[i] = versionOf[i] \/ \E e \in todo : e.item = i
  PROVE  SyncInv'
<1>1. Now' = Now /\ newestOf' = newestOf /\ versionOf' = versionOf /\ SourceInv' /\ CursorInv'
  BY SourceInvStays, CursorInvStays DEF SyncInv
<1>2. Now \in Nat /\ \A i \in Items : newestOf[i] \in Nat /\ newestOf[i] <= Now
  BY LogHasFacts DEF SyncInv, SourceInv, LogFacts
<1>3. sync \in Run /\ token \in Nat \cup {NoValue} /\ (sync.mode = "delta" => cursor # NoValue)
  BY <1>2 DEF SyncInv, RunInv, Control
<1>4. /\ sync' \in Run /\ sync'.mode = sync.mode /\ sync'.pc = p /\ sync'.todo = todo /\ sync'.token = token
      /\ sync'.seen = [i \in Items |-> Now]
  BY <1>2, <1>3, GotFields
<1>5. \A i \in Items : sync'.seen[i] = Now /\ sync'.seen[i] # NoValue
  BY <1>2, <1>4
<1>6. Control'
  BY <1>3, <1>4, <1>5 DEF Control
<1>7. SeenInv'
  <2>1. cursor # NoValue => cursor <= Now
    BY DEF SyncInv, CursorInv
  <2> QED BY <1>1, <1>2, <1>5, <2>1 DEF SeenInv
<1>8. TodoInv'
  <2>1. \A e \in todo : e.item \in Items
    BY DEF Todo
  <2>2. token # NoValue => token <= Now
    BY <1>2
  <2> QED BY <1>1, <1>4, <1>5, <2>1, <2>2 DEF TodoInv
<1>9. ItemsInv'
  BY <1>1, <1>4 DEF ItemsInv
<1>10. TokenInv'
  BY <1>1, <1>2, <1>4, <1>5 DEF TokenInv
<1> QED BY <1>1, <1>6, <1>7, <1>8, <1>9, <1>10 DEF SyncInv, RunInv

\* The versions of some items, as they are.
LEMMA EntriesOf ==
  ASSUME SyncInv, NEW S \in SUBSET Items, NEW todo, todo = {Entry(i) : i \in S}
  PROVE  /\ todo \in Todo /\ \A i \in S : \E e \in todo : e.item = i
         /\ \A e \in todo : e.item \in S /\ e.at = versionOf[e.item] /\ e.at <= Now /\ e.at <= newestOf[e.item]
         /\ \A e \in todo : e.item \in Present => e.at # 0
<1>1. \A i \in Items : /\ versionOf[i] = Version(i) /\ versionOf[i] \in Nat
                       /\ versionOf[i] <= Now /\ versionOf[i] <= newestOf[i]
  BY LogHasFacts, Named DEF SyncInv, SourceInv, LogFacts
<1>2. \A e \in todo : \E i \in S : e = [item |-> i, at |-> Version(i)]
  BY DEF Entry
<1>3. \A i \in S : [item |-> i, at |-> Version(i)] \in todo
  BY DEF Entry
<1> QED BY <1>1, <1>2, <1>3 DEF Todo, Present

\* What a run takes is copied as it is, and what it leaves out is passed over.
LEMMA TakesKeeps ==
  ASSUME SyncInv, NoValue \notin Nat, sync # NoValue, sync.pc = "fetch", plugin # "teams",
         NEW taken \in SUBSET Items, NEW of, of = Items \/ (of = Since(cursor) /\ sync.mode = "delta"),
         NEW p \in {"token", "apply"}, NEW token \in {Now, NoValue}, Takes(taken, of, p, token),
         p = "token" => plugin = "outlookMail" /\ token = NoValue /\ taken \subseteq Present,
         UNCHANGED <<plugin, log, oldest, copy, cursor>>
  PROVE  SyncInv'
<1> DEFINE all == {Entry(i) : i \in taken}
<1>1. /\ all \in Todo /\ \A i \in taken : \E e \in all : e.item = i
      /\ \A e \in all : e.item \in taken /\ e.at = versionOf[e.item] /\ e.at <= Now /\ e.at <= newestOf[e.item]
      /\ \A e \in all : e.item \in Present => e.at # 0
  BY EntriesOf
<1>2. /\ Got(p, all, token)
      /\ missed' = missed \cup {i \in of \ taken : copy[i] # Version(i)}
  BY DEF Takes, Left
<1> HIDE DEF all
<1>3. \A i \in Items : i \in missed' \/ copy[i] = versionOf[i] \/ \E e \in all : e.item = i
  <2> SUFFICES ASSUME NEW i \in Items PROVE i \in missed' \/ copy[i] = versionOf[i] \/ \E e \in all : e.item = i
    OBVIOUS
  <2>1. CASE i \in taken
    BY <1>1, <2>1
  <2>2. CASE i \in of \ taken
    BY <1>2, <2>2, Named
  <2>3. CASE i \notin of
    <3>1. of = Since(cursor) /\ sync.mode = "delta"
      BY <2>3
    <3>2. cursor # NoValue /\ ~(newestOf[i] > cursor)
      BY <2>3, <3>1, Named DEF SyncInv, RunInv, Control, Since
    <3>3. i \in missed \/ copy[i] = versionOf[i]
      BY <3>2 DEF SyncInv, CursorInv
    <3> QED BY <1>2, <3>3
  <2> QED BY <2>1, <2>2, <2>3
<1>4. missed \subseteq missed'
  BY <1>2
<1>5. p = "token" => plugin = "outlookMail" /\ token = NoValue /\ \A e \in all : e.at # 0
  BY <1>1
<1> QED BY <1>1, <1>2, <1>3, <1>4, <1>5, Fetches

LEMMA GdriveScanKeeps == ASSUME SyncInv, NoValue \notin Nat, GdriveScan PROVE SyncInv'
<1>1. PICK gone \in SUBSET Present : Takes(Present \ gone, Items, "apply", NoValue)
  BY DEF GdriveScan
<1>2. (Present \ gone) \in SUBSET Items /\ sync # NoValue /\ sync.pc = "fetch" /\ plugin = "gdrive"
  BY DEF Present, GdriveScan, Fetching
<1>3. UNCHANGED <<plugin, log, oldest, copy, cursor>>
  BY DEF GdriveScan, Stays
<1> QED BY <1>1, <1>2, <1>3, TakesKeeps

\* A run that goes on from the cursor.
LEMMA DeltaKeeps ==
  ASSUME SyncInv, NoValue \notin Nat, sync # NoValue, sync.pc = "fetch", sync.mode = "delta", plugin # "teams",
         NEW gone, Takes(Since(cursor) \ gone, Since(cursor), "apply", Now),
         UNCHANGED <<plugin, log, oldest, copy, cursor>>
  PROVE  SyncInv'
<1>1. (Since(cursor) \ gone) \in SUBSET Items
  BY DEF Since
<1> QED BY <1>1, TakesKeeps

LEMMA GdriveChangesKeeps == ASSUME SyncInv, NoValue \notin Nat, GdriveChanges PROVE SyncInv'
<1>1. PICK gone : Takes(Since(cursor) \ gone, Since(cursor), "apply", Now)
  BY DEF GdriveChanges
<1>2. /\ sync # NoValue /\ sync.pc = "fetch" /\ sync.mode = "delta" /\ plugin # "teams"
      /\ UNCHANGED <<plugin, log, oldest, copy, cursor>>
  BY DEF GdriveChanges, Fetching, Stays
<1> QED BY <1>1, <1>2, DeltaKeeps

LEMMA OutlookMailDeltaKeeps == ASSUME SyncInv, NoValue \notin Nat, OutlookMailDelta PROVE SyncInv'
<1>1. PICK gone \in SUBSET Present : Takes(Since(cursor) \ gone, Since(cursor), "apply", Now)
  BY DEF OutlookMailDelta
<1>2. /\ sync # NoValue /\ sync.pc = "fetch" /\ sync.mode = "delta" /\ plugin # "teams"
      /\ UNCHANGED <<plugin, log, oldest, copy, cursor>>
  BY DEF OutlookMailDelta, Fetching, Stays
<1> QED BY <1>1, <1>2, DeltaKeeps

LEMMA GcalEventsKeeps == ASSUME SyncInv, NoValue \notin Nat, GcalEvents PROVE SyncInv'
<1>1. UNCHANGED <<plugin, log, oldest, copy, cursor>>
  BY DEF GcalEvents, Stays
<1>2. ASSUME Fetching("gcal", "delta"), NEW gone, Takes(Since(cursor) \ gone, Since(cursor), "apply", Now)
      PROVE  SyncInv'
  BY <1>1, <1>2, DeltaKeeps DEF Fetching
<1>3. ASSUME Fetching("gcal", "full"), NEW gone \in SUBSET Items, Takes(Since(0) \ gone, Items, "apply", Now)
      PROVE  SyncInv'
  <2>1. (Since(0) \ gone) \in SUBSET Items /\ sync # NoValue /\ sync.pc = "fetch" /\ plugin = "gcal"
    BY <1>3 DEF Since, Fetching
  <2> QED BY <1>1, <1>3, <2>1, TakesKeeps
<1> QED BY <1>2, <1>3 DEF GcalEvents

LEMMA OutlookMailListKeeps == ASSUME SyncInv, NoValue \notin Nat, OutlookMailList PROVE SyncInv'
<1>1. PICK gone \in SUBSET Present : Takes(NewestFew(Present \ gone), Items, "token", NoValue)
  BY DEF OutlookMailList
<1>2. /\ NewestFew(Present \ gone) \in SUBSET Items /\ NewestFew(Present \ gone) \subseteq Present
      /\ sync # NoValue /\ sync.pc = "fetch" /\ plugin = "outlookMail"
  BY DEF NewestFew, Present, OutlookMailList, Fetching
<1>3. UNCHANGED <<plugin, log, oldest, copy, cursor>>
  BY DEF OutlookMailList, Stays
<1> QED BY <1>1, <1>2, <1>3, TakesKeeps

LEMMA GmailListKeeps == ASSUME SyncInv, NoValue \notin Nat, GmailList PROVE SyncInv'
<1>1. /\ sync # NoValue /\ sync.pc = "fetch" /\ plugin = "gmail"
      /\ UNCHANGED <<plugin, log, oldest, copy, cursor>>
  BY DEF GmailList, Fetching, Stays
<1>2. \E gone \in SUBSET Present :
        \/ sync' = NoValue /\ Left(Items, NewestFew(Present \ gone))
        \/ Takes(NewestFew(Present \ gone), Items, "apply", NoValue)
  BY DEF GmailList
<1>3. PICK gone \in SUBSET Present :
        \/ sync' = NoValue /\ Left(Items, NewestFew(Present \ gone))
        \/ Takes(NewestFew(Present \ gone), Items, "apply", NoValue)
  BY <1>2
<1>4. NewestFew(Present \ gone) \in SUBSET Items
  BY DEF NewestFew, Present
<1>5. CASE sync' = NoValue /\ Left(Items, NewestFew(Present \ gone))
  <2>1. missed \subseteq missed'
    BY <1>5 DEF Left
  <2> QED BY <1>1, <1>5, <2>1, RunEnds, SourceInvStays, CursorInvStays DEF SyncInv
<1>6. CASE Takes(NewestFew(Present \ gone), Items, "apply", NoValue)
  BY <1>1, <1>4, <1>6, TakesKeeps
<1> QED BY <1>3, <1>5, <1>6

LEMMA GmailHistoryKeeps == ASSUME SyncInv, NoValue \notin Nat, GmailHistory PROVE SyncInv'
<1> DEFINE few  == {n \in Added(cursor) : Cardinality({k \in Added(cursor) : k < n}) < Limit}
           come == {[item |-> log[n].item, at |-> n] : n \in few}
           left == {[item |-> log[n].item, at |-> 0] : n \in (cursor + 1..Now) \ Added(cursor)}
           todo == come \cup left
<1>1. /\ sync # NoValue /\ sync.pc = "fetch" /\ sync.mode = "delta" /\ plugin = "gmail"
      /\ Got("apply", todo, Now) /\ missed' = missed \cup {log[n].item : n \in Added(cursor) \ few}
      /\ UNCHANGED <<plugin, log, oldest, copy, cursor>>
  BY DEF GmailHistory, Fetching, Stays
<1>2. LogTyped /\ LogFacts /\ Now \in Nat
  BY LogHasFacts DEF SyncInv, SourceInv, LogFacts
<1>3. cursor \in Nat
  BY <1>1 DEF SyncInv, RunInv, Control, CursorInv
<1>4. \A n : n \in few => n \in Added(cursor)
  OBVIOUS
<1>5. \A n : n \in Added(cursor) <=> n \in cursor + 1..Now /\ ~log[n].gone
  BY DEF Added
<1>6. \A n \in few : [item |-> log[n].item, at |-> n] \in come
  OBVIOUS
<1>7. \A n \in (cursor + 1..Now) \ Added(cursor) : [item |-> log[n].item, at |-> 0] \in left
  OBVIOUS
<1>8. \A e \in come : \E n \in few : e = [item |-> log[n].item, at |-> n]
  OBVIOUS
<1>9. \A e \in left : \E n \in (cursor + 1..Now) \ Added(cursor) : e = [item |-> log[n].item, at |-> 0]
  OBVIOUS
<1>10. \A n \in Added(cursor) \ few : log[n].item \in missed'
  BY <1>1
<1>11. missed \subseteq missed'
  BY <1>1
<1>12. \A d : d \in todo <=> d \in come \/ d \in left
  OBVIOUS
<1> HIDE DEF few, come, left, todo
<1>13. \A n \in cursor + 1..Now : n \in 1..Now /\ n > cursor /\ n # 0 /\ n \in Nat /\ n <= Now
  BY <1>2, <1>3
<1>14. \A n \in 1..Now : log[n].item \in Items
  <2> SUFFICES ASSUME NEW n \in 1..Now PROVE log[n].item \in Items
    OBVIOUS
  <2> DEFINE events == [item : Items, gone : BOOLEAN]
  <2>1. log \in Seq(events) /\ n \in 1..Len(log)
    BY <1>2 DEF LogTyped, Now
  <2>2. log[n] \in events
    <3> HIDE DEF events
    <3> QED BY <2>1
  <2> QED BY <2>2
<1>15. \A n \in cursor + 1..Now :
         /\ log[n].item \in Items /\ n <= newestOf[log[n].item]
         /\ newestOf[log[n].item] \in cursor + 1..Now /\ log[newestOf[log[n].item]].item = log[n].item
         /\ newestOf[log[n].item] = n \/ (~log[n].gone /\ log[newestOf[log[n].item]].gone)
  <2> SUFFICES ASSUME NEW n \in cursor + 1..Now
               PROVE  /\ log[n].item \in Items /\ n <= newestOf[log[n].item]
                      /\ newestOf[log[n].item] \in cursor + 1..Now /\ log[newestOf[log[n].item]].item = log[n].item
                      /\ newestOf[log[n].item] = n \/ (~log[n].gone /\ log[newestOf[log[n].item]].gone)
    OBVIOUS
  <2> DEFINE k == log[n].item
  <2>1. k \in Items /\ n \in 1..Now /\ n > cursor /\ n # 0 /\ n \in Nat
    BY <1>13, <1>14
  <2>2. log[n].item = k
    OBVIOUS
  <2> HIDE DEF k
  <2>3. newestOf[k] \in Nat /\ newestOf[k] <= Now /\ (newestOf[k] # 0 => log[newestOf[k]].item = k) /\ n <= newestOf[k]
    BY <1>2, <2>1, <2>2 DEF LogFacts
  <2>4. newestOf[k] \in cursor + 1..Now /\ newestOf[k] # 0
    BY <1>2, <1>3, <2>1, <2>3
  <2>5. newestOf[k] = n \/ (~log[n].gone /\ log[newestOf[k]].gone)
    BY <1>1, <2>1, <2>2 DEF SyncInv, SourceInv, Mail
  <2> QED BY <2>1, <2>2, <2>3, <2>4, <2>5
<1>16. todo \in Todo
  <2>1. \A e \in come : e \in [item : Items, at : Nat]
    BY <1>4, <1>5, <1>8, <1>13, <1>15
  <2>2. \A e \in left : e \in [item : Items, at : Nat]
    BY <1>9, <1>13, <1>15
  <2> QED BY <1>12, <2>1, <2>2 DEF Todo
<1>17. \A k \in Items : versionOf[k] = IF newestOf[k] = 0 \/ log[newestOf[k]].gone THEN 0 ELSE newestOf[k]
  BY <1>2 DEF LogFacts
<1>18. \A e \in todo :
         /\ e.at <= Now /\ e.at <= newestOf[e.item]
         /\ \/ e.at = versionOf[e.item]
            \/ /\ plugin = "gmail" /\ e.at # 0 /\ versionOf[e.item] = 0
               /\ \E d \in todo : d.item = e.item /\ d.at = 0
  <2>1. ASSUME NEW e \in come
        PROVE  /\ e.at <= Now /\ e.at <= newestOf[e.item]
               /\ \/ e.at = versionOf[e.item]
                  \/ /\ plugin = "gmail" /\ e.at # 0 /\ versionOf[e.item] = 0
                     /\ \E d \in todo : d.item = e.item /\ d.at = 0
    <3>1. PICK n \in few : e = [item |-> log[n].item, at |-> n]
      BY <1>8
    <3>2. n \in cursor + 1..Now /\ ~log[n].gone /\ n <= Now /\ n # 0
      BY <1>4, <1>5, <1>13
    <3> DEFINE k == log[n].item
    <3>3. e.item = k /\ e.at = n /\ k = log[n].item
      BY <3>1
    <3>4. /\ k \in Items /\ n <= newestOf[k] /\ newestOf[k] \in cursor + 1..Now /\ log[newestOf[k]].item = k
          /\ newestOf[k] = n \/ (~log[n].gone /\ log[newestOf[k]].gone)
      BY <1>15, <3>2
    <3> HIDE DEF k
    <3>5. CASE newestOf[k] = n
      <4>1. versionOf[k] = n
        BY <1>17, <3>2, <3>3, <3>4, <3>5
      <4> QED BY <3>2, <3>3, <3>4, <4>1
    <3>6. ASSUME log[newestOf[k]].gone
          PROVE  versionOf[k] = 0 /\ \E d \in todo : d.item = k /\ d.at = 0
      <4>1. versionOf[k] = 0
        BY <1>17, <3>4, <3>6
      <4>2. newestOf[k] \in (cursor + 1..Now) \ Added(cursor)
        BY <1>5, <3>4, <3>6
      <4>3. [item |-> log[newestOf[k]].item, at |-> 0] \in todo
        BY <1>7, <1>12, <4>2
      <4> QED BY <3>4, <4>1, <4>3
    <3> QED BY <1>1, <3>2, <3>3, <3>4, <3>5, <3>6
  <2>2. ASSUME NEW e \in left
        PROVE  e.at <= Now /\ e.at <= newestOf[e.item] /\ e.at = versionOf[e.item]
    <3>1. PICK n \in (cursor + 1..Now) \ Added(cursor) : e = [item |-> log[n].item, at |-> 0]
      BY <1>9
    <3> DEFINE k == log[n].item
    <3>2. log[n].gone
      BY <1>5
    <3>3. k \in Items /\ newestOf[k] = n /\ n \in Nat
      BY <1>13, <1>15, <3>2
    <3>4. e.item = k /\ e.at = 0
      BY <3>1
    <3> HIDE DEF k
    <3>5. versionOf[k] = 0
      BY <1>17, <3>2, <3>3
    <3>6. 0 <= n /\ 0 <= Now
      BY <1>2, <3>3
    <3> QED BY <3>3, <3>4, <3>5, <3>6
  <2> QED BY <1>12, <2>1, <2>2
<1>19. \A i \in Items : i \in missed' \/ copy[i] = versionOf[i] \/ \E e \in todo : e.item = i
  <2> SUFFICES ASSUME NEW i \in Items, newestOf[i] > cursor
               PROVE  i \in missed' \/ \E e \in todo : e.item = i
    BY <1>1, <1>11 DEF SyncInv, RunInv, Control, CursorInv
  <2>1. newestOf[i] \in cursor + 1..Now /\ log[newestOf[i]].item = i
    BY <1>2, <1>3 DEF LogFacts
  <2>2. CASE newestOf[i] \notin Added(cursor)
    <3>1. [item |-> i, at |-> 0] \in todo
      BY <1>7, <1>12, <2>1, <2>2
    <3> QED BY <3>1
  <2>3. CASE newestOf[i] \in few
    <3>1. [item |-> i, at |-> newestOf[i]] \in todo
      BY <1>6, <1>12, <2>1, <2>3
    <3> QED BY <3>1
  <2>4. CASE newestOf[i] \in Added(cursor) \ few
    BY <1>10, <2>1, <2>4
  <2> QED BY <2>2, <2>3, <2>4
<1> QED BY <1>1, <1>2, <1>11, <1>16, <1>18, <1>19, Fetches

LEMMA OutlookCalPagesKeeps == ASSUME SyncInv, NoValue \notin Nat, OutlookCalPages PROVE SyncInv'
<1> DEFINE of == IF sync.mode = "full" THEN Items ELSE Since(cursor)
           All(gone) == IF sync.mode = "full" THEN Present \ gone ELSE Since(cursor) \ gone
           Few(all) == {i \in all : Cardinality({j \in all : Newest(j) < Newest(i)}) < Limit}
<1>1. /\ sync # NoValue /\ sync.pc = "fetch" /\ plugin = "outlookCal" /\ sync.mode \in {"full", "delta"}
      /\ UNCHANGED <<plugin, log, oldest, copy, cursor>>
  BY DEF OutlookCalPages, Fetching, Stays
<1>2. \E gone \in SUBSET Items :
        \/ Takes(Few(All(gone)), of, "apply", Now)
        \/ UNCHANGED missed /\ Got("apply", {Entry(i) : i \in Few(All(gone))}, NoValue)
  BY DEF OutlookCalPages
<1>3. PICK gone \in SUBSET Items :
        \/ Takes(Few(All(gone)), of, "apply", Now)
        \/ UNCHANGED missed /\ Got("apply", {Entry(i) : i \in Few(All(gone))}, NoValue)
  BY <1>2
<1> DEFINE few == Few(All(gone))
<1>4. few \in SUBSET Items
  BY DEF Present, Since
<1>5. of = Items \/ (of = Since(cursor) /\ sync.mode = "delta")
  BY <1>1
<1>6. Takes(few, of, "apply", Now) \/ (UNCHANGED missed /\ Got("apply", {Entry(i) : i \in few}, NoValue))
  BY <1>3
<1> HIDE DEF few, of, All, Few
<1>7. CASE Takes(few, of, "apply", Now)
  BY <1>1, <1>4, <1>5, <1>7, TakesKeeps
<1>8. CASE UNCHANGED missed /\ Got("apply", {Entry(i) : i \in few}, NoValue)
  <2> DEFINE all == {Entry(i) : i \in few}
  <2>1. /\ all \in Todo /\ \A i \in few : \E e \in all : e.item = i
        /\ \A e \in all : e.item \in few /\ e.at = versionOf[e.item] /\ e.at <= Now /\ e.at <= newestOf[e.item]
        /\ \A e \in all : e.item \in Present => e.at # 0
    BY <1>4, EntriesOf
  <2>2. Got("apply", all, NoValue) /\ missed \subseteq missed'
    BY <1>8
  <2> HIDE DEF all
  <2>3. PICK token \in {Now, NoValue} : token = NoValue
    OBVIOUS
  <2>4. Got("apply", all, token) /\ (~(plugin = "outlookCal" /\ token = NoValue) => FALSE)
    BY <1>1, <2>2, <2>3
  <2> QED BY <1>1, <2>1, <2>2, <2>4, Fetches
<1> QED BY <1>6, <1>7, <1>8

\* A run that begins, begins again, or ends without having applied anything.
LEMMA HistoryGoneKeeps == ASSUME SyncInv, HistoryGone PROVE SyncInv'
<1>1. /\ UNCHANGED <<plugin, log, copy, cursor, sync, missed>> /\ oldest' = Now
      /\ plugin \notin {"gdrive", "teams"}
  BY DEF HistoryGone
<1>2. Now' = Now /\ newestOf' = newestOf /\ versionOf' = versionOf /\ Now \in Nat
  BY <1>1, SourceStays, LogHasFacts DEF SyncInv, SourceInv, LogFacts
<1>3. SourceInv'
  BY <1>1, <1>2 DEF SyncInv, SourceInv, LogTyped
<1>4. CursorInv'
  BY <1>1, <1>2 DEF SyncInv, CursorInv
<1>5. Control' /\ SeenInv' /\ (Reading' <=> Reading)
  BY <1>1, <1>2 DEF SyncInv, RunInv, Control, SeenInv, Reading
<1>6. TodoInv'
  BY <1>1, <1>2, <1>5 DEF SyncInv, RunInv, TodoInv
<1>7. ItemsInv' /\ TokenInv'
  BY <1>1, <1>2, <1>5 DEF SyncInv, RunInv, ItemsInv, TokenInv
<1> QED BY <1>3, <1>4, <1>5, <1>6, <1>7 DEF SyncInv, RunInv

LEMMA StartKeeps == ASSUME SyncInv, Start PROVE SyncInv'
<1>1. PICK aside \in BOOLEAN : 
        /\ cursor' \in {cursor, NoValue} /\ (~aside => cursor' = cursor)
        /\ sync' = [mode |-> IF cursor = NoValue \/ aside THEN "full" ELSE "delta", pc |-> "fetch",
                    todo |-> {}, seen |-> [i \in Items |-> NoValue], token |-> NoValue]
  BY DEF Start
<1>2. UNCHANGED <<plugin, log, oldest, copy, missed>>
  BY DEF Start
<1>3. sync' \in Run /\ sync'.pc = "fetch" /\ sync'.token = NoValue /\ sync'.todo = {}
  BY <1>1 DEF Run
<1>4. sync'.mode = "delta" => cursor' # NoValue
  BY <1>1
<1>5. \A i \in Items : sync'.seen[i] = NoValue
  BY <1>1
<1>6. RunInv'
  BY <1>3, <1>4, <1>5, RunWaits
<1> QED BY <1>1, <1>2, <1>6, SourceInvStays, CursorInvStays DEF SyncInv

LEMMA GoneKeeps == ASSUME SyncInv, Gone PROVE SyncInv'
<1>1. /\ sync # NoValue /\ sync.pc = "fetch" /\ sync.mode = "delta" /\ cursor < oldest
      /\ UNCHANGED <<plugin, log, oldest, copy, missed>>
  BY DEF Gone, Stays, Expired
<1>2. cursor' \in {cursor, NoValue} /\ (sync' = NoValue \/ sync' = [sync EXCEPT !.mode = "full"])
  BY DEF Gone
<1>3. sync \in Run /\ cursor \in Nat /\ sync.token = NoValue
  BY <1>1 DEF SyncInv, RunInv, Control, CursorInv
<1>4. plugin # "teams"
  <2>1. plugin = "teams" => oldest = 0
    BY DEF SyncInv, SourceInv
  <2> QED BY <1>1, <1>3, <2>1
<1>5. RunInv'
  <2>1. CASE sync' = NoValue
    BY <2>1, RunEnds
  <2>2. CASE sync' = [sync EXCEPT !.mode = "full"]
    <3>1. sync' \in Run /\ sync'.pc = "fetch" /\ sync'.token = NoValue /\ sync'.mode = "full"
      BY <1>1, <1>3, <2>2 DEF Run
    <3> QED BY <1>1, <1>4, <3>1, RunWaits
  <2> QED BY <1>2, <2>1, <2>2
<1> QED BY <1>1, <1>2, <1>5, SourceInvStays, CursorInvStays DEF SyncInv

LEMMA RaisesKeeps == ASSUME SyncInv, Raises PROVE SyncInv'
<1>1. sync # NoValue /\ UNCHANGED <<plugin, log, oldest, copy, cursor, missed>>
  BY DEF Raises, Abort, Stays
<1>2. \/ sync' = NoValue
      \/ plugin = "gmail" /\ sync' = [sync EXCEPT !.mode = "full", !.pc = "fetch", !.todo = {}, !.token = NoValue]
  BY DEF Raises, Abort
<1>3. sync \in Run
  BY <1>1 DEF SyncInv, RunInv, Control
<1>4. RunInv'
  <2>1. CASE sync' = NoValue
    BY <2>1, RunEnds
  <2>2. CASE plugin = "gmail" /\ sync' = [sync EXCEPT !.mode = "full", !.pc = "fetch", !.todo = {}, !.token = NoValue]
    <3>1. sync' \in Run /\ sync'.pc = "fetch" /\ sync'.token = NoValue /\ sync'.mode = "full"
      BY <1>3, <2>2 DEF Run
    <3> QED BY <1>1, <2>2, <3>1, RunWaits
  <2> QED BY <1>2, <2>1, <2>2
<1> QED BY <1>1, <1>4, SourceInvStays, CursorInvStays DEF SyncInv

LEMMA DiesKeeps == ASSUME SyncInv, Dies PROVE SyncInv'
BY RunEnds, SourceInvStays, CursorInvStays DEF Dies, Stays, SyncInv

------------------------------------------------------------------------------
(* Teams: a chat is read, and then all are. *)
LEMMA TeamsChatKeeps == ASSUME SyncInv, NoValue \notin Nat, NEW c \in SUBSET Items, TeamsChat(c) PROVE SyncInv'
<1>1. /\ plugin = "teams" /\ sync # NoValue /\ sync.pc = "fetch" /\ \A i \in c : sync.seen[i] = NoValue
      /\ UNCHANGED <<plugin, log, oldest, copy, cursor>>
  BY DEF TeamsChat, Stays
<1>2. PICK since \in IF sync.mode = "full" THEN 0..Now ELSE {cursor}, reached \in BOOLEAN, empty \in SUBSET c :
        LET new   == c \cap Since(since)
            taken == IF reached THEN NewestFew(new) \ empty ELSE {}
        IN  /\ sync' = [sync EXCEPT !.seen = [i \in Items |-> IF i \in c THEN Now ELSE @[i]],
                                    !.todo = @ \cup {Entry(i) : i \in taken}]
            /\ Left(IF sync.mode = "full" THEN c ELSE new, taken)
  BY Zenon DEF TeamsChat
<1> DEFINE new   == c \cap Since(since)
           taken == IF reached THEN NewestFew(new) \ empty ELSE {}
           of    == IF sync.mode = "full" THEN c ELSE new
           all   == {Entry(i) : i \in taken}
           seen  == [i \in Items |-> IF i \in c THEN Now ELSE sync.seen[i]]
<1>3. sync \in Run /\ sync.token = NoValue /\ (sync.mode = "delta" => cursor # NoValue) /\ sync.mode \in {"full", "delta"}
  BY <1>1 DEF SyncInv, RunInv, Control, Run
<1>4. sync' = [mode |-> sync.mode, pc |-> sync.pc, todo |-> sync.todo \cup all, seen |-> seen, token |-> sync.token]
  BY <1>2, <1>3 DEF Run
<1>5. missed' = missed \cup {i \in of \ taken : copy[i] # Version(i)}
  BY <1>2 DEF Left
<1>6. new \subseteq c /\ taken \subseteq new /\ \A i \in Items : (i \in new <=> i \in c /\ newestOf[i] > since)
  BY Named DEF Since, NewestFew
<1>7. /\ all \in Todo /\ \A i \in taken : \E e \in all : e.item = i
      /\ \A e \in all : e.item \in taken /\ e.at = versionOf[e.item] /\ e.at <= Now /\ e.at <= newestOf[e.item]
  <2>1. taken \in SUBSET Items
    BY <1>6
  <2> HIDE DEF taken
  <2> QED BY <2>1, EntriesOf
<1>8. of = IF sync.mode = "full" THEN c ELSE new
  OBVIOUS
<1>9. \A i \in Items : seen[i] = IF i \in c THEN Now ELSE sync.seen[i]
  OBVIOUS
<1> DEFINE todo == sync.todo \cup all
<1>10. sync.todo \subseteq todo /\ all \subseteq todo /\ \A e \in todo : e \in sync.todo \/ e \in all
  OBVIOUS
<1>11. sync.todo \in Todo
  BY <1>3 DEF Run, Todo
<1>12. todo \in Todo
  BY <1>7, <1>11 DEF Todo
<1>13. missed \subseteq missed'
  BY <1>5
<1>14. LogFacts /\ Now' = Now /\ newestOf' = newestOf /\ versionOf' = versionOf /\ SourceInv' /\ CursorInv'
  BY <1>1, <1>13, LogHasFacts, SourceInvStays, CursorInvStays DEF SyncInv, SourceInv
<1>15. Now \in Nat /\ Now # NoValue
  BY <1>14 DEF LogFacts
<1>16. seen \in [Items -> Nat \cup {NoValue}]
  <2>1. sync.seen \in [Items -> Nat \cup {NoValue}]
    BY <1>3 DEF Run
  <2> QED BY <1>15, <2>1
<1> HIDE DEF new, taken, of, all, seen, todo
<1>17. since \in Nat
  BY <1>2, <1>3, <1>15 DEF SyncInv, CursorInv
<1>18. /\ sync' \in Run /\ sync'.mode = sync.mode /\ sync'.pc = "fetch" /\ sync'.todo = todo
       /\ sync'.token = NoValue /\ sync'.seen = seen
  <2>1. sync' = [mode |-> sync.mode, pc |-> "fetch", todo |-> todo, seen |-> seen, token |-> NoValue]
    BY <1>1, <1>3, <1>4 DEF todo
  <2> QED BY <1>3, <1>12, <1>16, <2>1 DEF Run, Todo
<1>19. Reading
  BY <1>1 DEF Reading
<1>20. Control'
  BY <1>1, <1>3, <1>18 DEF Control
<1>21. SeenInv'
  <2> SUFFICES ASSUME NEW k \in Items, seen[k] # NoValue
               PROVE  seen[k] <= Now /\ (cursor # NoValue => cursor <= seen[k])
    BY <1>1, <1>14, <1>18 DEF SeenInv
  <2>1. cursor # NoValue => cursor <= Now
    BY DEF SyncInv, CursorInv
  <2>2. k \notin c => sync.seen[k] <= Now /\ (cursor # NoValue => cursor <= sync.seen[k])
    BY <1>9, <1>19 DEF SyncInv, RunInv, SeenInv
  <2> QED BY <1>9, <1>15, <2>1, <2>2
<1>22. TodoInv'
  <2> SUFFICES ASSUME NEW d \in todo
               PROVE  /\ seen[d.item] # NoValue /\ d.at <= seen[d.item] /\ d.at <= newestOf[d.item]
                      /\ d.at # 0 /\ (d.at = versionOf[d.item] \/ newestOf[d.item] > seen[d.item])
    BY <1>1, <1>14, <1>18 DEF TodoInv
  <2>1. CASE d \in sync.todo
    <3>1. /\ sync.seen[d.item] # NoValue /\ d.at <= sync.seen[d.item] /\ d.at <= newestOf[d.item]
          /\ d.at # 0 /\ (d.at = versionOf[d.item] \/ newestOf[d.item] > sync.seen[d.item])
      BY <1>1, <1>19, <2>1 DEF SyncInv, RunInv, TodoInv
    <3>2. d.item \in Items /\ d.item \notin c
      BY <1>1, <1>11, <2>1, <3>1 DEF Todo
    <3> QED BY <1>9, <3>1, <3>2
  <2>2. CASE d \in all
    <3>1. d.item \in Items /\ d.item \in c /\ newestOf[d.item] > since
      BY <1>6, <1>7, <2>2
    <3>2. versionOf[d.item] = IF newestOf[d.item] = 0 \/ log[newestOf[d.item]].gone THEN 0 ELSE newestOf[d.item]
      BY <1>14, <3>1 DEF LogFacts
    <3>3. newestOf[d.item] \in Nat /\ newestOf[d.item] <= Now /\ newestOf[d.item] # 0
      BY <1>14, <1>17, <3>1 DEF LogFacts
    <3>4. ~log[newestOf[d.item]].gone
      <4>1. newestOf[d.item] \in 1..Now
        BY <1>15, <3>3
      <4> QED BY <1>1, <4>1 DEF SyncInv, SourceInv
    <3> QED BY <1>7, <1>9, <1>15, <2>2, <3>1, <3>2, <3>3, <3>4
  <2> QED BY <1>10, <2>1, <2>2
<1>23. ItemsInv'
  <2> SUFFICES ASSUME NEW k \in Items, seen[k] # NoValue
               PROVE  \/ k \in missed' \/ copy[k] = versionOf[k] \/ newestOf[k] > seen[k]
                      \/ \E d \in todo : d.item = k
    BY <1>1, <1>14, <1>18 DEF ItemsInv
  <2>1. CASE k \notin c
    <3>1. \/ k \in missed \/ copy[k] = versionOf[k] \/ newestOf[k] > sync.seen[k]
          \/ \E d \in sync.todo : d.item = k
      BY <1>1, <1>9, <1>19, <2>1 DEF SyncInv, RunInv, ItemsInv
    <3> QED BY <1>9, <1>10, <1>13, <2>1, <3>1
  <2>2. CASE k \in taken
    <3>1. \E d \in all : d.item = k
      BY <1>7, <2>2
    <3> QED BY <1>10, <3>1
  <2>3. CASE k \in of \ taken
    BY <1>5, <2>3, Named
  <2>4. CASE k \in c /\ k \notin of
    <3>1. sync.mode # "full" /\ cursor # NoValue /\ since = cursor /\ ~(newestOf[k] > cursor)
      BY <1>2, <1>3, <1>6, <1>8, <2>4
    <3>2. k \in missed \/ copy[k] = versionOf[k]
      BY <3>1 DEF SyncInv, CursorInv
    <3> QED BY <1>13, <3>2
  <2> QED BY <2>1, <2>2, <2>3, <2>4
<1>24. TokenInv'
  BY <1>18 DEF TokenInv
<1> QED BY <1>14, <1>20, <1>21, <1>22, <1>23, <1>24 DEF SyncInv, RunInv

LEMMA TeamsFetchedKeeps == ASSUME SyncInv, NoValue \notin Nat, TeamsFetched PROVE SyncInv'
<1> DEFINE times == {e.at : e \in sync.todo} \cup (IF sync.mode = "full" THEN {0} ELSE {cursor})
           m == Max(times)
           token == IF m = 0 THEN NoValue ELSE m
<1>1. /\ plugin = "teams" /\ sync # NoValue /\ sync.pc = "fetch" /\ \A i \in Items : sync.seen[i] # NoValue
      /\ UNCHANGED <<plugin, log, oldest, copy, cursor>>
      /\ sync' = [sync EXCEPT !.pc = "apply", !.token = token]
      /\ missed' = missed \cup {i \in Items : \E n \in sync.seen[i] + 1..m : log[n].item = i}
  BY DEF TeamsFetched, Stays
<1>2. sync \in Run /\ (sync.mode = "delta" => cursor # NoValue)
  BY <1>1 DEF SyncInv, RunInv, Control
<1>3. LogFacts /\ Now' = Now /\ newestOf' = newestOf /\ versionOf' = versionOf /\ SourceInv' /\ CursorInv'
  <2>1. missed \subseteq missed' /\ cursor' \in {cursor, NoValue}
    BY <1>1
  <2> QED BY <1>1, <2>1, LogHasFacts, SourceInvStays, CursorInvStays DEF SyncInv, SourceInv
<1>4. Now \in Nat
  BY <1>3 DEF LogFacts
<1>5. Reading
  BY <1>1 DEF Reading
<1>6. \A e \in sync.todo : e.at \in Nat /\ e.at <= Now /\ e.at # 0
  <2> SUFFICES ASSUME NEW e \in sync.todo PROVE e.at \in Nat /\ e.at <= Now /\ e.at # 0
    OBVIOUS
  <2>1. e.item \in Items /\ e.at \in Nat
    BY <1>2 DEF Run
  <2>2. sync.seen[e.item] # NoValue /\ e.at <= sync.seen[e.item] /\ e.at # 0
    BY <1>1, <1>5 DEF SyncInv, RunInv, TodoInv
  <2>3. sync.seen[e.item] <= Now /\ sync.seen[e.item] \in Nat
    BY <1>2, <1>5, <2>1, <2>2 DEF SyncInv, RunInv, SeenInv, Run
  <2> QED BY <1>4, <2>1, <2>2, <2>3
<1>7. m \in Nat /\ m <= Now
  <2>1. \A x \in times : x \in 0..Now
    <3>1. cursor # NoValue => cursor \in Nat /\ cursor <= Now
      BY DEF SyncInv, CursorInv
    <3>2. \A x \in times : x = 0 \/ (x = cursor /\ cursor # NoValue) \/ \E e \in sync.todo : x = e.at
      BY <1>2 DEF Run
    <3> HIDE DEF times
    <3> QED BY <1>4, <1>6, <3>1, <3>2
  <2>2. times # {}
    OBVIOUS
  <2> HIDE DEF times
  <2>3. Max(times) \in times
    BY <1>4, <2>1, <2>2, Greatest
  <2> QED BY <1>4, <2>1, <2>3
<1>8. token \in Nat \cup {NoValue} /\ (token # NoValue => token = m)
  BY <1>7
<1>9. missed \subseteq missed' /\ \A i \in Items, n \in Nat :
        n \in sync.seen[i] + 1..m /\ log[n].item = i => i \in missed'
  BY <1>1
<1> HIDE DEF times, m, token
<1>10. /\ sync' \in Run /\ sync'.mode = sync.mode /\ sync'.pc = "apply" /\ sync'.todo = sync.todo
       /\ sync'.token = token /\ sync'.seen = sync.seen
  <2>1. sync' = [mode |-> sync.mode, pc |-> "apply", todo |-> sync.todo, seen |-> sync.seen, token |-> token]
    BY <1>1, <1>2 DEF Run
  <2> QED BY <1>2, <1>8, <2>1 DEF Run
<1>11. Control'
  BY <1>1, <1>2, <1>10 DEF Control
<1>12. SeenInv'
  BY <1>1, <1>3, <1>5, <1>10 DEF SyncInv, RunInv, SeenInv
<1>13. TodoInv'
  <2> SUFFICES ASSUME NEW e \in sync.todo
               PROVE  /\ sync.seen[e.item] # NoValue /\ e.at <= sync.seen[e.item] /\ e.at <= newestOf[e.item]
                      /\ e.at # 0 /\ plugin \notin Late
                      /\ e.at = versionOf[e.item] \/ newestOf[e.item] > sync.seen[e.item]
    BY <1>1, <1>3, <1>10 DEF TodoInv
  <2>1. plugin \notin Late
    BY <1>1 DEF Late
  <2> QED BY <1>1, <1>5, <2>1 DEF SyncInv, RunInv, TodoInv
<1>14. ItemsInv'
  <2>1. \A k \in Items : \/ k \in missed \/ copy[k] = versionOf[k] \/ newestOf[k] > sync.seen[k]
                         \/ \E d \in sync.todo : d.item = k
    BY <1>1, <1>5 DEF SyncInv, RunInv, ItemsInv
  <2> QED BY <1>1, <1>3, <1>9, <1>10, <2>1 DEF ItemsInv
<1>15. TokenInv'
  <2> SUFFICES ASSUME NEW i \in Items PROVE i \in missed' \/ newestOf[i] > m \/ newestOf[i] <= sync.seen[i]
    BY <1>3, <1>7, <1>8, <1>10 DEF TokenInv
  <2>1. sync.seen[i] \in Nat
    BY <1>1, <1>2 DEF Run
  <2>2. newestOf[i] \in Nat /\ (newestOf[i] # 0 => log[newestOf[i]].item = i)
    BY <1>3 DEF LogFacts
  <2>3. newestOf[i] > m \/ newestOf[i] <= sync.seen[i] \/ (newestOf[i] \in sync.seen[i] + 1..m /\ newestOf[i] # 0)
    BY <1>7, <2>1, <2>2
  <2> QED BY <1>9, <2>2, <2>3
<1> QED BY <1>3, <1>11, <1>12, <1>13, <1>14, <1>15 DEF SyncInv, RunInv

------------------------------------------------------------------------------
(* Items are applied, and the cursor is stored. *)
LEMMA EntryDone ==
  ASSUME sync \in Run, NEW e, Done(e)
  PROVE  /\ sync' \in Run /\ sync'.mode = sync.mode /\ sync'.pc = sync.pc /\ sync'.todo = sync.todo \ {e}
         /\ sync'.token = sync.token /\ sync'.seen = sync.seen
<1>1. sync' = [mode |-> sync.mode, pc |-> sync.pc, todo |-> sync.todo \ {e}, seen |-> sync.seen, token |-> sync.token]
  BY DEF Done, Run
<1>2. sync.todo \ {e} \in SUBSET [item : Items, at : Nat]
  BY DEF Run
<1> QED BY <1>1, <1>2 DEF Run

\* What an entry that waits says.
LEMMA Awaits ==
  ASSUME SyncInv, NoValue \notin Nat, sync # NoValue, sync.pc = "apply", NEW e \in sync.todo
  PROVE  /\ e.item \in Items /\ e.at \in Nat /\ sync.seen[e.item] \in Nat
         /\ e.at <= sync.seen[e.item] /\ e.at <= newestOf[e.item]
         /\ sync.token # NoValue => sync.token <= sync.seen[e.item] \/ (plugin \notin Late /\ e.at # 0)
         /\ \/ e.at = versionOf[e.item] \/ newestOf[e.item] > sync.seen[e.item]
            \/ /\ plugin = "gmail" /\ e.at # 0 /\ versionOf[e.item] = 0
               /\ e.item \in missed \/ copy[e.item] = 0 \/ \E d \in sync.todo : d.item = e.item /\ d.at = 0
<1>1. sync \in Run /\ Reading
  BY DEF SyncInv, RunInv, Control, Reading
<1>2. e.item \in Items /\ e.at \in Nat
  BY <1>1 DEF Run
<1>3. sync.seen[e.item] # NoValue
  BY <1>1 DEF SyncInv, RunInv, TodoInv
<1>4. sync.seen[e.item] \in Nat
  BY <1>1, <1>2, <1>3 DEF Run
<1> QED BY <1>1, <1>2, <1>4 DEF SyncInv, RunInv, TodoInv

\* What is applied is right, or will be reported again.
LEMMA ResultIsRight ==
  ASSUME SyncInv, NoValue \notin Nat, NEW e \in sync.todo, MayApply(e), NEW v \in Result(e)
  PROVE  /\ v \in Nat /\ v <= newestOf[e.item]
         /\ v = versionOf[e.item] \/ newestOf[e.item] > sync.seen[e.item] \/ e.item \in missed
         /\ plugin = "gmail" /\ versionOf[e.item] = 0 /\ copy[e.item] = 0 => v = 0
         /\ plugin \notin Late => v = e.at
<1> DEFINE i == e.item
<1>1. sync # NoValue /\ sync.pc = "apply"
  BY DEF MayApply
<1>2. /\ i \in Items /\ e.at \in Nat /\ sync.seen[i] \in Nat
      /\ e.at <= sync.seen[i] /\ e.at <= newestOf[i]
      /\ \/ e.at = versionOf[i] \/ newestOf[i] > sync.seen[i]
         \/ /\ plugin = "gmail" /\ e.at # 0 /\ versionOf[i] = 0
            /\ i \in missed \/ copy[i] = 0 \/ \E d \in sync.todo : d.item = i /\ d.at = 0
  BY <1>1, Awaits
<1>3. versionOf[i] = Version(i) /\ versionOf[i] \in Nat /\ newestOf[i] \in Nat /\ versionOf[i] <= newestOf[i]
  BY <1>2, LogHasFacts, Named DEF SyncInv, SourceInv, LogFacts
<1>4. copy[i] \in Nat /\ copy[i] <= newestOf[i]
  BY <1>2 DEF SyncInv, CursorInv
<1>5. plugin = "gmail" /\ e.at # 0 => ~\E d \in sync.todo : d.item = i /\ d.at = 0
  BY DEF MayApply, Late
<1>6. v \in IF plugin \notin Late THEN {e.at}
            ELSE IF e.at = 0 THEN {0}
            ELSE IF versionOf[i] # 0 THEN {versionOf[i]}
            ELSE {copy[i]} \cup (IF plugin = "gdrive" THEN {e.at} ELSE {})
  BY <1>3 DEF Result
<1> HIDE DEF i
<1>7. \/ plugin \notin Late /\ v = e.at
      \/ plugin \in Late /\ e.at = 0 /\ v = 0
      \/ plugin \in Late /\ e.at # 0 /\ versionOf[i] # 0 /\ v = versionOf[i]
      \/ plugin \in Late /\ e.at # 0 /\ versionOf[i] = 0 /\ v = copy[i]
      \/ plugin = "gdrive" /\ e.at # 0 /\ versionOf[i] = 0 /\ v = e.at
  BY <1>6 DEF Late
<1>8. v \in Nat /\ v <= newestOf[i]
  BY <1>2, <1>3, <1>4, <1>7
<1>9. v = versionOf[i] \/ newestOf[i] > sync.seen[i] \/ i \in missed
  <2>1. CASE plugin = "gmail" /\ e.at # 0 /\ versionOf[i] = 0 /\ (i \in missed \/ copy[i] = 0)
    BY <1>7, <2>1 DEF Late
  <2>2. CASE e.at = versionOf[i]
    BY <1>7, <2>2
  <2>3. CASE newestOf[i] > sync.seen[i]
    BY <2>3
  <2> QED BY <1>2, <1>5, <2>1, <2>2, <2>3
<1>10. plugin = "gmail" /\ versionOf[i] = 0 /\ copy[i] = 0 => v = 0
  BY <1>7 DEF Late
<1>11. plugin \notin Late => v = e.at
  BY <1>7 DEF Late
<1> QED BY <1>8, <1>9, <1>10, <1>11 DEF i

LEMMA ApplyKeeps ==
  ASSUME SyncInv, NoValue \notin Nat, NEW e \in [item : Items, at : 0..MaxEdits], Apply(e)
  PROVE  SyncInv'
<1> DEFINE i == e.item
<1>1. /\ sync # NoValue /\ sync.pc = "apply" /\ e \in sync.todo /\ MayApply(e) /\ Done(e)
      /\ UNCHANGED <<plugin, log, oldest, cursor>>
  BY DEF Apply, MayApply
<1>2. PICK v \in Result(e) :
        /\ copy' = [copy EXCEPT ![i] = v]
        /\ missed' = IF v = Version(i) THEN missed \ {i} ELSE missed
  BY DEF Apply
<1>3. sync \in Run /\ Reading
  BY <1>1 DEF SyncInv, RunInv, Control, Reading
<1>4. /\ i \in Items /\ e.at \in Nat /\ sync.seen[i] \in Nat
      /\ e.at <= sync.seen[i] /\ e.at <= newestOf[i]
      /\ sync.token # NoValue => sync.token <= sync.seen[i] \/ (plugin \notin Late /\ e.at # 0)
  BY <1>1, Awaits
<1>5. /\ v \in Nat /\ v <= newestOf[i]
      /\ v = versionOf[i] \/ newestOf[i] > sync.seen[i] \/ i \in missed
      /\ plugin = "gmail" /\ versionOf[i] = 0 /\ copy[i] = 0 => v = 0
      /\ plugin \notin Late => v = e.at
  BY <1>1, ResultIsRight
<1>6. LogFacts /\ versionOf[i] = Version(i)
  BY <1>4, LogHasFacts, Named DEF SyncInv, SourceInv
<1>7. Now' = Now /\ newestOf' = newestOf /\ versionOf' = versionOf /\ SourceInv'
  BY <1>1, SourceInvStays DEF SyncInv
<1>8. copy \in [Items -> Nat]
  BY DEF SyncInv, CursorInv
<1>9. copy'[i] = v /\ \A k \in Items : k # i => copy'[k] = copy[k]
  BY <1>2, <1>4, <1>8
<1>10. /\ v # versionOf[i] => missed' = missed
       /\ \A k : k # i => (k \in missed' <=> k \in missed)
  BY <1>2, <1>6
<1>11. /\ sync' \in Run /\ sync'.mode = sync.mode /\ sync'.pc = sync.pc /\ sync'.todo = sync.todo \ {e}
       /\ sync'.token = sync.token /\ sync'.seen = sync.seen
  BY <1>1, <1>3, EntryDone
<1>12. copy' \in [Items -> Nat]
  BY <1>2, <1>4, <1>5, <1>8
<1>13. copy'[i] = versionOf[i] \/ newestOf[i] > sync.seen[i] \/ i \in missed'
  BY <1>5, <1>9, <1>10
<1>14. newestOf[i] \in Nat /\ (versionOf[i] # 0 => versionOf[i] = newestOf[i])
  BY <1>4, <1>6 DEF LogFacts
<1>15. e.item = i
  OBVIOUS
<1> HIDE DEF i
<1>16. CursorInv'
  <2>1. \A k \in Items : copy'[k] <= newestOf[k]
    BY <1>5, <1>9 DEF SyncInv, CursorInv
  <2>2. ASSUME cursor # NoValue, NEW k \in Items
        PROVE  k \in missed' \/ newestOf[k] > cursor \/ copy'[k] = versionOf[k]
    <3>1. CASE k # i
      BY <1>9, <1>10, <2>2, <3>1 DEF SyncInv, CursorInv
    <3>2. CASE k = i
      <4>1. cursor \in Nat
        BY <2>2 DEF SyncInv, CursorInv
      <4>2. sync.seen[i] # NoValue
        BY <1>4
      <4>3. cursor <= sync.seen[i]
        BY <1>3, <1>4, <2>2, <4>2 DEF SyncInv, RunInv, SeenInv
      <4>4. newestOf[i] > sync.seen[i] => newestOf[i] > cursor
        BY <1>4, <1>14, <4>1, <4>3
      <4> QED BY <1>13, <3>2, <4>4
    <3> QED BY <3>1, <3>2
  <2>3. cursor \in Nat \cup {NoValue} /\ (cursor # NoValue => cursor <= Now)
    BY DEF SyncInv, CursorInv
  <2> QED BY <1>1, <1>7, <1>12, <2>1, <2>2, <2>3 DEF CursorInv
<1>17. Control'
  BY <1>1, <1>11 DEF SyncInv, RunInv, Control
<1>18. SeenInv'
  BY <1>1, <1>3, <1>7, <1>11 DEF SyncInv, RunInv, SeenInv
<1>19. TodoInv'
  <2> SUFFICES ASSUME NEW f \in sync.todo \ {e}
               PROVE  /\ sync.seen[f.item] # NoValue /\ f.at <= sync.seen[f.item] /\ f.at <= newestOf[f.item]
                      /\ plugin = "teams" => f.at # 0
                      /\ sync.token # NoValue => sync.token <= sync.seen[f.item] \/ (plugin \notin Late /\ f.at # 0)
                      /\ \/ f.at = versionOf[f.item] \/ newestOf[f.item] > sync.seen[f.item]
                         \/ /\ plugin = "gmail" /\ f.at # 0 /\ versionOf[f.item] = 0
                            /\ \/ f.item \in missed' \/ copy'[f.item] = 0
                               \/ \E d \in sync.todo \ {e} : d.item = f.item /\ d.at = 0
    BY <1>1, <1>7, <1>11 DEF TodoInv
  <2>1. /\ sync.seen[f.item] # NoValue /\ f.at <= sync.seen[f.item] /\ f.at <= newestOf[f.item]
        /\ plugin = "teams" => f.at # 0
        /\ sync.token # NoValue => sync.token <= sync.seen[f.item] \/ (plugin \notin Late /\ f.at # 0)
        /\ \/ f.at = versionOf[f.item] \/ newestOf[f.item] > sync.seen[f.item]
           \/ /\ plugin = "gmail" /\ f.at # 0 /\ versionOf[f.item] = 0
              /\ f.item \in missed \/ copy[f.item] = 0 \/ \E d \in sync.todo : d.item = f.item /\ d.at = 0
    BY <1>3 DEF SyncInv, RunInv, TodoInv
  <2>2. ASSUME plugin = "gmail", f.at # 0, versionOf[f.item] = 0,
               f.item \in missed \/ copy[f.item] = 0 \/ \E d \in sync.todo : d.item = f.item /\ d.at = 0
        PROVE  \/ f.item \in missed' \/ copy'[f.item] = 0
               \/ \E d \in sync.todo \ {e} : d.item = f.item /\ d.at = 0
    <3>1. f.item \in Items
      BY <1>3 DEF Run
    <3>2. CASE f.item # i
      <4>1. \A d \in sync.todo : d.item = f.item => d # e
        BY <1>15, <3>2
      <4> QED BY <1>9, <1>10, <2>2, <3>1, <3>2, <4>1
    <3>3. CASE f.item = i
      <4>1. CASE f.item \in missed
        BY <1>9, <1>10, <2>2, <3>3, <4>1
      <4>2. CASE copy[f.item] = 0
        BY <1>5, <1>9, <2>2, <3>3, <4>2
      <4>3. CASE \E d \in sync.todo : d.item = f.item /\ d.at = 0
        <5>1. CASE e.at = 0
          <6>1. v = 0
            BY <5>1, <1>2 DEF Result
          <6> QED BY <1>9, <3>3, <6>1
        <5>2. CASE e.at # 0
          BY <4>3, <5>2
        <5> QED BY <5>1, <5>2
      <4> QED BY <2>2, <4>1, <4>2, <4>3
    <3> QED BY <3>2, <3>3
  <2> QED BY <2>1, <2>2
<1>20. ItemsInv'
  <2> SUFFICES ASSUME ~(plugin = "outlookCal" /\ sync.token = NoValue), NEW k \in Items, sync.seen[k] # NoValue
               PROVE  \/ k \in missed' \/ copy'[k] = versionOf[k] \/ newestOf[k] > sync.seen[k]
                      \/ \E d \in sync.todo \ {e} : d.item = k
    BY <1>1, <1>7, <1>11 DEF ItemsInv
  <2>1. CASE k # i
    <3>1. \/ k \in missed \/ copy[k] = versionOf[k] \/ newestOf[k] > sync.seen[k]
          \/ \E d \in sync.todo : d.item = k
      BY <1>3 DEF SyncInv, RunInv, ItemsInv
    <3>2. \A d \in sync.todo : d.item = k => d # e
      BY <1>15, <2>1
    <3> QED BY <1>9, <1>10, <2>1, <3>1, <3>2
  <2>2. CASE k = i
    BY <1>13, <2>2
  <2> QED BY <2>1, <2>2
<1>21. TokenInv'
  <2> SUFFICES ASSUME sync.token # NoValue
               PROVE  sync.token <= Now /\ \A k \in Items :
                        k \in missed' \/ newestOf[k] > sync.token \/ newestOf[k] <= sync.seen[k]
    BY <1>1, <1>7, <1>11 DEF TokenInv
  <2>1. sync.token <= Now /\ sync.token \in Nat /\ \A k \in Items :
          k \in missed \/ newestOf[k] > sync.token \/ newestOf[k] <= sync.seen[k]
    BY <1>3 DEF SyncInv, RunInv, TokenInv, Run
  <2>2. i \in missed' \/ newestOf[i] > sync.token \/ newestOf[i] <= sync.seen[i]
    <3>1. CASE v # versionOf[i]
      BY <1>4, <1>10, <2>1, <3>1
    <3>2. CASE sync.token <= sync.seen[i]
      BY <1>4, <1>14, <2>1, <3>2
    <3>3. CASE v = versionOf[i] /\ plugin \notin Late /\ e.at # 0
      BY <1>4, <1>5, <1>14, <3>3
    <3> QED BY <1>4, <3>1, <3>2, <3>3
  <2> QED BY <1>10, <2>1, <2>2
<1> QED BY <1>7, <1>16, <1>17, <1>18, <1>19, <1>20, <1>21 DEF SyncInv, RunInv

LEMMA SkipKeeps ==
  ASSUME SyncInv, NEW e \in [item : Items, at : 0..MaxEdits], Skip(e)
  PROVE  SyncInv'
<1>1. /\ sync # NoValue /\ sync.pc = "apply" /\ e \in sync.todo /\ Done(e)
      /\ missed' = missed \cup {e.item} /\ UNCHANGED <<plugin, log, oldest, copy, cursor>>
  BY DEF Skip, MayApply, PassOver, Stays
<1>2. sync \in Run /\ Reading
  BY <1>1 DEF SyncInv, RunInv, Control, Reading
<1>3. Now' = Now /\ newestOf' = newestOf /\ versionOf' = versionOf /\ SourceInv' /\ CursorInv'
  <2>1. missed \subseteq missed' /\ cursor' \in {cursor, NoValue}
    BY <1>1
  <2> QED BY <1>1, <2>1, SourceInvStays, CursorInvStays DEF SyncInv
<1>4. /\ sync' \in Run /\ sync'.mode = sync.mode /\ sync'.pc = sync.pc /\ sync'.todo = sync.todo \ {e}
      /\ sync'.token = sync.token /\ sync'.seen = sync.seen
  BY <1>1, <1>2, EntryDone
<1>5. \A k : k \in missed' <=> k \in missed \/ k = e.item
  BY <1>1
<1>6. \A d \in sync.todo : d.item \notin missed' => d \in sync.todo \ {e}
  BY <1>5
<1>7. Control' /\ SeenInv'
  BY <1>1, <1>2, <1>3, <1>4 DEF SyncInv, RunInv, Control, SeenInv
<1>8. TodoInv'
  <2> SUFFICES ASSUME NEW f \in sync.todo
               PROVE  /\ sync.seen[f.item] # NoValue /\ f.at <= sync.seen[f.item] /\ f.at <= newestOf[f.item]
                      /\ plugin = "teams" => f.at # 0
                      /\ sync.token # NoValue => sync.token <= sync.seen[f.item] \/ (plugin \notin Late /\ f.at # 0)
                      /\ \/ f.at = versionOf[f.item] \/ newestOf[f.item] > sync.seen[f.item]
                         \/ /\ plugin = "gmail" /\ f.at # 0 /\ versionOf[f.item] = 0
                            /\ \/ f.item \in missed' \/ copy[f.item] = 0
                               \/ \E d \in sync.todo \ {e} : d.item = f.item /\ d.at = 0
    BY <1>1, <1>3, <1>4 DEF TodoInv
  <2>1. /\ sync.seen[f.item] # NoValue /\ f.at <= sync.seen[f.item] /\ f.at <= newestOf[f.item]
        /\ plugin = "teams" => f.at # 0
        /\ sync.token # NoValue => sync.token <= sync.seen[f.item] \/ (plugin \notin Late /\ f.at # 0)
        /\ \/ f.at = versionOf[f.item] \/ newestOf[f.item] > sync.seen[f.item]
           \/ /\ plugin = "gmail" /\ f.at # 0 /\ versionOf[f.item] = 0
              /\ f.item \in missed \/ copy[f.item] = 0 \/ \E d \in sync.todo : d.item = f.item /\ d.at = 0
    BY <1>2 DEF SyncInv, RunInv, TodoInv
  <2>2. f.item \in missed \/ copy[f.item] = 0 \/ (\E d \in sync.todo : d.item = f.item /\ d.at = 0)
        => \/ f.item \in missed' \/ copy[f.item] = 0
           \/ \E d \in sync.todo \ {e} : d.item = f.item /\ d.at = 0
    BY <1>5, <1>6
  <2> QED BY <2>1, <2>2
<1>9. ItemsInv'
  <2> SUFFICES ASSUME ~(plugin = "outlookCal" /\ sync.token = NoValue), NEW k \in Items, sync.seen[k] # NoValue
               PROVE  \/ k \in missed' \/ copy[k] = versionOf[k] \/ newestOf[k] > sync.seen[k]
                      \/ \E d \in sync.todo \ {e} : d.item = k
    BY <1>1, <1>3, <1>4 DEF ItemsInv
  <2>1. \/ k \in missed \/ copy[k] = versionOf[k] \/ newestOf[k] > sync.seen[k]
        \/ \E d \in sync.todo : d.item = k
    BY <1>2 DEF SyncInv, RunInv, ItemsInv
  <2> QED BY <1>5, <1>6, <2>1
<1>10. TokenInv'
  BY <1>1, <1>2, <1>3, <1>4, <1>5 DEF SyncInv, RunInv, TokenInv
<1> QED BY <1>3, <1>7, <1>8, <1>9, <1>10 DEF SyncInv, RunInv

\* The position is asked for, or the run goes on without.
LEMMA GetTokenKeeps == ASSUME SyncInv, NoValue \notin Nat, GetToken PROVE SyncInv'
<1> DEFINE next == IF plugin \in Late THEN "save" ELSE "apply"
<1>1. /\ sync # NoValue /\ sync.mode = "full" /\ UNCHANGED <<plugin, log, oldest, copy, cursor>>
      /\ \/ sync.pc = "apply" /\ sync.todo = {} /\ plugin \in Late
         \/ sync.pc = "token"
  BY DEF GetToken, Stays
<1>2. \E token \in Nat \cup {NoValue} :
        /\ sync' = [sync EXCEPT !.pc = next, !.token = token]
        /\ \/ token = Now /\ missed' = missed \cup {i \in Items : Newest(i) > sync.seen[i]}
           \/ token = sync.token /\ missed' = missed
  <2>1. sync \in Run /\ Now \in Nat
    BY <1>1, LogHasFacts DEF SyncInv, RunInv, Control, SourceInv, LogFacts
  <2>2. sync' = [sync EXCEPT !.pc = next] => sync' = [sync EXCEPT !.pc = next, !.token = sync.token]
    BY <2>1 DEF Run
  <2>3. sync.token \in Nat \cup {NoValue}
    BY <2>1 DEF Run
  <2>4. \/ /\ sync' = [sync EXCEPT !.pc = next, !.token = Now]
           /\ missed' = missed \cup {i \in Items : Newest(i) > sync.seen[i]}
        \/ sync' = [sync EXCEPT !.pc = next] /\ UNCHANGED missed
    BY DEF GetToken
  <2> HIDE DEF next
  <2> QED BY <2>1, <2>2, <2>3, <2>4
<1>3. PICK token \in Nat \cup {NoValue} :
        /\ sync' = [sync EXCEPT !.pc = next, !.token = token]
        /\ \/ token = Now /\ missed' = missed \cup {i \in Items : Newest(i) > sync.seen[i]}
           \/ token = sync.token /\ missed' = missed
  BY <1>2
<1>4. sync \in Run /\ Reading /\ \A i \in Items : sync.seen[i] # NoValue
  BY <1>1 DEF SyncInv, RunInv, Control, Reading
<1>5. LogFacts /\ Now' = Now /\ newestOf' = newestOf /\ versionOf' = versionOf /\ SourceInv' /\ CursorInv'
  <2>1. missed \subseteq missed' /\ cursor' \in {cursor, NoValue}
    BY <1>1, <1>3
  <2> QED BY <1>1, <2>1, LogHasFacts, SourceInvStays, CursorInvStays DEF SyncInv, SourceInv
<1>6. missed \subseteq missed' /\ (token = sync.token \/ (token = Now /\ \A i \in Items : newestOf[i] > sync.seen[i] => i \in missed'))
  BY <1>3, Named
<1>7. next \in {"save", "apply"} /\ (next = "save" <=> plugin \in Late)
  OBVIOUS
<1> HIDE DEF next
<1>8. /\ sync' \in Run /\ sync'.mode = sync.mode /\ sync'.pc = next /\ sync'.todo = sync.todo
      /\ sync'.token = token /\ sync'.seen = sync.seen
  <2>1. sync' = [mode |-> sync.mode, pc |-> next, todo |-> sync.todo, seen |-> sync.seen, token |-> token]
    BY <1>3, <1>4 DEF Run
  <2> QED BY <1>4, <1>7, <2>1 DEF Run
<1>9. sync.todo = {} \/ (plugin \notin Late /\ \A e \in sync.todo : e.at # 0)
  BY <1>1 DEF SyncInv, RunInv, Control, Late
<1>10. plugin \in Late => sync.todo = {}
  BY <1>9
<1>11. Control'
  BY <1>1, <1>4, <1>7, <1>8, <1>10 DEF Control
<1>12. SeenInv'
  BY <1>1, <1>4, <1>5, <1>8 DEF SyncInv, RunInv, SeenInv
<1>13. TodoInv'
  <2> SUFFICES ASSUME NEW f \in sync.todo
               PROVE  /\ sync.seen[f.item] # NoValue /\ f.at <= sync.seen[f.item] /\ f.at <= newestOf[f.item]
                      /\ plugin = "teams" => f.at # 0
                      /\ token # NoValue => token <= sync.seen[f.item] \/ (plugin \notin Late /\ f.at # 0)
                      /\ \/ f.at = versionOf[f.item] \/ newestOf[f.item] > sync.seen[f.item]
                         \/ /\ plugin = "gmail" /\ f.at # 0 /\ versionOf[f.item] = 0
                            /\ \/ f.item \in missed' \/ copy[f.item] = 0
                               \/ \E d \in sync.todo : d.item = f.item /\ d.at = 0
    BY <1>1, <1>5, <1>8 DEF TodoInv
  <2>1. /\ sync.seen[f.item] # NoValue /\ f.at <= sync.seen[f.item] /\ f.at <= newestOf[f.item]
        /\ plugin = "teams" => f.at # 0
        /\ \/ f.at = versionOf[f.item] \/ newestOf[f.item] > sync.seen[f.item]
           \/ /\ plugin = "gmail" /\ f.at # 0 /\ versionOf[f.item] = 0
              /\ f.item \in missed \/ copy[f.item] = 0 \/ \E d \in sync.todo : d.item = f.item /\ d.at = 0
    BY <1>4 DEF SyncInv, RunInv, TodoInv
  <2> QED BY <1>6, <1>9, <2>1
<1>14. ItemsInv'
  <2>1. plugin # "outlookCal"
    BY <1>1 DEF SyncInv, RunInv, Control, Late
  <2>2. \A k \in Items : \/ k \in missed \/ copy[k] = versionOf[k] \/ newestOf[k] > sync.seen[k]
                         \/ \E d \in sync.todo : d.item = k
    BY <1>4, <2>1 DEF SyncInv, RunInv, ItemsInv
  <2> QED BY <1>1, <1>5, <1>6, <1>8, <2>2 DEF ItemsInv
<1>15. TokenInv'
  <2> SUFFICES ASSUME token # NoValue
               PROVE  token <= Now /\ \A k \in Items :
                        k \in missed' \/ newestOf[k] > token \/ newestOf[k] <= sync.seen[k]
    BY <1>5, <1>8 DEF TokenInv
  <2>1. CASE token = sync.token
    BY <1>4, <1>6, <2>1 DEF SyncInv, RunInv, TokenInv
  <2>2. CASE token = Now /\ \A i \in Items : newestOf[i] > sync.seen[i] => i \in missed'
    <3>1. \A k \in Items : newestOf[k] \in Nat /\ sync.seen[k] \in Nat
      BY <1>4, <1>5 DEF LogFacts, Run
    <3>2. Now <= Now
      BY <1>5 DEF LogFacts
    <3> QED BY <2>2, <3>1, <3>2
  <2> QED BY <1>6, <2>1, <2>2
<1> QED BY <1>5, <1>11, <1>12, <1>13, <1>14, <1>15 DEF SyncInv, RunInv

\* The cursor that is stored names a position before which everything is copied.
LEMMA SaveCursorKeeps == ASSUME SyncInv, NoValue \notin Nat, SaveCursor PROVE SyncInv'
<1>1. /\ sync # NoValue /\ sync.pc # "fetch" /\ sync.todo = {} /\ sync' = NoValue
      /\ cursor' = cursor \/ (sync.token # NoValue /\ cursor' = sync.token)
      /\ UNCHANGED <<plugin, log, oldest, copy, missed>>
  BY DEF SaveCursor, Stays, SyncInv, RunInv, Control
<1>2. RunInv'
  BY <1>1, RunEnds
<1>3. CASE cursor' = cursor
  BY <1>1, <1>2, <1>3, SourceInvStays, CursorInvStays DEF SyncInv
<1>4. ASSUME sync.token # NoValue, cursor' = sync.token PROVE SyncInv'
  <2>1. LogFacts /\ Now' = Now /\ newestOf' = newestOf /\ versionOf' = versionOf /\ SourceInv'
    BY <1>1, LogHasFacts, SourceInvStays DEF SyncInv, SourceInv
  <2>2. sync \in Run /\ Reading /\ \A i \in Items : sync.seen[i] # NoValue
    BY <1>1 DEF SyncInv, RunInv, Control, Reading
  <2>3. sync.token \in Nat /\ sync.token <= Now
    BY <1>4, <2>2 DEF SyncInv, RunInv, TokenInv, Run
  <2>4. \A i \in Items : i \in missed \/ newestOf[i] > sync.token \/ copy[i] = versionOf[i]
    <3> SUFFICES ASSUME NEW i \in Items PROVE i \in missed \/ newestOf[i] > sync.token \/ copy[i] = versionOf[i]
      OBVIOUS
    <3>1. i \in missed \/ newestOf[i] > sync.token \/ newestOf[i] <= sync.seen[i]
      BY <1>4, <2>2 DEF SyncInv, RunInv, TokenInv
    <3>2. i \in missed \/ copy[i] = versionOf[i] \/ newestOf[i] > sync.seen[i]
      BY <1>1, <1>4, <2>2 DEF SyncInv, RunInv, ItemsInv
    <3>3. newestOf[i] \in Nat /\ sync.seen[i] \in Nat
      BY <2>1, <2>2 DEF LogFacts, Run
    <3> QED BY <3>1, <3>2, <3>3
  <2>5. CursorInv'
    BY <1>1, <1>4, <2>1, <2>3, <2>4 DEF SyncInv, CursorInv
  <2> QED BY <1>2, <2>1, <2>5 DEF SyncInv
<1> QED BY <1>1, <1>3, <1>4

LEMMA SyncBegins == ASSUME SyncInit PROVE SyncInv
<1>1. /\ log = <<>> /\ oldest = 0 /\ copy = [i \in Items |-> 0] /\ cursor = NoValue /\ sync = NoValue
  BY DEF SyncInit
<1>2. LogTyped /\ Now = 0
  BY <1>1 DEF LogTyped, Now
<1>3. \A i \in Items : newestOf[i] \in Nat
  BY <1>2, LogHasFacts DEF LogFacts
<1>4. SourceInv
  BY <1>1, <1>2 DEF SourceInv
<1>5. CursorInv
  BY <1>1, <1>3 DEF CursorInv
<1>6. RunInv
  BY <1>1 DEF RunInv, Control, Reading, SeenInv, TodoInv, ItemsInv, TokenInv
<1> QED BY <1>4, <1>5, <1>6 DEF SyncInv

\* No item is lost to a plugin's incremental runs: what changed before the stored
\* cursor is in the knowledge base as it is at the source, save for what a run gave up
\* for a reason the model names, for any items, limits and numbers of changes.
THEOREM CursorMeansSyncedHolds ==
  ASSUME NoValue \notin Nat
  PROVE  SyncSpec => []CursorMeansSynced
<1>1. SyncInit => SyncInv
  BY SyncBegins
<1>2. ASSUME SyncInv, SyncNext PROVE SyncInv'
  <2>1. ASSUME NEW i \in Items, Change(i) PROVE SyncInv'
    <3>1. log' = Append(log, [item |-> i, gone |-> FALSE]) /\ (plugin \in Mail => newestOf[i] = 0)
      BY <2>1, Named DEF Change
    <3> QED BY <1>2, <2>1, <3>1, LogGrows DEF Change
  <2>2. ASSUME NEW i \in Items, Remove(i) PROVE SyncInv'
    <3>1. log' = Append(log, [item |-> i, gone |-> TRUE]) /\ versionOf[i] # 0 /\ plugin # "teams"
      BY <2>2, Named DEF Remove
    <3> QED BY <1>2, <2>2, <3>1, LogGrows DEF Remove
  <2>3. ASSUME NEW c \in SUBSET Items, TeamsChat(c) PROVE SyncInv'
    BY <1>2, <2>3, TeamsChatKeeps
  <2>4. ASSUME NEW e \in [item : Items, at : 0..MaxEdits], Apply(e) \/ Skip(e) PROVE SyncInv'
    <3>1. CASE Apply(e)
      BY <1>2, <3>1, ApplyKeeps
    <3>2. CASE Skip(e)
      BY <1>2, <3>2, SkipKeeps
    <3> QED BY <2>4, <3>1, <3>2
  <2>5. CASE GdriveScan \/ GdriveChanges \/ GmailHistory \/ GmailList \/ GcalEvents
    BY <1>2, <2>5, GdriveScanKeeps, GdriveChangesKeeps, GmailHistoryKeeps, GmailListKeeps, GcalEventsKeeps
  <2>6. CASE OutlookMailDelta \/ OutlookMailList \/ OutlookCalPages \/ TeamsFetched
    BY <1>2, <2>6, OutlookMailDeltaKeeps, OutlookMailListKeeps, OutlookCalPagesKeeps, TeamsFetchedKeeps
  <2>7. CASE HistoryGone \/ Start \/ Gone \/ Raises \/ Dies
    BY <1>2, <2>7, HistoryGoneKeeps, StartKeeps, GoneKeeps, RaisesKeeps, DiesKeeps
  <2>8. CASE GetToken \/ SaveCursor
    BY <1>2, <2>8, GetTokenKeeps, SaveCursorKeeps
  <2> QED BY <1>2, <2>1, <2>2, <2>3, <2>4, <2>5, <2>6, <2>7, <2>8, Zenon DEF SyncNext
<1>3. SyncInv /\ UNCHANGED syncVars => SyncInv'
  <2> SUFFICES ASSUME SyncInv, UNCHANGED syncVars PROVE SyncInv'
    OBVIOUS
  <2>1. UNCHANGED <<plugin, log, oldest, copy, cursor, sync, missed>>
    BY DEF syncVars
  <2>2. Now' = Now /\ newestOf' = newestOf /\ versionOf' = versionOf /\ SourceInv' /\ CursorInv'
    BY <2>1, SourceInvStays, CursorInvStays DEF SyncInv
  <2>3. Control' /\ SeenInv' /\ (Reading' <=> Reading)
    BY <2>1, <2>2 DEF SyncInv, RunInv, Control, SeenInv, Reading
  <2>4. TodoInv'
    BY <2>1, <2>2, <2>3 DEF SyncInv, RunInv, TodoInv
  <2>5. ItemsInv' /\ TokenInv'
    BY <2>1, <2>2, <2>3 DEF SyncInv, RunInv, ItemsInv, TokenInv
  <2> QED BY <2>2, <2>3, <2>4, <2>5 DEF SyncInv, RunInv
<1>4. SyncInv => CursorMeansSynced
  <2> SUFFICES ASSUME SyncInv, cursor # NoValue, NEW i \in Items \ missed, Newest(i) <= cursor
               PROVE  copy[i] = Version(i)
    BY DEF CursorMeansSynced
  <2>1. newestOf[i] = Newest(i) /\ versionOf[i] = Version(i)
    BY Named
  <2>2. newestOf[i] \in Nat /\ cursor \in Nat
    BY LogHasFacts DEF SyncInv, SourceInv, CursorInv, LogFacts
  <2>3. newestOf[i] > cursor \/ copy[i] = versionOf[i]
    BY DEF SyncInv, CursorInv
  <2> QED BY <2>1, <2>2, <2>3
<1>5. SyncInv /\ [SyncNext]_syncVars => SyncInv'
  BY <1>2, <1>3
<1> QED BY <1>1, <1>4, <1>5, PTL DEF SyncSpec

------------------------------------------------------------------------------
(***************************************************************************)
(* Experiences.                                                            *)
(***************************************************************************)
RunRow == [user: Users, status: {"flushed", "queued", "running", "ended", "gone"}]
JobState == [user: Users, attempts: Nat, at: Workers \cup {"queue"}]
TickState == [todo: SUBSET Users, keys: SUBSET Users, sent: SUBSET RunIds]
TaskState == [job: RunIds, row: RunIds \cup {Nobody}, at: {"start", "execute", "raised"}, broken: BOOLEAN]

\* Nobody is none of the others, and the queue is no worker.
ExpConstants ==
  /\ Nobody \notin RunRow \cup JobState \cup TickState \cup TaskState \cup RunIds
  /\ "queue" \notin Workers

RunsTyped == run \in [RunIds -> RunRow \cup {Nobody}]
JobsTyped == job \in [RunIds -> JobState \cup {Nobody}]
TicksTyped == tick \in [Schedulers -> TickState \cup {Nobody}]
TasksTyped == task \in [Workers -> TaskState \cup {Nobody}]
StreamsTyped == stream \in [Users -> RunIds \cup {Nobody}]
GhostsTyped == early \subseteq RunIds /\ cut \subseteq RunIds

ExpTyped == RunsTyped /\ JobsTyped /\ TicksTyped /\ TasksTyped /\ StreamsTyped /\ GhostsTyped

\* One scheduler at a time has the row of the experience; what it has sent is not
\* committed, and has its job unless the job came too early.
OneTick == \A s, t \in Schedulers : tick[s] # Nobody /\ tick[t] # Nobody => s = t

SentIsFlushed == \A s \in Schedulers : tick[s] # Nobody =>
  \A r \in tick[s].sent : r \in With("flushed") /\ (job[r] # Nobody \/ r \in early)

\* A job has a row; a worker at work holds its job, which it took early or whose
\* run it could see.
JobHasRun == \A r \in RunIds : job[r] # Nobody => run[r] # Nobody

TaskHolds == \A w \in Workers : task[w] # Nobody =>
  /\ job[task[w].job] # Nobody /\ job[task[w].job].at = w
  /\ Seen(task[w].job) \/ task[w].job \in early

\* What a worker executes is the run of its job, unless the job came too early.
RowExists == \A w \in Workers : At(w, "execute") =>
  /\ task[w].row \in RunIds /\ Seen(task[w].row)
  /\ task[w].row = task[w].job \/ task[w].job \in early

StreamExists == \A u \in Users : stream[u] # Nobody => Seen(stream[u])

\* The two ways in which an active run is in hand.
QueuedHasJob == \A r \in With("queued") : job[r] # Nobody \/ r \in early \cup cut

Executed(r) ==
  \/ \E w \in Workers : At(w, "execute") /\ task[w].row = r
  \/ \E u \in Users : stream[u] = r
RunningIsExecuted == \A r \in With("running") : Executed(r) \/ r \in early \cup cut

ExpInv == /\ ExpTyped /\ OneTick /\ SentIsFlushed /\ JobHasRun /\ TaskHolds /\ RowExists
          /\ StreamExists /\ QueuedHasJob /\ RunningIsExecuted


\* Run r now has this status, and the other runs are as they were.
RunMoved(r, status) ==
  /\ RunsTyped' /\ run'[r] # Nobody /\ run'[r].status = status
  /\ \A q \in RunIds \ {r} : run'[q] = run[q]

LEMMA RowMade ==
  ASSUME ExpConstants, RunsTyped, NEW r \in RunIds, NEW u \in Users,
         NEW status \in {"flushed", "queued", "running", "ended", "gone"},
         run' = [run EXCEPT ![r] = [user |-> u, status |-> status]]
  PROVE  RunMoved(r, status)
BY DEF ExpConstants, RunsTyped, RunRow, RunMoved

LEMMA StatusMoved ==
  ASSUME ExpConstants, RunsTyped, NEW r \in RunIds, run[r] # Nobody,
         NEW status \in {"flushed", "queued", "running", "ended", "gone"},
         run' = [run EXCEPT ![r].status = status]
  PROVE  RunMoved(r, status)
<1>1. run[r] \in RunRow
  BY DEF RunsTyped
<1>2. run'[r] = [run[r] EXCEPT !.status = status]
  BY DEF RunsTyped
<1>3. run'[r] \in RunRow /\ run'[r].status = status
  BY <1>1, <1>2 DEF RunRow
<1>4. \A q \in RunIds \ {r} : run'[q] = run[q]
  BY DEF RunsTyped
<1> QED
  BY <1>3, <1>4 DEF RunsTyped, ExpConstants, RunMoved

LEMMA StartTickKeeps ==
  ASSUME ExpConstants, ExpInv, NEW s \in Schedulers, StartTick(s)
  PROVE  ExpInv'
<1> DEFINE begun == [todo |-> Users, keys |-> ActiveRunKeys, sent |-> {}]
<1>1. begun \in TickState /\ begun.sent = {}
  BY DEF TickState, ActiveRunKeys, With, ExpInv, ExpTyped, RunsTyped, RunRow
<1>2. tick' = [tick EXCEPT ![s] = begun] /\ UNCHANGED <<run, job, task, stream, early, cut>>
      /\ \A t \in Schedulers : tick[t] = Nobody
  BY DEF StartTick
<1> HIDE DEF begun
<1>3. TicksTyped' /\ OneTick' /\ SentIsFlushed'
  BY <1>1, <1>2 DEF ExpInv, ExpTyped, TicksTyped, OneTick, SentIsFlushed
<1> QED
  BY <1>2, <1>3 DEF ExpInv, ExpTyped, RunsTyped, JobsTyped, TasksTyped, StreamsTyped, GhostsTyped, JobHasRun,
                    TaskHolds, RowExists, StreamExists, QueuedHasJob, RunningIsExecuted, Executed, With, Seen, At

LEMMA PassUserKeeps ==
  ASSUME ExpConstants, ExpInv, NEW s \in Schedulers, NEW u \in Users, PassUser(s, u)
  PROVE  ExpInv'
<1>1. tick' = [tick EXCEPT ![s].todo = @ \ {u}] /\ UNCHANGED <<run, job, task, stream, early, cut>>
      /\ tick[s] \in TickState
  BY DEF PassUser, Turn, ExpInv, ExpTyped, TicksTyped
<1>2. tick'[s] = [tick[s] EXCEPT !.todo = @ \ {u}] /\ \A t \in Schedulers \ {s} : tick'[t] = tick[t]
  BY <1>1 DEF ExpInv, ExpTyped, TicksTyped
<1>3. tick'[s] \in TickState /\ tick'[s].sent = tick[s].sent
  BY <1>1, <1>2 DEF TickState
<1>4. TicksTyped' /\ OneTick' /\ SentIsFlushed'
  BY <1>1, <1>2, <1>3 DEF ExpInv, ExpTyped, TicksTyped, OneTick, SentIsFlushed, With, PassUser, Turn
<1> QED
  BY <1>1, <1>4 DEF ExpInv, ExpTyped, RunsTyped, JobsTyped, TasksTyped, StreamsTyped, GhostsTyped, JobHasRun,
                    TaskHolds, RowExists, StreamExists, QueuedHasJob, RunningIsExecuted, Executed, With, Seen, At


\* A run that is made flushed or gone is of no worker and of no stream.
LEMMA MadeKeepsWorkers ==
  ASSUME ExpConstants, ExpInv, NEW r \in RunIds, run[r] = Nobody,
         NEW status \in {"flushed", "gone"}, RunMoved(r, status),
         NEW j \in JobState, job' = [job EXCEPT ![r] = j] \/ job' = job,
         UNCHANGED <<task, stream, early, cut>>
  PROVE  /\ JobsTyped' /\ TasksTyped' /\ StreamsTyped' /\ GhostsTyped'
         /\ JobHasRun' /\ TaskHolds' /\ RowExists' /\ StreamExists' /\ QueuedHasJob' /\ RunningIsExecuted'
<1>1. job[r] = Nobody /\ \A q \in RunIds \ {r} : job'[q] = job[q]
  BY DEF ExpInv, JobHasRun, ExpTyped, JobsTyped
<1>2. JobsTyped' /\ TasksTyped' /\ StreamsTyped' /\ GhostsTyped'
  BY DEF ExpInv, ExpTyped, JobsTyped, TasksTyped, StreamsTyped, GhostsTyped
<1>3. \A w \in Workers : task[w] # Nobody => task[w].job \in RunIds \ {r}
  BY <1>1 DEF ExpInv, ExpTyped, TasksTyped, TaskState, TaskHolds
<1>4. JobHasRun'
  BY <1>1 DEF ExpInv, JobHasRun, RunMoved
<1>5. TaskHolds'
  BY <1>1, <1>3 DEF ExpInv, TaskHolds, Seen, RunMoved
<1>6. RowExists' /\ StreamExists'
  BY DEF ExpInv, ExpTyped, StreamsTyped, RowExists, StreamExists, RunMoved, At, Seen
<1>7. QueuedHasJob' /\ RunningIsExecuted'
  BY <1>1 DEF ExpInv, QueuedHasJob, RunningIsExecuted, Executed, With, At, RunMoved
<1> QED
  BY <1>2, <1>4, <1>5, <1>6, <1>7

LEMMA EnqueueRunKeeps ==
  ASSUME ExpConstants, ExpInv, NEW s \in Schedulers, NEW u \in Users, NEW r \in RunIds, EnqueueRun(s, u, r)
  PROVE  ExpInv'
<1> DEFINE j == [user |-> u, attempts |-> 0, at |-> "queue"]
<1>1. j \in JobState /\ j # Nobody
  BY DEF JobState, ExpConstants
<1>2. /\ run[r] = Nobody /\ tick[s] # Nobody /\ UNCHANGED <<task, stream, early, cut>>
      /\ job' = [job EXCEPT ![r] = j] /\ run' = [run EXCEPT ![r] = [user |-> u, status |-> "flushed"]]
      /\ tick' = [tick EXCEPT ![s].todo = @ \ {u}, ![s].sent = @ \cup {r}]
  BY DEF EnqueueRun, Unused, Free, Turn
<1> HIDE DEF j
<1>3. RunMoved(r, "flushed")
  BY <1>2, RowMade DEF ExpInv, ExpTyped
<1>4. /\ JobsTyped' /\ TasksTyped' /\ StreamsTyped' /\ GhostsTyped'
      /\ JobHasRun' /\ TaskHolds' /\ RowExists' /\ StreamExists' /\ QueuedHasJob' /\ RunningIsExecuted'
  BY <1>1, <1>2, <1>3, MadeKeepsWorkers
<1>5. tick[s] \in TickState
  BY <1>2 DEF ExpInv, ExpTyped, TicksTyped
<1>6. tick'[s] = [tick[s] EXCEPT !.todo = @ \ {u}, !.sent = @ \cup {r}]
  BY <1>2 DEF ExpInv, ExpTyped, TicksTyped
<1>7. tick'[s] \in TickState /\ tick'[s].sent = tick[s].sent \cup {r}
  BY <1>5, <1>6 DEF TickState
<1>8. \A t \in Schedulers \ {s} : tick'[t] = tick[t]
  BY <1>2 DEF ExpInv, ExpTyped, TicksTyped
<1>9. TicksTyped' /\ OneTick'
  BY <1>2, <1>7, <1>8 DEF ExpInv, ExpTyped, TicksTyped, OneTick
<1>10. \A q \in RunIds : job[q] # Nobody => job'[q] # Nobody
  BY <1>1, <1>2 DEF ExpInv, ExpTyped, JobsTyped
<1>11. job'[r] # Nobody
  BY <1>1, <1>2 DEF ExpInv, ExpTyped, JobsTyped
<1>12. \A t \in Schedulers : tick[t] # Nobody => r \notin tick[t].sent
  BY <1>2 DEF ExpInv, SentIsFlushed, With
<1>13. SentIsFlushed'
  BY <1>2, <1>3, <1>7, <1>8, <1>10, <1>11, <1>12 DEF ExpInv, ExpTyped, TicksTyped, SentIsFlushed, With, RunMoved
<1> QED
  BY <1>3, <1>4, <1>9, <1>13 DEF ExpInv, ExpTyped, RunMoved

LEMMA EnqueueRaisesKeeps ==
  ASSUME ExpConstants, ExpInv, NEW s \in Schedulers, NEW u \in Users, NEW r \in RunIds, NEW reached \in BOOLEAN,
         EnqueueRaises(s, u, r, reached)
  PROVE  ExpInv'
<1> DEFINE j == [user |-> u, attempts |-> 0, at |-> "queue"]
<1>1. j \in JobState /\ j # Nobody
  BY DEF JobState, ExpConstants
<1>2. /\ run[r] = Nobody /\ tick[s] # Nobody /\ UNCHANGED <<task, stream, early, cut>>
      /\ job' = [job EXCEPT ![r] = j] \/ job' = job
      /\ run' = [run EXCEPT ![r] = [user |-> u, status |-> "gone"]]
      /\ tick' = [tick EXCEPT ![s].todo = @ \ {u}]
  BY DEF EnqueueRaises, DropFlushed, Unused, Free, Turn
<1> HIDE DEF j
<1>3. RunMoved(r, "gone")
  BY <1>2, RowMade DEF ExpInv, ExpTyped
<1>4. /\ JobsTyped' /\ TasksTyped' /\ StreamsTyped' /\ GhostsTyped'
      /\ JobHasRun' /\ TaskHolds' /\ RowExists' /\ StreamExists' /\ QueuedHasJob' /\ RunningIsExecuted'
  BY <1>1, <1>2, <1>3, MadeKeepsWorkers
<1>5. tick[s] \in TickState
  BY <1>2 DEF ExpInv, ExpTyped, TicksTyped
<1>6. tick'[s] = [tick[s] EXCEPT !.todo = @ \ {u}] /\ \A t \in Schedulers \ {s} : tick'[t] = tick[t]
  BY <1>2 DEF ExpInv, ExpTyped, TicksTyped
<1>7. tick'[s] \in TickState /\ tick'[s].sent = tick[s].sent
  BY <1>5, <1>6 DEF TickState
<1>8. TicksTyped' /\ OneTick'
  BY <1>2, <1>6, <1>7 DEF ExpInv, ExpTyped, TicksTyped, OneTick
<1>9. \A q \in RunIds : job[q] # Nobody => job'[q] # Nobody
  BY <1>1, <1>2 DEF ExpInv, ExpTyped, JobsTyped
<1>10. \A t \in Schedulers : tick[t] # Nobody => r \notin tick[t].sent
  BY <1>2 DEF ExpInv, SentIsFlushed, With
<1>11. SentIsFlushed'
  BY <1>2, <1>3, <1>6, <1>7, <1>9, <1>10 DEF ExpInv, ExpTyped, TicksTyped, SentIsFlushed, With, RunMoved
<1> QED
  BY <1>3, <1>4, <1>8, <1>11 DEF ExpInv, ExpTyped, RunMoved

\* The transaction of a scheduler ends: what it sent is queued, or gone.
LEMMA TickEndsKeeps ==
  ASSUME ExpConstants, ExpInv, NEW s \in Schedulers, tick[s] # Nobody, NEW status \in {"queued", "gone"},
         run' = [r \in RunIds |-> IF r \in tick[s].sent THEN [run[r] EXCEPT !.status = status] ELSE run[r]],
         tick' = [tick EXCEPT ![s] = Nobody], UNCHANGED <<job, task, stream, early, cut>>
  PROVE  ExpInv'
<1> DEFINE S == tick[s].sent
<1>1. /\ S \subseteq RunIds /\ \A r \in S : run[r] \in RunRow /\ run[r].status = "flushed"
      /\ \A r \in S : job[r] # Nobody \/ r \in early
  BY DEF ExpInv, ExpTyped, RunsTyped, TicksTyped, TickState, SentIsFlushed, With
<1>2. \A t \in Schedulers : tick'[t] = Nobody
  BY DEF ExpInv, ExpTyped, TicksTyped, OneTick
<1>3. /\ \A r \in S : run'[r] = [run[r] EXCEPT !.status = status]
      /\ \A r \in RunIds \ S : run'[r] = run[r]
      /\ run' = [r \in RunIds |-> run'[r]]
  BY <1>1
<1> HIDE DEF S
<1>4. \A r \in S : run'[r] \in RunRow /\ run'[r].status = status /\ run'[r] # Nobody
  BY <1>1, <1>3 DEF RunRow, ExpConstants
<1>5. RunsTyped' /\ TicksTyped' /\ OneTick' /\ SentIsFlushed'
  BY <1>2, <1>3, <1>4 DEF ExpInv, ExpTyped, RunsTyped, TicksTyped, OneTick, SentIsFlushed
<1>6. \A r \in RunIds : /\ run[r] # Nobody => run'[r] # Nobody
                        /\ Seen(r) => Seen(r)'
  BY <1>1, <1>3, <1>4 DEF Seen
<1>7. JobHasRun' /\ RowExists' /\ StreamExists'
  BY <1>6 DEF ExpInv, ExpTyped, StreamsTyped, JobHasRun, RowExists, StreamExists, At
<1>8. TaskHolds'
  BY <1>6 DEF ExpInv, ExpTyped, TasksTyped, TaskState, TaskHolds
<1>9. QueuedHasJob'
  BY <1>1, <1>3, <1>4 DEF ExpInv, QueuedHasJob, With
<1>10. RunningIsExecuted'
  BY <1>1, <1>3, <1>4 DEF ExpInv, RunningIsExecuted, Executed, With, At
<1> QED
  BY <1>5, <1>7, <1>8, <1>9, <1>10 DEF ExpInv, ExpTyped, JobsTyped, TasksTyped, StreamsTyped, GhostsTyped


LEMMA TakeKeeps ==
  ASSUME ExpConstants, ExpInv, NEW w \in Workers, NEW r \in RunIds, Take(w, r)
  PROVE  ExpInv'
<1> DEFINE taken == [job |-> r, row |-> Nobody, at |-> "start", broken |-> FALSE]
<1>1. /\ task[w] = Nobody /\ job[r] # Nobody /\ job[r].at = "queue"
      /\ job' = [job EXCEPT ![r].attempts = @ + 1, ![r].at = w]
      /\ task' = [task EXCEPT ![w] = taken]
      /\ UNCHANGED <<run, tick, stream, cut>>
      /\ early' = IF Seen(r) THEN early ELSE early \cup {r}
  BY DEF Take
<1>2. taken \in TaskState /\ taken.at = "start" /\ taken.job = r
  BY DEF TaskState
<1>3. taken \in TaskState /\ taken # Nobody /\ taken.at = "start" /\ taken.job = r
  <2> HIDE DEF taken
  <2> QED
    BY <1>2 DEF ExpConstants
<1> HIDE DEF taken
<1>4. task'[w] = taken /\ \A v \in Workers \ {w} : task'[v] = task[v]
  BY <1>1 DEF ExpInv, ExpTyped, TasksTyped
<1>5. job[r] \in JobState
  BY <1>1 DEF ExpInv, ExpTyped, JobsTyped
<1>6. job[r].attempts + 1 \in Nat
  BY <1>5 DEF JobState
<1>7. job'[r] = [job[r] EXCEPT !.attempts = job[r].attempts + 1, !.at = w]
  BY <1>1 DEF ExpInv, ExpTyped, JobsTyped
<1>8. job'[r] \in JobState /\ job'[r].at = w
  BY <1>7, <1>5, <1>6 DEF JobState
<1>9. job'[r] # Nobody /\ \A q \in RunIds \ {r} : job'[q] = job[q]
  BY <1>1, <1>8 DEF ExpInv, ExpTyped, JobsTyped, ExpConstants
<1>10. JobsTyped' /\ TasksTyped' /\ GhostsTyped'
  BY <1>1, <1>3, <1>8 DEF ExpInv, ExpTyped, JobsTyped, TasksTyped, GhostsTyped
<1>11. SentIsFlushed' /\ JobHasRun'
  BY <1>1, <1>9 DEF ExpInv, ExpTyped, TicksTyped, TickState, SentIsFlushed, JobHasRun, With
<1>12. \A v \in Workers \ {w} : task[v] # Nobody => task[v].job \in RunIds \ {r}
  BY <1>1 DEF ExpInv, ExpTyped, TasksTyped, TaskState, TaskHolds, ExpConstants
<1>13. early \subseteq early' /\ (Seen(r) \/ r \in early')
  BY <1>1
<1>14. \A q \in RunIds : Seen(q)' <=> Seen(q)
  BY <1>1 DEF Seen
<1>15. /\ job'[task'[w].job] # Nobody /\ job'[task'[w].job].at = w
       /\ Seen(task[w].job)' \/ task'[w].job \in early'
  <2>1. task'[w].job = r
    BY <1>3, <1>4
  <2>2. Seen(r)' \/ r \in early'
    BY <1>13, <1>14
  <2> QED
    BY <2>1, <2>2, <1>8, <1>9 DEF Seen
<1>16. TaskHolds'
  <2> SUFFICES ASSUME NEW v \in Workers \ {w}, task'[v] # Nobody
               PROVE  /\ job'[task'[v].job] # Nobody /\ job'[task'[v].job].at = v
                      /\ Seen(task[v].job)' \/ task'[v].job \in early'
    BY <1>15 DEF TaskHolds
  <2>1. task'[v] = task[v] /\ task[v] # Nobody /\ task[v].job \in RunIds \ {r}
    BY <1>4, <1>12
  <2>2. PICK q \in RunIds \ {r} : q = task[v].job
    BY <2>1
  <2>3. job[q] # Nobody /\ job[q].at = v /\ (Seen(q) \/ q \in early)
    BY <2>1, <2>2 DEF ExpInv, TaskHolds
  <2>4. job'[q] = job[q] /\ (Seen(q)' \/ q \in early')
    BY <1>9, <1>13, <1>14, <2>3
  <2> QED
    BY <2>1, <2>2, <2>3, <2>4 DEF Seen
<1>17. \A v \in Workers : /\ At(v, "execute")' <=> At(v, "execute")
                          /\ At(v, "execute") => task'[v] = task[v]
  BY <1>1, <1>3, <1>4 DEF At
<1>18. RowExists' /\ QueuedHasJob'
  <2>1. RowExists'
    BY <1>1, <1>4, <1>13, <1>17, <1>14 DEF ExpInv, RowExists, Seen
  <2>2. QueuedHasJob'
    BY <1>1, <1>9, <1>13 DEF ExpInv, QueuedHasJob, With
  <2> QED
    BY <2>1, <2>2
<1>19. RunningIsExecuted'
  BY <1>1, <1>4, <1>13, <1>17 DEF ExpInv, RunningIsExecuted, Executed, With
<1> QED
  BY <1>1, <1>10, <1>11, <1>16, <1>18, <1>19 DEF ExpInv, ExpTyped, RunsTyped, TicksTyped, StreamsTyped, OneTick,
                                                 StreamExists, Seen

\* A run that could be seen moves on, or none does.
RunGoesOn(r, status) == Seen(r) /\ RunMoved(r, status)

\* A worker lets go of its job: the job is settled or returns, and what the worker
\* executed has ended or is cut.
LEMMA LeaveKeeps ==
  ASSUME ExpConstants, ExpInv, NEW w \in Workers, task[w] # Nobody,
         task' = [task EXCEPT ![w] = Nobody],
         NEW j \in JobState \cup {Nobody}, job' = [job EXCEPT ![task[w].job] = j],
         UNCHANGED <<tick, stream, early>>, cut \subseteq cut', cut' \subseteq RunIds,
         run' = run \/ \E q \in RunIds : RunGoesOn(q, "ended"),
         j = Nobody => task[w].job \in early \cup cut' \/ task[w].job \notin With("queued")',
         At(w, "execute") => task[w].row \in cut' \/ task[w].row \notin With("running")'
  PROVE  ExpInv'
<1> DEFINE r == task[w].job
<1>1. r \in RunIds /\ job[r] # Nobody /\ run[r] # Nobody /\ job[r].at = w /\ (Seen(r) \/ r \in early)
  BY DEF ExpInv, ExpTyped, TasksTyped, TaskState, TaskHolds, JobHasRun
<1>2. job'[r] = j /\ \A q \in RunIds \ {r} : job'[q] = job[q]
  BY <1>1 DEF ExpInv, ExpTyped, JobsTyped
<1>3. task'[w] = Nobody /\ \A v \in Workers \ {w} : task'[v] = task[v]
  BY DEF ExpInv, ExpTyped, TasksTyped
<1>4. JobsTyped' /\ TasksTyped' /\ GhostsTyped'
  BY DEF ExpInv, ExpTyped, JobsTyped, TasksTyped, GhostsTyped
<1>5. RunsTyped' /\ \A q \in RunIds : /\ run[q] # Nobody => run'[q] # Nobody
                                      /\ Seen(q) => Seen(q)'
                                      /\ ~Seen(q) => run'[q] = run[q]
                                      /\ q \in With("queued")' => q \in With("queued")
                                      /\ q \in With("running")' => q \in With("running")
  BY DEF ExpInv, ExpTyped, RunGoesOn, RunMoved, Seen, With, RunsTyped
<1> HIDE DEF r
<1>6. SentIsFlushed'
  <2> SUFFICES ASSUME NEW s \in Schedulers, tick[s] # Nobody, NEW q \in tick[s].sent
               PROVE  q \in With("flushed")' /\ (job'[q] # Nobody \/ q \in early')
    BY DEF SentIsFlushed
  <2>1. q \in RunIds /\ q \in With("flushed") /\ (job[q] # Nobody \/ q \in early)
    BY DEF ExpInv, SentIsFlushed, With
  <2>2. ~Seen(q)
    BY <2>1 DEF With, Seen
  <2>3. q \in With("flushed")'
    BY <1>5, <2>1, <2>2 DEF With
  <2>4. q # r \/ q \in early
    BY <1>1, <2>2
  <2> QED
    BY <1>2, <2>1, <2>3, <2>4
<1>7. JobHasRun'
  BY <1>1, <1>2, <1>5 DEF ExpInv, JobHasRun
<1>8. \A v \in Workers \ {w} : task[v] # Nobody => task[v].job \in RunIds \ {r}
  BY <1>1 DEF ExpInv, ExpTyped, TasksTyped, TaskState, TaskHolds
<1>9. TaskHolds'
  BY <1>2, <1>3, <1>5, <1>8 DEF ExpInv, TaskHolds
<1>10. RowExists'
  BY <1>3, <1>5 DEF ExpInv, RowExists, At
<1>11. StreamExists'
  BY <1>5 DEF ExpInv, ExpTyped, StreamsTyped, StreamExists
<1>12. QueuedHasJob'
  <2> SUFFICES ASSUME NEW q \in With("queued")' PROVE job'[q] # Nobody \/ q \in early' \cup cut'
    BY DEF QueuedHasJob
  <2>1. q \in RunIds /\ (job[q] # Nobody \/ q \in early \cup cut)
    BY <1>5 DEF ExpInv, QueuedHasJob, With
  <2>2. CASE q = r
    BY <1>2, <2>2 DEF r
  <2> QED
    BY <1>2, <2>1, <2>2
<1>13. RunningIsExecuted'
  <2> SUFFICES ASSUME NEW q \in With("running")' PROVE Executed(q)' \/ q \in early' \cup cut'
    BY DEF RunningIsExecuted
  <2>1. q \in RunIds /\ (Executed(q) \/ q \in early \cup cut)
    BY <1>5 DEF ExpInv, RunningIsExecuted, With
  <2>2. ASSUME NEW v \in Workers, At(v, "execute"), task[v].row = q PROVE Executed(q)' \/ q \in cut'
    BY <1>3, <2>2 DEF Executed, At
  <2> QED
    BY <2>1, <2>2 DEF Executed
<1> QED
  BY <1>4, <1>5, <1>6, <1>7, <1>9, <1>10, <1>11, <1>12, <1>13 DEF ExpInv, ExpTyped, TicksTyped, StreamsTyped, OneTick


\* No run is lost from sight, and none becomes queued.
RunsGoOn ==
  /\ RunsTyped'
  /\ \A q \in RunIds : /\ run[q] # Nobody => run'[q] # Nobody
                       /\ Seen(q) => Seen(q)'
                       /\ run[q] # Nobody /\ ~Seen(q) => run'[q] = run[q]
                       /\ q \in With("queued")' => q \in With("queued")

LEMMA MovedGoesOn ==
  ASSUME RunsTyped, NEW r \in RunIds, Seen(r) \/ run[r] = Nobody, NEW status \in {"running", "ended"},
         RunMoved(r, status)
  PROVE  /\ RunsGoOn
         /\ \A q \in With("running")' : q \in With("running") \/ (q = r /\ status = "running")
<1>1. \A q \in RunIds \ {r} : Seen(q)' <=> Seen(q)
  BY DEF RunMoved, Seen
<1>2. Seen(r)'
  BY DEF RunMoved, Seen
<1>3. run[r] # Nobody => Seen(r)
  OBVIOUS
<1>4. \A q \in With("queued")' \cup With("running")' : q # r => q \in With("queued") \cup With("running")
                                                   /\ run'[q] = run[q]
  BY DEF RunMoved, With
<1>5. \A q \in With("queued")' : q \in With("queued")
  BY <1>4 DEF RunMoved, With
<1>6. \A q \in With("running")' : q \in With("running") \/ (q = r /\ status = "running")
  BY <1>4 DEF RunMoved, With
<1>7. ASSUME NEW q \in RunIds
      PROVE  /\ run[q] # Nobody => run'[q] # Nobody
             /\ Seen(q) => Seen(q)'
             /\ run[q] # Nobody /\ ~Seen(q) => run'[q] = run[q]
  <2>1. CASE q = r
    <3>1. run'[q] # Nobody /\ run'[q].status = status /\ status \notin {"flushed", "gone"}
      BY <2>1 DEF RunMoved
    <3>2. Seen(q)'
      BY <3>1 DEF Seen
    <3> QED
      BY <1>3, <2>1, <3>1, <3>2
  <2>2. CASE q # r
    BY <2>2 DEF RunMoved, Seen
  <2> QED
    BY <2>1, <2>2
<1> QED
  BY <1>5, <1>6, <1>7 DEF RunMoved, RunsGoOn

LEMMA StandsGoesOn ==
  ASSUME RunsTyped, UNCHANGED run
  PROVE  RunsGoOn /\ \A q \in With("running")' : q \in With("running")
BY DEF RunsTyped, RunsGoOn, Seen, With

\* What the schedulers have sent stays flushed.
LEMMA GoingOnKeepsSent ==
  ASSUME ExpInv, RunsGoOn, UNCHANGED <<tick, job, early>>
  PROVE  SentIsFlushed' /\ JobHasRun' /\ OneTick'
<1>1. \A q \in With("flushed") : run'[q] = run[q] /\ q \in With("flushed")'
  BY DEF RunsGoOn, Seen, With
<1>2. SentIsFlushed'
  BY <1>1 DEF ExpInv, SentIsFlushed
<1> QED
  BY <1>2 DEF ExpInv, OneTick, JobHasRun, RunsGoOn

\* A worker goes on with its job.
LEMMA StaysKeeps ==
  ASSUME ExpConstants, ExpInv, NEW w \in Workers, task[w] # Nobody,
         NEW t \in TaskState, t.job = task[w].job, task' = [task EXCEPT ![w] = t],
         UNCHANGED <<job, tick, stream, early>>, cut \subseteq cut', cut' \subseteq RunIds,
         RunsGoOn,
         t.at = "execute" => /\ t.row \in RunIds /\ Seen(t.row)'
                             /\ t.row = t.job \/ t.job \in early,
         At(w, "execute") => task[w].row \in cut' \/ task[w].row \notin With("running")',
         \A q \in With("running")' : q \in With("running") \/ (t.at = "execute" /\ t.row = q)
  PROVE  ExpInv'
<1>1. t # Nobody /\ task'[w] = t /\ \A v \in Workers \ {w} : task'[v] = task[v]
  BY DEF ExpInv, ExpTyped, TasksTyped, ExpConstants
<1>2. TasksTyped' /\ GhostsTyped'
  BY DEF ExpInv, ExpTyped, TasksTyped, GhostsTyped
<1>3. SentIsFlushed' /\ JobHasRun' /\ OneTick'
  BY GoingOnKeepsSent
<1>4. TaskHolds'
  <2>1. \A v \in Workers : task'[v] # Nobody => task[v] # Nobody /\ task'[v].job = task[v].job
    BY <1>1
  <2>2. \A v \in Workers : task[v] # Nobody => task[v].job \in RunIds
    BY DEF ExpInv, ExpTyped, TasksTyped, TaskState
  <2> QED
    BY <2>1, <2>2 DEF ExpInv, TaskHolds, RunsGoOn
<1>5. RowExists'
  <2>1. \A v \in Workers \ {w} : At(v, "execute")' => At(v, "execute")
    BY <1>1 DEF At
  <2>2. At(w, "execute")' => t.at = "execute"
    BY <1>1 DEF At
  <2>3. \A v \in Workers \ {w} : At(v, "execute") => task[v].row \in RunIds /\ Seen(task[v].row)'
    BY DEF ExpInv, RowExists, RunsGoOn
  <2>4. At(w, "execute")' => task'[w].row \in RunIds /\ Seen(task[w].row)'
    BY <1>1, <2>2 DEF Seen
  <2>5. \A v \in Workers : At(v, "execute")' => task'[v].row = task'[v].job \/ task'[v].job \in early'
    BY <1>1, <2>1, <2>2 DEF ExpInv, RowExists
  <2> QED
    BY <1>1, <2>1, <2>3, <2>4, <2>5 DEF RowExists, Seen
<1>6. StreamExists' /\ QueuedHasJob'
  <2>1. StreamExists'
    BY DEF ExpInv, ExpTyped, StreamsTyped, StreamExists, RunsGoOn
  <2>2. QueuedHasJob'
    BY DEF ExpInv, QueuedHasJob, RunsGoOn, With
  <2> QED
    BY <2>1, <2>2
<1>7. RunningIsExecuted'
  <2> SUFFICES ASSUME NEW q \in With("running")' PROVE Executed(q)' \/ q \in early' \cup cut'
    BY DEF RunningIsExecuted
  <2>1. CASE t.at = "execute" /\ t.row = q
    BY <1>1, <2>1 DEF Executed, At
  <2>2. CASE q \in With("running")
    <3>1. Executed(q) \/ q \in early \cup cut
      BY <2>2 DEF ExpInv, RunningIsExecuted
    <3>2. ASSUME NEW v \in Workers, At(v, "execute"), task[v].row = q PROVE Executed(q)' \/ q \in cut'
      BY <1>1, <3>2 DEF Executed, At
    <3> QED
      BY <3>1, <3>2 DEF Executed
  <2> QED
    BY <2>1, <2>2
<1> QED
  BY <1>2, <1>3, <1>4, <1>5, <1>6, <1>7 DEF ExpInv, ExpTyped, TicksTyped, StreamsTyped, JobsTyped, RunsGoOn


\* A stream begins or ends.
LEMMA StreamKeeps ==
  ASSUME ExpConstants, ExpInv, NEW u \in Users, NEW x \in RunIds \cup {Nobody},
         stream' = [stream EXCEPT ![u] = x],
         UNCHANGED <<job, tick, task, early>>, cut \subseteq cut', cut' \subseteq RunIds,
         RunsGoOn,
         x # Nobody => Seen(x)',
         stream[u] # Nobody => stream[u] \in cut' \/ stream[u] \notin With("running")',
         \A q \in With("running")' : q \in With("running") \/ x = q
  PROVE  ExpInv'
<1>1. stream'[u] = x /\ \A v \in Users \ {u} : stream'[v] = stream[v]
  BY DEF ExpInv, ExpTyped, StreamsTyped
<1>2. StreamsTyped' /\ GhostsTyped' /\ TasksTyped'
  BY DEF ExpInv, ExpTyped, StreamsTyped, GhostsTyped, TasksTyped
<1>3. SentIsFlushed' /\ JobHasRun' /\ OneTick'
  BY GoingOnKeepsSent
<1>4. TaskHolds'
  BY DEF ExpInv, ExpTyped, TasksTyped, TaskState, TaskHolds, RunsGoOn
<1>5. RowExists'
  BY DEF ExpInv, RowExists, RunsGoOn, At
<1>6. QueuedHasJob'
  BY DEF ExpInv, QueuedHasJob, RunsGoOn, With
<1>7. StreamExists'
  <2>1. \A v \in Users \ {u} : stream[v] # Nobody => stream[v] \in RunIds /\ Seen(stream[v])'
    BY <1>1 DEF ExpInv, ExpTyped, StreamsTyped, StreamExists, RunsGoOn, Seen
  <2> QED
    BY <1>1, <2>1 DEF StreamExists, Seen
<1>8. RunningIsExecuted'
  <2> SUFFICES ASSUME NEW q \in With("running")' PROVE Executed(q)' \/ q \in early' \cup cut'
    BY DEF RunningIsExecuted
  <2>1. CASE x = q
    BY <1>1, <2>1 DEF Executed
  <2>2. CASE q \in With("running")
    <3>1. Executed(q) \/ q \in early \cup cut
      BY <2>2 DEF ExpInv, RunningIsExecuted
    <3>2. ASSUME NEW v \in Users, stream[v] = q PROVE Executed(q)' \/ q \in cut'
      <4>1. q # Nobody
        BY DEF With, ExpConstants
      <4> QED
        BY <1>1, <3>2, <4>1 DEF Executed
    <3> QED
      BY <3>1, <3>2 DEF Executed, At
  <2> QED
    BY <2>1, <2>2
<1> QED
  BY <1>2, <1>3, <1>4, <1>5, <1>6, <1>7, <1>8 DEF ExpInv, ExpTyped, TicksTyped, JobsTyped, RunsGoOn

LEMMA StartStreamKeeps ==
  ASSUME ExpConstants, ExpInv, NEW u \in Users, NEW r \in RunIds, StartStream(u, r)
  PROVE  ExpInv'
<1>1. /\ stream[u] = Nobody /\ run[r] = Nobody
      /\ run' = [run EXCEPT ![r] = [user |-> u, status |-> "running"]]
      /\ stream' = [stream EXCEPT ![u] = r] /\ UNCHANGED <<job, tick, task, early, cut>>
  BY DEF StartStream, Unused
<1>2. RunsTyped
  BY DEF ExpInv, ExpTyped
<1>3. RunMoved(r, "running")
  BY <1>1, <1>2, RowMade
<1>4. RunsGoOn /\ \A q \in With("running")' : q \in With("running") \/ q = r
  BY <1>1, <1>2, <1>3, MovedGoesOn
<1>5. Seen(r)'
  BY <1>3 DEF RunMoved, Seen
<1>6. cut \subseteq cut' /\ cut' \subseteq RunIds
  BY <1>1 DEF ExpInv, ExpTyped, GhostsTyped
<1> QED
  BY <1>1, <1>4, <1>5, <1>6, StreamKeeps

LEMMA StopStreamKeeps ==
  ASSUME ExpConstants, ExpInv, NEW u \in Users, EndStream(u) \/ LeaveStream(u)
  PROVE  ExpInv'
<1>1. /\ stream[u] # Nobody /\ stream' = [stream EXCEPT ![u] = Nobody]
      /\ UNCHANGED <<job, tick, task, early>>
  BY DEF EndStream, LeaveStream
<1>2. RunsTyped /\ stream[u] \in RunIds /\ Seen(stream[u])
  BY <1>1 DEF ExpInv, ExpTyped, StreamsTyped, StreamExists
<1>3. PICK r \in RunIds : r = stream[u]
  BY <1>2
<1>4. CASE EndStream(u)
  <2>1. run' = [run EXCEPT ![r].status = "ended"] /\ UNCHANGED cut
    BY <1>3, <1>4 DEF EndStream, Finalize, EndRun
  <2>2. run[r] # Nobody /\ Seen(r)
    BY <1>2, <1>3 DEF Seen
  <2>3. RunMoved(r, "ended")
    BY <1>2, <2>1, <2>2, StatusMoved
  <2>4. RunsGoOn /\ \A q \in With("running")' : q \in With("running")
    BY <1>2, <2>2, <2>3, MovedGoesOn
  <2>5. r \notin With("running")'
    BY <2>3 DEF RunMoved, With
  <2>6. cut \subseteq cut' /\ cut' \subseteq RunIds
    BY <2>1 DEF ExpInv, ExpTyped, GhostsTyped
  <2> QED
    BY <1>1, <1>3, <2>4, <2>5, <2>6, StreamKeeps
<1>5. CASE LeaveStream(u)
  <2>1. UNCHANGED run /\ cut' = cut \cup {r}
    BY <1>3, <1>5 DEF LeaveStream
  <2>2. RunsGoOn /\ \A q \in With("running")' : q \in With("running")
    BY <1>2, <2>1, StandsGoesOn
  <2>3. cut \subseteq cut' /\ cut' \subseteq RunIds
    BY <2>1 DEF ExpInv, ExpTyped, GhostsTyped
  <2> QED
    BY <1>1, <1>3, <2>1, <2>2, <2>3, StreamKeeps
<1> QED
  BY <1>4, <1>5


\* What a worker that is at work has.
LEMMA AtWork ==
  ASSUME ExpInv, NEW w \in Workers, task[w] # Nobody
  PROVE  /\ task[w] \in TaskState
         /\ task[w].job \in RunIds /\ job[task[w].job] \in JobState /\ run[task[w].job] # Nobody
         /\ Seen(task[w].job) \/ task[w].job \in early
         /\ RunsTyped
BY DEF ExpInv, ExpTyped, TasksTyped, TaskState, TaskHolds, JobsTyped, JobHasRun

LEMMA ResumeKeeps ==
  ASSUME ExpConstants, ExpInv, NEW w \in Workers, Resume(w)
  PROVE  ExpInv'
<1>1. /\ task[w] # Nobody /\ task[w].at = "start" /\ task[w].job \in With("queued")
      /\ run' = [run EXCEPT ![task[w].job].status = "running"]
      /\ UNCHANGED <<job, tick, stream, early, cut>>
  BY DEF Resume, At
<1>2. task[w] \in TaskState /\ task[w].job \in RunIds /\ RunsTyped
  BY <1>1, AtWork
<1>3. PICK r \in RunIds : r = task[w].job
  BY <1>2
<1>4. LET n == [task[w] EXCEPT !.row = r, !.at = "execute"]
      IN  n \in TaskState /\ n.job = r /\ n.row = r /\ n.at = "execute"
  BY <1>2, <1>3 DEF TaskState
<1>5. PICK t \in TaskState : t = [task[w] EXCEPT !.row = r, !.at = "execute"]
                             /\ t.job = r /\ t.row = r /\ t.at = "execute"
  BY <1>4
<1>6. task' = [task EXCEPT ![w] = t]
  BY <1>3, <1>5 DEF Resume, ExpInv, ExpTyped, TasksTyped
<1>7. run[r] # Nobody /\ Seen(r) /\ run' = [run EXCEPT ![r].status = "running"]
  BY <1>1, <1>3 DEF With, Seen
<1>8. RunMoved(r, "running")
  BY <1>2, <1>7, StatusMoved
<1>9. RunsGoOn /\ \A q \in With("running")' : q \in With("running") \/ q = r
  BY <1>2, <1>7, <1>8, MovedGoesOn
<1>10. Seen(t.row)'
  BY <1>5, <1>8 DEF RunMoved, Seen
<1>11. cut \subseteq cut' /\ cut' \subseteq RunIds
  BY <1>1 DEF ExpInv, ExpTyped, GhostsTyped
<1>12. ~At(w, "execute")
  BY <1>1 DEF At
<1>13. /\ t.job = task[w].job
       /\ t.at = "execute" => /\ t.row \in RunIds /\ Seen(t.row)'
                              /\ t.row = t.job \/ t.job \in early
  BY <1>3, <1>5, <1>10
<1>14. \A q \in With("running")' : q \in With("running") \/ (t.at = "execute" /\ t.row = q)
  BY <1>5, <1>9
<1> QED
  BY <1>1, <1>6, <1>9, <1>11, <1>12, <1>13, <1>14, StaysKeeps

LEMMA CreateRunKeeps ==
  ASSUME ExpConstants, ExpInv, NEW w \in Workers, NEW own \in RunIds, CreateRun(w, own)
  PROVE  ExpInv'
<1>1. /\ task[w] # Nobody /\ task[w].at = "start" /\ ~Seen(task[w].job) /\ run[own] = Nobody
      /\ run' = [run EXCEPT ![own] = [user |-> job[task[w].job].user, status |-> "running"]]
      /\ UNCHANGED <<job, tick, stream, early, cut>>
  BY DEF CreateRun, At, Unused
<1>2. /\ task[w] \in TaskState /\ task[w].job \in early /\ RunsTyped
      /\ job[task[w].job].user \in Users
  BY <1>1, AtWork DEF JobState
<1>3. LET n == [task[w] EXCEPT !.row = own, !.at = "execute"]
      IN  n \in TaskState /\ n.job = task[w].job /\ n.row = own /\ n.at = "execute"
  BY <1>2 DEF TaskState
<1>4. PICK t \in TaskState : t = [task[w] EXCEPT !.row = own, !.at = "execute"]
                             /\ t.job = task[w].job /\ t.row = own /\ t.at = "execute"
  BY <1>3
<1>5. task' = [task EXCEPT ![w] = t]
  BY <1>4 DEF CreateRun, ExpInv, ExpTyped, TasksTyped
<1>6. PICK u \in Users : u = job[task[w].job].user
  BY <1>2
<1>7. run' = [run EXCEPT ![own] = [user |-> u, status |-> "running"]]
  BY <1>1, <1>6
<1>8. RunMoved(own, "running")
  BY <1>2, <1>7, RowMade
<1>9. RunsGoOn /\ \A q \in With("running")' : q \in With("running") \/ q = own
  BY <1>1, <1>2, <1>8, MovedGoesOn
<1>10. Seen(t.row)'
  BY <1>4, <1>8 DEF RunMoved, Seen
<1>11. cut \subseteq cut' /\ cut' \subseteq RunIds
  BY <1>1 DEF ExpInv, ExpTyped, GhostsTyped
<1>12. ~At(w, "execute")
  BY <1>1 DEF At
<1>13. /\ t.job = task[w].job
       /\ t.at = "execute" => /\ t.row \in RunIds /\ Seen(t.row)'
                              /\ t.row = t.job \/ t.job \in early
  BY <1>2, <1>4, <1>10
<1>14. \A q \in With("running")' : q \in With("running") \/ (t.at = "execute" /\ t.row = q)
  BY <1>4, <1>9
<1> QED
  BY <1>1, <1>5, <1>9, <1>11, <1>12, <1>13, <1>14, StaysKeeps

\* The handler raises, with its job still in hand.
LEMMA HandlerRaisesKeeps ==
  ASSUME ExpConstants, ExpInv, NEW w \in Workers, NEW lost \in BOOLEAN,
         CannotResume(w) \/ FailsAtStart(w, lost) \/ ConfigInvalid(w) \/ CannotFinalize(w)
  PROVE  ExpInv'
<1>1. task[w] # Nobody /\ UNCHANGED <<job, tick, stream, early>>
  BY DEF CannotResume, FailsAtStart, ConfigInvalid, CannotFinalize, At
<1>2. task[w] \in TaskState /\ RunsTyped
  BY <1>1, AtWork
<1>3. PICK b \in BOOLEAN : task' = [task EXCEPT ![w] = [task[w] EXCEPT !.at = "raised", !.broken = b]]
  <2>1. CASE CannotResume(w) \/ ConfigInvalid(w)
    <3>1. task' = [task EXCEPT ![w] = [task[w] EXCEPT !.at = "raised", !.broken = task[w].broken]]
      BY <2>1, <1>2 DEF CannotResume, ConfigInvalid, Goto, ExpInv, ExpTyped, TasksTyped, TaskState
    <3>2. task[w].broken \in BOOLEAN
      BY <1>2 DEF TaskState
    <3> QED
      BY <3>1, <3>2
  <2>2. CASE FailsAtStart(w, lost)
    BY <2>2 DEF FailsAtStart, ExpInv, ExpTyped, TasksTyped
  <2>3. CASE CannotFinalize(w)
    BY <2>3 DEF CannotFinalize, ExpInv, ExpTyped, TasksTyped
  <2> QED
    BY <2>1, <2>2, <2>3
<1>4. LET n == [task[w] EXCEPT !.at = "raised", !.broken = b]
      IN  n \in TaskState /\ n.job = task[w].job /\ n.at = "raised"
  BY <1>2 DEF TaskState
<1>5. PICK t \in TaskState : t = [task[w] EXCEPT !.at = "raised", !.broken = b]
                             /\ t.job = task[w].job /\ t.at = "raised"
  BY <1>4
<1>6. task' = [task EXCEPT ![w] = t]
  BY <1>3, <1>5
<1>7. ASSUME RunsGoOn, \A q \in With("running")' : q \in With("running"),
             cut \subseteq cut', cut' \subseteq RunIds,
             At(w, "execute") => task[w].row \in cut' \/ task[w].row \notin With("running")'
      PROVE  ExpInv'
  <2>1. t.at # "execute"
    BY <1>5
  <2>2. \A q \in With("running")' : q \in With("running") \/ (t.at = "execute" /\ t.row = q)
    BY <1>7
  <2>3. /\ t.job = task[w].job
        /\ t.at = "execute" => /\ t.row \in RunIds /\ Seen(t.row)'
                               /\ t.row = t.job \/ t.job \in early
    BY <1>5, <2>1
  <2> QED
    BY <1>1, <1>6, <1>7, <2>2, <2>3, StaysKeeps
<1>8. cut \subseteq RunIds
  BY DEF ExpInv, ExpTyped, GhostsTyped
<1>9. CASE CannotResume(w) \/ FailsAtStart(w, lost)
  <2>1. UNCHANGED <<run, cut>> /\ ~At(w, "execute")
    BY <1>9 DEF CannotResume, FailsAtStart, At
  <2>2. RunsGoOn /\ \A q \in With("running")' : q \in With("running")
    BY <1>2, <2>1, StandsGoesOn
  <2> QED
    BY <1>7, <1>8, <2>1, <2>2
<1>10. CASE ConfigInvalid(w) \/ CannotFinalize(w)
  <2>1. At(w, "execute") /\ task[w].row \in RunIds /\ Seen(task[w].row)
    BY <1>10 DEF ConfigInvalid, CannotFinalize, ExpInv, RowExists
  <2>2. PICK r \in RunIds : r = task[w].row
    BY <2>1
  <2>3. CASE ConfigInvalid(w)
    <3>1. run' = [run EXCEPT ![r].status = "ended"] /\ UNCHANGED cut
      BY <2>2, <2>3 DEF ConfigInvalid, EndRun
    <3>2. run[r] # Nobody /\ Seen(r)
      BY <2>1, <2>2 DEF Seen
    <3>3. RunMoved(r, "ended")
      BY <1>2, <3>1, <3>2, StatusMoved
    <3>4. RunsGoOn /\ \A q \in With("running")' : q \in With("running")
      BY <1>2, <3>2, <3>3, MovedGoesOn
    <3>5. r \notin With("running")'
      BY <3>3 DEF RunMoved, With
    <3> QED
      BY <1>7, <1>8, <2>2, <3>1, <3>4, <3>5
  <2>4. CASE CannotFinalize(w)
    <3>1. UNCHANGED run /\ cut' = cut \cup {r}
      BY <2>2, <2>4 DEF CannotFinalize
    <3>2. RunsGoOn /\ \A q \in With("running")' : q \in With("running")
      BY <1>2, <3>1, StandsGoesOn
    <3> QED
      BY <1>7, <1>8, <2>2, <3>1, <3>2
  <2> QED
    BY <1>10, <2>3, <2>4
<1> QED
  BY <1>9, <1>10

\* A run that is seen ends.
LEMMA EndMoves ==
  ASSUME ExpConstants, RunsTyped, NEW r \in RunIds, Seen(r), run' = [run EXCEPT ![r].status = "ended"]
  PROVE  RunGoesOn(r, "ended") /\ r \notin With("running")' /\ r \notin With("queued")'
<1>1. run[r] # Nobody
  BY DEF Seen
<1>2. RunMoved(r, "ended")
  BY <1>1, StatusMoved
<1> QED
  BY <1>2 DEF RunGoesOn, RunMoved, With

LEMMA RefuseKeeps ==
  ASSUME ExpConstants, ExpInv, NEW w \in Workers, Refuse(w)
  PROVE  ExpInv'
<1>1. /\ task[w] # Nobody /\ task[w].at = "start" /\ FailQueuedRun(task[w].job)
      /\ task' = [task EXCEPT ![w] = Nobody] /\ job' = [job EXCEPT ![task[w].job] = Nobody]
      /\ UNCHANGED <<tick, stream, early, cut>>
  BY DEF Refuse, At, JobDone
<1>2. RunsTyped /\ task[w].job \in RunIds
  BY <1>1, AtWork
<1>3. PICK r \in RunIds : r = task[w].job
  BY <1>2
<1>4. cut \subseteq cut' /\ cut' \subseteq RunIds /\ ~At(w, "execute")
  BY <1>1 DEF ExpInv, ExpTyped, GhostsTyped, At
<1>5. (run' = run \/ \E q \in RunIds : RunGoesOn(q, "ended")) /\ r \notin With("queued")'
  <2>1. CASE r \in With("queued")
    <3>1. Seen(r) /\ run' = [run EXCEPT ![r].status = "ended"]
      BY <1>1, <1>3, <2>1 DEF FailQueuedRun, EndRun, With, Seen
    <3> QED
      BY <1>2, <3>1, EndMoves
  <2>2. CASE r \notin With("queued")
    BY <1>1, <1>3, <2>2 DEF FailQueuedRun, With
  <2> QED
    BY <2>1, <2>2
<1> QED
  BY <1>1, <1>3, <1>4, <1>5, LeaveKeeps

LEMMA ExecuteKeeps ==
  ASSUME ExpConstants, ExpInv, NEW w \in Workers, Execute(w)
  PROVE  ExpInv'
<1>1. /\ task[w] # Nobody /\ At(w, "execute") /\ run' = [run EXCEPT ![task[w].row].status = "ended"]
      /\ task' = [task EXCEPT ![w] = Nobody] /\ job' = [job EXCEPT ![task[w].job] = Nobody]
      /\ UNCHANGED <<tick, stream, early, cut>>
  BY DEF Execute, At, JobDone, Finalize, EndRun
<1>2. RunsTyped /\ task[w].job \in RunIds
  BY <1>1, AtWork
<1>3. /\ task[w].row \in RunIds /\ Seen(task[w].row)
      /\ task[w].row = task[w].job \/ task[w].job \in early
  BY <1>1 DEF ExpInv, RowExists
<1>4. PICK r \in RunIds : r = task[w].row
  BY <1>3
<1>5. RunGoesOn(r, "ended") /\ r \notin With("running")' /\ r \notin With("queued")'
  <2>1. Seen(r) /\ run' = [run EXCEPT ![r].status = "ended"]
    BY <1>1, <1>3, <1>4
  <2> QED
    BY <1>2, <2>1, EndMoves
<1>6. cut \subseteq cut' /\ cut' \subseteq RunIds
  BY <1>1 DEF ExpInv, ExpTyped, GhostsTyped
<1>7. task[w].job \in early \cup cut' \/ task[w].job \notin With("queued")'
  BY <1>3, <1>4, <1>5
<1> QED
  BY <1>1, <1>4, <1>5, <1>6, <1>7, LeaveKeeps

LEMMA RaisedKeeps ==
  ASSUME ExpConstants, ExpInv, NEW w \in Workers, Raised(w)
  PROVE  ExpInv'
<1> DEFINE givenUp == job[task[w].job].attempts >= MaxAttempts
<1>1. /\ task[w] # Nobody /\ task[w].at = "raised"
      /\ IF givenUp /\ ~task[w].broken THEN FailQueuedRun(task[w].job) ELSE UNCHANGED run
      /\ job' = [job EXCEPT ![task[w].job] = IF givenUp THEN Nobody ELSE [@ EXCEPT !.at = "queue"]]
      /\ task' = [task EXCEPT ![w] = Nobody]
      /\ cut' = IF givenUp /\ task[w].broken THEN cut \cup {task[w].job} ELSE cut
      /\ UNCHANGED <<tick, stream, early>>
  BY DEF Raised, At
<1>2. RunsTyped /\ task[w].job \in RunIds /\ job[task[w].job] \in JobState
  BY <1>1, AtWork
<1> HIDE DEF givenUp
<1>3. PICK r \in RunIds : r = task[w].job
  BY <1>2
<1>4. [job[r] EXCEPT !.at = "queue"] \in JobState
  BY <1>2, <1>3 DEF JobState
<1>5. PICK j \in JobState \cup {Nobody} : /\ j = IF givenUp THEN Nobody ELSE [job[r] EXCEPT !.at = "queue"]
                                          /\ j = Nobody => givenUp
  BY <1>4 DEF ExpConstants
<1>6. job' = [job EXCEPT ![task[w].job] = j]
  BY <1>1, <1>3, <1>5 DEF ExpInv, ExpTyped, JobsTyped
<1>7. cut \subseteq cut' /\ cut' \subseteq RunIds /\ ~At(w, "execute")
  BY <1>1, <1>2 DEF ExpInv, ExpTyped, GhostsTyped, At
<1>8. /\ run' = run \/ \E q \in RunIds : RunGoesOn(q, "ended")
      /\ givenUp => r \in cut' \/ r \notin With("queued")'
  <2>1. CASE givenUp /\ ~task[w].broken /\ r \in With("queued")
    <3>1. Seen(r) /\ run' = [run EXCEPT ![r].status = "ended"]
      BY <1>1, <1>3, <2>1 DEF FailQueuedRun, EndRun, With, Seen
    <3> QED
      BY <1>2, <3>1, EndMoves
  <2>2. CASE givenUp /\ ~task[w].broken /\ r \notin With("queued")
    BY <1>1, <1>3, <2>2 DEF FailQueuedRun, With
  <2>3. CASE givenUp /\ task[w].broken
    BY <1>1, <1>3, <2>3
  <2>4. CASE ~givenUp
    BY <1>1, <2>4
  <2> QED
    BY <2>1, <2>2, <2>3, <2>4
<1>9. j = Nobody => task[w].job \in early \cup cut' \/ task[w].job \notin With("queued")'
  BY <1>3, <1>5, <1>8
<1> QED
  BY <1>1, <1>6, <1>7, <1>8, <1>9, LeaveKeeps

LEMMA WorkerDiesKeeps ==
  ASSUME ExpConstants, ExpInv, NEW w \in Workers, WorkerDies(w)
  PROVE  ExpInv'
<1>1. /\ task[w] # Nobody
      /\ job' = [job EXCEPT ![task[w].job].at = "queue"]
      /\ task' = [task EXCEPT ![w] = Nobody]
      /\ cut' = IF At(w, "execute") THEN cut \cup {task[w].row} ELSE cut
      /\ UNCHANGED <<run, tick, stream, early>>
  BY DEF WorkerDies
<1>2. task[w].job \in RunIds /\ job[task[w].job] \in JobState
  BY <1>1, AtWork
<1>3. [job[task[w].job] EXCEPT !.at = "queue"] \in JobState
  BY <1>2 DEF JobState
<1>4. PICK j \in JobState : j = [job[task[w].job] EXCEPT !.at = "queue"]
  BY <1>3
<1>5. job' = [job EXCEPT ![task[w].job] = j] /\ j # Nobody
  BY <1>1, <1>4 DEF ExpInv, ExpTyped, JobsTyped, ExpConstants
<1>6. At(w, "execute") => task[w].row \in RunIds
  BY DEF ExpInv, RowExists
<1>7. cut \subseteq cut' /\ cut' \subseteq RunIds /\ (At(w, "execute") => task[w].row \in cut')
  BY <1>1, <1>6 DEF ExpInv, ExpTyped, GhostsTyped
<1> QED
  BY <1>1, <1>5, <1>7, LeaveKeeps

LEMMA ComesDueKeeps ==
  ASSUME ExpInv, ComesDue \/ UNCHANGED expVars
  PROVE  ExpInv'
<1>1. UNCHANGED <<run, job, tick, task, stream, early, cut>>
  BY DEF ComesDue, expVars
<1> QED
  BY <1>1 DEF ExpInv, ExpTyped, RunsTyped, JobsTyped, TicksTyped, TasksTyped, StreamsTyped, GhostsTyped, OneTick,
              SentIsFlushed, JobHasRun, TaskHolds, RowExists, StreamExists, QueuedHasJob, RunningIsExecuted,
              Executed, With, Seen, At

------------------------------------------------------------------------------
\* An active run of an experience is in somebody's hands, unless its job was taken
\* before the run was committed or its end could not be written
\* (ExperienceSource.enqueue_due, ExperienceExecutor.execute_streaming).
THEOREM ActiveIsInHandHolds ==
  ASSUME ExpConstants
  PROVE  ExpSpec => []ActiveIsInHand
<1>1. ExpInit => ExpInv
  BY DEF ExpInit, ExpInv, ExpTyped, RunsTyped, JobsTyped, TicksTyped, TasksTyped, StreamsTyped, GhostsTyped,
         OneTick, SentIsFlushed, JobHasRun, TaskHolds, RowExists, StreamExists, QueuedHasJob, RunningIsExecuted,
         With, At
<1>2. ExpInv /\ [ExpNext]_expVars => ExpInv'
  <2> SUFFICES ASSUME ExpInv, [ExpNext]_expVars PROVE ExpInv'
    OBVIOUS
  <2>1. ASSUME NEW s \in Schedulers, StartTick(s) \/ CommitTick(s) \/ TickDies(s)
        PROVE  ExpInv'
    <3>1. CASE CommitTick(s)
      BY <3>1, TickEndsKeeps DEF CommitTick
    <3>2. CASE TickDies(s)
      BY <3>2, TickEndsKeeps DEF TickDies
    <3> QED
      BY <2>1, <3>1, <3>2, StartTickKeeps
  <2>2. ASSUME NEW s \in Schedulers, NEW u \in Users, PassUser(s, u) PROVE ExpInv'
    BY <2>2, PassUserKeeps
  <2>3. ASSUME NEW s \in Schedulers, NEW u \in Users, NEW r \in RunIds, EnqueueRun(s, u, r) PROVE ExpInv'
    BY <2>3, EnqueueRunKeeps
  <2>4. ASSUME NEW s \in Schedulers, NEW u \in Users, NEW r \in RunIds, NEW reached \in BOOLEAN,
               EnqueueRaises(s, u, r, reached)
        PROVE  ExpInv'
    BY <2>4, EnqueueRaisesKeeps
  <2>5. ASSUME NEW w \in Workers, NEW r \in RunIds, Take(w, r) \/ CreateRun(w, r) PROVE ExpInv'
    BY <2>5, TakeKeeps, CreateRunKeeps
  <2>6. ASSUME NEW w \in Workers,
               Refuse(w) \/ Resume(w) \/ Execute(w) \/ Raised(w) \/ WorkerDies(w)
        PROVE  ExpInv'
    BY <2>6, RefuseKeeps, ResumeKeeps, ExecuteKeeps, RaisedKeeps, WorkerDiesKeeps
  <2>7. ASSUME NEW w \in Workers, NEW lost \in BOOLEAN,
               CannotResume(w) \/ FailsAtStart(w, lost) \/ ConfigInvalid(w) \/ CannotFinalize(w)
        PROVE  ExpInv'
    BY <2>7, HandlerRaisesKeeps
  <2>8. ASSUME NEW u \in Users, NEW r \in RunIds, StartStream(u, r) PROVE ExpInv'
    BY <2>8, StartStreamKeeps
  <2>9. ASSUME NEW u \in Users, EndStream(u) \/ LeaveStream(u) PROVE ExpInv'
    BY <2>9, StopStreamKeeps
  <2>10. CASE ComesDue \/ UNCHANGED expVars
    BY <2>10, ComesDueKeeps
  <2>11. TRUE \in BOOLEAN
    OBVIOUS
  <2> QED
    BY <2>1, <2>2, <2>3, <2>4, <2>5, <2>6, <2>7, <2>8, <2>9, <2>10, <2>11 DEF ExpNext
<1>3. ExpInv => ActiveIsInHand
  BY DEF ExpInv, QueuedHasJob, RunningIsExecuted, Executed, ActiveIsInHand, InHand, At
<1> QED
  BY <1>1, <1>2, <1>3, PTL DEF ExpSpec
==============================================================================
