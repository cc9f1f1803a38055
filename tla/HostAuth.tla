------------------------------ MODULE HostAuth ------------------------------
(***************************************************************************)
(* The account one user has connected at one provider, for plugins that    *)
(* act as the user: api/host_auth.py, the adapters of providers/google and *)
(* providers/microsoft, services/host_auth_service.py.                     *)
(*                                                                         *)
(* Every connection adds a credential and none replaces another: what runs *)
(* use is the credential written last, and a refresh writes too.  Identity *)
(* and credential are linked by an id without a foreign key.               *)
(***************************************************************************)
EXTENDS Integers, FiniteSets

CONSTANTS Exchanges,  \* POST /host/auth/exchange, each made once; also the id of its credential
          Runs,       \* runs of plugins that may be under way at once
          Plugins,
          Needs,      \* plugin -> the scopes of its operation
          Consents,   \* sets of scopes a user may grant
          MaxRuns, MaxTroubles,
          None

VARIABLES credentials, \* exchange -> [scopes, updated], or None
          identity,    \* the credential_id of the ProviderIdentity, or None
          subscribed,  \* plugins with a PluginSubscription
          exchange,    \* exchange -> "new", "stored", "named", "over"
          grant,       \* run -> [cred, scopes]: a refresh under way, or None
          clock,       \* of updated_at
          last,        \* ghost: the credential of the last consent, or None
          out,         \* ghost: disconnected, and no exchange has been under way since
          overlap,     \* ghost: consents stored while a refresh or an exchange was under way
          runs, troubles

hostVars == <<credentials, identity, subscribed, exchange, grant, clock, last, out, overlap,
              runs, troubles>>

HostInit ==
  /\ credentials = [e \in Exchanges |-> None] /\ identity = None
  /\ subscribed = {} /\ clock = 0
  /\ exchange = [e \in Exchanges |-> "new"] /\ grant = [r \in Runs |-> None]
  /\ last = None /\ out = FALSE /\ overlap = {} /\ runs = 0 /\ troubles = 0

Stored == {e \in Exchanges : credentials[e] # None}
UnderWay == {e \in Exchanges : exchange[e] \in {"stored", "named"}}
Trouble == troubles < MaxTroubles /\ troubles' = troubles + 1

\* ORDER BY updated_at DESC, the first
InUse == CHOOSE e \in Stored : \A f \in Stored : credentials[f].updated <= credentials[e].updated

Write(e, scopes) ==
  /\ clock' = clock + 1
  /\ credentials' = [credentials EXCEPT ![e] = [scopes |-> scopes, updated |-> clock + 1]]
-----------------------------------------------------------------------------
\* The provider gave tokens for what the user consented to; the row is committed.
\* A provider that refuses or answers without a refresh token leaves nothing.
Exchange(e) ==
  /\ exchange[e] = "new"
  /\ \E s \in Consents : Write(e, s)
  /\ exchange' = [exchange EXCEPT ![e] = "stored"]
  /\ last' = e /\ out' = FALSE
  /\ overlap' = IF UnderWay # {} \/ \E r \in Runs : grant[r] # None
                  THEN overlap \cup {e} ELSE overlap
  /\ UNCHANGED <<identity, subscribed, grant, runs, troubles>>

\* The account is written on the credential, if it is still there: otherwise the
\* session stays broken and the rest is given up.
NameAccount(e) ==
  /\ exchange[e] = "stored"
  /\ IF credentials[e] = None
       THEN exchange' = [exchange EXCEPT ![e] = "over"] /\ UNCHANGED <<clock, credentials>>
       ELSE exchange' = [exchange EXCEPT ![e] = "named"] /\ Write(e, credentials[e].scopes)
  /\ UNCHANGED <<identity, subscribed, grant, last, out, overlap, runs, troubles>>

UpsertIdentity(e) ==
  /\ exchange[e] = "named"
  /\ identity' = e /\ exchange' = [exchange EXCEPT ![e] = "over"]
  /\ UNCHANGED <<credentials, subscribed, grant, clock, last, out, overlap, runs, troubles>>

\* userinfo fails, or the process dies: the credential stays without an identity.
ExchangeEnds(e) ==
  /\ e \in UnderWay /\ Trouble
  /\ exchange' = [exchange EXCEPT ![e] = "over"]
  /\ UNCHANGED <<credentials, identity, subscribed, grant, clock, last, out, overlap, runs>>

Disconnect ==
  /\ Stored # {} \/ identity # None
  /\ credentials' = [e \in Exchanges |-> None] /\ identity' = None
  /\ last' = None /\ out' = (UnderWay = {})
  /\ UNCHANGED <<subscribed, exchange, grant, clock, overlap, runs, troubles>>

Subscribe(p) ==
  /\ p \notin subscribed /\ subscribed' = subscribed \cup {p}
  /\ UNCHANGED <<credentials, identity, exchange, grant, clock, last, out, overlap, runs, troubles>>

Unsubscribe(p) ==
  /\ p \in subscribed /\ subscribed' = subscribed \ {p}
  /\ UNCHANGED <<credentials, identity, exchange, grant, clock, last, out, overlap, runs, troubles>>
-----------------------------------------------------------------------------
\* A user without any subscription is not held to one.
MayRun(p) == subscribed = {} \/ p \in subscribed

\* user_token: the credential in use is the only one asked, and it is refreshed for
\* every token.
UserToken(r, p) ==
  /\ grant[r] = None /\ runs < MaxRuns /\ runs' = runs + 1
  /\ MayRun(p) /\ Stored # {} /\ Needs[p] \subseteq credentials[InUse].scopes
  /\ grant' = [grant EXCEPT ![r] = [cred |-> InUse, scopes |-> credentials[InUse].scopes]]
  /\ UNCHANGED <<credentials, identity, subscribed, exchange, clock, last, out, overlap, troubles>>

\* Slip: the row is written whether or not it is still there.
StoreAnyway(r) == Write(grant[r].cred, grant[r].scopes)
\* An update of a row that is gone fails and is rolled back; the token is good all the same.
StoreToken(r) ==
  IF credentials[grant[r].cred] = None THEN UNCHANGED <<clock, credentials>>
  ELSE Write(grant[r].cred, credentials[grant[r].cred].scopes)

Renewed(r) ==
  /\ grant[r] # None
  /\ StoreToken(r)
  /\ grant' = [grant EXCEPT ![r] = None]
  /\ UNCHANGED <<identity, subscribed, exchange, last, out, overlap, runs, troubles>>

\* The provider refuses, or the token does not cover the scopes: no token.
NotRefreshed(r) ==
  /\ grant[r] # None /\ Trouble
  /\ grant' = [grant EXCEPT ![r] = None]
  /\ UNCHANGED <<credentials, identity, subscribed, exchange, clock, last, out, overlap, runs>>

HostNext ==
  \/ \E e \in Exchanges : Exchange(e) \/ NameAccount(e) \/ UpsertIdentity(e) \/ ExchangeEnds(e)
  \/ Disconnect
  \/ \E p \in Plugins : Subscribe(p) \/ Unsubscribe(p) \/ \E r \in Runs : UserToken(r, p)
  \/ \E r \in Runs : Renewed(r) \/ NotRefreshed(r)

HostSpec == HostInit /\ [][HostNext]_hostVars
-----------------------------------------------------------------------------
\* check_plugin_user_auth, what experiences ask before they run: the scopes of all
\* credentials together.
CheckPasses(p) ==
  /\ MayRun(p) /\ Stored # {}
  /\ Needs[p] \subseteq UNION {credentials[e].scopes : e \in Stored}

\* What the user decided last stands, whatever refresh was under way.  After a
\* disconnection nothing is stored again until the user connects again; and after a
\* new consent runs use its credential, however often they refresh it, save when a
\* refresh or another exchange was under way, whose later write puts an older
\* credential first again.
DisconnectEnds == out => Stored = {} /\ identity = None
LastConsentCounts == last # None /\ last \notin overlap => InUse = last

LastDecisionStands == DisconnectEnds /\ LastConsentCounts

\* check_plugin_user_auth: checks against the same source as the execution path.
CheckAgrees == \A p \in Plugins : CheckPasses(p) => Needs[p] \subseteq credentials[InUse].scopes
=============================================================================
