------------------------------ MODULE Accounts ------------------------------
(***************************************************************************)
(* Accounts, sessions and the links that are mailed: the endpoints of      *)
(* api/auth.py with auth/password_auth.py, services/user_service.py,       *)
(* services/email_verification_service.py,                                 *)
(* services/password_reset_service.py, auth/dependencies.py and            *)
(* auth/jwt_manager.py.  Mail is EmailDelivery.                            *)
(*                                                                         *)
(* A request runs in a transaction of its own at READ COMMITTED: it reads, *)
(* it writes (from then on its rows are locked and its mail is on the      *)
(* queue), and it commits.  A request that is refused, for a rate limit or *)
(* an expired token too, changes nothing here and is not a step.           *)
(* Passwords and times are numbers: the n-th of a user, the second.        *)
(***************************************************************************)
EXTENDS EmailDelivery

CONSTANTS Users,        \* the people, known by their addresses; an address has one account
          Gone,         \* the row of an account that was deleted
          Admin,        \* the address in settings.admin_emails, when it is set
          Requests,     \* the requests that may be under way at once
          Configs,      \* settings: records [autoActivate, adminEmails, emailOn : BOOLEAN]
          MaxClock,     \* bounds the seconds that pass
          MaxRequests   \* bounds the requests in all

VARIABLES config,    \* the settings of the deployment
          user,      \* user[u]: the row of u, or None
          link,      \* link[m]: the token that mail m carries, once committed
          session,   \* the refresh tokens handed out
          req,       \* req[r]: what request r has read and written
          clock,     \* the current second
          served,    \* requests so far
          known,     \* history: the reset links that worked when request r began
          ended      \* history: those of the requests that were answered since with a
                     \* new link, or with a new password

accountVars == <<config, user, link, session, req, clock, served, known, ended>>
vars == <<accountVars, mailVars>>

Account == [auth: {"password", "sso"}, admin: BOOLEAN, active: BOOLEAN, verified: BOOLEAN,
            pw: Nat, changed: Nat, identity: BOOLEAN]
Link == [kind: {"verify", "reset"}, of: Users, live: BOOLEAN]
Session == [of: Users, pw: Nat, iat: Nat, excused: BOOLEAN]
RequestState ==
  [op: {"register", "login", "refresh", "sso", "verify", "mailLink", "forgot", "reset", "change"},
   u: Users, row: Account \cup {None, Gone}, from: Mails \cup Session \cup {None}, first: BOOLEAN,
   wrote: BOOLEAN, mail: Mails \cup {None}, at: Nat, saw: SUBSET Mails]

AccountsTypeOK ==
  /\ EmailTypeOK
  /\ config \in Configs
  /\ user \in [Users -> Account \cup {None, Gone}]
  /\ link \in [Mails -> Link \cup {None}]
  /\ session \subseteq Session
  /\ req \in [Requests -> RequestState \cup {None}]
  /\ clock \in 1..MaxClock /\ served \in 0..MaxRequests
  /\ known \in [Requests -> SUBSET Mails] /\ ended \subseteq Mails

\* The User row that the services build; the password stamps password_changed_at.
NewAccount(auth, admin, active, verified) ==
  [auth |-> auth, admin |-> admin, active |-> active, verified |-> verified,
   pw |-> IF auth = "password" THEN 1 ELSE 0, changed |-> IF auth = "password" THEN clock ELSE 0,
   identity |-> FALSE]

\* A new deployment, or one at work: an administrator and other users.
AccountsInit ==
  /\ EmailInit
  /\ config \in Configs
  /\ clock = 1 /\ served = 0
  /\ user \in {[u \in Users |-> None],
               [u \in Users |-> NewAccount("password", u = Admin, TRUE, TRUE)]}
  /\ link = [m \in Mails |-> None]
  /\ session = {}
  /\ req = [r \in Requests |-> None]
  /\ known = [r \in Requests |-> {}] /\ ended = {}

-----------------------------------------------------------------------------
(* Requests. *)

Exists(u) == user[u] \notin {None, Gone}

\* The requests that have written rows of u. Only that for a reset link leaves
\* the row of u itself unlocked, to which its token refers.
Writing(u) == {q \in Requests : req[q] # None /\ req[q].wrote /\ req[q].u = u}
RowFree(u) == \A q \in Writing(u) : req[q].op = "forgot"

\* fetch_user and require_admin: an active administrator asks, who is not one of but.
AdminAsks(but) == \E x \in Users \ but : Exists(x) /\ user[x].active /\ user[x].admin

LiveLinks(u, kind) == {m \in Mails : link[m] # None /\ link[m].of = u /\ link[m].kind = kind /\ link[m].live}

\* A request reads what it decides by: the row of u, and a mail or a session.
Open(r, op, u, from) ==
  /\ req[r] = None /\ served < MaxRequests
  /\ served' = served + 1
  /\ req' = [req EXCEPT ![r] = [op |-> op, u |-> u, row |-> user[u], from |-> from,
               first |-> \A x \in Users : ~Exists(x),
               wrote |-> FALSE, mail |-> None, at |-> 0, saw |-> {}]]
  /\ known' = [known EXCEPT ![r] = IF op \in {"forgot", "reset"} THEN LiveLinks(u, "reset") ELSE {}]
  /\ UNCHANGED <<config, user, link, session, clock, ended, mailVars>>

Has(r, op, wrote) == req[r] # None /\ req[r].op = op /\ req[r].wrote = wrote
Close(r) == req' = [req EXCEPT ![r] = None] /\ known' = [known EXCEPT ![r] = {}]

\* A request fails, or its process dies: the database takes back what it wrote,
\* the queue keeps the job of its mail.
Rollback(r) ==
  /\ req[r] # None /\ mishaps < MaxMishaps
  /\ mishaps' = mishaps + 1
  /\ Close(r)
  /\ audit' = [m \in Mails |-> IF m = req[r].mail THEN "none" ELSE audit[m]]
  /\ UNCHANGED <<config, user, link, session, clock, served, ended, job, mailer, accepted, unmarked>>

\* An endpoint that locks the row of u, or whose writes do not depend on what
\* it has read, is one step.
AtOnce(u) ==
  /\ served < MaxRequests /\ served' = served + 1
  /\ RowFree(u)
  /\ UNCHANGED <<config, req, session, clock, known, ended, mailVars>>

-----------------------------------------------------------------------------
(* Sessions. *)

\* The password of u was changed since row was read, or a change of it is
\* stamped and not yet committed.
Overlapped(u, row) ==
  \/ ~Exists(u)
  \/ Exists(u) /\ user[u].pw # row.pw
  \/ \E q \in Writing(u) : req[q].op \in {"reset", "change"}

\* create_token_response: a session that rests on password pw of the user.
Mint(u, pw, excused) ==
  session' = session \cup {[of |-> u, pw |-> pw, iat |-> clock, excused |-> excused]}

\* is_token_revoked_by_password_change compares whole seconds.
RevokedLate(iat, changed) == iat + 1 < changed
Revoked(iat, changed) == iat < changed

\* What refresh_token asks of the row of the session's user.
MayRefresh(s, row) ==
  /\ row \notin {None, Gone}
  /\ row.active
  /\ ~Revoked(s.iat, row.changed)
  /\ config.emailOn /\ row.auth = "password" => row.verified

Refresh(r, s) == MayRefresh(s, user[s.of]) /\ Open(r, "refresh", s.of, s)

\* The new token keeps the standing of the one it came from.
AnswerRefresh(r) ==
  /\ Has(r, "refresh", FALSE)
  /\ LET s == req[r].from
         row == req[r].row
     IN Mint(s.of, s.pw, s.excused \/ s.iat = row.changed \/ Overlapped(s.of, row))
  /\ Close(r)
  /\ UNCHANGED <<config, user, link, clock, served, ended, mailVars>>

\* login_with_password and authenticate_user.
LoginPassword(r, u) ==
  /\ Exists(u) /\ user[u].auth = "password" /\ user[u].active
  /\ config.emailOn => user[u].verified
  /\ Open(r, "login", u, None)

\* The commit of last_login fails when the row is gone.
AnswerLogin(r) ==
  /\ Has(r, "login", FALSE) /\ RowFree(req[r].u)
  /\ IF Exists(req[r].u)
     THEN Mint(req[r].u, req[r].row.pw, Overlapped(req[r].u, req[r].row))
     ELSE UNCHANGED session
  /\ Close(r)
  /\ UNCHANGED <<config, user, link, clock, served, ended, mailVars>>

-----------------------------------------------------------------------------
(* Links by mail. *)

\* A new token, and with it a new idempotency key.
Fresh(m) ==
  /\ audit[m] = "none" /\ job[m] = NoJob /\ m \notin unmarked
  /\ \A w \in Mailers : mailer[w] # None => mailer[w].mail # m

\* _invalidate_outstanding stamps used_at.
InvalidateNone(seen) == link
Invalidate(seen) == [m \in Mails |-> IF m \in seen THEN [link[m] EXCEPT !.live = FALSE] ELSE link[m]]

\* The holder of mail m follows its link.
Followed(m) == m \in accepted /\ link[m] # None

\* The writes of a request that mails a link: earlier tokens saw are invalidated.
WriteLink(r, m, saw) ==
  /\ Fresh(m) /\ Send(m)
  /\ req' = [req EXCEPT ![r].wrote = TRUE, ![r].mail = m, ![r].saw = saw]
  /\ UNCHANGED known

\* The commit: the new token is live, those that were seen are spent.
CommitLink(r, kind) ==
  /\ link' = [Invalidate(req[r].saw) EXCEPT ![req[r].mail] = [kind |-> kind, of |-> req[r].u, live |-> TRUE]]
  /\ ended' = ended \cup known[r]
  /\ CommitAudit(req[r].mail)
  /\ Close(r)

\* request_reset: nothing is said, or done, for an account it does not suit.
RequestReset(r, u) ==
  /\ config.emailOn
  /\ Exists(u) /\ user[u].auth = "password" /\ user[u].active
  /\ Open(r, "forgot", u, None)

\* resend_from_token of the reset service: any token of the user will do.
ResendReset(r, m) ==
  /\ config.emailOn
  /\ Followed(m) /\ link[m].kind = "reset"
  /\ Exists(link[m].of) /\ user[link[m].of].auth = "password" /\ user[link[m].of].active
  /\ Open(r, "forgot", link[m].of, None)

\* _invalidate_outstanding sees what is committed; a user that is gone makes the
\* insertion fail.
WriteReset(r, m) ==
  /\ Has(r, "forgot", FALSE)
  /\ IF Exists(req[r].u)
     THEN WriteLink(r, m, LiveLinks(req[r].u, "reset"))
     ELSE Close(r) /\ UNCHANGED mailVars
  /\ UNCHANGED <<config, user, link, session, clock, served, ended>>

CommitReset(r) ==
  /\ Has(r, "forgot", TRUE)
  /\ CommitLink(r, "reset")
  /\ UNCHANGED <<config, user, session, clock, served>>

\* complete_reset reads the token and the user, and checks both.
FollowReset(r, m) ==
  /\ Followed(m) /\ link[m].kind = "reset" /\ link[m].live
  /\ Exists(link[m].of) /\ user[link[m].of].auth = "password"
  /\ Open(r, "reset", link[m].of, m)

\* _bump_password_changed_at: the second in which password_hash is assigned.
BumpPasswordChangedAt == clock

\* It hashes the password, stamps the change and invalidates the other tokens.
WriteNewPassword(r) ==
  /\ Has(r, "reset", FALSE) \/ Has(r, "change", FALSE)
  /\ RowFree(req[r].u)
  /\ IF Exists(req[r].u)
     THEN /\ req' = [req EXCEPT ![r].wrote = TRUE, ![r].at = BumpPasswordChangedAt,
                       ![r].saw = IF req[r].op = "reset" THEN LiveLinks(req[r].u, "reset") \cup {req[r].from} ELSE {}]
          /\ UNCHANGED known
     ELSE Close(r)
  /\ UNCHANGED <<config, user, link, session, clock, served, ended, mailVars>>

\* The commit of reset_password, change_password and reset_user_password.
CommitNewPassword(r) ==
  /\ Has(r, "reset", TRUE) \/ Has(r, "change", TRUE)
  /\ user' = [user EXCEPT ![req[r].u].pw = @ + 1, ![req[r].u].changed = req[r].at]
  /\ link' = Invalidate(req[r].saw)
  /\ ended' = ended \cup known[r]
  /\ Close(r)
  /\ UNCHANGED <<config, session, clock, served, mailVars>>

\* change_password of a user who knows the old one, and reset_user_password of
\* an administrator (_apply_new_password).
ChangePassword(r, u) ==
  /\ Exists(u) /\ user[u].auth = "password"
  /\ user[u].active \/ AdminAsks({})
  /\ Open(r, "change", u, None)

\* verify_token.
FollowVerification(r, m) ==
  /\ Followed(m) /\ link[m].kind = "verify" /\ link[m].live
  /\ Open(r, "verify", link[m].of, m)

CommitVerified(r) ==
  /\ Has(r, "verify", FALSE) /\ RowFree(req[r].u)
  /\ LET u == req[r].u
     IN IF Exists(u)
        THEN /\ user' = [user EXCEPT ![u].verified = TRUE]
             /\ link' = Invalidate(LiveLinks(u, "verify"))
        ELSE UNCHANGED <<user, link>>
  /\ Close(r)
  /\ UNCHANGED <<config, session, clock, served, ended, mailVars>>

\* resend, and resend_from_token with the token the row now holds.
ResendVerification(r, u) ==
  /\ config.emailOn
  /\ Exists(u) /\ user[u].auth = "password" /\ ~user[u].verified
  /\ Open(r, "mailLink", u, None)

\* issue_token overwrites the one token of the row.
IssueToken(r, m) ==
  /\ Has(r, "mailLink", FALSE) /\ RowFree(req[r].u)
  /\ IF Exists(req[r].u)
     THEN WriteLink(r, m, LiveLinks(req[r].u, "verify"))
     ELSE Close(r) /\ UNCHANGED mailVars
  /\ UNCHANGED <<config, user, link, session, clock, served, ended>>

CommitToken(r) ==
  /\ Has(r, "mailLink", TRUE)
  /\ CommitLink(r, "verify")
  /\ UNCHANGED <<config, user, session, clock, served>>

-----------------------------------------------------------------------------
(* New accounts. *)

\* determine_user_role.
RoleIsAdmin(u, first) == IF config.adminEmails THEN u = Admin ELSE first

\* register_user, for an address that is not in use. Above a hard limit of
\* users it is refused; above a soft one (over) the account starts inactive.
Register(r, u) == user[u] = None /\ Open(r, "register", u, None)

\* PasswordAuthService.create_user. Without verification it commits at once.
\* With it, the row is flushed and the token mailed before the one commit. The
\* insertion fails when the address was taken in between.
WriteRegistration(r, over, m) ==
  LET u == req[r].u
      admin == RoleIsAdmin(u, req[r].first)
      row == IF ~admin /\ config.emailOn
             THEN NewAccount("password", FALSE, config.autoActivate /\ ~over, FALSE)
             ELSE NewAccount("password", admin, admin, admin)
  IN /\ Has(r, "register", FALSE) /\ RowFree(u)
     /\ over => ~req[r].first
     /\ \/ /\ user[u] = None /\ ~admin /\ config.emailOn
           /\ Fresh(m) /\ Send(m)
           /\ req' = [req EXCEPT ![r].wrote = TRUE, ![r].mail = m, ![r].row = row]
           /\ UNCHANGED <<user, known>>
        \/ /\ user[u] = None /\ (admin \/ ~config.emailOn)
           /\ user' = [user EXCEPT ![u] = row]
           /\ Close(r) /\ UNCHANGED mailVars
        \/ /\ user[u] # None
           /\ Close(r) /\ UNCHANGED <<user, mailVars>>
     /\ UNCHANGED <<config, link, session, clock, served, ended>>

CommitRegistration(r) ==
  /\ Has(r, "register", TRUE)
  /\ user' = [user EXCEPT ![req[r].u] = req[r].row]
  /\ CommitLink(r, "verify")
  /\ UNCHANGED <<config, session, clock, served>>

\* authenticate_or_create_sso_user: a known identity logs in; an account of the
\* address that has no password gets the identity; otherwise an account is made.
LoginSSO(r, u) ==
  /\ user[u] # Gone
  /\ Exists(u) => user[u].active /\ (user[u].identity \/ user[u].auth = "sso")
  /\ Open(r, "sso", u, None)

\* is_active.
StartsActive(u, first) == RoleIsAdmin(u, first) \/ config.autoActivate

\* Its writes and commit (_ensure_provider_identity, _create_new_sso_user). An
\* address taken in between is answered with 409; a row that is gone fails.
AnswerSSO(r, over) ==
  LET u == req[r].u
      old == req[r].row
      active == StartsActive(u, req[r].first) /\ (over => RoleIsAdmin(u, req[r].first))
  IN /\ Has(r, "sso", FALSE) /\ RowFree(u)
     /\ over => ~req[r].first
     /\ \/ /\ old # None /\ Exists(u)
           /\ user' = [user EXCEPT ![u].identity = TRUE]
           /\ Mint(u, old.pw, Overlapped(u, old))
        \/ /\ old = None /\ user[u] = None
           /\ user' = [user EXCEPT ![u] =
                [NewAccount("sso", RoleIsAdmin(u, req[r].first), active, FALSE) EXCEPT !.identity = TRUE]]
           /\ IF active THEN Mint(u, 0, FALSE) ELSE UNCHANGED session
        \/ /\ (old = None) # (user[u] = None)
           /\ UNCHANGED <<user, session>>
     /\ Close(r)
     /\ UNCHANGED <<config, link, clock, served, ended, mailVars>>

\* create_user of an administrator: flushed, charged, then committed.
CreateUser(u, auth, admin) ==
  /\ AdminAsks({}) /\ user[u] = None
  /\ AtOnce(u)
  /\ user' = [user EXCEPT ![u] = NewAccount(auth, admin, TRUE, auth = "password")]
  /\ UNCHANGED link

-----------------------------------------------------------------------------
(* The administration of accounts. *)

\* update_user, under the lock of the row; an administrator may update itself.
UpdateUser(u, admin, active) ==
  /\ AdminAsks({}) /\ Exists(u)
  /\ AtOnce(u)
  /\ user' = [user EXCEPT ![u].admin = admin, ![u].active = active]
  /\ UNCHANGED link

\* activate_user, deactivate_user, and cp_set_user_active of the control plane.
ActivateUser(u) ==
  /\ AdminAsks({}) /\ Exists(u)
  /\ AtOnce(u)
  /\ user' = [user EXCEPT ![u].active = TRUE]
  /\ UNCHANGED link

DeactivateUser(u) ==
  /\ AdminAsks({u}) /\ Exists(u)
  /\ AtOnce(u)
  /\ user' = [user EXCEPT ![u].active = FALSE]
  /\ UNCHANGED link

SetUserActive(u, active) ==
  /\ {x \in Users : Exists(x)} = {u}
  /\ AtOnce(u)
  /\ user' = [user EXCEPT ![u].active = active]
  /\ UNCHANGED link

\* delete_user: tokens and identities go with the row, and it waits for every
\* transaction that refers to the row.
DeleteUser(u) ==
  /\ AdminAsks({u}) /\ Exists(u) /\ Writing(u) = {}
  /\ AtOnce(u)
  /\ user' = [user EXCEPT ![u] = Gone]
  /\ link' = Invalidate(LiveLinks(u, "verify") \cup LiveLinks(u, "reset"))

Tick ==
  /\ clock < MaxClock /\ clock' = clock + 1
  /\ UNCHANGED <<config, user, link, session, req, served, known, ended, mailVars>>

-----------------------------------------------------------------------------
Answer(r) ==
  \/ AnswerRefresh(r) \/ AnswerLogin(r)
  \/ \E over \in BOOLEAN : AnswerSSO(r, over)
  \/ \E m \in Mails : WriteReset(r, m) \/ IssueToken(r, m)
  \/ \E m \in Mails, over \in BOOLEAN : WriteRegistration(r, over, m)
  \/ CommitReset(r) \/ CommitToken(r) \/ CommitRegistration(r) \/ CommitVerified(r)
  \/ WriteNewPassword(r) \/ CommitNewPassword(r)

Ask(r) ==
  \/ \E s \in session : Refresh(r, s)
  \/ \E u \in Users : LoginPassword(r, u) \/ LoginSSO(r, u) \/ Register(r, u) \/ ChangePassword(r, u)
                      \/ RequestReset(r, u) \/ ResendVerification(r, u)
  \/ \E m \in Mails : FollowReset(r, m) \/ ResendReset(r, m) \/ FollowVerification(r, m)

Administrate ==
  \E u \in Users :
    \/ \E auth \in {"password", "sso"}, admin \in BOOLEAN : CreateUser(u, auth, admin)
    \/ \E admin, active \in BOOLEAN : UpdateUser(u, admin, active)
    \/ ActivateUser(u) \/ DeactivateUser(u) \/ DeleteUser(u)
    \/ \E active \in BOOLEAN : SetUserActive(u, active)

Next ==
  \/ \E r \in Requests : Ask(r) \/ Answer(r) \/ Rollback(r)
  \/ Administrate
  \/ Tick
  \/ EmailNext /\ UNCHANGED accountVars

Spec == AccountsInit /\ [][Next]_vars

-----------------------------------------------------------------------------
(* Properties. *)

\* A changed password ends the sessions that rest on an older one: none of them
\* can be refreshed, save those of the second of the change and those of
\* requests that overlapped it, with what was refreshed from these
\* (is_token_revoked_by_password_change, refresh_token).
OldSessionsEnd ==
  \A s \in session : MayRefresh(s, user[s.of]) /\ s.pw # user[s.of].pw =>
    s.excused \/ s.iat = user[s.of].changed

\* A request for a reset link, and a reset, leaves no link that worked when it
\* began alive once it is answered, however requests cross, fail and come late; so
\* two links of a user work at once only when each was asked for before the other
\* was there, and the next request or reset ends both (request_reset,
\* resend_from_token, complete_reset, _invalidate_outstanding).
EarlierLinksEnd == \A m \in ended : ~link[m].live

\* A link that reaches a mailbox is one the database knows, although the mail
\* is enqueued before the transaction that makes the link is committed.
MailedLinkExists == \A m \in accepted : link[m] # None

\* A mail whose request was committed is not forgotten: its row is marked, or a
\* delivery of its job is under way or to come, or the last delivery of the job
\* ended without a mark (handle_email_job).
MailAccountedFor ==
  \A m \in Mails : audit[m] = "queued" =>
    \/ job[m].waiting
    \/ \E w \in Mailers : mailer[w] # None /\ mailer[w].mail = m
    \/ m \in unmarked
=============================================================================
