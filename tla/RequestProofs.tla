--------------------------- MODULE RequestProofs ----------------------------
(***************************************************************************)
(* For any users, requests, workers and settings: mails, links and         *)
(* sessions of Accounts; runs of ExperienceDefinitions; titles and files   *)
(* of Conversations; rounds of ProviderStreams; what is read and embedded  *)
(* anew of the Library.                                                    *)
(***************************************************************************)
EXTENDS Accounts, ExperienceDefinitions, Conversations, ProviderStreams,
        Library, FiniteSetTheorems, TLAPS

\* The markers are told from the records and from each other, and a job is tried.
Assumed ==
  /\ None \notin Mails \cup Account \cup Delivery \cup Link \cup RequestState \cup Session
  /\ Gone \notin Account /\ Gone # None
  /\ MaxAttempts \in Nat \ {0}

------------------------------------------------------------------------------
(***************************************************************************)
(* Mail.                                                                   *)
(***************************************************************************)
Unseen == {"none", "pending"}

MailTyped ==
  /\ audit \in [Mails -> {"none", "pending", "queued", "sent", "failed"}]
  /\ job \in [Mails -> [waiting: BOOLEAN, tries: Nat]]
  /\ mailer \in [Mailers -> Delivery \cup {None}]

\* A delivery of the job of m is to come or under way, or the last one is over.
Covered(m) ==
  \/ job[m].waiting
  \/ \E w \in Mailers : mailer[w] # None /\ mailer[w].mail = m
  \/ m \in unmarked

\* An open row is covered before it is committed; a mail is handed to a
\* transport only when its row is committed.
MailInv ==
  /\ MailTyped
  /\ \A m \in Mails : audit[m] \in {"pending", "queued"} => Covered(m)
  /\ \A w \in Mailers : mailer[w] # None /\ mailer[w].pc # "read" => audit[mailer[w].mail] \notin Unseen

\* A row others do not see yet stays as it is, one they see stays seen.
AuditMoves ==
  \A m \in Mails : /\ audit[m] \in Unseen => audit'[m] = audit[m]
                   /\ audit[m] \notin Unseen => audit'[m] \notin Unseen

\* The worker leaves mail m, and every other mail is covered as it was.
LEMMA LeaveKeepsOthers ==
  ASSUME MailTyped, None \notin Delivery, NEW w \in Mailers, mailer[w] # None,
         mailer' = [mailer EXCEPT ![w] = None],
         NEW j \in [waiting: BOOLEAN, tries: Nat],
         job' = [job EXCEPT ![mailer[w].mail] = j],
         unmarked \subseteq unmarked'
  PROVE  /\ mailer' \in [Mailers -> Delivery \cup {None}]
         /\ job' \in [Mails -> [waiting: BOOLEAN, tries: Nat]]
         /\ \A m \in Mails : m # mailer[w].mail /\ Covered(m) => Covered(m)'
         /\ \A v \in Mailers : mailer'[v] # None => mailer'[v] = mailer[v]
<1>1. mailer' \in [Mailers -> Delivery \cup {None}]
  BY DEF MailTyped
<1>2. job' \in [Mails -> [waiting: BOOLEAN, tries: Nat]]
  BY DEF MailTyped
<1>3. \A v \in Mailers : v # w => mailer'[v] = mailer[v]
  BY DEF MailTyped
<1>4. \A v \in Mailers : mailer'[v] # None => mailer'[v] = mailer[v]
  BY <1>3 DEF MailTyped
<1>5. \A m \in Mails : m # mailer[w].mail => job'[m] = job[m]
  BY DEF MailTyped
<1> QED
  BY <1>1, <1>2, <1>3, <1>4, <1>5 DEF Covered

\* A delivery that is rejected leaves its mail covered, or its row closed.
LEMMA RejectKeeps ==
  ASSUME MailTyped, Assumed, NEW w \in Mailers, mailer[w] # None, NEW row, Reject(w, row)
  PROVE  /\ mailer' \in [Mailers -> Delivery \cup {None}]
         /\ job' \in [Mails -> [waiting: BOOLEAN, tries: Nat]]
         /\ \A m \in Mails : m # mailer[w].mail /\ Covered(m) => Covered(m)'
         /\ \A v \in Mailers : mailer'[v] # None => mailer'[v] = mailer[v]
         /\ row \in {"none", "pending", "queued"} =>
              \A m \in Mails : m = mailer[w].mail => Covered(m)'
<1>0. PICK m \in Mails : m = mailer[w].mail
  BY DEF MailTyped, Delivery
<1> DEFINE again == mailer[w].tries < MaxAttempts
           j == IF again THEN [waiting |-> TRUE, tries |-> mailer[w].tries] ELSE job[m]
<1>1. job[m] \in [waiting: BOOLEAN, tries: Nat] /\ mailer[w].tries \in Nat
  BY DEF MailTyped, Delivery
<1>2. j \in [waiting: BOOLEAN, tries: Nat] /\ (again => j.waiting)
  <2>1. CASE again
    BY <1>1, <2>1
  <2>2. CASE ~again
    BY <1>1, <2>2
  <2> QED
    BY <2>1, <2>2
<1>3. job' = [job EXCEPT ![m] = j]
  BY <1>0, <1>1 DEF Reject, PutBack, MailTyped
<1>4. mailer' = [mailer EXCEPT ![w] = None] /\ unmarked \subseteq unmarked'
  BY DEF Reject
<1>5. row \in {"none", "pending", "queued"} /\ ~again => m \in unmarked'
  BY <1>0 DEF Reject
<1>6. job'[m] = j
  BY <1>3 DEF MailTyped
<1>7. row \in {"none", "pending", "queued"} => Covered(m)'
  <2> HIDE DEF j, again
  <2>1. CASE again
    BY <1>2, <1>6, <2>1 DEF Covered
  <2>2. CASE ~again
    BY <1>5, <2>2 DEF Covered
  <2> QED
    BY <2>1, <2>2
<1> HIDE DEF j
<1> QED
  BY <1>0, <1>2, <1>3, <1>4, <1>7, LeaveKeepsOthers DEF Assumed

LEMMA DeliverKeeps ==
  ASSUME MailInv, Assumed, NEW w \in Mailers, Deliver(w) \/ EmailFails(w)
  PROVE  MailInv' /\ AuditMoves
<1> USE DEF MailInv
<1>0. /\ mailer[w] # None => mailer[w] \in Delivery /\ mailer[w].mail \in Mails
      /\ MaxAttempts \in Nat /\ None \notin Delivery
  BY DEF MailTyped, Delivery, Assumed
<1>1. ASSUME NEW m \in Mails, Dequeue(w, m)
      PROVE  MailInv' /\ AuditMoves
  <2>1. job[m] \in [waiting: BOOLEAN, tries: Nat]
    BY <1>1 DEF Dequeue, MailTyped
  <2>2. job' = [job EXCEPT ![m] = [waiting |-> FALSE, tries |-> 0]]
    BY <1>1 DEF Dequeue, NoJob
  <2>3. job' \in [Mails -> [waiting: BOOLEAN, tries: Nat]] /\ \A n \in Mails : n # m => job'[n] = job[n]
    BY <2>1, <2>2 DEF MailTyped
  <2>4. [mail |-> m, tries |-> job[m].tries + 1, pc |-> "read"] \in Delivery
    BY <2>1, <1>0 DEF Delivery
  <2>5. /\ mailer' \in [Mailers -> Delivery \cup {None}]
        /\ mailer'[w] # None /\ mailer'[w].mail = m /\ mailer'[w].pc = "read"
        /\ \A v \in Mailers : v # w => mailer'[v] = mailer[v]
    BY <1>0, <1>1, <2>4 DEF Dequeue, MailTyped
  <2>6. UNCHANGED <<audit, unmarked>> /\ mailer[w] = None
    BY <1>1 DEF Dequeue
  <2>7. \A n \in Mails : Covered(n) => Covered(n)'
    BY <2>3, <2>5, <2>6 DEF Covered
  <2> QED
    BY <2>3, <2>5, <2>6, <2>7 DEF MailTyped, AuditMoves
<1>2. ASSUME mailer[w] # None, NEW row, Reject(w, row),
             audit' = [audit EXCEPT ![mailer[w].mail] = row],
             row \in {"none", "pending", "queued", "sent", "failed"},
             audit[mailer[w].mail] \in Unseen => row = audit[mailer[w].mail],
             audit[mailer[w].mail] \notin Unseen => row \notin Unseen
      PROVE  MailInv' /\ AuditMoves
  <2>1. /\ audit' \in [Mails -> {"none", "pending", "queued", "sent", "failed"}]
        /\ audit'[mailer[w].mail] = row
        /\ \A m \in Mails : m # mailer[w].mail => audit'[m] = audit[m]
    BY <1>0, <1>2 DEF MailTyped
  <2>2. AuditMoves
    BY <1>2, <2>1 DEF AuditMoves
  <2>3. MailTyped'
    BY <1>2, <2>1, RejectKeeps DEF MailTyped
  <2>4. \A m \in Mails : audit'[m] \in {"pending", "queued"} => Covered(m)'
    <3> SUFFICES ASSUME NEW m \in Mails, audit'[m] \in {"pending", "queued"}
                 PROVE  Covered(m)'
      OBVIOUS
    <3>1. CASE m = mailer[w].mail
      BY <1>2, <2>1, <3>1, RejectKeeps
    <3>2. CASE m # mailer[w].mail
      BY <1>2, <2>1, <3>2, RejectKeeps
    <3> QED
      BY <3>1, <3>2
  <2>5. \A v \in Mailers : mailer'[v] # None => mailer'[v] = mailer[v] /\ mailer[v].mail \in Mails
    BY <1>2, RejectKeeps DEF MailTyped, Delivery, Assumed
  <2>6. \A v \in Mailers : mailer'[v] # None /\ mailer'[v].pc # "read" => audit'[mailer'[v].mail] \notin Unseen
    BY <2>2, <2>5 DEF AuditMoves
  <2> QED
    BY <2>2, <2>3, <2>4, <2>6
<1>3. ASSUME mailer[w] # None, Reject(w, audit[mailer[w].mail]), UNCHANGED audit
      PROVE  MailInv' /\ AuditMoves
  BY <1>0, <1>2, <1>3 DEF MailTyped
<1>4. ASSUME mailer[w] # None, mailer' = [mailer EXCEPT ![w] = None], UNCHANGED <<job, unmarked>>,
             NEW row \in {"sent", "failed"}, audit' = [audit EXCEPT ![mailer[w].mail] = row],
             audit[mailer[w].mail] \notin Unseen
      PROVE  MailInv' /\ AuditMoves
  <2>1. /\ audit' \in [Mails -> {"none", "pending", "queued", "sent", "failed"}]
        /\ audit'[mailer[w].mail] = row
        /\ \A m \in Mails : m # mailer[w].mail => audit'[m] = audit[m]
    BY <1>0, <1>4 DEF MailTyped
  <2>2. AuditMoves
    BY <1>4, <2>1 DEF AuditMoves, Unseen
  <2>3. job' = [job EXCEPT ![mailer[w].mail] = job[mailer[w].mail]]
        /\ job[mailer[w].mail] \in [waiting: BOOLEAN, tries: Nat]
    BY <1>0, <1>4 DEF MailTyped
  <2>4. /\ mailer' \in [Mailers -> Delivery \cup {None}]
        /\ job' \in [Mails -> [waiting: BOOLEAN, tries: Nat]]
        /\ \A m \in Mails : m # mailer[w].mail /\ Covered(m) => Covered(m)'
        /\ \A v \in Mailers : mailer'[v] # None => mailer'[v] = mailer[v]
    BY <1>0, <1>4, <2>3, LeaveKeepsOthers
  <2>5. MailTyped'
    BY <2>1, <2>4 DEF MailTyped
  <2>6. \A v \in Mailers : mailer'[v] # None /\ mailer'[v].pc # "read" => audit'[mailer'[v].mail] \notin Unseen
    BY <2>2, <2>4 DEF AuditMoves, MailTyped, Delivery
  <2> QED
    BY <1>4, <2>1, <2>2, <2>4, <2>5, <2>6
<1>5. CASE RowNotVisible(w)
  BY <1>3, <1>5 DEF RowNotVisible
<1>6. ASSUME ReadRow(w), audit[mailer[w].mail] # "queued"
      PROVE  MailInv' /\ AuditMoves
  <2>1. /\ mailer[w] # None /\ audit[mailer[w].mail] \in {"sent", "failed"}
        /\ mailer' = [mailer EXCEPT ![w] = None] /\ UNCHANGED <<job, unmarked, audit>>
    BY <1>0, <1>6 DEF ReadRow, Acknowledge, MailTyped, Unseen
  <2>2. audit' = [audit EXCEPT ![mailer[w].mail] = audit[mailer[w].mail]]
    BY <2>1 DEF MailTyped
  <2> QED
    BY <1>4, <2>1, <2>2 DEF Unseen
<1>7. ASSUME mailer[w] # None, NEW p \in {"send", "sent", "failed"}, mailer' = [mailer EXCEPT ![w].pc = p],
             UNCHANGED <<audit, job, unmarked>>, audit[mailer[w].mail] \notin Unseen
      PROVE  MailInv' /\ AuditMoves
  <2>1. mailer'[w] = [mailer[w] EXCEPT !.pc = p]
    BY <1>7 DEF MailTyped
  <2>2. mailer'[w] \in Delivery /\ mailer'[w].mail = mailer[w].mail
    BY <1>0, <1>7, <2>1 DEF Delivery
  <2>3. \A v \in Mailers : v # w => mailer'[v] = mailer[v]
    BY <1>7 DEF MailTyped
  <2>4. mailer' \in [Mailers -> Delivery \cup {None}]
    BY <1>7, <2>2, <2>3 DEF MailTyped
  <2>5. \A m \in Mails : Covered(m) => Covered(m)'
    BY <1>0, <1>7, <2>2, <2>3 DEF Covered
  <2> QED
    BY <1>7, <2>2, <2>3, <2>4, <2>5 DEF MailTyped, AuditMoves
<1>8. ASSUME ReadRow(w), audit[mailer[w].mail] = "queued"
      PROVE  MailInv' /\ AuditMoves
  BY <1>7, <1>8 DEF ReadRow, Unseen
<1>9. ASSUME NEW result \in {"sent", "failed"}, Transport(w, result)
      PROVE  MailInv' /\ AuditMoves
  BY <1>7, <1>9 DEF Transport
<1>10. ASSUME NEW taken \in BOOLEAN, NEW marks \in BOOLEAN, TransportRaises(w, taken, marks)
       PROVE  MailInv' /\ AuditMoves
  <2> DEFINE row == IF mailer[w].tries >= MaxAttempts /\ marks THEN "failed" ELSE audit[mailer[w].mail]
  <2>1. /\ mailer[w] # None /\ mailer[w].pc = "send"
        /\ audit' = [audit EXCEPT ![mailer[w].mail] = row] /\ Reject(w, row)
    BY <1>10 DEF TransportRaises
  <2>2. audit[mailer[w].mail] \notin Unseen
    BY <2>1
  <2>3. row \in {"none", "pending", "queued", "sent", "failed"} /\ row \notin Unseen
    BY <1>0, <2>1, <2>2 DEF MailTyped, Unseen
  <2> HIDE DEF row
  <2> QED
    BY <1>2, <2>1, <2>2, <2>3
<1>11. CASE Mark(w)
  <2>1. mailer[w] # None /\ mailer[w].pc \in {"sent", "failed"}
    BY <1>11 DEF Mark
  <2> QED
    BY <1>4, <1>11, <2>1 DEF Mark, Acknowledge
<1>12. CASE MarkRaises(w)
  BY <1>3, <1>12 DEF MarkRaises
<1>13. ASSUME NEW dies \in BOOLEAN, Redeliver(w, dies)
       PROVE  MailInv' /\ AuditMoves
  <2>0. PICK m \in Mails : m = mailer[w].mail
    BY <1>0, <1>13 DEF Redeliver
  <2>1. /\ job' = [job EXCEPT ![m] = [waiting |-> TRUE, tries |-> mailer[w].tries]]
        /\ mailer' = [mailer EXCEPT ![w] = IF dies THEN None ELSE @] /\ UNCHANGED <<unmarked, audit>>
    BY <2>0, <1>13 DEF Redeliver, PutBack
  <2>2. job'[m] = [waiting |-> TRUE, tries |-> mailer[w].tries] /\ mailer[w].tries \in Nat
    BY <1>0, <1>13, <2>1 DEF Redeliver, MailTyped, Delivery
  <2>3. job'[m].waiting /\ job'[m] \in [waiting: BOOLEAN, tries: Nat]
    BY <2>2
  <2>4. \A n \in Mails : n # m => job'[n] = job[n]
    BY <2>1 DEF MailTyped
  <2>5. job' \in [Mails -> [waiting: BOOLEAN, tries: Nat]]
    BY <2>1, <2>3, <2>4 DEF MailTyped
  <2>6. /\ mailer' \in [Mailers -> Delivery \cup {None}]
        /\ \A v \in Mailers : mailer'[v] # None => mailer'[v] = mailer[v]
        /\ \A v \in Mailers : v # w => mailer'[v] = mailer[v]
    BY <2>1 DEF MailTyped
  <2>7. \A n \in Mails : Covered(n) => Covered(n)'
    <3> SUFFICES ASSUME NEW n \in Mails, Covered(n)
                 PROVE  Covered(n)'
      OBVIOUS
    <3>1. CASE n = m
      BY <2>3, <3>1 DEF Covered
    <3>2. CASE n # m
      BY <2>0, <2>1, <2>4, <2>6, <3>2 DEF Covered
    <3> QED
      BY <3>1, <3>2
  <2> QED
    BY <2>1, <2>5, <2>6, <2>7 DEF MailTyped, AuditMoves
<1> QED
  BY <1>1, <1>5, <1>6, <1>8, <1>9, <1>10, <1>11, <1>12, <1>13 DEF Deliver, EmailFails

\* The writes of the callers.
LEMMA SendKeeps ==
  ASSUME MailInv, Assumed, NEW m \in Mails, Fresh(m), Send(m)
  PROVE  /\ MailInv'
         /\ audit[m] = "none" /\ audit'[m] = "pending"
         /\ \A n \in Mails : n # m => audit'[n] = audit[n]
<1>1. /\ audit' = [audit EXCEPT ![m] = "pending"]
      /\ job' = [job EXCEPT ![m] = [waiting |-> TRUE, tries |-> 0]]
      /\ UNCHANGED <<mailer, unmarked>> /\ audit[m] = "none"
      /\ \A w \in Mailers : mailer[w] # None => mailer[w].mail # m
  BY DEF Send, Fresh
<1>2. /\ audit'[m] = "pending" /\ \A n \in Mails : n # m => audit'[n] = audit[n]
      /\ job'[m] = [waiting |-> TRUE, tries |-> 0] /\ \A n \in Mails : n # m => job'[n] = job[n]
  BY <1>1 DEF MailInv, MailTyped
<1>3. MailTyped'
  BY <1>1 DEF MailInv, MailTyped
<1>4. Covered(m)' /\ \A n \in Mails : n # m /\ Covered(n) => Covered(n)'
  BY <1>1, <1>2 DEF Covered, Assumed
<1> QED
  BY <1>1, <1>2, <1>3, <1>4 DEF MailInv, MailTyped, Delivery

LEMMA CommitAuditKeeps ==
  ASSUME MailInv, NEW m \in Mails, audit[m] = "pending", CommitAudit(m)
  PROVE  /\ MailInv'
         /\ audit'[m] = "queued"
         /\ \A n \in Mails : n # m => audit'[n] = audit[n]
<1>1. /\ audit'[m] = "queued" /\ \A n \in Mails : n # m => audit'[n] = audit[n]
      /\ UNCHANGED <<job, mailer, unmarked>>
  BY DEF CommitAudit, MailInv, MailTyped
<1>2. \A n \in Mails : Covered(n) => Covered(n)'
  BY <1>1 DEF Covered
<1>3. MailTyped'
  BY <1>1 DEF CommitAudit, MailInv, MailTyped
<1>4. \A w \in Mailers : mailer[w] # None => mailer'[w] = mailer[w] /\ mailer[w].mail \in Mails
  BY <1>1 DEF MailInv, MailTyped, Delivery
<1> QED
  BY <1>1, <1>2, <1>3, <1>4 DEF MailInv, Unseen

LEMMA TakeBackKeeps ==
  ASSUME MailInv, NEW k, k \in Mails => audit[k] = "pending",
         audit' = [m \in Mails |-> IF m = k THEN "none" ELSE audit[m]],
         UNCHANGED <<job, mailer, unmarked>>
  PROVE  /\ MailInv'
         /\ \A n \in Mails : n # k => audit'[n] = audit[n]
<1>1. \A n \in Mails : audit'[n] = IF n = k THEN "none" ELSE audit[n]
  OBVIOUS
<1>2. \A n \in Mails : Covered(n) => Covered(n)'
  BY DEF Covered
<1>3. MailTyped'
  BY <1>1 DEF MailInv, MailTyped
<1>4. \A w \in Mailers : mailer[w] # None /\ mailer[w].pc # "read" => mailer[w].mail # k
  BY DEF MailInv, Unseen, MailTyped, Delivery
<1> QED
  BY <1>1, <1>2, <1>3, <1>4 DEF MailInv, MailTyped, Delivery, Unseen

------------------------------------------------------------------------------
(***************************************************************************)
(* Requests, links and sessions.                                           *)
(***************************************************************************)
AccountTyped ==
  /\ user \in [Users -> Account \cup {None, Gone}]
  /\ link \in [Mails -> Link \cup {None}]
  /\ session \subseteq Session
  /\ req \in [Requests -> RequestState \cup {None}]
  /\ clock \in Nat

\* The requests that have enqueued a mail, and those that have stamped a password.
Linking(r) == req[r] # None /\ req[r].wrote /\ req[r].op \in {"forgot", "mailLink", "register"}
Stamped(r) == req[r] # None /\ req[r].wrote /\ req[r].op \in {"reset", "change"}

\* A session that has to end with the password it rests on.
Bound(s, u) == s.of = u /\ ~s.excused

\* What a request knows stays true of the rows it has locked, and of the
\* session and the links it goes back to.
RequestOK(r) == req[r] # None =>
  /\ Linking(r) => req[r].mail \in Mails /\ audit[req[r].mail] = "pending" /\ link[req[r].mail] = None
  /\ ~Linking(r) => req[r].mail = None
  /\ \A m \in req[r].saw : link[m] # None
  /\ req[r].op = "reset" => req[r].from \in Mails /\ link[req[r].from] # None
  /\ req[r].op = "refresh" =>
       /\ req[r].from \in session /\ req[r].from.of = req[r].u /\ req[r].row \in Account
       /\ ~req[r].from.excused /\ req[r].from.iat # req[r].row.changed => req[r].from.pw = req[r].row.pw
  /\ req[r].op = "login" => req[r].row \in Account
  /\ req[r].op = "sso" => req[r].row # Gone
  /\ Linking(r) /\ req[r].op = "register" => user[req[r].u] = None /\ req[r].row \in Account
  /\ Stamped(r) => user[req[r].u] \in Account /\ \A s \in session : Bound(s, req[r].u) => s.iat <= req[r].at

\* No two of them mail the same link or make the same row.
OneMailEach == \A q, r \in Requests : Linking(q) /\ Linking(r) /\ q # r =>
  /\ req[q].mail # req[r].mail
  /\ req[q].op = "register" /\ req[r].op = "register" => req[q].u # req[r].u

\* A link is committed with its mail.
LinkInv == \A m \in Mails : link[m] # None => audit[m] \notin Unseen

\* A session of an older password is no younger than the change of it.
SessionInv == \A s \in session :
  /\ user[s.of] # None /\ s.iat <= clock
  /\ user[s.of] \in Account /\ ~s.excused /\ s.pw # user[s.of].pw => s.iat <= user[s.of].changed

AccountInv ==
  /\ AccountTyped
  /\ \A r \in Requests : RequestOK(r)
  /\ OneMailEach /\ LinkInv /\ SessionInv

Inv == MailInv /\ AccountInv

\* What other requests may change under a request r.
LEMMA Frame ==
  ASSUME NEW r \in Requests, RequestOK(r), AccountTyped, req'[r] = req[r],
         \A m \in Mails : link[m] # None => link'[m] # None,
         session \subseteq session',
         Linking(r) => audit'[req[r].mail] = audit[req[r].mail] /\ link'[req[r].mail] = link[req[r].mail],
         Linking(r) /\ req[r].op = "register" => user'[req[r].u] = user[req[r].u],
         Stamped(r) => user'[req[r].u] \in Account,
         Stamped(r) => \A s \in session' \ session : s.of = req[r].u => s.excused
  PROVE  RequestOK(r)'
<1>1. Linking(r)' = Linking(r) /\ Stamped(r)' = Stamped(r)
  BY DEF Linking, Stamped
<1>2. req[r] # None => req[r].saw \subseteq Mails
  BY DEF AccountTyped, RequestState
<1> QED
  BY <1>1, <1>2 DEF RequestOK, Bound

\* A request that is closed, a session that is given out, a row that is changed under
\* its lock, and links that are spent.
LEMMA RowsKeep ==
  ASSUME Inv, Assumed, UNCHANGED <<clock, mailVars>>, NEW u \in Users,
         user' \in [Users -> Account \cup {None, Gone}],
         \A x \in Users : x # u => user'[x] = user[x],
         \/ user'[u] = user[u]
         \/ /\ RowFree(u) /\ user[u] # Gone /\ user'[u] \in Account
            /\ user[u] \in Account => user'[u].pw = user[u].pw /\ user'[u].changed = user[u].changed
         \/ Writing(u) = {} /\ user[u] \in Account /\ user'[u] = Gone,
         link' \in [Mails -> Link \cup {None}],
         \A m \in Mails : IF link[m] = None THEN link'[m] = None
                          ELSE link'[m] # None /\ (link'[m].live => link[m].live),
         req' \in [Requests -> RequestState \cup {None}],
         \A r \in Requests : req'[r] \in {req[r], None},
         session' \subseteq Session, session \subseteq session',
         \A s \in session' \ session :
           /\ s.iat = clock /\ user'[s.of] # None
           /\ \/ s.excused
              \/ /\ \A q \in Requests : Stamped(q) => req[q].u # s.of
                 /\ user'[s.of] \in Account => s.pw = user'[s.of].pw
  PROVE  Inv'
<1> USE DEF Inv, AccountInv
<1>1. MailInv' /\ UNCHANGED audit
  BY DEF mailVars, MailInv, MailTyped, Covered
<1>2. AccountTyped'
  BY DEF AccountTyped
<1>3. ASSUME NEW r \in Requests, req[r] # None, req[r].u = u, req[r].wrote, req[r].op # "forgot"
      PROVE  user'[u] = user[u]
  BY <1>3 DEF RowFree, Writing
<1>4. ASSUME NEW r \in Requests
      PROVE  RequestOK(r)'
  <2>1. CASE req'[r] = None
    BY <2>1 DEF RequestOK
  <2>2. CASE req'[r] = req[r] /\ req[r] # None
    <3>1. req[r] \in RequestState /\ req[r].u \in Users
      BY <2>2 DEF AccountTyped, RequestState
    <3>2. Stamped(r) \/ (Linking(r) /\ req[r].op = "register") => user'[req[r].u] = user[req[r].u]
      BY <1>3, <2>2, <3>1 DEF Stamped, Linking
    <3>3. Stamped(r) => \A s \in session' \ session : s.of = req[r].u => s.excused
      OBVIOUS
    <3>4. RequestOK(r)
      OBVIOUS
    <3>5. Linking(r) => audit'[req[r].mail] = audit[req[r].mail] /\ link'[req[r].mail] = link[req[r].mail]
      BY <1>1, <2>2, <3>4 DEF RequestOK
    <3>6. Stamped(r) => user'[req[r].u] \in Account
      BY <2>2, <3>2, <3>4 DEF RequestOK
    <3> QED
      BY <2>2, <3>2, <3>3, <3>4, <3>5, <3>6, Frame
  <2> QED
    BY <2>1, <2>2
<1>5. OneMailEach'
  BY DEF OneMailEach, Linking
<1>6. LinkInv'
  BY <1>1 DEF LinkInv
<1>7. SessionInv'
  <2> SUFFICES ASSUME NEW s \in session'
               PROVE  /\ user'[s.of] # None /\ s.iat <= clock'
                      /\ user'[s.of] \in Account /\ ~s.excused /\ s.pw # user'[s.of].pw =>
                           s.iat <= user'[s.of].changed
    BY DEF SessionInv
  <2>0. s \in Session /\ s.of \in Users
    BY DEF Session
  <2>1. CASE s \notin session
    BY <2>0, <2>1 DEF AccountTyped
  <2>2. CASE s \in session
    <3>1. /\ user[s.of] # None /\ s.iat <= clock
          /\ user[s.of] \in Account /\ ~s.excused /\ s.pw # user[s.of].pw => s.iat <= user[s.of].changed
      BY <2>2 DEF SessionInv
    <3>2. CASE user'[s.of] = user[s.of]
      BY <3>1, <3>2
    <3>3. CASE user'[s.of] # user[s.of]
      <4>1. s.of = u
        BY <2>0, <3>3
      <4>2. CASE user'[u] = Gone
        BY <3>1, <4>1, <4>2 DEF Assumed
      <4>3. CASE user'[u] # Gone
        <5>1. user'[u] \in Account /\ user[u] \in Account
          BY <3>1, <3>3, <4>1, <4>3 DEF AccountTyped
        <5> QED
          BY <3>1, <3>3, <4>1, <4>3, <5>1 DEF Assumed
      <4> QED
        BY <4>2, <4>3
    <3> QED
      BY <3>2, <3>3
  <2> QED
    BY <2>1, <2>2
<1> QED
  BY <1>1, <1>2, <1>4, <1>5, <1>6, <1>7

\* One request changes, and nothing else: the others know what they knew.
LEMMA OthersKeep ==
  ASSUME Inv, NEW r \in Requests, UNCHANGED <<user, link, session>>,
         req' \in [Requests -> RequestState \cup {None}],
         \A x \in Requests : x # r => req'[x] = req[x],
         \A x \in Requests : x # r /\ Linking(x) => audit'[req[x].mail] = audit[req[x].mail]
  PROVE  \A x \in Requests : x # r => RequestOK(x)'
<1> SUFFICES ASSUME NEW x \in Requests, x # r PROVE RequestOK(x)'
  OBVIOUS
<1>1. RequestOK(x) /\ AccountTyped
  BY DEF Inv, AccountInv
<1>2. \A m \in Mails : link[m] # None => link'[m] # None
  OBVIOUS
<1>3. /\ Linking(x) => audit'[req[x].mail] = audit[req[x].mail] /\ link'[req[x].mail] = link[req[x].mail]
      /\ Linking(x) /\ req[x].op = "register" => user'[req[x].u] = user[req[x].u]
      /\ Stamped(x) => user'[req[x].u] \in Account
      /\ Stamped(x) => \A s \in session' \ session : s.of = req[x].u => s.excused
  BY <1>1 DEF RequestOK, Stamped
<1> QED
  BY <1>1, <1>2, <1>3, Frame

\* A request is opened with what it goes back to.
LEMMA OpenKeeps ==
  ASSUME Inv, Assumed, NEW r \in Requests, NEW op, NEW u \in Users,
         NEW from \in Mails \cup Session \cup {None}, Open(r, op, u, from),
         op \in {"register", "login", "refresh", "sso", "verify", "mailLink", "forgot", "reset", "change"},
         op = "reset" => from \in Mails /\ link[from] # None,
         op = "refresh" =>
           /\ from \in session /\ from.of = u /\ user[u] \in Account
           /\ ~from.excused /\ from.iat # user[u].changed => from.pw = user[u].pw,
         op = "login" => user[u] \in Account,
         op = "sso" => user[u] # Gone
  PROVE  Inv'
<1> USE DEF Inv, AccountInv
<1> DEFINE new == [op |-> op, u |-> u, row |-> user[u], from |-> from,
                   first |-> \A x \in Users : ~Exists(x),
                   wrote |-> FALSE, mail |-> None, at |-> 0, saw |-> {}]
<1>1. /\ req' = [req EXCEPT ![r] = new]
      /\ UNCHANGED <<user, link, session, clock, audit, job, mailer, unmarked>>
  BY DEF Open, mailVars
<1>2. new \in RequestState
  BY DEF RequestState, AccountTyped
<1>3. /\ req' \in [Requests -> RequestState \cup {None}] /\ req'[r] = new
      /\ \A x \in Requests : x # r => req'[x] = req[x]
  BY <1>1, <1>2 DEF AccountTyped
<1>4. MailInv'
  BY <1>1 DEF MailInv, MailTyped, Covered
<1>5. ~Linking(r)' /\ ~Stamped(r)'
  BY <1>3 DEF Linking, Stamped
<1>6. RequestOK(r)'
  BY <1>1, <1>3, <1>5 DEF RequestOK
<1>7. \A x \in Requests : x # r => RequestOK(x)'
  BY <1>1, <1>3, OthersKeep
<1>8. OneMailEach'
  BY <1>3, <1>5 DEF OneMailEach, Linking
<1> QED
  BY <1>1, <1>3, <1>4, <1>6, <1>7, <1>8 DEF AccountTyped, LinkInv, SessionInv

\* A request enqueues a mail for a link that supersedes links of now, or for a new row.
LEMMA LinkWritten ==
  ASSUME Inv, Assumed, NEW r \in Requests, req[r] # None, NEW m \in Mails, Fresh(m), Send(m),
         req[r].op \in {"forgot", "mailLink", "register"},
         UNCHANGED <<user, link, session, clock>>,
         NEW new \in RequestState, req' = [req EXCEPT ![r] = new],
         new.op = req[r].op, new.u = req[r].u, new.mail = m, new.wrote,
         \A n \in new.saw : link[n] # None,
         new.op = "register" => RowFree(new.u) /\ user[new.u] = None /\ new.row \in Account
  PROVE  Inv'
<1> USE DEF Inv, AccountInv
<1>1. MailInv' /\ audit[m] = "none" /\ audit'[m] = "pending" /\ \A n \in Mails : n # m => audit'[n] = audit[n]
  BY SendKeeps
<1>2. /\ req' \in [Requests -> RequestState \cup {None}] /\ req'[r] = new
      /\ \A x \in Requests : x # r => req'[x] = req[x]
  BY DEF AccountTyped
<1>3. \A x \in Requests : Linking(x) => req[x].mail # m /\ req[x].mail \in Mails
  BY <1>1 DEF RequestOK, Linking
<1>4. link[m] = None
  BY <1>1 DEF LinkInv, Unseen
<1>5. \A x \in Requests : x # r => RequestOK(x)'
  BY <1>1, <1>2, <1>3, OthersKeep
<1>6. RequestOK(r)'
  <2>1. new # None /\ ~Stamped(r)'
    BY <1>2 DEF Assumed, Stamped
  <2> QED
    BY <1>1, <1>2, <1>4, <2>1 DEF RequestOK, Linking
<1>7. OneMailEach'
  <2>1. \A x \in Requests : Linking(x) /\ req[x].op = "register" /\ new.op = "register" => req[x].u # new.u
    BY DEF RowFree, Writing, Linking
  <2> QED
    BY <1>2, <1>3, <2>1 DEF OneMailEach, Linking
<1>8. LinkInv'
  BY <1>1, <1>4 DEF LinkInv
<1> QED
  BY <1>1, <1>2, <1>5, <1>6, <1>7, <1>8 DEF AccountTyped, SessionInv

\* A request stamps a new password.
LEMMA PasswordWritten ==
  ASSUME Inv, Assumed, NEW r \in Requests, Has(r, "reset", FALSE) \/ Has(r, "change", FALSE),
         Exists(req[r].u), WriteNewPassword(r)
  PROVE  Inv'
<1> USE DEF Inv, AccountInv
<1> DEFINE saw == IF req[r].op = "reset" THEN LiveLinks(req[r].u, "reset") \cup {req[r].from} ELSE {}
           new == [req[r] EXCEPT !.wrote = TRUE, !.at = clock, !.saw = saw]
<1>1. /\ req' = [req EXCEPT ![r].wrote = TRUE, ![r].at = clock, ![r].saw = saw]
      /\ UNCHANGED <<user, link, session, clock, audit, job, mailer, unmarked>>
  BY DEF WriteNewPassword, BumpPasswordChangedAt, mailVars
<1>2. req[r] # None /\ req[r] \in RequestState /\ req[r].op \in {"reset", "change"}
  BY DEF Has, AccountTyped
<1>3. saw \in SUBSET Mails /\ \A m \in saw : link[m] # None
  BY <1>2 DEF RequestOK, LiveLinks
<1>4. req'[r] = new
  <2> HIDE DEF saw
  <2> QED
    BY <1>1 DEF AccountTyped
<1>5. /\ new \in RequestState /\ new.op = req[r].op /\ new.u = req[r].u /\ new.mail = req[r].mail
      /\ new.from = req[r].from /\ new.wrote = TRUE /\ new.at = clock /\ new.saw = saw
  <2> HIDE DEF saw
  <2> QED
    BY <1>2, <1>3 DEF RequestState, AccountTyped
<1> HIDE DEF new, saw
<1>6. \A x \in Requests : x # r => req'[x] = req[x]
  BY <1>1 DEF AccountTyped
<1>7. req' \in [Requests -> RequestState \cup {None}]
  BY <1>1, <1>4, <1>5, <1>6 DEF AccountTyped
<1>8. MailInv'
  BY <1>1 DEF MailInv, MailTyped, Covered
<1>9. \A x \in Requests : x # r => RequestOK(x)'
  BY <1>1, <1>6, <1>7, OthersKeep
<1>10. RequestOK(r)'
  <2>1. ~Linking(r) /\ ~Linking(r)' /\ req'[r] # None
    BY <1>2, <1>4, <1>5 DEF Linking, Assumed
  <2>2. req[r].u \in Users /\ user[req[r].u] \in Account
    BY <1>2 DEF RequestState, AccountTyped, Exists
  <2>3. \A s \in session : s.iat <= clock
    BY DEF SessionInv
  <2>4. req[r].mail = None /\ (req[r].op = "reset" => req[r].from \in Mails /\ link[req[r].from] # None)
    BY <1>2, <2>1 DEF RequestOK
  <2> QED
    BY <1>1, <1>2, <1>3, <1>4, <1>5, <2>1, <2>2, <2>3, <2>4 DEF RequestOK
<1>11. OneMailEach'
  BY <1>2, <1>4, <1>5, <1>6 DEF OneMailEach, Linking
<1> QED
  BY <1>1, <1>7, <1>8, <1>9, <1>10, <1>11 DEF AccountTyped, LinkInv, SessionInv

\* A request is given up, and what it wrote is taken back.
LEMMA RollbackKeeps ==
  ASSUME Inv, Assumed, NEW r \in Requests, Rollback(r)
  PROVE  Inv'
<1> USE DEF Inv, AccountInv
<1>1. /\ req[r] # None /\ req' = [req EXCEPT ![r] = None]
      /\ audit' = [m \in Mails |-> IF m = req[r].mail THEN "none" ELSE audit[m]]
      /\ UNCHANGED <<user, link, session, clock, job, mailer, unmarked>>
  BY DEF Rollback, Close
<1>2. /\ req' \in [Requests -> RequestState \cup {None}] /\ req'[r] = None
      /\ \A x \in Requests : x # r => req'[x] = req[x]
  BY <1>1 DEF AccountTyped
<1>3. req[r].mail \in Mails => Linking(r) /\ audit[req[r].mail] = "pending" /\ link[req[r].mail] = None
  BY <1>1 DEF RequestOK, Assumed
<1>4. MailInv' /\ \A n \in Mails : n # req[r].mail => audit'[n] = audit[n]
  BY <1>1, <1>3, TakeBackKeeps
<1>5. \A x \in Requests : x # r /\ Linking(x) => audit'[req[x].mail] = audit[req[x].mail]
  BY <1>3, <1>4 DEF OneMailEach, RequestOK, Linking
<1>6. \A x \in Requests : RequestOK(x)'
  BY <1>1, <1>2, <1>5, OthersKeep DEF RequestOK
<1>7. OneMailEach'
  BY <1>2 DEF OneMailEach, Linking
<1>8. LinkInv'
  BY <1>1, <1>3, <1>4 DEF LinkInv
<1> QED
  BY <1>1, <1>2, <1>4, <1>6, <1>7, <1>8 DEF AccountTyped, SessionInv

\* A link is committed with its mail, and a registration with its row.
LEMMA LinkCommitted ==
  ASSUME Inv, Assumed, NEW r \in Requests, Linking(r), NEW kind \in {"verify", "reset"},
         CommitLink(r, kind), UNCHANGED <<session, clock>>,
         \/ user' = user
         \/ req[r].op = "register" /\ user' = [user EXCEPT ![req[r].u] = req[r].row]
  PROVE  Inv'
<1> USE DEF Inv, AccountInv
<1> DEFINE k == req[r].mail
           new == [kind |-> kind, of |-> req[r].u, live |-> TRUE]
<1>1. /\ req[r] # None /\ req[r] \in RequestState /\ req[r].u \in Users /\ req[r].saw \subseteq Mails
      /\ k \in Mails /\ audit[k] = "pending" /\ link[k] = None
      /\ \A m \in req[r].saw : link[m] # None
  BY DEF Linking, RequestOK, AccountTyped, RequestState
<1>2. /\ link' = [Invalidate(req[r].saw) EXCEPT ![k] = new]
      /\ CommitAudit(k) /\ req' = [req EXCEPT ![r] = None]
  BY DEF CommitLink, Close
<1>3. MailInv' /\ audit'[k] = "queued" /\ \A m \in Mails : m # k => audit'[m] = audit[m]
  BY <1>1, <1>2, CommitAuditKeeps
<1>4. new \in Link
  BY <1>1 DEF Link
<1>5. \A m \in Mails : Invalidate(req[r].saw)[m] =
        IF m \in req[r].saw THEN [link[m] EXCEPT !.live = FALSE] ELSE link[m]
  BY DEF Invalidate
<1>6. \A m \in Mails : m # k => link'[m] = IF m \in req[r].saw THEN [link[m] EXCEPT !.live = FALSE] ELSE link[m]
  BY <1>2, <1>5 DEF Invalidate
<1>7. DOMAIN link' = Mails /\ link' = [m \in Mails |-> link'[m]] /\ link'[k] = new
  BY <1>1, <1>2 DEF Invalidate
<1> HIDE DEF new
<1>8. \A m \in Mails : m # k => IF link[m] = None THEN link'[m] = None
                               ELSE /\ link'[m] \in Link
                                    /\ link'[m].live => link[m].live
  <2> SUFFICES ASSUME NEW m \in Mails, m # k
               PROVE  IF link[m] = None THEN link'[m] = None
                      ELSE /\ link'[m] \in Link
                           /\ link'[m].live => link[m].live
    OBVIOUS
  <2>1. CASE m \in req[r].saw
    <3>1. link[m] \in Link /\ link[m] # None
      BY <1>1, <2>1 DEF AccountTyped
    <3>2. link'[m] = [link[m] EXCEPT !.live = FALSE]
      BY <1>6, <2>1
    <3> QED
      BY <3>1, <3>2 DEF Link
  <2>2. CASE m \notin req[r].saw
    BY <1>6, <2>2 DEF AccountTyped
  <2> QED
    BY <2>1, <2>2
<1>9. link' \in [Mails -> Link \cup {None}]
  BY <1>4, <1>7, <1>8
<1>10. /\ req' \in [Requests -> RequestState \cup {None}] /\ req'[r] = None
       /\ \A x \in Requests : x # r => req'[x] = req[x]
  BY <1>2 DEF AccountTyped
<1>11. \/ user' = user
       \/ /\ req[r].op = "register" /\ user[req[r].u] = None /\ user'[req[r].u] \in Account
          /\ \A x \in Users : x # req[r].u => user'[x] = user[x]
  BY <1>1 DEF RequestOK, AccountTyped
<1>12. user' \in [Users -> Account \cup {None, Gone}]
  BY <1>1 DEF RequestOK, AccountTyped
<1>13. AccountTyped'
  BY <1>9, <1>10, <1>12 DEF AccountTyped
<1>14. ASSUME NEW x \in Requests, x # r
       PROVE  RequestOK(x)'
  <2>1. RequestOK(x)
    OBVIOUS
  <2>2. \A m \in Mails : link[m] # None => link'[m] # None
    BY <1>1, <1>8 DEF Assumed
  <2>3. Linking(x) => req[x].mail \in Mails /\ req[x].mail # k /\ link[req[x].mail] = None
    BY <2>1, <1>14 DEF OneMailEach, RequestOK, Linking
  <2>4. Linking(x) => audit'[req[x].mail] = audit[req[x].mail] /\ link'[req[x].mail] = link[req[x].mail]
    BY <1>3, <1>8, <2>3
  <2>5. req[x] # None => req[x].u \in Users
    BY DEF AccountTyped, RequestState
  <2>6. Linking(x) /\ req[x].op = "register" => user'[req[x].u] = user[req[x].u]
    BY <1>11, <1>14, <2>5 DEF OneMailEach, Linking
  <2>7. Stamped(x) => user'[req[x].u] \in Account
    BY <1>11, <2>1, <2>5 DEF RequestOK, Stamped, Assumed
  <2> QED
    BY <1>10, <1>14, <2>1, <2>2, <2>4, <2>6, <2>7, Frame
<1>15. \A x \in Requests : RequestOK(x)'
  BY <1>10, <1>14 DEF RequestOK
<1>16. OneMailEach'
  BY <1>10 DEF OneMailEach, Linking
<1>17. LinkInv'
  BY <1>3, <1>8 DEF LinkInv, Unseen
<1>18. SessionInv'
  BY <1>11 DEF SessionInv, AccountTyped, Session, Assumed
<1> QED
  BY <1>3, <1>13, <1>15, <1>16, <1>17, <1>18

\* A new password is committed.
LEMMA PasswordCommitted ==
  ASSUME Inv, Assumed, NEW r \in Requests, CommitNewPassword(r)
  PROVE  Inv'
<1> USE DEF Inv, AccountInv
<1> DEFINE u == req[r].u
<1>1. /\ Stamped(r) /\ req' = [req EXCEPT ![r] = None]
      /\ user' = [user EXCEPT ![u].pw = @ + 1, ![u].changed = req[r].at]
      /\ link' = Invalidate(req[r].saw)
      /\ UNCHANGED <<session, clock, audit, job, mailer, unmarked>>
  BY DEF CommitNewPassword, Has, Close, Stamped, mailVars
<1>2. /\ req[r] # None /\ req[r] \in RequestState /\ u \in Users /\ req[r].at \in Nat
      /\ user[u] \in Account /\ req[r].saw \subseteq Mails
      /\ \A m \in req[r].saw : link[m] # None
      /\ \A s \in session : Bound(s, u) => s.iat <= req[r].at
  BY <1>1 DEF Stamped, RequestOK, AccountTyped, RequestState
<1> DEFINE next == user[u].pw + 1
           row == [user[u] EXCEPT !.pw = next, !.changed = req[r].at]
<1>3. user'[u] = row /\ \A x \in Users : x # u => user'[x] = user[x]
  BY <1>1, <1>2 DEF AccountTyped
<1>4. row \in Account /\ row.changed = req[r].at
  <2>1. next \in Nat
    BY <1>2 DEF Account
  <2> HIDE DEF next
  <2> QED
    BY <1>2, <2>1 DEF Account
<1> HIDE DEF row
<1>5. user' \in [Users -> Account \cup {None, Gone}]
  BY <1>1, <1>3, <1>4 DEF AccountTyped
<1>6. \A m \in Mails : link'[m] = IF m \in req[r].saw THEN [link[m] EXCEPT !.live = FALSE] ELSE link[m]
  BY <1>1 DEF Invalidate
<1>7. \A m \in Mails : IF link[m] = None THEN link'[m] = None
                       ELSE /\ link'[m] \in Link
                            /\ link'[m].live => link[m].live
  BY <1>2, <1>6 DEF AccountTyped, Link
<1>8. link' \in [Mails -> Link \cup {None}]
  BY <1>1, <1>7 DEF Invalidate
<1>9. /\ req' \in [Requests -> RequestState \cup {None}] /\ req'[r] = None
      /\ \A x \in Requests : x # r => req'[x] = req[x]
  BY <1>1 DEF AccountTyped
<1>10. ASSUME NEW x \in Requests, x # r
       PROVE  RequestOK(x)'
  <2>1. RequestOK(x) /\ (req[x] # None => req[x].u \in Users)
    BY DEF AccountTyped, RequestState
  <2>2. \A m \in Mails : link[m] # None => link'[m] # None
    BY <1>7 DEF Assumed
  <2>3. Linking(x) => link'[req[x].mail] = link[req[x].mail]
    BY <1>7, <2>1 DEF RequestOK, Linking
  <2>4. Linking(x) /\ req[x].op = "register" => user'[req[x].u] = user[req[x].u]
    BY <1>2, <1>3, <2>1 DEF RequestOK, Linking, Assumed
  <2>5. Stamped(x) => user'[req[x].u] \in Account
    BY <1>3, <1>4, <2>1 DEF RequestOK, Stamped
  <2> QED
    BY <1>1, <1>9, <1>10, <2>1, <2>2, <2>3, <2>4, <2>5, Frame
<1>11. \A x \in Requests : RequestOK(x)'
  BY <1>9, <1>10 DEF RequestOK
<1>12. MailInv' /\ AccountTyped'
  BY <1>1, <1>5, <1>8, <1>9 DEF MailInv, MailTyped, Covered, AccountTyped
<1>13. OneMailEach'
  BY <1>9 DEF OneMailEach, Linking
<1>14. LinkInv'
  BY <1>1, <1>7 DEF LinkInv
<1>15. SessionInv'
  <2>1. \A s \in session : s.of = u /\ ~s.excused => s.iat <= user'[u].changed
    BY <1>2, <1>3, <1>4 DEF Bound
  <2> QED
    BY <1>1, <1>2, <1>3, <1>4, <2>1 DEF SessionInv, AccountTyped, Session, Assumed
<1> QED
  BY <1>11, <1>12, <1>13, <1>14, <1>15

------------------------------------------------------------------------------
(***************************************************************************)
(* The steps of Accounts.                                                  *)
(***************************************************************************)
LEMMA NewAccountTyped ==
  ASSUME Inv, NEW auth \in {"password", "sso"}, NEW admin \in BOOLEAN, NEW active \in BOOLEAN,
         NEW verified \in BOOLEAN
  PROVE  /\ NewAccount(auth, admin, active, verified) \in Account
         /\ auth = "sso" => NewAccount(auth, admin, active, verified).pw = 0
BY DEF NewAccount, Account, Inv, AccountInv, AccountTyped

LEMMA InvalidateSpends ==
  ASSUME Inv, Assumed, NEW seen \in SUBSET Mails, \A m \in seen : link[m] # None,
         link' = Invalidate(seen)
  PROVE  /\ link' \in [Mails -> Link \cup {None}]
         /\ \A m \in Mails : IF link[m] = None THEN link'[m] = None
                             ELSE link'[m] # None /\ (link'[m].live => link[m].live)
<1>1. \A m \in Mails : link'[m] = IF m \in seen THEN [link[m] EXCEPT !.live = FALSE] ELSE link[m]
  BY DEF Invalidate
<1>2. \A m \in Mails : IF link[m] = None THEN link'[m] = None
                       ELSE /\ link'[m] \in Link
                            /\ link'[m].live => link[m].live
  BY <1>1 DEF Inv, AccountInv, AccountTyped, Link
<1> QED
  BY <1>2 DEF Invalidate, Assumed

\* A request ends without a trace, or hands out one session.
LEMMA ClosedKeeps ==
  ASSUME Inv, Assumed, NEW r \in Requests, req[r] # None, Close(r),
         UNCHANGED <<user, link, clock, mailVars>>,
         \/ UNCHANGED session
         \/ \E s \in Session :
              /\ session' = session \cup {s}
              /\ s.iat = clock /\ user[s.of] # None
              /\ \/ s.excused
                 \/ /\ \A q \in Requests : Stamped(q) => req[q].u # s.of
                    /\ user[s.of] \in Account => s.pw = user[s.of].pw
  PROVE  Inv'
<1>1. AccountTyped /\ req[r].u \in Users
  BY DEF Inv, AccountInv, AccountTyped, RequestState
<1>2. req' \in [Requests -> RequestState \cup {None}] /\ \A x \in Requests : req'[x] \in {req[x], None}
  BY <1>1 DEF Close, AccountTyped
<1>3. /\ session' \subseteq Session /\ session \subseteq session'
      /\ \A s \in session' \ session :
           /\ s.iat = clock /\ user'[s.of] # None
           /\ \/ s.excused
              \/ /\ \A q \in Requests : Stamped(q) => req[q].u # s.of
                 /\ user'[s.of] \in Account => s.pw = user'[s.of].pw
  BY <1>1 DEF AccountTyped
<1>4. link' \in [Mails -> Link \cup {None}] /\ user' \in [Users -> Account \cup {None, Gone}]
  BY <1>1 DEF AccountTyped
<1>5. \A m \in Mails : IF link[m] = None THEN link'[m] = None
                       ELSE link'[m] # None /\ (link'[m].live => link[m].live)
  OBVIOUS
<1> QED
  BY <1>1, <1>2, <1>3, <1>4, <1>5, RowsKeep

\* A session that no change of the password overlapped rests on the present one.
LEMMA NotOverlapped ==
  ASSUME Inv, Assumed, NEW u \in Users, NEW row, ~Overlapped(u, row)
  PROVE  /\ user[u] \in Account /\ user[u].pw = row.pw
         /\ \A q \in Requests : Stamped(q) => req[q].u # u
BY DEF Overlapped, Exists, Writing, Stamped, Inv, AccountInv, AccountTyped

LEMMA AnswersKeep ==
  ASSUME Inv, Assumed, NEW r \in Requests,
         \/ AnswerRefresh(r) \/ AnswerLogin(r)
         \/ \E m \in Mails : WriteReset(r, m) \/ IssueToken(r, m)
         \/ WriteNewPassword(r)
  PROVE  Inv'
<1>0. /\ AccountTyped /\ RequestOK(r) /\ (req[r] # None => req[r] \in RequestState /\ req[r].u \in Users)
  BY DEF Inv, AccountInv, AccountTyped, RequestState
<1>1. CASE AnswerRefresh(r)
  <2> DEFINE s == req[r].from
             row == req[r].row
             excused == s.excused \/ s.iat = row.changed \/ Overlapped(s.of, row)
             new == [of |-> s.of, pw |-> s.pw, iat |-> clock, excused |-> excused]
  <2>1. /\ req[r] # None /\ s \in session /\ s \in Session /\ s.of \in Users
        /\ ~s.excused /\ s.iat # row.changed => s.pw = row.pw
    BY <1>0, <1>1 DEF AnswerRefresh, Has, RequestOK, AccountTyped, Session
  <2>2. new \in Session /\ new.of = s.of /\ new.pw = s.pw /\ new.iat = clock /\ new.excused = excused
    BY <1>0, <2>1 DEF Session, AccountTyped
  <2>3. session' = session \cup {new} /\ Close(r) /\ UNCHANGED <<user, link, clock, mailVars>>
    BY <1>1 DEF AnswerRefresh, Mint
  <2>4. user[new.of] # None
    BY <2>1, <2>2 DEF Inv, AccountInv, SessionInv
  <2>5. new.excused \/ ((\A q \in Requests : Stamped(q) => req[q].u # new.of)
                        /\ (user[new.of] \in Account => new.pw = user[new.of].pw))
    BY <2>1, <2>2, NotOverlapped
  <2> HIDE DEF new
  <2> QED
    BY <2>1, <2>2, <2>3, <2>4, <2>5, ClosedKeeps
<1>2. CASE AnswerLogin(r)
  <2> DEFINE u == req[r].u
             new == [of |-> u, pw |-> req[r].row.pw, iat |-> clock, excused |-> Overlapped(u, req[r].row)]
  <2>1. /\ req[r] # None /\ u \in Users /\ req[r].row \in Account
        /\ Close(r) /\ UNCHANGED <<user, link, clock, mailVars>>
    BY <1>0, <1>2 DEF AnswerLogin, Has, RequestOK
  <2>2. new \in Session /\ new.of = u /\ new.iat = clock /\ new.excused = Overlapped(u, req[r].row)
        /\ new.pw = req[r].row.pw
    BY <1>0, <2>1 DEF Session, AccountTyped, Account, Overlapped
  <2>3. CASE Exists(u)
    <3>1. session' = session \cup {new} /\ user[u] # None
      BY <1>2, <2>3 DEF AnswerLogin, Mint, Exists
    <3>2. new.excused \/ ((\A q \in Requests : Stamped(q) => req[q].u # new.of)
                          /\ (user[new.of] \in Account => new.pw = user[new.of].pw))
      BY <2>1, <2>2, NotOverlapped
    <3> HIDE DEF new
    <3> QED
      BY <2>1, <2>2, <3>1, <3>2, ClosedKeeps
  <2>4. CASE ~Exists(u)
    BY <1>2, <2>1, <2>4, ClosedKeeps DEF AnswerLogin
  <2> QED
    BY <2>3, <2>4
<1>3. ASSUME NEW m \in Mails, NEW kind \in {"reset", "verify"}, req[r] # None,
             req[r].op \in {"forgot", "mailLink"}, WriteLink(r, m, LiveLinks(req[r].u, kind)),
             UNCHANGED <<user, link, session, clock>>
      PROVE  Inv'
  <2> DEFINE saw == LiveLinks(req[r].u, kind)
             new == [req[r] EXCEPT !.wrote = TRUE, !.mail = m, !.saw = saw]
  <2>1. /\ Fresh(m) /\ Send(m)
        /\ req' = [req EXCEPT ![r].wrote = TRUE, ![r].mail = m, ![r].saw = saw]
    BY <1>3 DEF WriteLink
  <2>2. saw \in SUBSET Mails /\ \A n \in saw : link[n] # None
    BY DEF LiveLinks
  <2>3. req' = [req EXCEPT ![r] = new]
    <3> HIDE DEF saw
    <3> QED
      BY <1>0, <2>1 DEF AccountTyped
  <2>4. /\ new \in RequestState /\ new.op = req[r].op /\ new.u = req[r].u
        /\ new.wrote = TRUE /\ new.mail = m /\ new.saw = saw
    <3> HIDE DEF saw
    <3> QED
      BY <1>0, <1>3, <2>2 DEF RequestState
  <2> HIDE DEF new, saw
  <2> QED
    BY <1>3, <2>1, <2>2, <2>3, <2>4, LinkWritten
<1>4. ASSUME NEW m \in Mails, WriteReset(r, m)
      PROVE  Inv'
  <2>1. CASE Exists(req[r].u)
    BY <1>3, <1>4, <2>1 DEF WriteReset, Has
  <2>2. CASE ~Exists(req[r].u)
    BY <1>4, <2>2, ClosedKeeps DEF WriteReset, Has
  <2> QED
    BY <2>1, <2>2
<1>5. ASSUME NEW m \in Mails, IssueToken(r, m)
      PROVE  Inv'
  <2>1. CASE Exists(req[r].u)
    BY <1>3, <1>5, <2>1 DEF IssueToken, Has
  <2>2. CASE ~Exists(req[r].u)
    BY <1>5, <2>2, ClosedKeeps DEF IssueToken, Has
  <2> QED
    BY <2>1, <2>2
<1>6. CASE WriteNewPassword(r)
  <2>1. CASE Exists(req[r].u)
    BY <1>6, <2>1, PasswordWritten DEF WriteNewPassword
  <2>2. CASE ~Exists(req[r].u)
    BY <1>6, <2>2, ClosedKeeps DEF WriteNewPassword, Has
  <2> QED
    BY <2>1, <2>2
<1> QED
  BY <1>1, <1>2, <1>4, <1>5, <1>6

\* A row is made, changed or deleted with no more than its own links.
LEMMA RowChanged ==
  ASSUME Inv, Assumed, UNCHANGED <<session, clock, mailVars>>, NEW u \in Users, NEW row,
         user' = [user EXCEPT ![u] = row],
         \/ /\ RowFree(u) /\ user[u] # Gone /\ row \in Account
            /\ user[u] \in Account => row.pw = user[u].pw /\ row.changed = user[u].changed
         \/ Writing(u) = {} /\ user[u] \in Account /\ row = Gone,
         \/ UNCHANGED link
         \/ \E seen \in SUBSET Mails : (\A m \in seen : link[m] # None) /\ link' = Invalidate(seen),
         UNCHANGED req \/ \E r \in Requests : Close(r)
  PROVE  Inv'
<1>1. AccountTyped
  BY DEF Inv, AccountInv
<1>2. /\ user' \in [Users -> Account \cup {None, Gone}]
      /\ user'[u] = row /\ \A x \in Users : x # u => user'[x] = user[x]
  BY <1>1 DEF AccountTyped
<1>3. /\ link' \in [Mails -> Link \cup {None}]
      /\ \A m \in Mails : IF link[m] = None THEN link'[m] = None
                          ELSE link'[m] # None /\ (link'[m].live => link[m].live)
  <2>1. CASE UNCHANGED link
    BY <1>1, <2>1 DEF AccountTyped
  <2>2. CASE \E seen \in SUBSET Mails : (\A m \in seen : link[m] # None) /\ link' = Invalidate(seen)
    BY <2>2, InvalidateSpends
  <2> QED
    BY <2>1, <2>2
<1>4. req' \in [Requests -> RequestState \cup {None}] /\ \A x \in Requests : req'[x] \in {req[x], None}
  BY <1>1 DEF Close, AccountTyped
<1>5. session' \subseteq Session /\ session' = session
  BY <1>1 DEF AccountTyped
<1> QED
  BY <1>2, <1>3, <1>4, <1>5, RowsKeep

LEMMA RegistrationsKeep ==
  ASSUME Inv, Assumed, NEW r \in Requests, NEW over \in BOOLEAN, NEW m \in Mails, WriteRegistration(r, over, m)
  PROVE  Inv'
<1> DEFINE u == req[r].u
           admin == RoleIsAdmin(u, req[r].first)
           row == IF ~admin /\ config.emailOn
                  THEN NewAccount("password", FALSE, config.autoActivate /\ ~over, FALSE)
                  ELSE NewAccount("password", admin, admin, admin)
<1>1. /\ AccountTyped /\ req[r] # None /\ req[r] \in RequestState /\ u \in Users
      /\ req[r].op = "register" /\ RowFree(u) /\ UNCHANGED <<link, session, clock>>
  BY DEF Inv, AccountInv, AccountTyped, RequestState, WriteRegistration, Has
<1>2. admin \in BOOLEAN
  BY <1>1 DEF RoleIsAdmin, RequestState
<1>3. row \in Account
  BY <1>2, NewAccountTyped
<1>4. \/ /\ user[u] = None /\ Fresh(m) /\ Send(m) /\ UNCHANGED user
         /\ req' = [req EXCEPT ![r].wrote = TRUE, ![r].mail = m, ![r].row = row]
      \/ user[u] = None /\ user' = [user EXCEPT ![u] = row] /\ Close(r) /\ UNCHANGED mailVars
      \/ Close(r) /\ UNCHANGED <<user, mailVars>>
  BY DEF WriteRegistration
<1> HIDE DEF row, admin
<1>5. ASSUME user[u] = None, Fresh(m), Send(m), UNCHANGED user,
             req' = [req EXCEPT ![r].wrote = TRUE, ![r].mail = m, ![r].row = row]
      PROVE  Inv'
  <2> DEFINE new == [req[r] EXCEPT !.wrote = TRUE, !.mail = m, !.row = row]
  <2>1. req' = [req EXCEPT ![r] = new]
    BY <1>1, <1>5 DEF AccountTyped
  <2>2. /\ new \in RequestState /\ new.op = req[r].op /\ new.u = u /\ new.row = row
        /\ new.wrote = TRUE /\ new.mail = m /\ new.saw = req[r].saw
    BY <1>1, <1>3 DEF RequestState
  <2>3. \A n \in new.saw : link[n] # None
    BY <1>1, <2>2 DEF Inv, AccountInv, RequestOK
  <2> HIDE DEF new
  <2> QED
    BY <1>1, <1>3, <1>5, <2>1, <2>2, <2>3, LinkWritten
<1>6. ASSUME user[u] = None, user' = [user EXCEPT ![u] = row], Close(r), UNCHANGED mailVars
      PROVE  Inv'
  <2>1. user[u] # Gone /\ user[u] \notin Account
    BY <1>6 DEF Assumed
  <2> QED
    BY <1>1, <1>3, <1>6, <2>1, RowChanged
<1>7. ASSUME Close(r), UNCHANGED <<user, mailVars>>
      PROVE  Inv'
  BY <1>1, <1>7, ClosedKeeps
<1> QED
  BY <1>4, <1>5, <1>6, <1>7

LEMMA SSOKeeps ==
  ASSUME Inv, Assumed, NEW r \in Requests, NEW over \in BOOLEAN, AnswerSSO(r, over)
  PROVE  Inv'
<1> DEFINE u == req[r].u
           old == req[r].row
           active == StartsActive(u, req[r].first) /\ (over => RoleIsAdmin(u, req[r].first))
           made == NewAccount("sso", RoleIsAdmin(u, req[r].first), active, FALSE)
           row == [made EXCEPT !.identity = TRUE]
           tied == [user[u] EXCEPT !.identity = TRUE]
<1>1. /\ AccountTyped /\ req[r] # None /\ req[r] \in RequestState /\ u \in Users
      /\ req[r].op = "sso" /\ RowFree(u) /\ Close(r) /\ UNCHANGED <<link, clock, mailVars>>
      /\ old \in Account \cup {None}
  BY DEF Inv, AccountInv, RequestOK, AccountTyped, RequestState, AnswerSSO, Has
<1>2. /\ link' \in [Mails -> Link \cup {None}] /\ session \subseteq Session /\ clock \in Nat
      /\ req' \in [Requests -> RequestState \cup {None}] /\ \A x \in Requests : req'[x] \in {req[x], None}
  BY <1>1 DEF Close, AccountTyped
<1>3. RoleIsAdmin(u, req[r].first) \in BOOLEAN /\ active \in BOOLEAN
  BY <1>1 DEF RoleIsAdmin, RequestState, StartsActive
<1>4. row \in Account /\ row.pw = 0
  <2>1. made \in Account /\ made.pw = 0
    <3> HIDE DEF active
    <3> QED
      BY <1>3, NewAccountTyped
  <2> HIDE DEF made
  <2> QED
    BY <2>1 DEF Account
<1>5. \/ /\ old # None /\ Exists(u)
         /\ user' = [user EXCEPT ![u].identity = TRUE] /\ Mint(u, old.pw, Overlapped(u, old))
      \/ /\ old = None /\ user[u] = None /\ user' = [user EXCEPT ![u] = row]
         /\ Mint(u, 0, FALSE) \/ UNCHANGED session
      \/ UNCHANGED <<user, session>>
  BY DEF AnswerSSO
<1> HIDE DEF row
<1>6. ASSUME old # None, Exists(u), user' = [user EXCEPT ![u].identity = TRUE],
             Mint(u, old.pw, Overlapped(u, old))
      PROVE  Inv'
  <2> DEFINE new == [of |-> u, pw |-> old.pw, iat |-> clock, excused |-> Overlapped(u, old)]
  <2>1. user[u] \in Account /\ user[u] # Gone
    BY <1>1, <1>6 DEF AccountTyped, Exists
  <2>2. tied \in Account /\ tied.pw = user[u].pw /\ tied.changed = user[u].changed
    BY <2>1 DEF Account
  <2>3. /\ user'[u] = tied /\ \A x \in Users : x # u => user'[x] = user[x]
        /\ user' \in [Users -> Account \cup {None, Gone}]
    BY <1>1, <1>6, <2>2 DEF AccountTyped
  <2>4. old \in Account
    BY <1>1, <1>6
  <2>5. /\ new \in Session /\ new.of = u /\ new.iat = clock /\ new.pw = old.pw
        /\ new.excused = Overlapped(u, old)
    BY <1>1, <1>2, <2>4 DEF Session, Account, Overlapped
  <2>6. session' = session \cup {new}
    BY <1>6 DEF Mint
  <2>7. new.excused \/ ((\A q \in Requests : Stamped(q) => req[q].u # new.of)
                        /\ (user'[new.of] \in Account => new.pw = user'[new.of].pw))
    BY <1>1, <2>2, <2>3, <2>5, NotOverlapped
  <2>8. user'[new.of] # None
    BY <2>2, <2>3, <2>5 DEF Assumed
  <2> HIDE DEF new, tied
  <2>9. \A s \in session' \ session : s = new
    BY <2>6
  <2>10. session' \subseteq Session /\ session \subseteq session'
    BY <1>2, <2>5, <2>6
  <2>11. \A m \in Mails : IF link[m] = None THEN link'[m] = None
                          ELSE link'[m] # None /\ (link'[m].live => link[m].live)
    BY <1>1
  <2> QED
    BY <1>1, <1>2, <2>1, <2>2, <2>3, <2>5, <2>7, <2>8, <2>9, <2>10, <2>11, RowsKeep
<1>7. ASSUME user[u] = None, user' = [user EXCEPT ![u] = row], Mint(u, 0, FALSE) \/ UNCHANGED session
      PROVE  Inv'
  <2> DEFINE new == [of |-> u, pw |-> 0, iat |-> clock, excused |-> FALSE]
  <2>1. user[u] # Gone /\ user[u] \notin Account
    BY <1>7 DEF Assumed
  <2>2. /\ user'[u] = row /\ \A x \in Users : x # u => user'[x] = user[x]
        /\ user' \in [Users -> Account \cup {None, Gone}]
    BY <1>1, <1>4, <1>7 DEF AccountTyped
  <2>3. new \in Session /\ new.of = u /\ new.iat = clock /\ new.pw = 0
    BY <1>1, <1>2 DEF Session
  <2>4. \A s \in session' \ session : s = new
    BY <1>7 DEF Mint
  <2>5. session' \subseteq Session /\ session \subseteq session'
    BY <1>2, <1>7, <2>3 DEF Mint
  <2>6. \A q \in Requests : Stamped(q) => req[q].u # u
    BY <1>1 DEF RowFree, Writing, Stamped
  <2>7. user'[u] # None /\ user'[u].pw = 0
    BY <1>4, <2>2 DEF Assumed
  <2> HIDE DEF new
  <2>8. \A m \in Mails : IF link[m] = None THEN link'[m] = None
                          ELSE link'[m] # None /\ (link'[m].live => link[m].live)
    BY <1>1
  <2> QED
    BY <1>1, <1>2, <1>4, <2>1, <2>2, <2>3, <2>4, <2>5, <2>6, <2>7, <2>8, RowsKeep
<1>8. ASSUME UNCHANGED <<user, session>>
      PROVE  Inv'
  BY <1>1, <1>8, ClosedKeeps
<1> QED
  BY <1>5, <1>6, <1>7, <1>8

LEMMA CommitsKeep ==
  ASSUME Inv, Assumed, NEW r \in Requests,
         CommitReset(r) \/ CommitToken(r) \/ CommitRegistration(r) \/ CommitVerified(r) \/ CommitNewPassword(r)
  PROVE  Inv'
<1>1. CASE CommitReset(r)
  BY <1>1, LinkCommitted DEF CommitReset, Has, Linking
<1>2. CASE CommitToken(r)
  BY <1>2, LinkCommitted DEF CommitToken, Has, Linking
<1>3. CASE CommitRegistration(r)
  BY <1>3, LinkCommitted DEF CommitRegistration, Has, Linking
<1>4. CASE CommitVerified(r)
  <2> DEFINE u == req[r].u
             row == [user[u] EXCEPT !.verified = TRUE]
  <2>1. /\ AccountTyped /\ req[r] # None /\ u \in Users /\ RowFree(u) /\ Close(r)
        /\ UNCHANGED <<session, clock, mailVars>>
    BY <1>4 DEF Inv, AccountInv, AccountTyped, RequestState, CommitVerified, Has
  <2>2. CASE Exists(u)
    <3>1. user[u] \in Account /\ user[u] # Gone
      BY <2>1, <2>2 DEF AccountTyped, Exists
    <3>2. row \in Account /\ row.pw = user[u].pw /\ row.changed = user[u].changed
      BY <3>1 DEF Account
    <3>3. user' = [user EXCEPT ![u] = row] /\ link' = Invalidate(LiveLinks(u, "verify"))
      BY <1>4, <2>2 DEF CommitVerified
    <3>4. LiveLinks(u, "verify") \in SUBSET Mails /\ \A m \in LiveLinks(u, "verify") : link[m] # None
      BY DEF LiveLinks
    <3> HIDE DEF row
    <3> QED
      BY <2>1, <3>1, <3>2, <3>3, <3>4, RowChanged
  <2>3. CASE ~Exists(u)
    BY <1>4, <2>1, <2>3, ClosedKeeps DEF CommitVerified
  <2> QED
    BY <2>2, <2>3
<1>5. CASE CommitNewPassword(r)
  BY <1>5, PasswordCommitted
<1> QED
  BY <1>1, <1>2, <1>3, <1>4, <1>5

LEMMA AsksKeep ==
  ASSUME Inv, Assumed, NEW r \in Requests, Ask(r)
  PROVE  Inv'
<1>0. AccountTyped /\ SessionInv
  BY DEF Inv, AccountInv
<1>1. ASSUME NEW s \in session, Refresh(r, s)
      PROVE  Inv'
  <2>1. /\ s \in Session /\ s.of \in Users /\ MayRefresh(s, user[s.of]) /\ Open(r, "refresh", s.of, s)
    BY <1>0, <1>1 DEF Refresh, AccountTyped, Session
  <2>2. user[s.of] \in Account /\ ~(s.iat < user[s.of].changed)
    BY <1>0, <2>1 DEF MayRefresh, Revoked, AccountTyped
  <2>3. ~s.excused /\ s.iat # user[s.of].changed => s.pw = user[s.of].pw
    BY <1>0, <2>1, <2>2 DEF SessionInv, Session, Account
  <2> QED
    BY <2>1, <2>2, <2>3, OpenKeeps
<1>2. ASSUME NEW u \in Users, LoginPassword(r, u)
      PROVE  Inv'
  BY <1>0, <1>2, OpenKeeps DEF LoginPassword, Exists, AccountTyped
<1>3. ASSUME NEW u \in Users, LoginSSO(r, u)
      PROVE  Inv'
  BY <1>3, OpenKeeps DEF LoginSSO
<1>4. ASSUME NEW u \in Users, Register(r, u) \/ ChangePassword(r, u) \/ RequestReset(r, u) \/ ResendVerification(r, u)
      PROVE  Inv'
  BY <1>4, OpenKeeps DEF Register, ChangePassword, RequestReset, ResendVerification
<1>5. ASSUME NEW m \in Mails, FollowReset(r, m) \/ ResendReset(r, m) \/ FollowVerification(r, m)
      PROVE  Inv'
  <2>1. link[m] # None /\ link[m].of \in Users
    BY <1>0, <1>5 DEF FollowReset, ResendReset, FollowVerification, Followed, AccountTyped, Link
  <2> QED
    BY <1>5, <2>1, OpenKeeps DEF FollowReset, ResendReset, FollowVerification
<1> QED
  BY <1>1, <1>2, <1>3, <1>4, <1>5 DEF Ask

LEMMA AdministrationKeeps ==
  ASSUME Inv, Assumed, Administrate
  PROVE  Inv'
<1>0. AccountTyped
  BY DEF Inv, AccountInv
<1>1. ASSUME NEW u \in Users, NEW auth \in {"password", "sso"}, NEW admin \in BOOLEAN, CreateUser(u, auth, admin)
      PROVE  Inv'
  <2> DEFINE row == NewAccount(auth, admin, TRUE, auth = "password")
  <2>1. row \in Account
    BY NewAccountTyped
  <2>2. /\ user' = [user EXCEPT ![u] = row] /\ RowFree(u) /\ user[u] # Gone /\ user[u] \notin Account
        /\ UNCHANGED <<link, req, session, clock, mailVars>>
    BY <1>1 DEF CreateUser, AtOnce, Assumed
  <2> HIDE DEF row
  <2> QED
    BY <2>1, <2>2, RowChanged
<1>2. ASSUME NEW u \in Users, NEW admin \in BOOLEAN, NEW active \in BOOLEAN, Exists(u), AtOnce(u), UNCHANGED link,
             \/ user' = [user EXCEPT ![u].admin = admin, ![u].active = active]
             \/ user' = [user EXCEPT ![u].active = active]
      PROVE  Inv'
  <2>1. /\ user[u] \in Account /\ user[u] # Gone /\ RowFree(u)
        /\ UNCHANGED <<link, req, session, clock, mailVars>>
    BY <1>0, <1>2 DEF AccountTyped, Exists, AtOnce
  <2> DEFINE both == [user[u] EXCEPT !.admin = admin, !.active = active]
             one == [user[u] EXCEPT !.active = active]
  <2>2. /\ both \in Account /\ both.pw = user[u].pw /\ both.changed = user[u].changed
        /\ one \in Account /\ one.pw = user[u].pw /\ one.changed = user[u].changed
    BY <2>1 DEF Account
  <2>3. user' = [user EXCEPT ![u] = both] \/ user' = [user EXCEPT ![u] = one]
    BY <1>0, <1>2 DEF AccountTyped
  <2> HIDE DEF both, one
  <2> QED
    BY <2>1, <2>2, <2>3, RowChanged
<1>3. ASSUME NEW u \in Users, NEW active \in BOOLEAN, SetUserActive(u, active)
      PROVE  Inv'
  <2>1. Exists(u)
    BY <1>3 DEF SetUserActive
  <2> QED
    BY <1>2, <1>3, <2>1 DEF SetUserActive
<1>4. ASSUME NEW u \in Users, DeleteUser(u)
      PROVE  Inv'
  <2> DEFINE seen == LiveLinks(u, "verify") \cup LiveLinks(u, "reset")
  <2>1. /\ user[u] \in Account /\ Writing(u) = {} /\ user' = [user EXCEPT ![u] = Gone]
        /\ link' = Invalidate(seen) /\ UNCHANGED <<req, session, clock, mailVars>>
    BY <1>0, <1>4 DEF DeleteUser, AtOnce, AccountTyped, Exists
  <2>2. seen \in SUBSET Mails /\ \A m \in seen : link[m] # None
    BY DEF LiveLinks
  <2> HIDE DEF seen
  <2> QED
    BY <2>1, <2>2, RowChanged
<1> QED
  BY <1>1, <1>2, <1>3, <1>4 DEF Administrate, UpdateUser, ActivateUser, DeactivateUser

LEMMA MailStepsKeep ==
  ASSUME Inv, Assumed, EmailNext, UNCHANGED accountVars
  PROVE  Inv'
<1>1. MailInv' /\ AuditMoves
  BY DeliverKeeps DEF EmailNext, Inv
<1>2. UNCHANGED <<user, link, session, req, clock>>
  BY DEF accountVars
<1>3. ASSUME NEW r \in Requests
      PROVE  RequestOK(r)'
  <2>1. RequestOK(r) /\ AccountTyped
    BY DEF Inv, AccountInv
  <2>2. Linking(r) => audit'[req[r].mail] = audit[req[r].mail]
    BY <1>1, <2>1 DEF RequestOK, Linking, AuditMoves, Unseen
  <2>3. Stamped(r) => user'[req[r].u] \in Account
    BY <1>2, <2>1 DEF RequestOK, Stamped
  <2> QED
    BY <1>2, <2>1, <2>2, <2>3, Frame
<1>4. LinkInv'
  BY <1>1, <1>2 DEF Inv, AccountInv, LinkInv, AuditMoves
<1> QED
  BY <1>1, <1>2, <1>3, <1>4 DEF Inv, AccountInv, AccountTyped, OneMailEach, Linking, SessionInv

LEMMA TickKeeps ==
  ASSUME Inv, Tick
  PROVE  Inv'
<1>1. clock' = clock + 1 /\ UNCHANGED <<user, link, session, req, audit, job, mailer, unmarked>>
  BY DEF Tick, mailVars
<1>2. MailInv'
  BY <1>1 DEF Inv, MailInv, MailTyped, Covered
<1>3. \A r \in Requests : RequestOK(r)'
  BY <1>1 DEF Inv, AccountInv, RequestOK, Linking, Stamped, Bound
<1>4. SessionInv'
  BY <1>1 DEF Inv, AccountInv, AccountTyped, SessionInv, Session
<1> QED
  BY <1>1, <1>2, <1>3, <1>4 DEF Inv, AccountInv, AccountTyped, OneMailEach, Linking, LinkInv

------------------------------------------------------------------------------
LEMMA InvInitially ==
  ASSUME Assumed, AccountsInit
  PROVE  Inv
<1>1. clock = 1 /\ session = {} /\ link = [m \in Mails |-> None] /\ req = [r \in Requests |-> None]
  BY DEF AccountsInit
<1>2. MailInv
  BY DEF AccountsInit, EmailInit, NoJob, MailInv, MailTyped
<1>3. user \in [Users -> Account \cup {None, Gone}]
  <2>1. \A u \in Users : NewAccount("password", u = Admin, TRUE, TRUE) \in Account
    BY <1>1 DEF NewAccount, Account
  <2>2. \/ user = [u \in Users |-> None]
        \/ user = [u \in Users |-> NewAccount("password", u = Admin, TRUE, TRUE)]
    BY DEF AccountsInit
  <2> QED
    BY <2>1, <2>2
<1> QED
  BY <1>1, <1>2, <1>3 DEF Inv, AccountInv, AccountTyped, RequestOK, OneMailEach, Linking, LinkInv, SessionInv

LEMMA InvKept ==
  ASSUME Assumed, Inv, [Next]_vars
  PROVE  Inv'
<1>1. CASE UNCHANGED vars
  BY <1>1 DEF vars, accountVars, mailVars, Inv, MailInv, MailTyped, Covered, AccountInv, AccountTyped,
              RequestOK, OneMailEach, Linking, Stamped, Bound, LinkInv, SessionInv
<1>2. ASSUME NEW r \in Requests, Answer(r)
      PROVE  Inv'
  BY <1>2, AnswersKeep, RegistrationsKeep, SSOKeeps, CommitsKeep DEF Answer
<1>3. CASE Next
  BY <1>2, <1>3, AsksKeep, RollbackKeeps, AdministrationKeeps, TickKeeps, MailStepsKeep DEF Next
<1> QED
  BY <1>1, <1>3

LEMMA InvHolds == Assumed => (Spec => []Inv)
<1> SUFFICES ASSUME Assumed PROVE Spec => []Inv
  OBVIOUS
<1>1. AccountsInit => Inv
  BY InvInitially
<1>2. Inv /\ [Next]_vars => Inv'
  BY InvKept
<1> QED
  BY <1>1, <1>2, PTL DEF Spec

\* A committed mail is not forgotten, whatever lapses, deaths and failures its job
\* meets: it is marked, under way or to come, or its last delivery is over
\* (EmailService.send, handle_email_job).
THEOREM MailAccountedForHolds ==
  ASSUME Assumed
  PROVE  Spec => []MailAccountedFor
<1>1. Inv => MailAccountedFor
  BY DEF Inv, MailInv, MailAccountedFor, Covered
<1> QED
  BY <1>1, InvHolds, PTL

------------------------------------------------------------------------------
(***************************************************************************)
(* Reset links.  What a request has found working when it began is spent   *)
(* by now, or the request spends it when it commits; what it spends it has *)
(* seen when it wrote.                                                     *)
(***************************************************************************)
ResetInv ==
  /\ known \in [Requests -> SUBSET Mails]
  /\ \A m \in ended : m \in Mails /\ link[m] # None /\ ~link[m].live
  /\ \A r \in Requests : \A m \in known[r] :
       /\ link[m] # None /\ link[m].kind = "reset" /\ link[m].of = req[r].u
       /\ req[r].op \in {"forgot", "reset"}
       /\ req[r].wrote => m \in req[r].saw \/ ~link[m].live

\* A link is of whom it was and never works again.
LinksGoOn == \A m \in Mails : link[m] # None =>
  /\ link'[m] # None /\ link'[m].kind = link[m].kind /\ link'[m].of = link[m].of
  /\ link'[m].live => link[m].live

\* What a step may do to a request.
Goes(r) ==
  \/ known'[r] = {}
  \/ known'[r] = known[r] /\ req'[r] = req[r]
  \/ /\ known'[r] = known[r] /\ req'[r].op = req[r].op /\ req'[r].u = req[r].u
     /\ \A m \in known[r] : m \in req'[r].saw \/ ~link'[m].live
  \/ /\ req'[r].op \in {"forgot", "reset"} /\ ~req'[r].wrote
     /\ known'[r] = LiveLinks(req'[r].u, "reset")

LEMMA ResetStep ==
  ASSUME ResetInv, LinksGoOn, known' \in [Requests -> SUBSET Mails], \A r \in Requests : Goes(r),
         NEW more \in SUBSET Mails, ended' = ended \cup more,
         \A m \in more : link'[m] # None /\ ~link'[m].live
  PROVE  ResetInv'
<1>1. \A m \in ended' : m \in Mails /\ link'[m] # None /\ ~link'[m].live
  BY DEF ResetInv, LinksGoOn
<1>2. ASSUME NEW r \in Requests, NEW m \in known'[r]
      PROVE  /\ link'[m] # None /\ link'[m].kind = "reset" /\ link'[m].of = req'[r].u
             /\ req'[r].op \in {"forgot", "reset"}
             /\ req'[r].wrote => m \in req'[r].saw \/ ~link'[m].live
  <2>0. m \in Mails
    BY <1>2
  <2>1. CASE known'[r] = known[r] /\ req'[r] = req[r]
    <3>1. /\ link[m] # None /\ link[m].kind = "reset" /\ link[m].of = req[r].u
          /\ req[r].op \in {"forgot", "reset"}
          /\ req[r].wrote => m \in req[r].saw \/ ~link[m].live
      BY <1>2, <2>1 DEF ResetInv
    <3> QED
      BY <2>0, <2>1, <3>1 DEF LinksGoOn
  <2>2. CASE /\ known'[r] = known[r] /\ req'[r].op = req[r].op /\ req'[r].u = req[r].u
             /\ \A n \in known[r] : n \in req'[r].saw \/ ~link'[n].live
    <3>1. /\ link[m] # None /\ link[m].kind = "reset" /\ link[m].of = req[r].u
          /\ req[r].op \in {"forgot", "reset"}
      BY <1>2, <2>2 DEF ResetInv
    <3> QED
      BY <1>2, <2>0, <2>2, <3>1 DEF LinksGoOn
  <2>3. CASE /\ req'[r].op \in {"forgot", "reset"} /\ ~req'[r].wrote
             /\ known'[r] = LiveLinks(req'[r].u, "reset")
    <3>1. link[m] # None /\ link[m].kind = "reset" /\ link[m].of = req'[r].u
      BY <1>2, <2>3 DEF LiveLinks
    <3> QED
      BY <2>0, <2>3, <3>1 DEF LinksGoOn
  <2> QED
    BY <1>2, <2>1, <2>2, <2>3 DEF Goes
<1> QED
  BY <1>1, <1>2 DEF ResetInv

\* Links that are spent go on.
LEMMA SpentGoOn ==
  ASSUME AccountTyped, Assumed, NEW seen \in SUBSET Mails, \A m \in seen : link[m] # None,
         \A m \in Mails : link[m] # None => link'[m] = Invalidate(seen)[m]
  PROVE  LinksGoOn /\ \A m \in seen : link'[m] # None /\ ~link'[m].live
<1>1. ASSUME NEW m \in Mails, link[m] # None
      PROVE  /\ link'[m] # None /\ link'[m].kind = link[m].kind /\ link'[m].of = link[m].of
             /\ link'[m].live => link[m].live
             /\ m \in seen => ~link'[m].live
  <2>1. PICK l \in Link : l = link[m]
    BY <1>1 DEF AccountTyped
  <2>2. PICK o : o = [l EXCEPT !.live = FALSE]
    OBVIOUS
  <2>3. o \in Link /\ o.kind = l.kind /\ o.of = l.of /\ ~o.live
    BY <2>1, <2>2 DEF Link
  <2>4. Invalidate(seen)[m] = IF m \in seen THEN o ELSE l
    BY <1>1, <2>1, <2>2 DEF Invalidate
  <2>5. link'[m] = IF m \in seen THEN o ELSE l
    BY <1>1, <2>4
  <2>6. l # None /\ o # None
    BY <2>1, <2>3 DEF Assumed
  <2> QED
    BY <2>1, <2>3, <2>5, <2>6
<1> QED
  BY <1>1 DEF LinksGoOn

\* Requests stay as they are, or end with nothing to answer for.
LEMMA QuietStep ==
  ASSUME ResetInv, LinksGoOn, UNCHANGED ended,
         UNCHANGED <<req, known>> \/ \E r \in Requests : Close(r) /\ req \in [Requests -> RequestState \cup {None}]
  PROVE  ResetInv'
<1>1. known' \in [Requests -> SUBSET Mails] /\ \A q \in Requests : Goes(q)
  <2>1. CASE UNCHANGED <<req, known>>
    BY <2>1 DEF ResetInv, Goes
  <2>2. ASSUME NEW r \in Requests, Close(r), req \in [Requests -> RequestState \cup {None}]
        PROVE  known' \in [Requests -> SUBSET Mails] /\ \A q \in Requests : Goes(q)
    <3>1. known' = [known EXCEPT ![r] = {}] /\ req' = [req EXCEPT ![r] = None]
      BY <2>2 DEF Close
    <3>2. known'[r] = {} /\ \A q \in Requests \ {r} : known'[q] = known[q] /\ req'[q] = req[q]
      BY <2>2, <3>1 DEF ResetInv
    <3>3. known' \in [Requests -> SUBSET Mails]
      BY <3>1 DEF ResetInv
    <3> QED
      BY <3>2, <3>3 DEF Goes
  <2> QED
    BY <2>1, <2>2
<1>2. PICK more \in SUBSET Mails : more = {}
  OBVIOUS
<1>3. ended' = ended \cup more
  BY <1>2
<1> QED
  BY <1>1, <1>2, <1>3, ResetStep

LEMMA LinksStay == ASSUME UNCHANGED link PROVE LinksGoOn
BY DEF LinksGoOn

LEMMA OpensStep ==
  ASSUME ResetInv, AccountTyped, NEW r \in Requests, NEW op, NEW u, NEW from, Open(r, op, u, from)
  PROVE  ResetInv'
<1>1. PICK new : new = [op |-> op, u |-> u, row |-> user[u], from |-> from,
                        first |-> \A x \in Users : ~Exists(x),
                        wrote |-> FALSE, mail |-> None, at |-> 0, saw |-> {}]
  OBVIOUS
<1>2. new.op = op /\ new.u = u /\ new.wrote = FALSE
  BY <1>1
<1>3. PICK found \in SUBSET Mails : found = IF op \in {"forgot", "reset"} THEN LiveLinks(u, "reset") ELSE {}
  BY DEF LiveLinks
<1>4. req' = [req EXCEPT ![r] = new] /\ known' = [known EXCEPT ![r] = found] /\ UNCHANGED <<link, ended>>
  BY <1>1, <1>3 DEF Open
<1>5. /\ known'[r] = found /\ req'[r] = new
      /\ \A q \in Requests \ {r} : known'[q] = known[q] /\ req'[q] = req[q]
  BY <1>4 DEF ResetInv, AccountTyped
<1>6. known' \in [Requests -> SUBSET Mails]
  BY <1>4 DEF ResetInv
<1>7. Goes(r)
  BY <1>2, <1>3, <1>5 DEF Goes
<1>8. \A q \in Requests : Goes(q)
  BY <1>5, <1>7 DEF Goes
<1>9. PICK more \in SUBSET Mails : more = {}
  OBVIOUS
<1>10. ended' = ended \cup more /\ LinksGoOn
  BY <1>4, <1>9 DEF LinksGoOn
<1> QED
  BY <1>6, <1>8, <1>9, <1>10, ResetStep

\* A request writes: it has seen what works now.
LEMMA WritesStep ==
  ASSUME ResetInv, AccountTyped, NEW r \in Requests, NEW new, req' = [req EXCEPT ![r] = new],
         UNCHANGED <<known, link, ended>>, new.op = req[r].op, new.u = req[r].u,
         req[r].op \in {"forgot", "reset"} => LiveLinks(req[r].u, "reset") \subseteq new.saw
  PROVE  ResetInv'
<1>1. req'[r] = new /\ \A q \in Requests \ {r} : req'[q] = req[q]
  BY DEF AccountTyped
<1>2. ASSUME NEW m \in known[r] PROVE m \in new.saw \/ ~link[m].live
  <2>1. /\ m \in Mails /\ link[m] # None /\ link[m].kind = "reset" /\ link[m].of = req[r].u
        /\ req[r].op \in {"forgot", "reset"}
    BY <1>2 DEF ResetInv
  <2> QED
    BY <2>1 DEF LiveLinks
<1>3. Goes(r)
  BY <1>1, <1>2 DEF Goes
<1>4. \A q \in Requests : Goes(q)
  BY <1>1, <1>3 DEF Goes
<1>5. PICK more \in SUBSET Mails : more = {}
  OBVIOUS
<1>6. ended' = ended \cup more /\ LinksGoOn /\ known' \in [Requests -> SUBSET Mails]
  BY <1>5 DEF LinksGoOn, ResetInv
<1> QED
  BY <1>4, <1>5, <1>6, ResetStep

\* A request commits: what it has seen is spent.
LEMMA CommitsStep ==
  ASSUME ResetInv, AccountTyped, LinksGoOn, NEW r \in Requests, Close(r), req[r] # None, req[r].wrote,
         ended' = ended \cup known[r], \A m \in req[r].saw : link'[m] # None /\ ~link'[m].live
  PROVE  ResetInv'
<1>1. known' = [known EXCEPT ![r] = {}] /\ req' = [req EXCEPT ![r] = None]
  BY DEF Close
<1>2. known'[r] = {} /\ \A q \in Requests \ {r} : known'[q] = known[q] /\ req'[q] = req[q]
  BY <1>1 DEF ResetInv, AccountTyped
<1>3. known' \in [Requests -> SUBSET Mails] /\ known[r] \in SUBSET Mails
  BY <1>1 DEF ResetInv
<1>4. \A q \in Requests : Goes(q)
  BY <1>2 DEF Goes
<1>5. ASSUME NEW m \in known[r] PROVE link'[m] # None /\ ~link'[m].live
  <2>1. m \in Mails /\ link[m] # None /\ (m \in req[r].saw \/ ~link[m].live)
    BY <1>5 DEF ResetInv
  <2> QED
    BY <2>1 DEF LinksGoOn
<1> QED
  BY <1>3, <1>4, <1>5, ResetStep

LEMMA LinkCommits ==
  ASSUME Inv, Assumed, ResetInv, NEW r \in Requests, Linking(r), NEW kind \in {"verify", "reset"},
         CommitLink(r, kind)
  PROVE  ResetInv'
<1>1. AccountTyped /\ RequestOK(r)
  BY DEF Inv, AccountInv
<1>2. req[r] # None /\ req[r].wrote
  BY DEF Linking
<1>3. PICK seen \in SUBSET Mails : seen = req[r].saw
  BY <1>1, <1>2 DEF AccountTyped, RequestState
<1>4. (\A m \in seen : link[m] # None) /\ link[req[r].mail] = None
  BY <1>1, <1>2, <1>3 DEF RequestOK
<1>5. PICK new : new = [kind |-> kind, of |-> req[r].u, live |-> TRUE]
  OBVIOUS
<1>6. link' = [Invalidate(seen) EXCEPT ![req[r].mail] = new] /\ Close(r) /\ ended' = ended \cup known[r]
  BY <1>3, <1>5 DEF CommitLink
<1>7. \A m \in Mails : link[m] # None => link'[m] = Invalidate(seen)[m]
  BY <1>4, <1>6 DEF Invalidate
<1>8. LinksGoOn /\ \A m \in seen : link'[m] # None /\ ~link'[m].live
  BY <1>1, <1>4, <1>7, SpentGoOn
<1> QED
  BY <1>1, <1>2, <1>3, <1>6, <1>8, CommitsStep

LEMMA PasswordCommits ==
  ASSUME Inv, Assumed, ResetInv, NEW r \in Requests, CommitNewPassword(r)
  PROVE  ResetInv'
<1>1. AccountTyped /\ RequestOK(r)
  BY DEF Inv, AccountInv
<1>2. /\ req[r] # None /\ req[r].wrote /\ Close(r)
      /\ link' = Invalidate(req[r].saw) /\ ended' = ended \cup known[r]
  BY DEF CommitNewPassword, Has
<1>3. PICK seen \in SUBSET Mails : seen = req[r].saw
  BY <1>1, <1>2 DEF AccountTyped, RequestState
<1>4. \A m \in seen : link[m] # None
  BY <1>1, <1>2, <1>3 DEF RequestOK
<1>5. LinksGoOn /\ \A m \in seen : link'[m] # None /\ ~link'[m].live
  BY <1>1, <1>2, <1>3, <1>4, SpentGoOn
<1> QED
  BY <1>1, <1>2, <1>3, <1>5, CommitsStep

LEMMA ResetAnswers ==
  ASSUME Inv, Assumed, ResetInv, NEW r \in Requests, Answer(r)
  PROVE  ResetInv'
<1>0. AccountTyped /\ req \in [Requests -> RequestState \cup {None}]
  BY DEF Inv, AccountInv, AccountTyped
<1>1. ASSUME UNCHANGED <<link, ended>>, Close(r)
      PROVE  ResetInv'
  BY <1>0, <1>1, LinksStay, QuietStep
<1>2. ASSUME NEW m \in Mails, NEW kind \in {"verify", "reset"}, UNCHANGED <<link, ended>>,
             WriteLink(r, m, LiveLinks(req[r].u, kind)), req[r] # None,
             req[r].op \in {"forgot", "reset"} => kind = "reset"
      PROVE  ResetInv'
  <2>1. PICK old \in RequestState : old = req[r]
    BY <1>0, <1>2
  <2>2. PICK saw \in SUBSET Mails : saw = LiveLinks(req[r].u, kind)
    BY DEF LiveLinks
  <2>3. PICK new : new = [old EXCEPT !.wrote = TRUE, !.mail = m, !.saw = saw]
    OBVIOUS
  <2>4. new.op = old.op /\ new.u = old.u /\ new.saw = saw
    BY <2>1, <2>3 DEF RequestState
  <2>5. req' = [req EXCEPT ![r] = new] /\ UNCHANGED known
    BY <1>0, <1>2, <2>1, <2>2, <2>3 DEF WriteLink
  <2> QED
    BY <1>0, <1>2, <2>1, <2>2, <2>4, <2>5, WritesStep
<1>3. ASSUME NEW m \in Mails, WriteReset(r, m) PROVE ResetInv'
  BY <1>1, <1>2, <1>3 DEF WriteReset, Has
<1>4. ASSUME NEW m \in Mails, IssueToken(r, m) PROVE ResetInv'
  BY <1>1, <1>2, <1>4 DEF IssueToken, Has
<1>5. ASSUME NEW m \in Mails, NEW over \in BOOLEAN, WriteRegistration(r, over, m) PROVE ResetInv'
  <2>1. req[r] # None /\ req[r].op = "register" /\ UNCHANGED <<link, ended>>
    BY <1>5 DEF WriteRegistration, Has
  <2>2. PICK old \in RequestState : old = req[r]
    BY <1>0, <2>1
  <2>3. ASSUME NEW row, req' = [req EXCEPT ![r].wrote = TRUE, ![r].mail = m, ![r].row = row], UNCHANGED known
        PROVE  ResetInv'
    <3>1. PICK new : new = [old EXCEPT !.wrote = TRUE, !.mail = m, !.row = row]
      OBVIOUS
    <3>2. new.op = old.op /\ new.u = old.u
      BY <2>2, <3>1 DEF RequestState
    <3>3. req' = [req EXCEPT ![r] = new]
      BY <1>0, <2>2, <2>3, <3>1
    <3> QED
      BY <1>0, <2>1, <2>2, <2>3, <3>2, <3>3, WritesStep
  <2> QED
    BY <1>1, <1>5, <2>1, <2>3 DEF WriteRegistration
<1>6. CASE WriteNewPassword(r)
  <2>1. req[r] # None /\ UNCHANGED <<link, ended>>
    BY <1>6 DEF WriteNewPassword, Has
  <2>2. PICK old \in RequestState : old = req[r]
    BY <1>0, <2>1
  <2>3. CASE Exists(req[r].u)
    <3>1. PICK saw : saw = IF req[r].op = "reset" THEN LiveLinks(req[r].u, "reset") \cup {req[r].from} ELSE {}
      OBVIOUS
    <3>2. PICK new : new = [old EXCEPT !.wrote = TRUE, !.at = BumpPasswordChangedAt, !.saw = saw]
      OBVIOUS
    <3>3. new.op = old.op /\ new.u = old.u /\ new.saw = saw
      BY <2>2, <3>2 DEF RequestState
    <3>4. req' = [req EXCEPT ![r] = new] /\ UNCHANGED known
      BY <1>0, <1>6, <2>2, <2>3, <3>1, <3>2 DEF WriteNewPassword
    <3>5. old.op \in {"forgot", "reset"} => LiveLinks(old.u, "reset") \subseteq new.saw
      BY <1>6, <2>2, <3>1, <3>3 DEF WriteNewPassword, Has
    <3> QED
      BY <1>0, <2>1, <2>2, <3>3, <3>4, <3>5, WritesStep
  <2>4. CASE ~Exists(req[r].u)
    BY <1>1, <1>6, <2>1, <2>4 DEF WriteNewPassword
  <2> QED
    BY <2>3, <2>4
<1>7. CASE CommitReset(r) \/ CommitToken(r) \/ CommitRegistration(r)
  BY <1>7, LinkCommits DEF CommitReset, CommitToken, CommitRegistration, Has, Linking
<1>8. CASE CommitVerified(r)
  <2>1. PICK seen \in SUBSET Mails : seen = LiveLinks(req[r].u, "verify")
    BY DEF LiveLinks
  <2>2. \A m \in seen : link[m] # None
    BY <2>1 DEF LiveLinks
  <2>3. link' = Invalidate(seen) \/ UNCHANGED link
    BY <1>8, <2>1 DEF CommitVerified
  <2>4. LinksGoOn
    BY <1>0, <2>2, <2>3, SpentGoOn, LinksStay
  <2>5. Close(r) /\ UNCHANGED ended
    BY <1>8 DEF CommitVerified
  <2> QED
    BY <1>0, <2>4, <2>5, QuietStep
<1>9. CASE AnswerRefresh(r) \/ AnswerLogin(r) \/ \E over \in BOOLEAN : AnswerSSO(r, over)
  BY <1>1, <1>9 DEF AnswerRefresh, AnswerLogin, AnswerSSO
<1> QED
  BY <1>3, <1>4, <1>5, <1>6, <1>7, <1>8, <1>9, PasswordCommits DEF Answer

LEMMA ResetAsks ==
  ASSUME Inv, ResetInv, NEW r \in Requests, Ask(r)
  PROVE  ResetInv'
<1>1. AccountTyped
  BY DEF Inv, AccountInv
<1>2. PICK op, u, from : Open(r, op, u, from)
  BY DEF Ask, Refresh, LoginPassword, LoginSSO, Register, ChangePassword, RequestReset, ResendVerification,
         FollowReset, ResendReset, FollowVerification
<1> QED
  BY <1>1, <1>2, OpensStep

LEMMA ResetAdministration ==
  ASSUME Inv, Assumed, ResetInv, Administrate
  PROVE  ResetInv'
<1>1. PICK u \in Users :
        \/ \E auth \in {"password", "sso"}, admin \in BOOLEAN : CreateUser(u, auth, admin)
        \/ \E admin, active \in BOOLEAN : UpdateUser(u, admin, active)
        \/ ActivateUser(u) \/ DeactivateUser(u) \/ DeleteUser(u)
        \/ \E active \in BOOLEAN : SetUserActive(u, active)
  BY DEF Administrate
<1>2. AtOnce(u) /\ (UNCHANGED link \/ DeleteUser(u))
  BY <1>1 DEF CreateUser, UpdateUser, ActivateUser, DeactivateUser, DeleteUser, SetUserActive
<1>3. UNCHANGED <<req, known, ended>>
  BY <1>2 DEF AtOnce
<1>4. CASE DeleteUser(u)
  <2>1. PICK seen \in SUBSET Mails : seen = LiveLinks(u, "verify") \cup LiveLinks(u, "reset")
    BY DEF LiveLinks
  <2>2. link' = Invalidate(seen) /\ \A m \in seen : link[m] # None
    BY <1>4, <2>1 DEF DeleteUser, LiveLinks
  <2>3. LinksGoOn
    BY <2>2, SpentGoOn DEF Inv, AccountInv
  <2> QED
    BY <1>3, <2>3, QuietStep
<1>5. CASE UNCHANGED link
  BY <1>3, <1>5, LinksStay, QuietStep
<1> QED
  BY <1>2, <1>4, <1>5

LEMMA ResetKept ==
  ASSUME Assumed, Inv, ResetInv, [Next]_vars
  PROVE  ResetInv'
<1>1. ASSUME NEW r \in Requests, Rollback(r) PROVE ResetInv'
  <2>1. Close(r) /\ UNCHANGED <<link, ended>> /\ req \in [Requests -> RequestState \cup {None}]
    BY <1>1 DEF Rollback, Inv, AccountInv, AccountTyped
  <2> QED
    BY <2>1, LinksStay, QuietStep
<1>2. CASE Tick \/ UNCHANGED accountVars \/ UNCHANGED vars
  <2>1. UNCHANGED <<link, req, known, ended>>
    BY <1>2 DEF Tick, accountVars, vars
  <2> QED
    BY <2>1, LinksStay, QuietStep
<1> QED
  BY <1>1, <1>2, ResetAsks, ResetAnswers, ResetAdministration DEF Next

\* No link that worked when a request for a reset link, or a reset, began works once it is
\* answered, whatever crosses it, fails, dies or is deleted meanwhile (request_reset,
\* resend_from_token, complete_reset, _invalidate_outstanding). Two that cross may each
\* leave a link of their own.
THEOREM EarlierLinksEndHolds ==
  ASSUME Assumed
  PROVE  Spec => []EarlierLinksEnd
<1>1. AccountsInit => ResetInv
  BY DEF AccountsInit, ResetInv
<1>2. Inv /\ ResetInv /\ [Next]_vars => ResetInv'
  BY ResetKept
<1>3. ResetInv => EarlierLinksEnd
  BY DEF ResetInv, EarlierLinksEnd
<1> QED
  BY <1>1, <1>2, <1>3, InvHolds, PTL DEF Spec

\* A changed password ends the sessions that rest on an older one, save those of its
\* second and of requests that overlapped it (is_token_revoked_by_password_change).
THEOREM OldSessionsEndHolds ==
  ASSUME Assumed
  PROVE  Spec => []OldSessionsEnd
<1>1. ASSUME Inv
      PROVE  OldSessionsEnd
  <2> SUFFICES ASSUME NEW s \in session, MayRefresh(s, user[s.of]), s.pw # user[s.of].pw, ~s.excused
               PROVE  s.iat = user[s.of].changed
    BY DEF OldSessionsEnd
  <2>1. s \in Session /\ user[s.of] \in Account
    BY <1>1 DEF Inv, AccountInv, AccountTyped, Session, MayRefresh
  <2>2. s.iat <= user[s.of].changed /\ ~(s.iat < user[s.of].changed)
    BY <1>1, <2>1 DEF Inv, AccountInv, SessionInv, MayRefresh, Revoked
  <2> QED
    BY <2>1, <2>2 DEF Session, Account
<1> QED
  BY <1>1, InvHolds, PTL

------------------------------------------------------------------------------
(***************************************************************************)
(* ExperienceDefinitions.                                                  *)
(***************************************************************************)
StepsOf == UNION {{steps[i] : i \in DOMAIN steps} : steps \in StepLists}
StepState == [key : {step.key : step \in StepsOf}, status : {"skipped", "succeeded", "failed"}]
Definition == [scope : Scopes, visibility : {"draft", "published"}, steps : StepLists, model : {Nobody, "model"}]
RunState == [user : Readers \cup {Nobody}, used : SUBSET (Readers \cup {Creator}),
             status : {"queued", "running", "succeeded", "failed", "gone"},
             states : Seq(StepState), result : {"answer", "data", Nobody}]
Execution == [user : Readers \cup {Nobody}, as : Readers \cup {Creator}, steps : Seq(StepsOf),
              model : {Nobody, "model"}, at : {"resume", "steps"}]

\* What an admin asks for are lists of steps, and nobody is a user.
DefConstants ==
  /\ StepLists \subseteq Seq(StepsOf)
  /\ Nobody \notin Definition \cup RunState \cup Execution \cup Readers

DefTyped ==
  /\ exp \in Definition \cup {Nobody}
  /\ run \in [Runs -> RunState \cup {Nobody}]
  /\ task \in [Runs -> Execution \cup {Nobody}]

\* Whose identity the runs of a user, or the shared ones, use.
IdentityOf(u) == IF u = Nobody THEN Creator ELSE u

\* What is executed is a run, and from the first step on that of the same user.
ExecutesAsUser(r) == task[r] # Nobody =>
  /\ run[r] # Nobody
  /\ task[r].as = IdentityOf(task[r].user)
  /\ task[r].at = "steps" => task[r].user = run[r].user

UsedOwn(r) == run[r] # Nobody => run[r].used \subseteq {IdentityOf(run[r].user)}

DefInv == DefTyped /\ \A r \in Runs : ExecutesAsUser(r) /\ UsedOwn(r)

\* Actions that leave runs and executions alone.
LEMMA DefinitionStepsKeep ==
  ASSUME DefConstants, DefInv, exp' \in Definition \cup {Nobody}, UNCHANGED <<run, task>>
  PROVE  DefInv'
BY DEF DefInv, DefTyped, ExecutesAsUser, UsedOwn

LEMMA UpdateKeeps ==
  ASSUME DefConstants, DefInv,
         \/ \E scope \in Scopes : Update("scope", scope)
         \/ \E seen \in {"draft", "published"} : Update("visibility", seen)
         \/ \E steps \in StepLists : UpdateSteps(steps)
         \/ \E model \in {Nobody, "model"} : UpdateModel(model)
  PROVE  DefInv'
<1>1. exp' \in Definition /\ UNCHANGED <<run, task>>
  BY DEF DefInv, DefTyped, Update, UpdateSteps, UpdateModel, Definition
<1> QED
  BY <1>1, DefinitionStepsKeep

\* One run moves: the others, and their executions, stay as they are.
LEMMA OneRunMoves ==
  ASSUME DefConstants, DefInv, NEW r \in Runs, UNCHANGED exp,
         run' \in [Runs -> RunState \cup {Nobody}], task' \in [Runs -> Execution \cup {Nobody}],
         \A q \in Runs \ {r} : run'[q] = run[q] /\ task'[q] = task[q],
         ExecutesAsUser(r)', UsedOwn(r)'
  PROVE  DefInv'
<1>1. DefTyped'
  BY DEF DefInv, DefTyped
<1>2. ASSUME NEW q \in Runs, q # r
      PROVE  ExecutesAsUser(q)' /\ UsedOwn(q)'
  BY <1>2 DEF DefInv, ExecutesAsUser, UsedOwn
<1> QED
  BY <1>1, <1>2 DEF DefInv

\* A run that is made is the user's, or nobody's if the experience is shared.
LEMMA LoadedFacts ==
  ASSUME DefConstants, DefInv, exp # Nobody, NEW u \in Readers \cup {Nobody},
         exp.scope = "user" => u # Nobody
  PROVE  /\ RunUser(u) \in Readers \cup {Nobody}
         /\ Loaded(u) \in Execution
         /\ Loaded(u).user = RunUser(u) /\ Loaded(u).as = IdentityOf(RunUser(u)) /\ Loaded(u).at = "resume"
<1>1. exp \in Definition /\ exp.scope \in {"user", "shared"} /\ exp.steps \in Seq(StepsOf) /\ exp.model \in {Nobody, "model"}
  BY DEF DefInv, DefTyped, Definition, Scopes, DefConstants
<1>2. RunUser(u) \in Readers \cup {Nobody} /\ RunIdentity(u) = IdentityOf(RunUser(u)) /\ RunIdentity(u) \in Readers \cup {Creator}
  BY <1>1 DEF RunUser, RunIdentity, IdentityOf
<1> QED
  BY <1>1, <1>2 DEF Loaded, Execution

LEMMA NewRunFacts ==
  ASSUME NEW u \in Readers \cup {Nobody}, NEW status \in {"queued", "running"}
  PROVE  NewRun(u, status) \in RunState /\ NewRun(u, status).user = u /\ NewRun(u, status).used = {}
<1>1. <<>> \in Seq(StepState)
  OBVIOUS
<1> QED
  BY <1>1 DEF NewRun, RunState

LEMMA ScheduleKeeps ==
  ASSUME DefConstants, DefInv, NEW r \in Runs, NEW u \in Readers, Schedule(r, u)
  PROVE  DefInv'
<1>1. RunUser(u) \in Readers \cup {Nobody}
  BY LoadedFacts DEF Schedule, DefConstants
<1>2. run' = [run EXCEPT ![r] = NewRun(RunUser(u), "queued")] /\ UNCHANGED <<exp, task>> /\ run[r] = Nobody
  BY DEF Schedule
<1>3. PICK n \in RunState : n = NewRun(RunUser(u), "queued") /\ n.used = {}
  BY <1>1, NewRunFacts
<1>4. run'[r] = n /\ run' \in [Runs -> RunState \cup {Nobody}] /\ \A q \in Runs \ {r} : run'[q] = run[q]
  BY <1>2, <1>3 DEF DefInv, DefTyped
<1>5. task[r] = Nobody
  BY <1>2 DEF DefInv, ExecutesAsUser
<1>6. ExecutesAsUser(r)' /\ UsedOwn(r)'
  BY <1>2, <1>3, <1>4, <1>5 DEF ExecutesAsUser, UsedOwn
<1> QED
  BY <1>2, <1>4, <1>6, OneRunMoves DEF DefInv, DefTyped

LEMMA RunNowKeeps ==
  ASSUME DefConstants, DefInv, NEW r \in Runs, NEW u \in Readers, RunNow(r, u)
  PROVE  DefInv'
<1>1. u # Nobody /\ exp # Nobody
  BY DEF DefConstants, RunNow
<1>2. PICK l \in Execution : l = Loaded(u) /\ l.user = RunUser(u) /\ l.as = IdentityOf(RunUser(u))
  BY <1>1, LoadedFacts
<1>3. PICK n \in RunState : n = NewRun(RunUser(u), "running") /\ n.user = RunUser(u) /\ n.used = {}
  BY <1>1, LoadedFacts, NewRunFacts
<1>4. run' = [run EXCEPT ![r] = n] /\ task' = [task EXCEPT ![r] = [l EXCEPT !.at = "steps"]] /\ UNCHANGED exp
  BY <1>2, <1>3 DEF RunNow
<1>5. PICK e \in Execution : e = [l EXCEPT !.at = "steps"] /\ e.user = l.user /\ e.as = l.as
  <2>1. [l EXCEPT !.at = "steps"] \in Execution
    BY DEF Execution
  <2>2. [l EXCEPT !.at = "steps"].user = l.user /\ [l EXCEPT !.at = "steps"].as = l.as
    BY DEF Execution
  <2> QED
    BY <2>1, <2>2
<1>6. /\ run' \in [Runs -> RunState \cup {Nobody}] /\ task' \in [Runs -> Execution \cup {Nobody}]
      /\ run'[r] = n /\ task'[r] = e
      /\ \A q \in Runs \ {r} : run'[q] = run[q] /\ task'[q] = task[q]
  BY <1>4, <1>5 DEF DefInv, DefTyped
<1>7. n # Nobody
  BY DEF DefConstants
<1>8. ExecutesAsUser(r)' /\ UsedOwn(r)'
  BY <1>2, <1>3, <1>5, <1>6, <1>7 DEF ExecutesAsUser, UsedOwn, IdentityOf
<1>9. UNCHANGED exp
  BY <1>4
<1> QED
  BY <1>6, <1>8, <1>9, OneRunMoves

\* A run goes on or ends: its user stays, and so does what was used or only its
\* own identity came to it.
LEMMA RunGoesOn ==
  ASSUME DefConstants, DefInv, NEW r \in Runs, run[r] # Nobody, UNCHANGED exp,
         NEW x \in RunState, run' = [run EXCEPT ![r] = x],
         NEW y \in Execution \cup {Nobody}, task' = [task EXCEPT ![r] = y],
         x.user = run[r].user, x.used \subseteq {IdentityOf(run[r].user)},
         y # Nobody => y.as = IdentityOf(y.user) /\ (y.at = "steps" => y.user = x.user)
  PROVE  DefInv'
<1>1. /\ run' \in [Runs -> RunState \cup {Nobody}] /\ task' \in [Runs -> Execution \cup {Nobody}]
      /\ run'[r] = x /\ task'[r] = y
      /\ \A q \in Runs \ {r} : run'[q] = run[q] /\ task'[q] = task[q]
  BY DEF DefInv, DefTyped
<1>2. x # Nobody
  BY DEF DefConstants
<1>3. ExecutesAsUser(r)' /\ UsedOwn(r)'
  BY <1>1, <1>2 DEF ExecutesAsUser, UsedOwn, IdentityOf
<1> QED
  BY <1>1, <1>3, OneRunMoves

\* What the invariant says of one run and its execution.
LEMMA RunFacts ==
  ASSUME DefConstants, DefInv, NEW r \in Runs
  PROVE  /\ run[r] # Nobody => run[r] \in RunState /\ run[r].used \subseteq {IdentityOf(run[r].user)}
         /\ task[r] # Nobody => /\ task[r] \in Execution /\ run[r] # Nobody
                                /\ task[r].as = IdentityOf(task[r].user)
                                /\ task[r].at = "steps" => task[r].user = run[r].user
BY DEF DefInv, DefTyped, ExecutesAsUser, UsedOwn

\* The run changes its status or result, and is executed no more.
LEMMA RunEndsKeeps ==
  ASSUME DefConstants, DefInv, NEW r \in Runs, UNCHANGED exp,
         run[r] # Nobody,
         NEW status \in {"succeeded", "failed"}, NEW result \in {"answer", "data", Nobody},
         \/ run' = [run EXCEPT ![r].status = status, ![r].result = result]
         \/ run' = [run EXCEPT ![r].status = status]
         \/ UNCHANGED run,
         task' = [task EXCEPT ![r] = Nobody]
  PROVE  DefInv'
<1>1. run[r] \in RunState /\ run[r].used \subseteq {IdentityOf(run[r].user)}
  BY RunFacts
<1>2. PICK n : n = run[r]
  OBVIOUS
<1>3. CASE run' = [run EXCEPT ![r].status = status, ![r].result = result]
  <2>1. PICK x : x = [[n EXCEPT !.status = status] EXCEPT !.result = result]
    OBVIOUS
  <2>2. x \in RunState /\ x.user = n.user /\ x.used = n.used
    BY <1>1, <1>2, <2>1 DEF RunState
  <2>3. run' = [run EXCEPT ![r] = x]
    BY <1>2, <1>3, <2>1 DEF DefInv, DefTyped
  <2> QED
    BY <1>1, <1>2, <2>2, <2>3, RunGoesOn
<1>4. CASE run' = [run EXCEPT ![r].status = status]
  <2>1. PICK x : x = [n EXCEPT !.status = status]
    OBVIOUS
  <2>2. x \in RunState /\ x.user = n.user /\ x.used = n.used
    BY <1>1, <1>2, <2>1 DEF RunState
  <2>3. run' = [run EXCEPT ![r] = x]
    BY <1>2, <1>4, <2>1 DEF DefInv, DefTyped
  <2> QED
    BY <1>1, <1>2, <2>2, <2>3, RunGoesOn
<1>5. CASE UNCHANGED run
  <2>1. run' = [run EXCEPT ![r] = n]
    BY <1>2, <1>5 DEF DefInv, DefTyped
  <2> QED
    BY <1>1, <1>2, <2>1, RunGoesOn
<1> QED
  BY <1>3, <1>4, <1>5

LEMMA EndingsKeep ==
  ASSUME DefConstants, DefInv, NEW r \in Runs,
         \/ RefuseRun(r) \/ NoStepSucceeded(r) \/ RunFails(r) \/ RunIsGone(r)
         \/ \E answers \in BOOLEAN : Synthesize(r, answers)
  PROVE  DefInv'
<1>1. CASE RefuseRun(r)
  <2>1. task' = [task EXCEPT ![r] = Nobody]
    BY <1>1 DEF RefuseRun, Waits, DefInv, DefTyped
  <2>2. run[r] # Nobody /\ run' = [run EXCEPT ![r].status = "failed"] /\ UNCHANGED exp
    BY <1>1 DEF RefuseRun, Waits, End
  <2> QED
    BY <2>1, <2>2, RunEndsKeeps
<1>2. CASE NoStepSucceeded(r) \/ RunFails(r)
  <2>1. Working(r) /\ Finalize(r, "failed", Nobody)
    BY <1>2 DEF NoStepSucceeded, RunFails
  <2> QED
    BY <2>1, RunEndsKeeps, RunFacts DEF Working, Finalize
<1>3. CASE \E answers \in BOOLEAN : Synthesize(r, answers)
  <2>1. Working(r) /\ \E result \in {"answer", "data"} : Finalize(r, "succeeded", result)
    BY <1>3 DEF Synthesize
  <2> QED
    BY <2>1, RunEndsKeeps, RunFacts DEF Working, Finalize
<1>4. CASE RunIsGone(r)
  BY <1>4, RunEndsKeeps, RunFacts DEF RunIsGone
<1> QED
  BY <1>1, <1>2, <1>3, <1>4

LEMMA ExecuteKeeps ==
  ASSUME DefConstants, DefInv, NEW r \in Runs, Execute(r)
  PROVE  DefInv'
<1>1. /\ run[r] # Nobody /\ exp # Nobody /\ (exp.scope = "user" => run[r].user # Nobody)
      /\ task' = [task EXCEPT ![r] = Loaded(run[r].user)] /\ UNCHANGED <<exp, run>>
  BY DEF Execute, Waits, Refused
<1>2. PICK n \in RunState : n = run[r] /\ n.used \subseteq {IdentityOf(n.user)}
  BY <1>1, RunFacts
<1>3. n.user \in Readers \cup {Nobody}
  BY DEF RunState
<1>4. PICK l \in Execution : l = Loaded(n.user) /\ l.as = IdentityOf(l.user) /\ l.at = "resume"
  BY <1>1, <1>2, <1>3, LoadedFacts
<1>5. run' = [run EXCEPT ![r] = n] /\ task' = [task EXCEPT ![r] = l]
  BY <1>1, <1>2, <1>4 DEF DefInv, DefTyped
<1> QED
  BY <1>1, <1>2, <1>4, <1>5, RunGoesOn

LEMMA ResumeKeeps ==
  ASSUME DefConstants, DefInv, NEW r \in Runs, Resume(r)
  PROVE  DefInv'
<1>1. /\ run[r] # Nobody /\ run[r] \in RunState /\ run[r].used \subseteq {IdentityOf(run[r].user)}
      /\ task[r] # Nobody /\ task[r] \in Execution /\ task[r].as = IdentityOf(task[r].user)
      /\ UNCHANGED exp
  BY RunFacts DEF Resume
<1>2. CASE run[r].status = "queued" /\ SameUser(r)
  <2>1. PICK n : n = run[r]
    OBVIOUS
  <2>2. PICK t : t = task[r]
    OBVIOUS
  <2>3. PICK x : x = [n EXCEPT !.status = "running"]
    OBVIOUS
  <2>4. PICK y : y = [t EXCEPT !.at = "steps"]
    OBVIOUS
  <2>5. x \in RunState /\ x.user = n.user /\ x.used = n.used
    BY <1>1, <2>1, <2>3 DEF RunState
  <2>6. y \in Execution /\ y.user = t.user /\ y.as = t.as
    BY <1>1, <2>2, <2>4 DEF Execution
  <2>7. run' = [run EXCEPT ![r] = x] /\ task' = [task EXCEPT ![r] = y]
    BY <1>2, <2>1, <2>2, <2>3, <2>4 DEF Resume, DefInv, DefTyped
  <2>8. t.user = n.user
    BY <1>2, <2>1, <2>2 DEF SameUser
  <2> QED
    BY <1>1, <2>1, <2>2, <2>5, <2>6, <2>7, <2>8, RunGoesOn
<1>3. CASE ~(run[r].status = "queued" /\ SameUser(r))
  BY <1>1, <1>3, RunEndsKeeps DEF Resume
<1> QED
  BY <1>2, <1>3

\* A step is recorded: it was skipped, or used no other identity than its own.
LEMMA StepsKeep ==
  ASSUME DefConstants, DefInv, NEW r \in Runs,
         SkipStep(r) \/ \E status \in {"succeeded", "failed"} : RunStep(r, status)
  PROVE  DefInv'
<1>1. PICK n : n = run[r]
  OBVIOUS
<1>2. PICK t : t = task[r]
  OBVIOUS
<1>3. /\ t # Nobody /\ n # Nobody /\ t.at = "steps" /\ t.steps # <<>> /\ Left(r) /\ UNCHANGED exp
  BY <1>1, <1>2, RunFacts DEF SkipStep, RunStep, Working
<1>4. /\ n \in RunState /\ n.used \subseteq {IdentityOf(n.user)}
      /\ t \in Execution /\ t.as = IdentityOf(t.user) /\ t.user = n.user
  BY <1>1, <1>2, <1>3, RunFacts
<1>5. t.steps \in Seq(StepsOf) /\ Head(t.steps) \in StepsOf /\ Tail(t.steps) \in Seq(StepsOf)
  BY <1>3, <1>4 DEF Execution
<1>6. PICK y : y = [t EXCEPT !.steps = Tail(t.steps)]
  OBVIOUS
<1>7. y \in Execution /\ y.user = t.user /\ y.as = t.as
  BY <1>4, <1>5, <1>6 DEF Execution
<1>8. task' = [task EXCEPT ![r] = y]
  BY <1>2, <1>3, <1>6 DEF Left, DefInv, DefTyped
<1>9. PICK x \in RunState : run' = [run EXCEPT ![r] = x] /\ x.user = n.user /\ x.used \subseteq {IdentityOf(n.user)}
  <2>1. ASSUME NEW status \in {"skipped", "succeeded", "failed"}
        PROVE  Append(n.states, [key |-> Head(t.steps).key, status |-> status]) \in Seq(StepState)
    <3>1. [key |-> Head(t.steps).key, status |-> status] \in StepState
      BY <1>5 DEF StepState
    <3> QED
      BY <1>4, <3>1 DEF RunState
  <2>2. \A used \in SUBSET {IdentityOf(n.user)} : used \in SUBSET (Readers \cup {Creator})
    BY <1>4 DEF RunState, IdentityOf
  <2>3. ASSUME NEW status \in {"skipped", "succeeded", "failed"}, NEW used \in SUBSET {IdentityOf(n.user)},
               run' = [run EXCEPT ![r].states = Append(@, [key |-> Head(t.steps).key, status |-> status]),
                                  ![r].used = used]
        PROVE  \E x \in RunState : run' = [run EXCEPT ![r] = x] /\ x.user = n.user /\ x.used \subseteq {IdentityOf(n.user)}
    <3>1. PICK states \in Seq(StepState) : states = Append(n.states, [key |-> Head(t.steps).key, status |-> status])
      BY <2>1
    <3>2. PICK x : x = [[n EXCEPT !.states = states] EXCEPT !.used = used]
      OBVIOUS
    <3>3. x \in RunState /\ x.user = n.user /\ x.used = used
      BY <1>4, <2>2, <3>2 DEF RunState
    <3>4. run' = [run EXCEPT ![r] = x]
      BY <1>1, <1>3, <1>4, <2>3, <3>1, <3>2 DEF RunState
    <3> QED
      BY <3>3, <3>4
  <2>4. CASE SkipStep(r)
    <3>1. run' = [run EXCEPT ![r].states = Append(@, [key |-> Head(t.steps).key, status |-> "skipped"])]
      BY <1>1, <1>2, <2>4 DEF SkipStep, Record
    <3>2. run' = [run EXCEPT ![r].states = Append(@, [key |-> Head(t.steps).key, status |-> "skipped"]),
                             ![r].used = n.used]
      BY <1>1, <1>4, <3>1 DEF DefInv, DefTyped, RunState
    <3> QED
      BY <1>4, <2>3, <3>2
  <2>5. ASSUME NEW status \in {"succeeded", "failed"}, RunStep(r, status)
        PROVE  \E x \in RunState : run' = [run EXCEPT ![r] = x] /\ x.user = n.user /\ x.used \subseteq {IdentityOf(n.user)}
    <3>1. PICK added : added = IF status = "failed" THEN {} ELSE Subject(r, Head(t.steps))
      OBVIOUS
    <3>2. added \subseteq {t.as}
      BY <1>2, <3>1 DEF Subject
    <3>3. n.used \cup added \subseteq {IdentityOf(n.user)}
      BY <1>4, <3>2
    <3>4. PICK used \in SUBSET {IdentityOf(n.user)} : used = n.used \cup added
      BY <3>3
    <3>5. run' = [run EXCEPT ![r].states = Append(@, [key |-> Head(t.steps).key, status |-> status]),
                             ![r].used = used]
      BY <1>1, <1>2, <2>5, <3>1, <3>4 DEF RunStep
    <3> QED
      BY <2>3, <3>5
  <2> QED
    BY <2>4, <2>5
<1> QED
  BY <1>1, <1>3, <1>4, <1>7, <1>8, <1>9, RunGoesOn

LEMMA DeleteExperienceKeeps ==
  ASSUME DefConstants, DefInv, DeleteExperience
  PROVE  DefInv'
<1>1. run' = [r \in Runs |-> IF run[r] = Nobody THEN Nobody ELSE [run[r] EXCEPT !.status = "gone"]]
  BY DEF DeleteExperience
<1>2. \A n \in RunState : [n EXCEPT !.status = "gone"] \in RunState
  BY DEF RunState
<1>3. \A n \in RunState : [n EXCEPT !.status = "gone"].user = n.user /\ [n EXCEPT !.status = "gone"].used = n.used
  BY DEF RunState
<1>4. DefTyped' /\ UNCHANGED task
  BY <1>1, <1>2 DEF DefInv, DefTyped, DeleteExperience
<1>5. ASSUME NEW r \in Runs
      PROVE  ExecutesAsUser(r)' /\ UsedOwn(r)'
  <2>1. CASE run[r] = Nobody
    BY <1>1, <1>4, <2>1, RunFacts DEF ExecutesAsUser, UsedOwn
  <2>2. CASE run[r] # Nobody
    <3>1. PICK n \in RunState : n = run[r] /\ n.used \subseteq {IdentityOf(n.user)}
      BY <2>2, RunFacts
    <3>2. PICK x \in RunState : x = [n EXCEPT !.status = "gone"] /\ x.user = n.user /\ x.used = n.used
      BY <1>2, <1>3
    <3>3. run'[r] = x /\ x # Nobody
      BY <1>1, <2>2, <3>1, <3>2 DEF DefConstants
    <3> QED
      BY <1>4, <3>1, <3>2, <3>3, RunFacts DEF ExecutesAsUser, UsedOwn
  <2> QED
    BY <2>1, <2>2
<1> QED
  BY <1>4, <1>5 DEF DefInv

LEMMA DefStep == ASSUME DefConstants, DefInv, [DefNext]_defVars PROVE DefInv'
<1>1. CASE UNCHANGED defVars
  BY <1>1, DefinitionStepsKeep DEF defVars, DefInv, DefTyped
<1>2. ASSUME NEW scope \in Scopes, NEW steps \in StepLists, NEW model \in {Nobody, "model"},
             CreateExperience(scope, steps, model)
      PROVE  DefInv'
  <2>1. exp' \in Definition /\ UNCHANGED <<run, task>>
    BY <1>2 DEF CreateExperience, Definition
  <2> QED
    BY <2>1, DefinitionStepsKeep
<1>3. CASE Deactivate
  BY <1>3, DefinitionStepsKeep DEF Deactivate, DefInv, DefTyped
<1>4. CASE DeleteExperience
  BY <1>4, DeleteExperienceKeeps
<1>5. ASSUME NEW r \in Runs, NEW u \in Readers, Schedule(r, u) \/ RunNow(r, u)
      PROVE  DefInv'
  BY <1>5, ScheduleKeeps, RunNowKeeps
<1>6. ASSUME NEW r \in Runs,
             \/ RefuseRun(r) \/ Execute(r) \/ Resume(r) \/ SkipStep(r)
             \/ NoStepSucceeded(r) \/ RunFails(r) \/ RunIsGone(r)
             \/ \E status \in {"succeeded", "failed"} : RunStep(r, status)
             \/ \E answers \in BOOLEAN : Synthesize(r, answers)
      PROVE  DefInv'
  BY <1>6, EndingsKeep, ExecuteKeeps, ResumeKeeps, StepsKeep
<1>7. CASE \/ \E scope \in Scopes : Update("scope", scope)
           \/ \E seen \in {"draft", "published"} : Update("visibility", seen)
           \/ \E steps \in StepLists : UpdateSteps(steps)
           \/ \E model \in {Nobody, "model"} : UpdateModel(model)
  BY <1>7, UpdateKeeps
<1> QED
  BY <1>1, <1>2, <1>3, <1>4, <1>5, <1>6, <1>7 DEF DefNext

\* However an experience is edited, shared and deleted while runs of it wait and are
\* executed, users are shown what was read with their own identity, or with that of the
\* creator when the run is shared (_load_and_resolve_identity, _create_or_resume_run).
THEOREM ShownIsTheirsHolds ==
  ASSUME DefConstants
  PROVE  DefSpec => []ShownIsTheirs
<1>1. DefInit => DefInv
  BY DEF DefInit, DefInv, DefTyped, ExecutesAsUser, UsedOwn
<1>2. DefInv /\ [DefNext]_defVars => DefInv'
  BY DefStep
<1>3. ASSUME DefInv PROVE ShownIsTheirs
  <2> SUFFICES ASSUME NEW u \in Readers, ~IsAdmin(u), NEW r \in ShownRuns(u) \cup Results(u)
               PROVE  run[r].used \subseteq (IF run[r].user = Nobody THEN {Creator} ELSE {u})
    BY DEF ShownIsTheirs
  <2>1. r \in Runs /\ run[r] # Nobody /\ run[r].user \in {u, Nobody}
    BY DEF ShownRuns, Results, Rows
  <2> QED
    BY <1>3, <2>1, RunFacts DEF IdentityOf
<1> QED
  BY <1>1, <1>2, <1>3, PTL DEF DefSpec

------------------------------------------------------------------------------
(***************************************************************************)
(* Conversations.                                                          *)
(***************************************************************************)
ConvRow == [active : BOOLEAN, model : Models, title : {"auto", "experience", "own"}, locked : BOOLEAN, covers : Nat]
ChatOps == {"title", "unlock", "delete", "rename", "summary", "switch", "upload", "message", "send",
            "turn", "extract", "cleanup"}
ChatRow == [op : ChatOps, locked : BOOLEAN, covers : Nat, seen : Nat, models : SUBSET Models, atts : SUBSET Attachments]

\* The marker is told from rows, requests and messages; a deployment has finitely many models.
ConvConstants == NoRow \notin ConvRow \cup ChatRow \cup Nat /\ IsFiniteSet(Models)

ConvTyped ==
  /\ conv \in ConvRow \cup {NoRow}
  /\ chatReq \in [ChatRequests -> ChatRow \cup {NoRow}]
  /\ msgs \in Nat /\ kept \in BOOLEAN

FilesTyped ==
  /\ linked \in [Attachments -> Nat \cup {NoRow}]
  /\ att \in [Attachments -> [file : BOOLEAN, row : BOOLEAN, expired : BOOLEAN]]

\* A request of the conversation was let in by its row, and one let in since the
\* user gave the title knows of the lock.
KnowsLock(r) == chatReq[r] # NoRow /\ chatReq[r].op # "cleanup" =>
  /\ conv # NoRow
  /\ kept => chatReq[r].locked

TitleInv == (kept => conv # NoRow /\ conv.title = "own" /\ conv.locked) /\ \A r \in ChatRequests : KnowsLock(r)

\* An attachment whose row is there and has not expired has its file; a linked one has its row.
FileThere(a) ==
  /\ att[a].row /\ ~att[a].expired => att[a].file
  /\ linked[a] # NoRow => att[a].row

\* What an upload is about is one attachment; once its file is written, the row is
\* still to come and nobody else is at it.  The cleanup is about expired ones.
UploadsOne(r) == chatReq[r] # NoRow =>
  /\ chatReq[r].op \in {"upload", "extract"} => \E a \in Attachments : chatReq[r].atts = {a}
  /\ chatReq[r].op = "extract" =>
       \A a \in chatReq[r].atts : att[a].file /\ ~att[a].row /\ ~att[a].expired
  /\ chatReq[r].op = "cleanup" => \A a \in chatReq[r].atts : att[a].expired
UploadsApart == \A r, q \in ChatRequests :
  /\ chatReq[r] # NoRow /\ chatReq[q] # NoRow /\ r # q
  /\ chatReq[r].op = "extract" /\ chatReq[q].op = "extract"
  => chatReq[r].atts \cap chatReq[q].atts = {}

FilesInv == (\A a \in Attachments : FileThere(a)) /\ (\A r \in ChatRequests : UploadsOne(r)) /\ UploadsApart

ConvInv == ConvTyped /\ FilesTyped /\ TitleInv /\ FilesInv

\* The row is written by the fields.
LEMMA WriteFacts ==
  ASSUME NEW c \in ConvRow, conv = c, NEW fields, Write(fields),
         \A x \in DOMAIN fields : x \in {"active", "model", "title", "locked", "covers"},
         "active" \in DOMAIN fields => fields["active"] \in BOOLEAN,
         "model" \in DOMAIN fields => fields["model"] \in Models,
         "title" \in DOMAIN fields => fields["title"] \in {"auto", "experience", "own"},
         "locked" \in DOMAIN fields => fields["locked"] \in BOOLEAN,
         "covers" \in DOMAIN fields => fields["covers"] \in Nat
  PROVE  /\ conv' \in ConvRow
         /\ conv'.title = IF "title" \in DOMAIN fields THEN fields["title"] ELSE c.title
         /\ conv'.locked = IF "locked" \in DOMAIN fields THEN fields["locked"] ELSE c.locked
<1>1. DOMAIN c = {"active", "model", "title", "locked", "covers"}
  BY DEF ConvRow
<1>2. PICK d : d = [x \in DOMAIN c |-> IF x \in DOMAIN fields THEN fields[x] ELSE c[x]]
  OBVIOUS
<1>3. d = [active |-> d["active"], model |-> d["model"], title |-> d["title"], locked |-> d["locked"], covers |-> d["covers"]]
  BY <1>1, <1>2
<1>4. /\ d["active"] \in BOOLEAN /\ d["model"] \in Models /\ d["title"] \in {"auto", "experience", "own"}
      /\ d["locked"] \in BOOLEAN /\ d["covers"] \in Nat
  BY <1>1, <1>2 DEF ConvRow
<1>5. d \in ConvRow
  BY <1>3, <1>4 DEF ConvRow
<1>6. conv' = d
  BY <1>2 DEF Write
<1> QED
  BY <1>1, <1>2, <1>5, <1>6

\* A request ends: what it leaves as the row stays what the user called it.
LEMMA EndKeepsTitle ==
  ASSUME ConvConstants, ConvTyped, TitleInv, NEW r \in ChatRequests, Ends(r), msgs' \in Nat, kept' \in BOOLEAN,
         conv' = conv \/ conv' \in ConvRow,
         kept' => conv' # NoRow /\ conv'.title = "own" /\ conv'.locked,
         \A q \in ChatRequests \ {r} : kept' /\ chatReq[q] # NoRow /\ chatReq[q].op # "cleanup" => chatReq[q].locked
  PROVE  ConvTyped' /\ TitleInv'
<1>1. chatReq' = [chatReq EXCEPT ![r] = NoRow]
  BY DEF Ends
<1>2. ConvTyped' /\ chatReq'[r] = NoRow /\ \A q \in ChatRequests \ {r} : chatReq'[q] = chatReq[q]
  BY <1>1 DEF ConvTyped
<1>3. ASSUME NEW q \in ChatRequests, chatReq'[q] # NoRow, chatReq'[q].op # "cleanup"
      PROVE  conv' # NoRow /\ (kept' => chatReq'[q].locked)
  <2>1. q # r /\ chatReq'[q] = chatReq[q]
    BY <1>2, <1>3
  <2> QED
    BY <1>3, <2>1 DEF TitleInv, KnowsLock, ConvConstants
<1> QED
  BY <1>2, <1>3 DEF TitleInv, KnowsLock

\* A request goes on, and knows of the lock what it knew.
LEMMA GoOnKeepsTitle ==
  ASSUME ConvConstants, ConvTyped, TitleInv, NEW r \in ChatRequests, NEW x \in ChatRow,
         chatReq' = [chatReq EXCEPT ![r] = x], msgs' \in Nat, UNCHANGED <<conv, kept>>,
         x.op = "cleanup" \/ (conv # NoRow /\ (kept => x.locked))
  PROVE  ConvTyped' /\ TitleInv'
<1>1. chatReq'[r] = x /\ \A q \in ChatRequests \ {r} : chatReq'[q] = chatReq[q]
  BY DEF ConvTyped
<1>2. ConvTyped'
  BY DEF ConvTyped
<1>3. \A q \in ChatRequests : KnowsLock(q)'
  BY <1>1 DEF TitleInv, KnowsLock
<1> QED
  BY <1>2, <1>3 DEF TitleInv

LEMMA SetTitleKeeps ==
  ASSUME ConvConstants, ConvTyped, TitleInv, NEW r \in ChatRequests, SetTitle(r)
  PROVE  ConvTyped' /\ TitleInv'
<1>1. PICK t \in ChatRow : t = chatReq[r] /\ conv # NoRow /\ t.covers \in Nat
  BY DEF SetTitle, Does, ConvTyped, TitleInv, KnowsLock, ChatRow
<1>2. PICK fields : fields = [title |-> "own", locked |-> TRUE, covers |-> t.covers]
  OBVIOUS
<1>3. DOMAIN fields = {"title", "locked", "covers"} /\ fields["title"] = "own" /\ fields["locked"] = TRUE /\ fields["covers"] = t.covers
  BY <1>2
<1>4. Write(fields) /\ Ends(r) /\ kept' = Alone(r) /\ UNCHANGED msgs
  BY <1>1, <1>2 DEF SetTitle
<1>5. PICK c \in ConvRow : conv = c
  BY <1>1 DEF ConvTyped
<1>6. conv' \in ConvRow /\ conv'.title = "own" /\ conv'.locked = TRUE
  BY <1>1, <1>3, <1>4, <1>5, WriteFacts
<1>7. msgs' \in Nat /\ kept' \in BOOLEAN
  BY <1>4 DEF ConvTyped, Alone
<1>8. kept' => \A q \in ChatRequests \ {r} : chatReq[q] = NoRow
  BY <1>4 DEF Alone
<1> QED
  BY <1>4, <1>6, <1>7, <1>8, EndKeepsTitle DEF ConvConstants

\* What knows of the lock writes it again.
LEMMA MetaKeeps ==
  ASSUME ConvConstants, ConvTyped, TitleInv, NEW r \in ChatRequests,
         Unlock(r) \/ (\E new \in BOOLEAN : AutoRename(r, new)) \/ Summarize(r)
  PROVE  ConvTyped' /\ TitleInv'
<1>1. PICK t \in ChatRow : /\ t = chatReq[r] /\ conv # NoRow /\ (kept => t.locked)
                           /\ t.covers \in Nat /\ t.seen \in Nat /\ t.locked \in BOOLEAN
  BY DEF Unlock, AutoRename, Summarize, Does, ConvTyped, TitleInv, KnowsLock, ChatRow
<1>2. PICK c \in ConvRow : conv = c
  BY <1>1 DEF ConvTyped
<1>3. ASSUME NEW covers \in Nat, NEW locked \in BOOLEAN, Write([locked |-> locked, covers |-> covers])
      PROVE  conv' \in ConvRow /\ conv'.title = c.title /\ conv'.locked = locked
  <2>1. PICK fields : fields = [locked |-> locked, covers |-> covers]
    OBVIOUS
  <2>2. DOMAIN fields = {"locked", "covers"} /\ fields["locked"] = locked /\ fields["covers"] = covers /\ Write(fields)
    BY <1>3, <2>1
  <2> QED
    BY <1>2, <2>2, WriteFacts
<1>4. ASSUME NEW covers \in Nat, NEW locked \in BOOLEAN, Write([title |-> "auto", locked |-> locked, covers |-> covers])
      PROVE  conv' \in ConvRow
  <2>1. PICK fields : fields = [title |-> "auto", locked |-> locked, covers |-> covers]
    OBVIOUS
  <2>2. /\ DOMAIN fields = {"title", "locked", "covers"} /\ fields["title"] = "auto"
        /\ fields["locked"] = locked /\ fields["covers"] = covers /\ Write(fields)
    BY <1>4, <2>1
  <2> QED
    BY <1>2, <2>2, WriteFacts
<1>5. Ends(r) /\ UNCHANGED msgs /\ (kept' = FALSE \/ kept' = kept)
  BY DEF Unlock, AutoRename, Summarize
<1>6. /\ conv' = conv \/ conv' \in ConvRow
      /\ kept' => conv' # NoRow /\ conv'.title = "own" /\ conv'.locked
  <2>1. CASE Unlock(r)
    BY <1>1, <1>3, <2>1 DEF Unlock
  <2>2. ASSUME NEW new \in BOOLEAN, AutoRename(r, new)
        PROVE  /\ conv' = conv \/ conv' \in ConvRow
               /\ kept' => conv' # NoRow /\ conv'.title = "own" /\ conv'.locked
    <3>1. CASE conv' = conv
      BY <1>5, <3>1 DEF TitleInv
    <3>2. CASE conv' # conv
      <4>1. ~t.locked /\ ~kept /\ kept' = kept
        BY <1>1, <2>2, <3>2 DEF AutoRename
      <4>2. conv' \in ConvRow
        BY <1>1, <1>3, <1>4, <2>2, <4>1 DEF AutoRename
      <4> QED
        BY <4>1, <4>2
    <3> QED
      BY <3>1, <3>2
  <2>3. CASE Summarize(r)
    <3>1. CASE conv' = conv
      BY <1>5, <3>1 DEF TitleInv
    <3>2. CASE conv' # conv
      <4>1. Write([locked |-> t.locked, covers |-> t.seen]) /\ kept' = kept
        BY <1>1, <2>3, <3>2 DEF Summarize
      <4>2. conv' \in ConvRow /\ conv'.title = c.title /\ conv'.locked = t.locked
        BY <1>1, <1>3, <4>1
      <4> QED
        BY <1>1, <1>2, <4>1, <4>2 DEF TitleInv, ConvConstants
    <3> QED
      BY <3>1, <3>2
  <2> QED
    BY <2>1, <2>2, <2>3
<1>7. \A q \in ChatRequests \ {r} : kept' /\ chatReq[q] # NoRow /\ chatReq[q].op # "cleanup" => chatReq[q].locked
  BY <1>5 DEF TitleInv, KnowsLock
<1>8. msgs' \in Nat /\ kept' \in BOOLEAN
  BY <1>5 DEF ConvTyped
<1> QED
  BY <1>5, <1>6, <1>7, <1>8, EndKeepsTitle

\* Writes that leave meta alone.
LEMMA OtherWritesKeep ==
  ASSUME ConvConstants, ConvTyped, TitleInv, NEW r \in ChatRequests, DeleteConversation(r) \/ SwitchModel(r)
  PROVE  ConvTyped' /\ TitleInv'
<1>1. /\ conv # NoRow /\ chatReq[r] \in ChatRow
  BY DEF DeleteConversation, SwitchModel, Does, ConvTyped, TitleInv, KnowsLock
<1>2. PICK c \in ConvRow : conv = c
  BY <1>1 DEF ConvTyped
<1>3. Ends(r) /\ UNCHANGED <<msgs, kept>>
  BY DEF DeleteConversation, SwitchModel
<1>4. conv' = conv \/ (conv' \in ConvRow /\ conv'.title = c.title /\ conv'.locked = c.locked)
  <2>1. CASE DeleteConversation(r)
    <3>1. PICK fields : fields = [active |-> FALSE]
      OBVIOUS
    <3>2. DOMAIN fields = {"active"} /\ fields["active"] = FALSE /\ Write(fields)
      BY <2>1, <3>1 DEF DeleteConversation
    <3> QED
      BY <1>2, <3>2, WriteFacts
  <2>2. ASSUME NEW m \in chatReq[r].models, Write([model |-> m])
        PROVE  conv' \in ConvRow /\ conv'.title = c.title /\ conv'.locked = c.locked
    <3>1. PICK fields : fields = [model |-> m]
      OBVIOUS
    <3>2. DOMAIN fields = {"model"} /\ fields["model"] = m /\ Write(fields) /\ m \in Models
      BY <1>1, <2>2, <3>1 DEF ChatRow
    <3> QED
      BY <1>2, <3>2, WriteFacts
  <2> QED
    BY <2>1, <2>2 DEF SwitchModel
<1>5. kept' => conv' # NoRow /\ conv'.title = "own" /\ conv'.locked
  BY <1>2, <1>3, <1>4 DEF TitleInv, ConvConstants
<1>6. \A q \in ChatRequests \ {r} : kept' /\ chatReq[q] # NoRow /\ chatReq[q].op # "cleanup" => chatReq[q].locked
  BY <1>3 DEF TitleInv, KnowsLock
<1>7. msgs' \in Nat /\ kept' \in BOOLEAN
  BY <1>3 DEF ConvTyped
<1> QED
  BY <1>3, <1>4, <1>5, <1>6, <1>7, EndKeepsTitle

\* What a request reads when it is let in.
LoadedRow(op, models, atts) ==
  [op |-> op, locked |-> conv.locked, covers |-> conv.covers, seen |-> msgs, models |-> models, atts |-> atts]

LEMMA LoadFacts ==
  ASSUME ConvConstants, ConvTyped, TitleInv, NEW r \in ChatRequests, NEW op \in ChatOps \ {"cleanup"},
         NEW models \in SUBSET Models, NEW atts \in SUBSET Attachments, Load(r, op, models, atts)
  PROVE  /\ LoadedRow(op, models, atts) \in ChatRow
         /\ chatReq' = [chatReq EXCEPT ![r] = LoadedRow(op, models, atts)]
         /\ ConvTyped' /\ TitleInv' /\ UNCHANGED <<linked, att>>
<1>1. conv # NoRow /\ chatReq' = [chatReq EXCEPT ![r] = LoadedRow(op, models, atts)] /\ UNCHANGED <<conv, msgs, kept, linked, att>>
  BY DEF Load, Found, LoadedRow
<1>2. PICK c \in ConvRow : conv = c
  BY <1>1 DEF ConvTyped
<1>3. c.locked \in BOOLEAN /\ c.covers \in Nat /\ msgs \in Nat /\ op \in ChatOps
  BY <1>2 DEF ConvRow, ConvTyped
<1>4. PICK x : x = [op |-> op, locked |-> c.locked, covers |-> c.covers, seen |-> msgs, models |-> models, atts |-> atts]
  OBVIOUS
<1>5. x \in ChatRow /\ x.op = op /\ x.locked = c.locked
  BY <1>3, <1>4 DEF ChatRow
<1>6. x = LoadedRow(op, models, atts)
  BY <1>2, <1>4 DEF LoadedRow
<1>7. kept => x.locked
  BY <1>2, <1>5 DEF TitleInv
<1>8. msgs' \in Nat /\ chatReq' = [chatReq EXCEPT ![r] = x]
  BY <1>1, <1>3, <1>6
<1>9. ConvTyped' /\ TitleInv'
  BY <1>1, <1>5, <1>7, <1>8, GoOnKeepsTitle
<1> QED
  BY <1>1, <1>5, <1>6, <1>9

LEMMA CreateKeepsTitle ==
  ASSUME ConvConstants, ConvTyped, TitleInv, NEW m \in Models, CreateConversation(m) \/ FromExperience(m)
  PROVE  ConvTyped' /\ TitleInv'
<1>1. /\ conv = NoRow /\ (msgs' = msgs \/ msgs' = 1) /\ UNCHANGED <<chatReq, kept>>
      /\ conv' = NewConversation(m, "auto") \/ conv' = NewConversation(m, "experience")
  BY DEF CreateConversation, FromExperience
<1>2. conv' \in ConvRow
  <2>1. ASSUME NEW title \in {"auto", "experience"}
        PROVE  NewConversation(m, title) \in ConvRow
    BY DEF NewConversation, ConvRow
  <2> QED
    BY <1>1, <2>1
<1>3. ~kept
  BY <1>1 DEF TitleInv
<1>4. ConvTyped'
  BY <1>1, <1>2 DEF ConvTyped
<1>5. conv' # NoRow
  BY <1>2 DEF ConvConstants
<1> QED
  BY <1>1, <1>3, <1>4, <1>5 DEF TitleInv, KnowsLock

\* The files of one attachment change as this request allows.
LEMMA EndKeepsFiles ==
  ASSUME ConvConstants, ConvTyped, FilesTyped, FilesInv, NEW r \in ChatRequests, Ends(r), FilesTyped',
         \A a \in Attachments : FileThere(a)',
         \A q \in ChatRequests \ {r} : UploadsOne(q) =>
            \A a \in chatReq[q].atts :
              /\ chatReq[q] # NoRow /\ chatReq[q].op = "extract" => att'[a] = att[a]
              /\ chatReq[q] # NoRow /\ chatReq[q].op = "cleanup" => att'[a].expired = att[a].expired
  PROVE  FilesInv'
<1>1. chatReq' = [chatReq EXCEPT ![r] = NoRow]
  BY DEF Ends
<1>2. chatReq'[r] = NoRow /\ \A q \in ChatRequests \ {r} : chatReq'[q] = chatReq[q]
  BY <1>1 DEF ConvTyped
<1>3. UploadsApart'
  BY <1>2 DEF FilesInv, UploadsApart
<1>4. ASSUME NEW q \in ChatRequests
      PROVE  UploadsOne(q)'
  <2>1. CASE q = r
    BY <1>2, <2>1 DEF UploadsOne
  <2>2. CASE q # r
    <3>1. UploadsOne(q) /\ chatReq'[q] = chatReq[q]
      BY <1>2, <2>2 DEF FilesInv
    <3> QED
      BY <2>2, <3>1 DEF UploadsOne
  <2> QED
    BY <2>1, <2>2
<1> QED
  BY <1>3, <1>4 DEF FilesInv

\* Requests that leave the attachments alone end, or go on with something else.
LEMMA PlainEndKeepsFiles ==
  ASSUME ConvConstants, ConvTyped, FilesTyped, FilesInv, NEW r \in ChatRequests, Ends(r), UNCHANGED <<att, linked>>
  PROVE  FilesTyped' /\ FilesInv'
<1>1. FilesTyped'
  BY DEF FilesTyped
<1>2. \A a \in Attachments : FileThere(a)'
  BY DEF FilesInv, FileThere
<1> QED
  BY <1>1, <1>2, EndKeepsFiles

LEMMA PlainGoOnKeepsFiles ==
  ASSUME ConvConstants, ConvTyped, FilesTyped, FilesInv, NEW r \in ChatRequests, NEW x \in ChatRow,
         chatReq' = [chatReq EXCEPT ![r] = x], UNCHANGED att, FilesTyped', \A a \in Attachments : FileThere(a)',
         x.op # "extract",
         x.op = "upload" => \E a \in Attachments : x.atts = {a},
         x.op = "cleanup" => \A a \in x.atts : att[a].expired
  PROVE  FilesInv'
<1>1. chatReq'[r] = x /\ \A q \in ChatRequests \ {r} : chatReq'[q] = chatReq[q]
  BY DEF ConvTyped
<1>2. UploadsApart'
  BY <1>1 DEF FilesInv, UploadsApart
<1>3. ASSUME NEW q \in ChatRequests
      PROVE  UploadsOne(q)'
  <2>1. CASE q = r
    BY <1>1, <2>1 DEF UploadsOne
  <2>2. CASE q # r
    <3>1. UploadsOne(q) /\ chatReq'[q] = chatReq[q]
      BY <1>1, <2>2 DEF FilesInv
    <3> QED
      BY <3>1 DEF UploadsOne
  <2> QED
    BY <2>1, <2>2
<1> QED
  BY <1>2, <1>3 DEF FilesInv

\* A message links attachments whose rows are there.
LEMMA LinksFacts ==
  ASSUME FilesTyped, FilesInv, NEW atts \in SUBSET Attachments, NEW n \in Nat, Links(atts, n), UNCHANGED att
  PROVE  FilesTyped' /\ \A a \in Attachments : FileThere(a)'
<1>1. linked' = [a \in Attachments |-> IF a \in atts /\ att[a].row THEN n ELSE linked[a]]
  BY DEF Links
<1>2. linked' \in [Attachments -> Nat \cup {NoRow}]
  BY <1>1 DEF FilesTyped
<1>3. FilesTyped'
  BY <1>2 DEF FilesTyped
<1>4. ASSUME NEW a \in Attachments
      PROVE  FileThere(a)'
  BY <1>1 DEF FilesInv, FileThere
<1> QED
  BY <1>3, <1>4

LEMMA LoadKeeps ==
  ASSUME ConvConstants, ConvInv, NEW r \in ChatRequests, NEW op \in ChatOps \ {"cleanup", "extract"},
         NEW models \in SUBSET Models, NEW atts \in SUBSET Attachments, Load(r, op, models, atts),
         op = "upload" => \E a \in Attachments : atts = {a}
  PROVE  ConvInv'
<1>1. PICK x \in ChatRow : /\ x.op = op /\ x.atts = atts
                           /\ chatReq' = [chatReq EXCEPT ![r] = x]
  <2>1. PICK x : x = LoadedRow(op, models, atts)
    OBVIOUS
  <2>2. x.op = op /\ x.atts = atts
    BY <2>1 DEF LoadedRow
  <2>3. x \in ChatRow /\ chatReq' = [chatReq EXCEPT ![r] = x]
    BY <2>1, LoadFacts DEF ConvInv
  <2> QED
    BY <2>2, <2>3
<1>2. ConvTyped' /\ TitleInv' /\ UNCHANGED <<linked, att>>
  BY LoadFacts DEF ConvInv
<1>3. FilesTyped' /\ \A a \in Attachments : FileThere(a)'
  BY <1>2 DEF ConvInv, FilesTyped, FilesInv, FileThere
<1>4. FilesInv'
  BY <1>1, <1>2, <1>3, PlainGoOnKeepsFiles DEF ConvInv
<1> QED
  BY <1>2, <1>3, <1>4 DEF ConvInv

\* Requests that write the row, or give up, or add to the messages.
LEMMA PlainEndKeeps ==
  ASSUME ConvConstants, ConvInv, NEW r \in ChatRequests, Ends(r), UNCHANGED <<att, linked>>, ConvTyped', TitleInv'
  PROVE  ConvInv'
BY PlainEndKeepsFiles DEF ConvInv

LEMMA QuietEndKeeps ==
  ASSUME ConvConstants, ConvInv, NEW r \in ChatRequests, Ends(r), UNCHANGED <<conv, kept>>, msgs' \in Nat
  PROVE  ConvTyped' /\ TitleInv'
<1>1. kept' \in BOOLEAN /\ (kept' => conv' # NoRow /\ conv'.title = "own" /\ conv'.locked)
  BY DEF ConvInv, ConvTyped, TitleInv
<1>2. \A q \in ChatRequests \ {r} : kept' /\ chatReq[q] # NoRow /\ chatReq[q].op # "cleanup" => chatReq[q].locked
  BY DEF ConvInv, TitleInv, KnowsLock
<1> QED
  BY <1>1, <1>2, EndKeepsTitle DEF ConvInv

LEMMA AnswerTurnKeeps ==
  ASSUME ConvConstants, ConvInv, NEW r \in ChatRequests, AnswerTurn(r)
  PROVE  ConvInv'
<1>1. conv # NoRow /\ chatReq[r] \in ChatRow
  BY DEF AnswerTurn, Does, ConvInv, ConvTyped, TitleInv, KnowsLock
<1>2. Ensemble(r) \subseteq Models
  BY <1>1 DEF Ensemble, ChatRow, ConvInv, ConvTyped, ConvRow
<1>3. IsFiniteSet(Ensemble(r))
  BY <1>2, FS_Subset DEF ConvConstants
<1>4. Cardinality(Ensemble(r)) \in Nat
  BY <1>3, FS_CardinalityType
<1>5. msgs' \in Nat
  BY <1>4 DEF AnswerTurn, ConvInv, ConvTyped
<1>6. Ends(r) /\ UNCHANGED <<conv, kept, att, linked>>
  BY DEF AnswerTurn
<1> QED
  BY <1>5, <1>6, QuietEndKeeps, PlainEndKeeps

LEMMA MessageKeeps ==
  ASSUME ConvConstants, ConvInv, NEW r \in ChatRequests, AddMessage(r) \/ PrepareTurn(r)
  PROVE  ConvInv'
<1>1. PICK t \in ChatRow : t = chatReq[r] /\ t.op # "cleanup" /\ conv # NoRow /\ (kept => t.locked)
  BY DEF AddMessage, PrepareTurn, Does, ConvInv, ConvTyped, TitleInv, KnowsLock
<1>2. msgs' = msgs + 1 /\ msgs + 1 \in Nat /\ t.atts \in SUBSET Attachments /\ Links(t.atts, msgs + 1) /\ UNCHANGED <<conv, kept, att>>
  BY <1>1 DEF AddMessage, PrepareTurn, ConvInv, ConvTyped, ChatRow
<1>3. FilesTyped' /\ \A a \in Attachments : FileThere(a)'
  BY <1>2, LinksFacts DEF ConvInv
<1>4. CASE AddMessage(r)
  <2>1. Ends(r)
    BY <1>4 DEF AddMessage
  <2>2. FilesInv'
    BY <1>2, <1>3, <2>1, EndKeepsFiles DEF ConvInv
  <2> QED
    BY <1>2, <1>3, <2>1, <2>2, QuietEndKeeps DEF ConvInv
<1>5. CASE PrepareTurn(r)
  <2>1. PICK x : x = [t EXCEPT !.op = "turn", !.seen = msgs + 1]
    OBVIOUS
  <2>2. x \in ChatRow /\ x.op = "turn" /\ x.locked = t.locked
    BY <1>2, <2>1 DEF ChatRow, ChatOps
  <2>3. chatReq' = [chatReq EXCEPT ![r] = x]
    BY <1>1, <1>5, <2>1 DEF PrepareTurn, ConvInv, ConvTyped, ChatRow
  <2>4. ConvTyped' /\ TitleInv'
    BY <1>1, <1>2, <2>2, <2>3, GoOnKeepsTitle DEF ConvInv
  <2>5. FilesInv'
    BY <1>2, <1>3, <2>2, <2>3, PlainGoOnKeepsFiles DEF ConvInv
  <2> QED
    BY <1>3, <2>4, <2>5 DEF ConvInv
<1> QED
  BY <1>4, <1>5

\* The file of an upload is written, and then only its row is to come.
LEMMA SaveFileKeeps ==
  ASSUME ConvConstants, ConvInv, NEW r \in ChatRequests, SaveFile(r)
  PROVE  ConvInv'
<1>1. PICK t \in ChatRow : t = chatReq[r] /\ t.op = "upload" /\ conv # NoRow /\ (kept => t.locked)
  BY DEF SaveFile, Does, ConvInv, ConvTyped, TitleInv, KnowsLock
<1>2. PICK a \in Attachments : t.atts = {a}
  <2>1. UploadsOne(r) /\ chatReq[r] # NoRow /\ chatReq[r].op = "upload"
    BY DEF ConvInv, FilesInv, SaveFile, Does
  <2>2. \E a \in Attachments : chatReq[r].atts = {a}
    BY <2>1 DEF UploadsOne
  <2> QED
    BY <1>1, <2>2
<1>3. att[a] = Nothing /\ att' = [att EXCEPT ![a].file = TRUE] /\ UNCHANGED <<conv, msgs, kept, linked>>
  BY <1>1, <1>2 DEF SaveFile
<1>4. PICK x : x = [t EXCEPT !.op = "extract"]
  OBVIOUS
<1>5. x \in ChatRow /\ x.op = "extract" /\ x.locked = t.locked /\ x.atts = {a}
  BY <1>1, <1>2, <1>4 DEF ChatRow, ChatOps
<1>6. chatReq' = [chatReq EXCEPT ![r] = x]
  BY <1>1, <1>4 DEF SaveFile, ConvInv, ConvTyped, ChatRow
<1>7. ConvTyped' /\ TitleInv'
  BY <1>1, <1>3, <1>5, <1>6, GoOnKeepsTitle DEF ConvInv, ConvTyped
<1>8. /\ att'[a].file /\ ~att'[a].row /\ ~att'[a].expired
      /\ \A b \in Attachments \ {a} : att'[b] = att[b]
      /\ FilesTyped'
  <2>1. PICK f : f = [Nothing EXCEPT !.file = TRUE]
    OBVIOUS
  <2>2. f \in [file : BOOLEAN, row : BOOLEAN, expired : BOOLEAN] /\ f.file /\ ~f.row /\ ~f.expired
    BY <2>1 DEF Nothing
  <2>3. att' = [att EXCEPT ![a] = f]
    BY <1>3, <2>1 DEF ConvInv, FilesTyped
  <2> QED
    BY <1>3, <2>2, <2>3 DEF ConvInv, FilesTyped
<1>9. \A b \in Attachments : FileThere(b)'
  <2>1. FileThere(a)'
    BY <1>3, <1>8 DEF FileThere, ConvInv, FilesInv, Nothing
  <2> QED
    BY <1>3, <1>8, <2>1 DEF FileThere, ConvInv, FilesInv
<1>10. chatReq'[r] = x /\ \A q \in ChatRequests \ {r} : chatReq'[q] = chatReq[q]
  BY <1>6 DEF ConvInv, ConvTyped
<1>11. \A q \in ChatRequests : chatReq[q] # NoRow /\ chatReq[q].op = "extract" => a \notin chatReq[q].atts
  BY <1>3 DEF ConvInv, FilesInv, UploadsOne, Nothing
<1>12. \A q \in ChatRequests : chatReq[q] # NoRow /\ chatReq[q].op = "cleanup" => a \notin chatReq[q].atts
  BY <1>3 DEF ConvInv, FilesInv, UploadsOne, Nothing
<1>13. UploadsApart'
  BY <1>5, <1>10, <1>11 DEF ConvInv, FilesInv, UploadsApart
<1>14. ASSUME NEW q \in ChatRequests
       PROVE  UploadsOne(q)'
  <2>1. CASE q = r
    BY <1>5, <1>8, <1>10, <2>1 DEF UploadsOne
  <2>2. CASE q # r /\ chatReq[q] # NoRow
    <3>1. UploadsOne(q) /\ chatReq'[q] = chatReq[q] /\ chatReq[q].atts \subseteq Attachments
      BY <1>10, <2>2 DEF ConvInv, FilesInv, ConvTyped, ChatRow
    <3> QED
      BY <1>8, <1>11, <1>12, <2>2, <3>1 DEF UploadsOne
  <2>3. CASE q # r /\ chatReq[q] = NoRow
    BY <1>10, <2>3 DEF UploadsOne
  <2> QED
    BY <2>1, <2>2, <2>3
<1> QED
  BY <1>7, <1>8, <1>9, <1>13, <1>14 DEF ConvInv, FilesInv

LEMMA SaveRowKeeps ==
  ASSUME ConvConstants, ConvInv, NEW r \in ChatRequests, SaveRow(r)
  PROVE  ConvInv'
<1>1. chatReq[r] # NoRow /\ chatReq[r].op = "extract" /\ chatReq[r].atts \subseteq Attachments /\ UploadsOne(r)
  BY DEF SaveRow, Does, ConvInv, ConvTyped, FilesInv, ChatRow
<1>2. PICK a \in Attachments : a \in chatReq[r].atts /\ att' = [att EXCEPT ![a].row = TRUE]
  BY <1>1 DEF SaveRow
<1>3. Ends(r) /\ UNCHANGED <<conv, msgs, linked, kept>>
  BY DEF SaveRow
<1>4. att[a].file /\ ~att[a].expired
  BY <1>1, <1>2 DEF UploadsOne
<1>5. /\ att'[a].file /\ att'[a].row /\ ~att'[a].expired /\ FilesTyped'
      /\ \A b \in Attachments \ {a} : att'[b] = att[b]
  BY <1>2, <1>3, <1>4 DEF ConvInv, FilesTyped
<1>6. \A b \in Attachments : FileThere(b)'
  BY <1>3, <1>5 DEF FileThere, ConvInv, FilesInv
<1>7. \A q \in ChatRequests \ {r} : chatReq[q] # NoRow /\ chatReq[q].op = "extract" => a \notin chatReq[q].atts
  BY <1>1, <1>2 DEF ConvInv, FilesInv, UploadsApart
<1>8. \A q \in ChatRequests : chatReq[q] # NoRow => chatReq[q].atts \subseteq Attachments
  BY DEF ConvInv, ConvTyped, ChatRow
<1>9. FilesInv'
  <2>1. \A b \in Attachments : att'[b].expired = att[b].expired
    BY <1>2, <1>4, <1>5 DEF ConvInv, FilesTyped
  <2> QED
    BY <1>3, <1>5, <1>6, <1>7, <1>8, <2>1, EndKeepsFiles DEF ConvInv
<1>10. ConvTyped' /\ TitleInv'
  BY <1>3, QuietEndKeeps DEF ConvInv, ConvTyped
<1> QED
  BY <1>5, <1>9, <1>10 DEF ConvInv

\* No request is touched, and an attachment expires, or loses a file it may lose.
LEMMA AttachmentMoves ==
  ASSUME ConvConstants, ConvInv, NEW a \in Attachments,
         Expire(a) \/ \E r \in ChatRequests : RemoveFile(r, a)
  PROVE  ConvInv'
<1>1. UNCHANGED <<conv, msgs, linked, chatReq, kept>>
  BY DEF Expire, RemoveFile
<1>2. /\ FilesTyped' /\ att'[a].row = att[a].row /\ att'[a].expired
      /\ att'[a].file = att[a].file \/ att[a].expired
      /\ \A b \in Attachments \ {a} : att'[b] = att[b]
  <2>1. CASE Expire(a)
    BY <1>1, <2>1 DEF Expire, ConvInv, FilesTyped
  <2>2. ASSUME NEW r \in ChatRequests, RemoveFile(r, a)
        PROVE  /\ FilesTyped' /\ att'[a].row = att[a].row /\ att'[a].expired /\ att[a].expired
               /\ \A b \in Attachments \ {a} : att'[b] = att[b]
    <3>1. att[a].expired
      BY <2>2 DEF RemoveFile, Does, ConvInv, FilesInv, UploadsOne
    <3> QED
      BY <1>1, <2>2, <3>1 DEF RemoveFile, ConvInv, FilesTyped
  <2> QED
    BY <2>1, <2>2
<1>3. \A b \in Attachments : FileThere(b)'
  BY <1>1, <1>2 DEF FileThere, ConvInv, FilesInv
<1>4. att[a].row \/ att[a].expired
  <2>1. ASSUME NEW r \in ChatRequests, RemoveFile(r, a)
        PROVE  att[a].expired
    BY <2>1 DEF RemoveFile, Does, ConvInv, FilesInv, UploadsOne
  <2> QED
    BY <2>1 DEF Expire
<1>5. ASSUME NEW q \in ChatRequests, chatReq[q] # NoRow
      PROVE  UploadsOne(q)'
  <2>1. UploadsOne(q) /\ chatReq'[q] = chatReq[q] /\ chatReq[q].atts \subseteq Attachments
    BY <1>1, <1>5 DEF ConvInv, FilesInv, ConvTyped, ChatRow
  <2> QED
    BY <1>2, <1>4, <1>5, <2>1 DEF UploadsOne
<1>6. \A q \in ChatRequests : UploadsOne(q)'
  BY <1>1, <1>5 DEF UploadsOne
<1>7. ConvTyped' /\ TitleInv' /\ UploadsApart'
  BY <1>1 DEF ConvInv, ConvTyped, TitleInv, KnowsLock, FilesInv, UploadsApart
<1> QED
  BY <1>2, <1>3, <1>6, <1>7 DEF ConvInv, FilesInv

LEMMA BeginCleanupKeeps ==
  ASSUME ConvConstants, ConvInv, NEW r \in ChatRequests, BeginCleanup(r)
  PROVE  ConvInv'
<1>1. PICK x : x = [op |-> "cleanup", locked |-> FALSE, covers |-> 0, seen |-> 0, models |-> {}, atts |-> Expired]
  OBVIOUS
<1>2. x \in ChatRow /\ x.op = "cleanup" /\ x.atts = Expired
  BY <1>1 DEF ChatRow, ChatOps, Expired
<1>3. chatReq' = [chatReq EXCEPT ![r] = x] /\ UNCHANGED <<conv, msgs, linked, att, kept>>
  BY <1>1 DEF BeginCleanup
<1>4. ConvTyped' /\ TitleInv'
  BY <1>2, <1>3, GoOnKeepsTitle DEF ConvInv, ConvTyped
<1>5. FilesTyped' /\ \A a \in Attachments : FileThere(a)'
  BY <1>3 DEF ConvInv, FilesTyped, FilesInv, FileThere
<1>6. \A a \in x.atts : att[a].expired
  BY <1>2 DEF Expired
<1>7. FilesInv'
  BY <1>2, <1>3, <1>5, <1>6, PlainGoOnKeepsFiles DEF ConvInv
<1> QED
  BY <1>4, <1>5, <1>7 DEF ConvInv

LEMMA DeleteRowsKeeps ==
  ASSUME ConvConstants, ConvInv, NEW r \in ChatRequests, DeleteRows(r)
  PROVE  ConvInv'
<1>1. PICK atts \in SUBSET Attachments : atts = chatReq[r].atts /\ \A a \in atts : att[a].expired
  BY DEF DeleteRows, Does, ConvInv, ConvTyped, ChatRow, FilesInv, UploadsOne
<1>2. /\ att' = [a \in Attachments |-> IF a \in atts THEN [att[a] EXCEPT !.row = FALSE] ELSE att[a]]
      /\ linked' = [a \in Attachments |-> IF a \in atts THEN NoRow ELSE linked[a]]
      /\ Ends(r) /\ UNCHANGED <<conv, msgs, kept>>
  BY <1>1 DEF DeleteRows
<1>3. FilesTyped'
  <2>1. \A a \in Attachments : [att[a] EXCEPT !.row = FALSE] \in [file : BOOLEAN, row : BOOLEAN, expired : BOOLEAN]
    BY DEF ConvInv, FilesTyped
  <2>2. att' \in [Attachments -> [file : BOOLEAN, row : BOOLEAN, expired : BOOLEAN]]
    BY <1>2, <2>1 DEF ConvInv, FilesTyped
  <2>3. linked' \in [Attachments -> Nat \cup {NoRow}]
    BY <1>2 DEF ConvInv, FilesTyped
  <2> QED
    BY <2>2, <2>3 DEF FilesTyped
<1>4. /\ \A a \in atts : ~att'[a].row /\ att'[a].expired = att[a].expired /\ linked'[a] = NoRow
      /\ \A a \in Attachments \ atts : att'[a] = att[a] /\ linked'[a] = linked[a]
  BY <1>2 DEF ConvInv, FilesTyped
<1>5. \A a \in Attachments : FileThere(a)'
  BY <1>4 DEF FileThere, ConvInv, FilesInv
<1>6. \A q \in ChatRequests : chatReq[q] # NoRow => chatReq[q].atts \subseteq Attachments
  BY DEF ConvInv, ConvTyped, ChatRow
<1>7. \A q \in ChatRequests : UploadsOne(q) /\ chatReq[q] # NoRow /\ chatReq[q].op = "extract" => \A a \in chatReq[q].atts : a \notin atts
  BY <1>1 DEF UploadsOne
<1>8. FilesInv'
  BY <1>1, <1>2, <1>3, <1>4, <1>5, <1>6, <1>7, EndKeepsFiles DEF ConvInv
<1>9. ConvTyped' /\ TitleInv'
  BY <1>2, QuietEndKeeps DEF ConvInv, ConvTyped
<1> QED
  BY <1>3, <1>8, <1>9 DEF ConvInv

LEMMA ConvStep == ASSUME ConvConstants, ConvInv, [ConvNext]_convVars PROVE ConvInv'
<1>1. CASE UNCHANGED convVars
  BY <1>1 DEF convVars, ConvInv, ConvTyped, FilesTyped, TitleInv, KnowsLock, FilesInv, FileThere, UploadsOne, UploadsApart
<1>2. ASSUME NEW m \in Models, CreateConversation(m) \/ FromExperience(m)
      PROVE  ConvInv'
  <2>1. ConvTyped' /\ TitleInv'
    BY <1>2, CreateKeepsTitle DEF ConvInv
  <2>2. UNCHANGED <<linked, att, chatReq>>
    BY <1>2 DEF CreateConversation, FromExperience
  <2> QED
    BY <2>1, <2>2 DEF ConvInv, FilesTyped, FilesInv, FileThere, UploadsOne, UploadsApart
<1>3. ASSUME NEW m \in Models, SwitchUsable(m)
      PROVE  ConvInv'
  BY <1>3 DEF SwitchUsable, ConvInv, ConvTyped, FilesTyped, TitleInv, KnowsLock, FilesInv, FileThere, UploadsOne, UploadsApart
<1>4. ASSUME NEW r \in ChatRequests,
             \/ \E op \in {"title", "unlock", "delete", "rename", "summary"} : Load(r, op, {}, {})
             \/ \E m \in Models : Load(r, "switch", {m}, {})
             \/ \E a \in Attachments : Load(r, "upload", {}, {a}) \/ Load(r, "message", {}, {a})
             \/ \E models \in SUBSET Models : Load(r, "send", models, Attachments)
      PROVE  ConvInv'
  <2>1. ASSUME NEW op \in {"title", "unlock", "delete", "rename", "summary"}, Load(r, op, {}, {})
        PROVE  ConvInv'
    BY <2>1, LoadKeeps DEF ChatOps
  <2>2. ASSUME NEW m \in Models, Load(r, "switch", {m}, {})
        PROVE  ConvInv'
    BY <2>2, LoadKeeps DEF ChatOps
  <2>3. ASSUME NEW a \in Attachments, Load(r, "upload", {}, {a}) \/ Load(r, "message", {}, {a})
        PROVE  ConvInv'
    BY <2>3, LoadKeeps DEF ChatOps
  <2>4. ASSUME NEW models \in SUBSET Models, Load(r, "send", models, Attachments)
        PROVE  ConvInv'
    BY <2>4, LoadKeeps DEF ChatOps
  <2> QED
    BY <1>4, <2>1, <2>2, <2>3, <2>4
<1>5. ASSUME NEW r \in ChatRequests,
             SetTitle(r) \/ Unlock(r) \/ DeleteConversation(r) \/ SwitchModel(r) \/ Summarize(r)
               \/ \E new \in BOOLEAN : AutoRename(r, new)
      PROVE  ConvInv'
  <2>1. ConvTyped' /\ TitleInv'
    BY <1>5, SetTitleKeeps, MetaKeeps, OtherWritesKeep DEF ConvInv
  <2>2. Ends(r) /\ UNCHANGED <<att, linked>>
    BY <1>5 DEF SetTitle, Unlock, DeleteConversation, SwitchModel, Summarize, AutoRename
  <2> QED
    BY <2>1, <2>2, PlainEndKeeps
<1>6. ASSUME NEW r \in ChatRequests, SideCallFails(r) \/ Dies(r)
      PROVE  ConvInv'
  <2>1. Ends(r) /\ UNCHANGED <<att, linked, conv, kept, msgs>>
    BY <1>6 DEF SideCallFails, Dies
  <2> QED
    <3>1. msgs' \in Nat
      BY <2>1 DEF ConvInv, ConvTyped
    <3> QED
      BY <2>1, <3>1, PlainEndKeeps, QuietEndKeeps
<1>7. ASSUME NEW r \in ChatRequests,
             AddMessage(r) \/ PrepareTurn(r) \/ AnswerTurn(r) \/ SaveFile(r) \/ SaveRow(r) \/ BeginCleanup(r) \/ DeleteRows(r)
      PROVE  ConvInv'
  BY <1>7, MessageKeeps, AnswerTurnKeeps, SaveFileKeeps, SaveRowKeeps, BeginCleanupKeeps, DeleteRowsKeeps
<1> QED
  BY <1>1, <1>2, <1>3, <1>4, <1>5, <1>6, <1>7, AttachmentMoves DEF ConvNext

LEMMA ConvInitially == ASSUME ConvInit PROVE ConvInv
<1>1. ConvTyped /\ TitleInv
  BY DEF ConvInit, ConvTyped, TitleInv, KnowsLock
<1>2. Nothing \in [file : BOOLEAN, row : BOOLEAN, expired : BOOLEAN] /\ ~Nothing.row
  BY DEF Nothing
<1>3. FilesTyped /\ \A a \in Attachments : FileThere(a)
  BY <1>2 DEF ConvInit, FilesTyped, FileThere
<1>4. UploadsApart /\ \A r \in ChatRequests : UploadsOne(r)
  BY DEF ConvInit, UploadsApart, UploadsOne
<1> QED
  BY <1>1, <1>3, <1>4 DEF ConvInv, FilesInv

\* What a user has given a conversation stays, its title until it is unlocked and its
\* files until they expire, whatever other requests, side calls and the cleanup
\* (chat.py, conversation_automation_service.py, attachment_service.py) do at once.
THEOREM GivenIsKeptHolds == ASSUME ConvConstants PROVE ConvSpec => []GivenIsKept
<1>1. ConvInv => GivenIsKept
  <2>1. ASSUME ConvInv
        PROVE  TitleStands
    BY <2>1 DEF ConvInv, TitleInv, TitleStands
  <2>2. ASSUME ConvInv
        PROVE  ViewableHasFile
    <3>1. \A a \in Attachments : Viewable(a) => att[a].file
      BY <2>2 DEF ConvInv, FilesInv, FileThere, Viewable
    <3>2. ASSUME NEW n \in 1..msgs, NEW a \in Attachments, linked[a] = n
          PROVE  att[a].row /\ (att[a].expired \/ att[a].file)
      <4>1. n \in Nat
        BY DEF ConvInv, ConvTyped
      <4> QED
        BY <2>2, <3>2, <4>1 DEF ConvInv, FilesInv, FileThere, ConvConstants
    <3> QED
      BY <3>1, <3>2 DEF ViewableHasFile, ShownWith
  <2> QED
    BY <2>1, <2>2 DEF GivenIsKept
<1> QED
  BY <1>1, ConvInitially, ConvStep, PTL DEF ConvSpec

------------------------------------------------------------------------------
(***************************************************************************)
(* ProviderStreams.                                                        *)
(***************************************************************************)
Kinds == {"plugin", "internal"}
Shapes == {"local", "completions", "anthropic", "responses", "gemini"}
RoundCall == Nat \X Kinds

StreamConstants ==
  /\ Calls \subseteq [shape : Shapes, stream : BOOLEAN, tools : SUBSET Kinds]
  /\ NotYet \notin Nat

CallState ==
  [shape : Shapes, stream : BOOLEAN, tools : SUBSET Kinds,
   at : {"limits", "ask", "try", "stream", "body", "tools", "ended", "over"},
   attempts : Nat, same : Nat, last : {NotYet, "capability", "client", "rate", "server"},
   draining : BOOLEAN, cancelled : BOOLEAN, blank : BOOLEAN, final : {"none", "answer", "error"},
   text : SUBSET Nat, follow : BOOLEAN, usage : Nat, outcome : {"none", "failed", "stopped", "answered"}]
AdapterState ==
  [content : SUBSET Nat, calls : Seq(RoundCall), latest : Nat \cup {NotYet}, usage : Nat, id : BOOLEAN]
ResponseState == [round : Nat, usage : Nat, asked : SUBSET RoundCall, over : BOOLEAN]

StreamTyped ==
  /\ call \in CallState /\ adapter \in AdapterState /\ response \in ResponseState
  /\ told \in Nat /\ shown \in SUBSET Nat /\ ran \in Seq(RoundCall) /\ messages \in Seq(RoundCall)

\* No response has begun.
Before == call.at \in {"limits", "ask", "try", "body"}

\* What is counted is what was told, but for what is aside: in the way of each
\* provider, and for those that tell it as they go until the answer is stopped.
CountedAtOnce == Shape({"local", "responses"}) =>
  /\ adapter.usage = told + response.usage /\ adapter.latest = NotYet
  /\ response.over \/ response.usage = 0
CountedAtTheEnd == Shape({"completions"}) \/ (Shape({"gemini"}) /\ ~call.draining) =>
  /\ adapter.latest \in {NotYet, response.usage}
  /\ adapter.usage = told + (IF adapter.latest = NotYet THEN response.usage ELSE 0)
  /\ ~At("stream") => adapter.latest = NotYet
  /\ Shape({"gemini"}) /\ At("stream") /\ adapter.latest = NotYet => response.usage = 0
CountedWhenOver == Shape({"anthropic"}) /\ ~call.draining =>
  /\ adapter.usage = told + (IF response.over THEN response.usage ELSE 0)
  /\ At("tools") \/ At("ended") => response.over

\* The text of a round, in the adapter and then in the answer, is what was shown of it.
TextOfRound ==
  /\ adapter.content \subseteq {Round} /\ (Before => adapter.content = {})
  /\ \A n \in shown : n <= Round /\ (Before => n # Round)
  /\ ~At("limits") /\ ~At("ask") => call.text \subseteq {Round}
TextShown == call.stream /\ ~call.draining =>
  /\ /\ At("stream") \/ At("tools")
     /\ Shape({"completions", "gemini", "anthropic"}) \/ ~response.over
     => adapter.content = shown \cap {Round}
  /\ (At("stream") \/ At("tools") \/ At("ended")) /\ call.final = "answer" => call.text = shown \cap {Round}

\* Where an answer can be.
Places ==
  /\ Shape({"local"}) => ~call.follow /\ call.at \in {"limits", "ask", "ended"}
  /\ At("body") => ~call.stream
  /\ At("stream") => call.stream
  /\ call.at \in {"try", "body", "stream", "tools"} => ~call.follow
  /\ At("try") \/ At("body") \/ (At("stream") /\ ~response.over) => call.final = "none"
  /\ At("try") \/ At("body") => call.text = {}
  /\ Before => response.usage = 0 /\ ~response.over /\ response.asked = {}
  /\ Before \/ At("ended") => adapter.calls = <<>>
  /\ At("ended") /\ call.follow => adapter.content = {}

\* The tools the model calls are those of this round, each once; what was run before
\* has been told.
CallsOfRound ==
  /\ \A c \in response.asked : c[1] = Round
  /\ \A i \in DOMAIN adapter.calls : adapter.calls[i] \in response.asked
  /\ \A i, j \in DOMAIN adapter.calls : adapter.calls[i] = adapter.calls[j] => i = j
RanOfRounds ==
  /\ Len(messages) <= Len(ran)
  /\ Before \/ At("stream") => messages = ran
  /\ \A j \in DOMAIN ran : IF j <= Len(messages) THEN ran[j][1] < Round ELSE ran[j][1] = Round

GoingInv ==
  /\ CountedAtOnce /\ CountedAtTheEnd /\ CountedWhenOver
  /\ TextOfRound /\ TextShown /\ Places /\ CallsOfRound /\ RanOfRounds

RanOnce == \A i, j \in DOMAIN ran : ran[i] = ran[j] => i = j
AnswerIsShown == call.outcome = "answered" =>
  call.text \subseteq {Round} /\ (call.stream => call.text = shown \cap {Round})
OverInv ==
  /\ RanOnce /\ AnswerIsShown /\ UsageAddsUp
  /\ ~At("over") => call.outcome = "none"

StreamInv == StreamTyped /\ OverInv /\ (~At("over") => GoingInv)

LEMMA StreamInitially == ASSUME StreamConstants, StreamInit PROVE StreamInv
<1>1. PICK c \in Calls :
        call = [shape |-> c.shape, stream |-> c.stream, tools |-> c.tools, at |-> "limits",
               attempts |-> 0, same |-> 0, last |-> NotYet, draining |-> FALSE, cancelled |-> FALSE, blank |-> FALSE,
               final |-> "none", text |-> {}, follow |-> FALSE, usage |-> 0, outcome |-> "none"]
  BY DEF StreamInit
<1>2. c.shape \in Shapes /\ c.stream \in BOOLEAN /\ c.tools \in SUBSET Kinds
  BY DEF StreamConstants
<1>3. call \in CallState
  BY <1>1, <1>2 DEF CallState
<1>4. call.at = "limits" /\ call.outcome = "none" /\ ~call.follow /\ ~call.draining /\ call.final = "none"
  BY <1>1
<1>5. adapter = [content |-> {}, calls |-> <<>>, latest |-> NotYet, usage |-> 0, id |-> FALSE]
  BY DEF StreamInit, NewAdapter
<1>6. <<>> \in Seq(RoundCall)
  OBVIOUS
<1>7. adapter \in AdapterState
  BY <1>5, <1>6 DEF AdapterState
<1>8. response = [round |-> 1, usage |-> 0, asked |-> {}, over |-> FALSE]
  BY DEF StreamInit, NewResponse
<1>9. response \in ResponseState
  BY <1>8 DEF ResponseState
<1>10. told = 0 /\ shown = {} /\ ran = <<>> /\ messages = <<>>
  BY DEF StreamInit
<1>11. StreamTyped
  BY <1>3, <1>6, <1>7, <1>9, <1>10 DEF StreamTyped
<1>12. OverInv
  BY <1>4, <1>10 DEF OverInv, RanOnce, AnswerIsShown, UsageAddsUp, At, Shape
<1>13. CountedAtOnce /\ CountedAtTheEnd /\ CountedWhenOver
  BY <1>4, <1>5, <1>8, <1>10 DEF CountedAtOnce, CountedAtTheEnd, CountedWhenOver, At, Shape
<1>14. TextOfRound /\ TextShown
  BY <1>4, <1>5, <1>8, <1>10 DEF TextOfRound, TextShown, At, Shape, Before, Round
<1>15. Places
  BY <1>4, <1>5, <1>8, <1>10 DEF Places, At, Shape, Before, Round
<1>16. CallsOfRound /\ RanOfRounds
  BY <1>4, <1>5, <1>8, <1>10 DEF CallsOfRound, RanOfRounds, At, Before, Round
<1> QED
  BY <1>11, <1>12, <1>13, <1>14, <1>15, <1>16 DEF StreamInv, GoingInv

\* What a snapshot counts.
LEMMA FlushFacts ==
  ASSUME StreamConstants, NEW a \in AdapterState
  PROVE  /\ Flush(a) \in AdapterState
         /\ Flush(a).content = a.content /\ Flush(a).calls = a.calls /\ Flush(a).latest = NotYet
         /\ Flush(a).usage = a.usage + (IF a.latest = NotYet THEN 0 ELSE a.latest)
<1>1. PICK n \in Nat : n = IF a.latest = NotYet THEN 0 ELSE a.latest
  BY DEF AdapterState
<1>2. PICK b : b = [a EXCEPT !.usage = a.usage + n]
  OBVIOUS
<1>3. b = Extract(a, a.latest) /\ a.usage + n \in Nat
  BY <1>1, <1>2 DEF Extract, AdapterState
<1>4. /\ b \in AdapterState /\ b.usage = a.usage + n
      /\ b.content = a.content /\ b.calls = a.calls
  BY <1>2, <1>3 DEF AdapterState
<1>5. PICK f : f = [b EXCEPT !.latest = NotYet]
  OBVIOUS
<1>6. f \in AdapterState /\ f.usage = b.usage /\ f.content = b.content /\ f.calls = b.calls /\ f.latest = NotYet
  BY <1>4, <1>5 DEF AdapterState
<1>7. f = Flush(a)
  BY <1>3, <1>5 DEF Flush
<1> QED
  BY <1>1, <1>4, <1>6, <1>7

LEMMA SnapshotFacts ==
  ASSUME StreamConstants, StreamInv, ~At("over")
  PROVE  /\ Snapshot(adapter) \in AdapterState
         /\ Snapshot(adapter).content = adapter.content /\ Snapshot(adapter).calls = adapter.calls
         /\ Snapshot(adapter).latest = NotYet
         /\ Shape({"local", "completions", "responses"}) => Snapshot(adapter).usage = told + response.usage
<1>1. adapter \in AdapterState /\ CountedAtOnce /\ CountedAtTheEnd /\ told \in Nat /\ response.usage \in Nat
  BY DEF StreamInv, GoingInv, StreamTyped, ResponseState
<1>2. Shape({"local", "completions", "responses"}) => Flush(adapter).usage = told + response.usage
  BY <1>1, FlushFacts DEF CountedAtOnce, CountedAtTheEnd, Shape, StreamConstants
<1> QED
  BY <1>1, <1>2, FlushFacts DEF Snapshot

\* An answer that is over, and that was not given in full.
LEMMA OverKeeps ==
  ASSUME StreamConstants, StreamInv, ~At("over"), NEW outcome \in {"failed", "stopped"}, NEW usage \in Nat,
         call' = [call EXCEPT !.at = "over", !.outcome = outcome, !.usage = usage],
         adapter' \in AdapterState, UNCHANGED <<response, pastVars, shown, toolVars>>,
         outcome = "stopped" /\ Shape({"completions", "responses"}) => usage = told + response.usage
  PROVE  StreamInv'
<1>1. PICK c \in CallState : c = call
  BY DEF StreamInv, StreamTyped
<1>2. PICK d : d = [c EXCEPT !.at = "over", !.outcome = outcome, !.usage = usage]
  OBVIOUS
<1>3. d \in CallState /\ d.at = "over" /\ d.outcome = outcome /\ d.usage = usage /\ d.shape = c.shape
  BY <1>2 DEF CallState
<1>4. call' = d
  BY <1>1, <1>2
<1>5. UNCHANGED <<response, told, messages, shown, ran>>
  BY DEF pastVars, toolVars
<1>6. StreamTyped'
  BY <1>3, <1>4, <1>5 DEF StreamInv, StreamTyped
<1>7. RanOnce' /\ AnswerIsShown'
  BY <1>3, <1>4, <1>5 DEF StreamInv, OverInv, RanOnce, AnswerIsShown
<1>8. UsageAddsUp'
  BY <1>1, <1>3, <1>4, <1>5 DEF UsageAddsUp, Shape
<1>9. At("over")'
  BY <1>3, <1>4 DEF At
<1> QED
  BY <1>6, <1>7, <1>8, <1>9 DEF StreamInv, OverInv

LEMMA FailKeeps ==
  ASSUME StreamConstants, StreamInv, ~At("over"), call' = Fail, UNCHANGED <<adapter, response, pastVars, shown, toolVars>>
  PROVE  StreamInv'
<1>1. PICK c \in CallState : c = call
  BY DEF StreamInv, StreamTyped
<1>2. PICK usage \in Nat : usage = c.usage
  BY DEF CallState
<1>3. [c EXCEPT !.at = "over", !.outcome = "failed"] = [c EXCEPT !.at = "over", !.outcome = "failed", !.usage = usage]
  BY <1>2 DEF CallState
<1>4. call' = [call EXCEPT !.at = "over", !.outcome = "failed", !.usage = usage]
  BY <1>1, <1>3 DEF Fail
<1>5. adapter' \in AdapterState
  BY DEF StreamInv, StreamTyped
<1> QED
  BY <1>4, <1>5, OverKeeps

\* What a stop leaves: SeesStop for a shutdown, Drained, and an error while draining.
LEMMA StoppedKeeps ==
  ASSUME StreamConstants, StreamInv, ~At("over"), adapter' = Snapshot(adapter),
         call' = [call EXCEPT !.at = "over", !.outcome = "stopped", !.usage = adapter'.usage],
         UNCHANGED <<response, pastVars, shown, toolVars>>
  PROVE  StreamInv'
<1>1. PICK a \in AdapterState : a = Snapshot(adapter) /\ (Shape({"completions", "responses"}) => a.usage = told + response.usage)
  BY SnapshotFacts DEF Shape
<1>2. a.usage \in Nat
  BY DEF AdapterState
<1>3. PICK usage \in Nat : usage = a.usage
  BY <1>2
<1>4. call' = [call EXCEPT !.at = "over", !.outcome = "stopped", !.usage = usage]
  BY <1>1, <1>3
<1> QED
  BY <1>1, <1>3, <1>4, OverKeeps

LEMMA RaisesKeeps ==
  ASSUME StreamConstants, StreamInv, ~At("over"), Raises
  PROVE  StreamInv'
<1>1. CASE call.draining
  BY <1>1, StoppedKeeps DEF Raises
<1>2. CASE ~call.draining
  BY <1>2, FailKeeps DEF Raises
<1> QED
  BY <1>1, <1>2

\* An answer that goes on.
LEMMA GoingKeeps ==
  ASSUME StreamTyped', GoingInv', RanOnce', call'.outcome = "none"
  PROVE  StreamInv'
BY DEF StreamInv, OverInv, AnswerIsShown, UsageAddsUp

LEMMA GoingFacts ==
  ASSUME StreamInv, ~At("over")
  PROVE  /\ call.outcome = "none" /\ StreamTyped /\ RanOnce
         /\ CountedAtOnce /\ CountedAtTheEnd /\ CountedWhenOver /\ TextOfRound /\ TextShown /\ Places
         /\ CallsOfRound /\ RanOfRounds
BY DEF StreamInv, OverInv, GoingInv

LEMMA BeforeKeeps ==
  ASSUME StreamConstants, StreamInv,
         PassLimits(TRUE) \/ AskModel \/ \E error \in {"capability", "client", "rate", "server"} : Rejected(error)
  PROVE  StreamInv'
<1>1. PICK c \in CallState : c = call
  BY DEF StreamInv, StreamTyped
<1>2. /\ c.at \in {"limits", "ask", "try"}
      /\ UNCHANGED <<adapter, response, told, messages, shown, ran>>
  BY <1>1 DEF PassLimits, AskModel, Rejected, At, pastVars, toolVars
<1>3. PICK d \in CallState :
        /\ d = call' /\ d.shape = c.shape /\ d.stream = c.stream /\ d.draining = c.draining /\ d.outcome = c.outcome
        /\ \/ d.at = "ask" /\ c.at = "limits" /\ d.follow = c.follow /\ d.text = c.text
           \/ d.at = "try" /\ d.shape # "local" /\ d.final = "none" /\ d.text = {} /\ ~d.follow
  <2>1. CASE PassLimits(TRUE)
    <3>1. PICK d : d = [c EXCEPT !.at = "ask"]
      OBVIOUS
    <3>2. d = call' /\ c.at = "limits"
      BY <1>1, <2>1, <3>1 DEF PassLimits, At
    <3>3. d \in CallState
      BY <3>1 DEF CallState
    <3>4. d.shape = c.shape /\ d.stream = c.stream /\ d.draining = c.draining /\ d.outcome = c.outcome /\ d.at = "ask" /\ d.follow = c.follow /\ d.text = c.text
      BY <3>1 DEF CallState
    <3> QED
      BY <3>2, <3>3, <3>4
  <2>2. CASE AskModel
    <3>1. PICK d : d = [c EXCEPT !.at = "try", !.final = "none", !.text = {}, !.follow = FALSE]
      OBVIOUS
    <3>2. d = call' /\ c.shape # "local"
      BY <1>1, <2>2, <3>1 DEF AskModel, Shape
    <3>3. d \in CallState
      BY <3>1 DEF CallState
    <3>4. d.shape = c.shape /\ d.stream = c.stream /\ d.draining = c.draining /\ d.outcome = c.outcome /\ d.at = "try" /\ ~d.follow /\ d.text = {} /\ d.final = "none"
      BY <3>1 DEF CallState
    <3> QED
      BY <3>2, <3>3, <3>4
  <2>3. ASSUME NEW error \in {"capability", "client", "rate", "server"}, Rejected(error)
        PROVE  \E d \in CallState :
          /\ d = call' /\ d.shape = c.shape /\ d.stream = c.stream /\ d.draining = c.draining /\ d.outcome = c.outcome
          /\ d.at = "try" /\ d.shape # "local" /\ d.final = "none" /\ d.text = {} /\ ~d.follow
    <3>1. PICK same \in Nat : same = IF error = c.last THEN c.same + 1 ELSE 1
      BY DEF CallState
    <3>7. PICK attempts \in Nat : attempts = c.attempts + 1
      BY DEF CallState
    <3>2. PICK d : d = [c EXCEPT !.attempts = attempts, !.last = error, !.same = same]
      OBVIOUS
    <3>3. d = call' /\ c.at = "try"
      BY <1>1, <2>3, <3>1, <3>2, <3>7 DEF Rejected, Recorded, At
    <3>4. d \in CallState
      BY <3>2 DEF CallState
    <3>5. d.shape = c.shape /\ d.stream = c.stream /\ d.draining = c.draining /\ d.outcome = c.outcome /\ d.at = c.at /\ d.follow = c.follow /\ d.text = c.text /\ d.final = c.final
      BY <3>2 DEF CallState
    <3>6. c.shape # "local" /\ c.final = "none" /\ c.text = {} /\ ~c.follow
      BY <1>1, <1>2, <3>3, GoingFacts DEF Places, At, Shape
    <3> QED
      BY <3>3, <3>4, <3>5, <3>6
  <2> QED
    BY <2>1, <2>2, <2>3
<1>4. /\ call.outcome = "none" /\ StreamTyped /\ RanOnce
      /\ CountedAtOnce /\ CountedAtTheEnd /\ CountedWhenOver /\ TextOfRound /\ TextShown /\ Places
      /\ CallsOfRound /\ RanOfRounds
  BY <1>1, <1>2, GoingFacts DEF At
<1>5. StreamTyped'
  BY <1>2, <1>3, <1>4 DEF StreamTyped
<1>6. CountedAtOnce' /\ CountedAtTheEnd' /\ CountedWhenOver'
  BY <1>1, <1>2, <1>3, <1>4 DEF CountedAtOnce, CountedAtTheEnd, CountedWhenOver, At, Shape
<1>7. TextOfRound' /\ TextShown'
  BY <1>1, <1>2, <1>3, <1>4 DEF TextOfRound, TextShown, At, Shape, Before, Round
<1>8. Places'
  BY <1>1, <1>2, <1>3, <1>4 DEF Places, At, Shape, Before, Round
<1>9. CallsOfRound' /\ RanOfRounds' /\ RanOnce'
  BY <1>1, <1>2, <1>3, <1>4 DEF CallsOfRound, RanOfRounds, RanOnce, At, Before, Round
<1> QED
  BY <1>1, <1>3, <1>4, <1>5, <1>6, <1>7, <1>8, <1>9, GoingKeeps DEF GoingInv

LEMMA AcceptedKeeps ==
  ASSUME StreamConstants, StreamInv, Accepted
  PROVE  StreamInv'
<1>1. PICK c \in CallState, a \in AdapterState : c = call /\ a = adapter
  BY DEF StreamInv, StreamTyped
<1>2. c.at = "try" /\ UNCHANGED <<response, told, messages, shown, ran>>
  BY <1>1 DEF Accepted, At, pastVars, toolVars
<1>3. PICK d \in CallState :
        /\ d = call' /\ d.shape = c.shape /\ d.stream = c.stream /\ d.draining = c.draining /\ d.outcome = c.outcome
        /\ d.follow = c.follow /\ d.text = c.text /\ d.final = c.final /\ d.at = IF c.stream THEN "stream" ELSE "body"
  <2>1. PICK d : d = [c EXCEPT !.at = IF c.stream THEN "stream" ELSE "body", !.attempts = 0, !.same = 0, !.last = NotYet]
    OBVIOUS
  <2>2. d = call'
    BY <1>1, <2>1 DEF Accepted
  <2>3. d \in CallState
    BY <2>1 DEF CallState
  <2>4. /\ d.shape = c.shape /\ d.stream = c.stream /\ d.draining = c.draining /\ d.outcome = c.outcome
        /\ d.follow = c.follow /\ d.text = c.text /\ d.final = c.final /\ d.at = IF c.stream THEN "stream" ELSE "body"
    BY <2>1 DEF CallState
  <2> QED
    BY <2>2, <2>3, <2>4
<1>4. PICK b \in AdapterState :
        b = adapter' /\ b.content = a.content /\ b.calls = a.calls /\ b.latest = a.latest /\ b.usage = a.usage
  <2>1. PICK id \in BOOLEAN : id = (Shape({"responses"}) /\ call.stream)
    BY <1>1 DEF CallState, Shape
  <2>2. PICK b : b = [a EXCEPT !.id = id]
    OBVIOUS
  <2>3. b \in AdapterState /\ b.content = a.content /\ b.calls = a.calls /\ b.latest = a.latest /\ b.usage = a.usage
    BY <2>2 DEF AdapterState
  <2>4. b = adapter'
    BY <1>1, <2>1, <2>2 DEF Accepted
  <2> QED
    BY <2>3, <2>4
<1>5. /\ call.outcome = "none" /\ StreamTyped /\ RanOnce
      /\ CountedAtOnce /\ CountedAtTheEnd /\ CountedWhenOver /\ TextOfRound /\ TextShown /\ Places
      /\ CallsOfRound /\ RanOfRounds
  BY <1>1, <1>2, <1>3, <1>4, GoingFacts DEF At
<1>6. StreamTyped'
  BY <1>1, <1>2, <1>3, <1>4, <1>5 DEF StreamTyped
<1>7. CountedAtOnce' /\ CountedAtTheEnd' /\ CountedWhenOver'
  BY <1>1, <1>2, <1>3, <1>4, <1>5 DEF StreamTyped, CountedAtOnce, CountedAtTheEnd, CountedWhenOver, Places, Before, At, Shape
<1>8. TextOfRound' /\ TextShown'
  BY <1>1, <1>2, <1>3, <1>4, <1>5 DEF StreamTyped, TextOfRound, TextShown, Places, At, Shape, Before, Round
<1>9. Places'
  BY <1>1, <1>2, <1>3, <1>4, <1>5 DEF StreamTyped, Places, At, Shape, Before, Round
<1>10. CallsOfRound' /\ RanOfRounds' /\ RanOnce'
  BY <1>1, <1>2, <1>3, <1>4, <1>5 DEF StreamTyped, CallsOfRound, RanOfRounds, RanOnce, Places, At, Before, Round
<1> QED
  BY <1>1, <1>2, <1>3, <1>4, <1>5, <1>6, <1>7, <1>8, <1>9, <1>10, GoingKeeps DEF GoingInv

LEMMA LocalStreamKeeps ==
  ASSUME StreamConstants, StreamInv, LocalStream
  PROVE  StreamInv'
<1>1. PICK c \in CallState : c = call
  BY DEF StreamInv, StreamTyped
<1>2. /\ c.at = "ask" /\ c.shape = "local" /\ shown' = {Round} /\ Round \in Nat
      /\ UNCHANGED <<adapter, response, told, messages, ran>>
  BY <1>1 DEF LocalStream, At, Shape, Round, pastVars, toolVars, StreamInv, StreamTyped, ResponseState
<1>3. PICK d \in CallState :
        /\ d = call' /\ d.shape = c.shape /\ d.stream = c.stream /\ d.draining = c.draining /\ d.outcome = c.outcome
        /\ d.follow = c.follow /\ d.text = {Round} /\ d.final = "answer" /\ d.at = "ended"
  <2>1. PICK text \in SUBSET Nat : text = {Round}
    BY <1>2
  <2>2. PICK d : d = [c EXCEPT !.at = "ended", !.final = "answer", !.text = text]
    OBVIOUS
  <2>3. d = call'
    BY <1>1, <2>1, <2>2 DEF LocalStream, Round
  <2>4. d \in CallState
    BY <2>2 DEF CallState
  <2>5. /\ d.shape = c.shape /\ d.stream = c.stream /\ d.draining = c.draining /\ d.outcome = c.outcome
        /\ d.follow = c.follow /\ d.text = text /\ d.final = "answer" /\ d.at = "ended"
    BY <2>2 DEF CallState
  <2> QED
    BY <2>1, <2>3, <2>4, <2>5
<1>4. /\ call.outcome = "none" /\ StreamTyped /\ RanOnce
      /\ CountedAtOnce /\ CountedAtTheEnd /\ CountedWhenOver /\ TextOfRound /\ TextShown /\ Places
      /\ CallsOfRound /\ RanOfRounds
  BY <1>1, <1>2, <1>3, GoingFacts DEF At
<1>5. StreamTyped'
  BY <1>1, <1>2, <1>3, <1>4 DEF StreamTyped
<1>6. CountedAtOnce' /\ CountedAtTheEnd' /\ CountedWhenOver'
  BY <1>1, <1>2, <1>3, <1>4 DEF StreamTyped, CountedAtOnce, CountedAtTheEnd, CountedWhenOver, Places, Before, At, Shape
<1>7. TextOfRound' /\ TextShown'
  BY <1>1, <1>2, <1>3, <1>4 DEF StreamTyped, TextOfRound, TextShown, Places, At, Shape, Before, Round
<1>8. Places'
  BY <1>1, <1>2, <1>3, <1>4 DEF StreamTyped, Places, At, Shape, Before, Round
<1>9. CallsOfRound' /\ RanOfRounds' /\ RanOnce'
  BY <1>1, <1>2, <1>3, <1>4 DEF StreamTyped, CallsOfRound, RanOfRounds, RanOnce, Places, At, Before, Round
<1> QED
  BY <1>1, <1>2, <1>3, <1>4, <1>5, <1>6, <1>7, <1>8, <1>9, GoingKeeps DEF GoingInv

LEMMA DeltaKeeps ==
  ASSUME StreamConstants, StreamInv, Delta
  PROVE  StreamInv'
<1>1. PICK c \in CallState, a \in AdapterState : c = call /\ a = adapter
  BY DEF StreamInv, StreamTyped
<1>2. /\ c.at = "stream" /\ Round \in Nat /\ ~response.over
      /\ shown' = IF c.draining THEN shown ELSE shown \cup {Round}
      /\ UNCHANGED <<call, response, told, messages, ran>>
  BY <1>1 DEF Delta, Streaming, Shows, At, Round, pastVars, toolVars, StreamInv, StreamTyped, ResponseState
<1>3. PICK b \in AdapterState :
        b = adapter' /\ b.content = a.content \cup {Round} /\ b.calls = a.calls /\ b.latest = a.latest /\ b.usage = a.usage
  <2>1. PICK content \in SUBSET Nat : content = a.content \cup {Round}
    BY <1>2 DEF AdapterState
  <2>2. PICK b : b = [a EXCEPT !.content = content]
    OBVIOUS
  <2>3. b \in AdapterState /\ b.content = content /\ b.calls = a.calls /\ b.latest = a.latest /\ b.usage = a.usage
    BY <2>2 DEF AdapterState
  <2>4. b = adapter'
    BY <1>1, <2>1, <2>2 DEF Delta
  <2> QED
    BY <2>1, <2>3, <2>4
<1>4. /\ call.outcome = "none" /\ StreamTyped /\ RanOnce
      /\ CountedAtOnce /\ CountedAtTheEnd /\ CountedWhenOver /\ TextOfRound /\ TextShown /\ Places
      /\ CallsOfRound /\ RanOfRounds
  BY <1>1, <1>2, <1>3, GoingFacts DEF At
<1>5. StreamTyped'
  BY <1>1, <1>2, <1>3, <1>4 DEF StreamTyped
<1>6. CountedAtOnce' /\ CountedAtTheEnd' /\ CountedWhenOver'
  BY <1>1, <1>2, <1>3, <1>4 DEF StreamTyped, CountedAtOnce, CountedAtTheEnd, CountedWhenOver, Places, Before, At, Shape
<1>7. TextOfRound' /\ TextShown'
  BY <1>1, <1>2, <1>3, <1>4 DEF StreamTyped, TextOfRound, TextShown, Places, At, Shape, Before, Round
<1>8. Places'
  BY <1>1, <1>2, <1>3, <1>4 DEF StreamTyped, Places, At, Shape, Before, Round
<1>9. CallsOfRound' /\ RanOfRounds' /\ RanOnce'
  BY <1>1, <1>2, <1>3, <1>4 DEF StreamTyped, CallsOfRound, RanOfRounds, RanOnce, Places, At, Before, Round
<1> QED
  BY <1>1, <1>2, <1>3, <1>4, <1>5, <1>6, <1>7, <1>8, <1>9, GoingKeeps DEF GoingInv

LEMMA CallChunkKeeps ==
  ASSUME StreamConstants, StreamInv, NEW kind \in Kinds, CallChunk(kind)
  PROVE  StreamInv'
<1>1. PICK a \in AdapterState, r \in ResponseState : a = adapter /\ r = response
  BY DEF StreamInv, StreamTyped
<1>2. /\ At("stream") /\ ~At("over") /\ ~r.over /\ <<Round, kind>> \in RoundCall /\ <<Round, kind>> \notin r.asked
      /\ UNCHANGED <<call, told, messages, shown, ran>>
  BY <1>1 DEF CallChunk, Streaming, At, Round, RoundCall, pastVars, toolVars, ResponseState
<1>3. PICK new \in RoundCall : new = <<Round, kind>> /\ new[1] = Round
  BY <1>2
<1>4. PICK s \in ResponseState :
        s = response' /\ s.round = r.round /\ s.usage = r.usage /\ s.over = r.over /\ s.asked = r.asked \cup {new}
  <2>1. PICK asked \in SUBSET RoundCall : asked = r.asked \cup {new}
    BY DEF ResponseState
  <2>2. PICK s : s = [r EXCEPT !.asked = asked]
    OBVIOUS
  <2>3. s \in ResponseState /\ s.round = r.round /\ s.usage = r.usage /\ s.over = r.over /\ s.asked = asked
    BY <2>2 DEF ResponseState
  <2>4. s = response'
    BY <1>1, <1>3, <2>1, <2>2 DEF CallChunk
  <2> QED
    BY <2>1, <2>3, <2>4
<1>5. PICK b \in AdapterState :
        b = adapter' /\ b.content = a.content /\ b.calls = Append(a.calls, new) /\ b.latest = a.latest /\ b.usage = a.usage
  <2>1. PICK calls \in Seq(RoundCall) : calls = Append(a.calls, new)
    <3>1. a.calls \in Seq(RoundCall)
      BY DEF AdapterState
    <3>2. Append(a.calls, new) \in Seq(RoundCall)
      BY <1>3, <3>1
    <3> QED
      BY <3>2
  <2>2. PICK b : b = [a EXCEPT !.calls = calls]
    OBVIOUS
  <2>3. b \in AdapterState /\ b.content = a.content /\ b.calls = calls /\ b.latest = a.latest /\ b.usage = a.usage
    BY <2>2 DEF AdapterState
  <2>4. b = adapter'
    BY <1>1, <1>3, <2>1, <2>2 DEF CallChunk
  <2> QED
    BY <2>1, <2>3, <2>4
<1>6. /\ call.outcome = "none" /\ StreamTyped /\ RanOnce
      /\ CountedAtOnce /\ CountedAtTheEnd /\ CountedWhenOver /\ TextOfRound /\ TextShown /\ Places
      /\ CallsOfRound /\ RanOfRounds
  BY <1>2, GoingFacts
<1>7. StreamTyped'
  BY <1>2, <1>4, <1>5, <1>6 DEF StreamTyped
<1>8. CountedAtOnce' /\ CountedAtTheEnd' /\ CountedWhenOver'
  BY <1>1, <1>2, <1>4, <1>5, <1>6 DEF CountedAtOnce, CountedAtTheEnd, CountedWhenOver, At, Shape
<1>9. TextOfRound' /\ TextShown' /\ Places'
  BY <1>1, <1>2, <1>4, <1>5, <1>6 DEF TextOfRound, TextShown, Places, At, Shape, Before, Round
<1>10. RanOfRounds' /\ RanOnce'
  BY <1>1, <1>2, <1>4, <1>6 DEF RanOfRounds, RanOnce, At, Before, Round
<1>11. CallsOfRound'
  <2>1. /\ Len(b.calls) = Len(a.calls) + 1 /\ b.calls[Len(a.calls) + 1] = new
        /\ \A i \in 1..Len(a.calls) : b.calls[i] = a.calls[i]
        /\ DOMAIN b.calls = 1..(Len(a.calls) + 1) /\ DOMAIN a.calls = 1..Len(a.calls) /\ Len(a.calls) \in Nat
    BY <1>5 DEF AdapterState
  <2>2. \A i \in DOMAIN b.calls : i \in DOMAIN a.calls \/ i = Len(a.calls) + 1
    BY <2>1
  <2>3. /\ \A i \in DOMAIN a.calls : a.calls[i] \in r.asked
        /\ \A i, j \in DOMAIN a.calls : a.calls[i] = a.calls[j] => i = j
        /\ \A q \in r.asked : q[1] = Round
    BY <1>1, <1>6 DEF CallsOfRound
  <2>4. \A i \in DOMAIN b.calls : b.calls[i] \in s.asked
    BY <1>4, <2>1, <2>2, <2>3
  <2>5. new \notin r.asked
    BY <1>2, <1>3
  <2>6. \A i, j \in DOMAIN b.calls : b.calls[i] = b.calls[j] => i = j
    BY <2>1, <2>2, <2>3, <2>5
  <2>7. Round' = Round /\ \A q \in s.asked : q[1] = Round
    BY <1>1, <1>3, <1>4, <2>3 DEF Round
  <2> QED
    BY <1>4, <1>5, <2>4, <2>6, <2>7 DEF CallsOfRound
<1> QED
  BY <1>2, <1>6, <1>7, <1>8, <1>9, <1>10, <1>11, GoingKeeps DEF GoingInv

LEMMA UsageChunkKeeps ==
  ASSUME StreamConstants, StreamInv, UsageChunk
  PROVE  StreamInv'
<1>1. PICK c \in CallState, a \in AdapterState, r \in ResponseState : c = call /\ a = adapter /\ r = response
  BY DEF StreamInv, StreamTyped
<1>2. /\ c.at = "stream" /\ ~r.over
      /\ c.shape \in {"gemini", "anthropic", "completions"}
      /\ c.shape \in {"anthropic", "completions"} => r.usage = 0
      /\ UNCHANGED <<call, told, messages, shown, ran>>
  <2>1. r.usage < IF c.shape = "gemini" THEN 2 ELSE IF c.shape \in {"anthropic", "completions"} THEN 1 ELSE 0
    BY <1>1 DEF UsageChunk, Shape
  <2>2. r.usage \in Nat
    BY DEF ResponseState
  <2> QED
    BY <1>1, <2>1, <2>2 DEF UsageChunk, Streaming, At, pastVars, toolVars
<1>3. PICK n \in Nat : n = r.usage + 1
  BY DEF ResponseState
<1>4. PICK s \in ResponseState :
        s = response' /\ s.round = r.round /\ s.usage = n /\ s.over = r.over /\ s.asked = r.asked
  <2>1. PICK s : s = [r EXCEPT !.usage = n]
    OBVIOUS
  <2>2. s \in ResponseState /\ s.round = r.round /\ s.usage = n /\ s.over = r.over /\ s.asked = r.asked
    BY <2>1 DEF ResponseState
  <2>3. s = response'
    BY <1>1, <1>3, <2>1 DEF UsageChunk
  <2> QED
    BY <2>2, <2>3
<1>5. PICK b \in AdapterState :
        b = adapter' /\ b.content = a.content /\ b.calls = a.calls /\ b.latest = n /\ b.usage = a.usage
  <2>1. PICK b : b = [a EXCEPT !.latest = n]
    OBVIOUS
  <2>2. b \in AdapterState /\ b.content = a.content /\ b.calls = a.calls /\ b.latest = n /\ b.usage = a.usage
    BY <2>1 DEF AdapterState
  <2>3. b = adapter'
    BY <1>1, <1>3, <2>1 DEF UsageChunk
  <2> QED
    BY <2>2, <2>3
<1>6. a.usage \in Nat /\ told \in Nat /\ r.usage \in Nat /\ n # NotYet
  BY DEF AdapterState, ResponseState, StreamInv, StreamTyped, StreamConstants
<1>7. /\ call.outcome = "none" /\ StreamTyped /\ RanOnce
      /\ CountedAtOnce /\ CountedAtTheEnd /\ CountedWhenOver /\ TextOfRound /\ TextShown /\ Places
      /\ CallsOfRound /\ RanOfRounds
  BY <1>1, <1>2, <1>3, <1>4, <1>5, <1>6, GoingFacts DEF At
<1>8. StreamTyped'
  BY <1>1, <1>2, <1>3, <1>4, <1>5, <1>6, <1>7 DEF StreamTyped
<1>9. CountedAtOnce' /\ CountedAtTheEnd' /\ CountedWhenOver'
  BY <1>1, <1>2, <1>3, <1>4, <1>5, <1>6, <1>7 DEF StreamTyped, CountedAtOnce, CountedAtTheEnd, CountedWhenOver, Places, Before, At, Shape
<1>10. TextOfRound' /\ TextShown'
  BY <1>1, <1>2, <1>3, <1>4, <1>5, <1>6, <1>7 DEF StreamTyped, TextOfRound, TextShown, Places, At, Shape, Before, Round
<1>11. Places'
  BY <1>1, <1>2, <1>3, <1>4, <1>5, <1>6, <1>7 DEF StreamTyped, Places, At, Shape, Before, Round
<1>12. CallsOfRound' /\ RanOfRounds' /\ RanOnce'
  BY <1>1, <1>2, <1>3, <1>4, <1>5, <1>6, <1>7 DEF StreamTyped, CallsOfRound, RanOfRounds, RanOnce, Places, At, Before, Round
<1> QED
  BY <1>1, <1>2, <1>3, <1>4, <1>5, <1>6, <1>7, <1>8, <1>9, <1>10, <1>11, <1>12, GoingKeeps DEF GoingInv

LEMMA CompletedKeeps ==
  ASSUME StreamConstants, StreamInv, Completed
  PROVE  StreamInv'
<1>1. PICK c \in CallState, a \in AdapterState, r \in ResponseState : c = call /\ a = adapter /\ r = response
  BY DEF StreamInv, StreamTyped
<1>2. c.at = "stream" /\ ~r.over /\ c.shape = "responses" /\ UNCHANGED <<told, messages, shown, ran>>
  BY <1>1 DEF Completed, Streaming, At, Shape, pastVars, toolVars
<1>3. r.usage = 0 /\ a.usage = told + r.usage /\ a.latest = NotYet /\ a.usage \in Nat
  BY <1>1, <1>2, GoingFacts DEF CountedAtOnce, Shape, At, AdapterState
<1>4. PICK s \in ResponseState :
        s = response' /\ s.round = r.round /\ s.usage = 2 /\ s.over = TRUE /\ s.asked = r.asked
  <2>1. PICK s : s = [r EXCEPT !.usage = 2, !.over = TRUE]
    OBVIOUS
  <2>2. s \in ResponseState /\ s.round = r.round /\ s.usage = 2 /\ s.over = TRUE /\ s.asked = r.asked
    BY <2>1 DEF ResponseState
  <2>3. s = response'
    BY <1>1, <2>1 DEF Completed
  <2> QED
    BY <2>2, <2>3
<1>5. PICK b \in AdapterState :
        b = adapter' /\ b.content = {} /\ b.calls = a.calls /\ b.latest = a.latest /\ b.usage = a.usage + 2
  <2>1. PICK n \in Nat : n = a.usage + 2
    BY <1>3
  <2>2. PICK m : m = [a EXCEPT !.usage = n]
    OBVIOUS
  <2>3. m \in AdapterState /\ m.content = a.content /\ m.calls = a.calls /\ m.latest = a.latest /\ m.usage = n
    BY <2>2 DEF AdapterState
  <2>4. m = Extract(adapter, 2)
    BY <1>1, <2>1, <2>2 DEF Extract, StreamConstants
  <2>5. PICK b : b = [m EXCEPT !.content = {}]
    OBVIOUS
  <2>6. b \in AdapterState /\ b.content = {} /\ b.calls = m.calls /\ b.latest = m.latest /\ b.usage = m.usage
    BY <2>3, <2>5 DEF AdapterState
  <2>7. b = adapter'
    BY <2>4, <2>5 DEF Completed
  <2> QED
    BY <2>1, <2>3, <2>6, <2>7
<1>6. PICK d \in CallState :
        /\ d = call' /\ d.shape = c.shape /\ d.stream = c.stream /\ d.draining = c.draining /\ d.outcome = c.outcome
        /\ d.follow = c.follow /\ d.text = a.content /\ d.at = c.at
  <2>1. PICK final \in {"none", "answer", "error"} :
          final = IF a.content # {} THEN "answer" ELSE IF a.calls = <<>> THEN "error" ELSE c.final
    BY DEF CallState
  <2>2. PICK d : d = [c EXCEPT !.text = a.content, !.final = final]
    OBVIOUS
  <2>3. a.content \in SUBSET Nat
    BY DEF AdapterState
  <2>4. d \in CallState
    BY <2>2, <2>3 DEF CallState
  <2>5. /\ d.shape = c.shape /\ d.stream = c.stream /\ d.draining = c.draining /\ d.outcome = c.outcome
        /\ d.follow = c.follow /\ d.text = a.content /\ d.at = c.at
    BY <2>2 DEF CallState
  <2>6. d = call'
    BY <1>1, <2>1, <2>2 DEF Completed
  <2> QED
    BY <2>4, <2>5, <2>6
<1>7. /\ call.outcome = "none" /\ StreamTyped /\ RanOnce
      /\ CountedAtOnce /\ CountedAtTheEnd /\ CountedWhenOver /\ TextOfRound /\ TextShown /\ Places
      /\ CallsOfRound /\ RanOfRounds
  BY <1>1, <1>2, <1>3, <1>4, <1>5, <1>6, GoingFacts DEF At
<1>8. StreamTyped'
  BY <1>1, <1>2, <1>3, <1>4, <1>5, <1>6, <1>7 DEF StreamTyped
<1>9. CountedAtOnce' /\ CountedAtTheEnd' /\ CountedWhenOver'
  BY <1>1, <1>2, <1>3, <1>4, <1>5, <1>6, <1>7 DEF StreamTyped, CountedAtOnce, CountedAtTheEnd, CountedWhenOver, Places, Before, At, Shape
<1>10. TextOfRound' /\ TextShown'
  BY <1>1, <1>2, <1>3, <1>4, <1>5, <1>6, <1>7 DEF StreamTyped, TextOfRound, TextShown, Places, At, Shape, Before, Round
<1>11. Places'
  BY <1>1, <1>2, <1>3, <1>4, <1>5, <1>6, <1>7 DEF StreamTyped, Places, At, Shape, Before, Round
<1>12. CallsOfRound' /\ RanOfRounds' /\ RanOnce'
  BY <1>1, <1>2, <1>3, <1>4, <1>5, <1>6, <1>7 DEF StreamTyped, CallsOfRound, RanOfRounds, RanOnce, Places, At, Before, Round
<1> QED
  BY <1>1, <1>2, <1>3, <1>4, <1>5, <1>6, <1>7, <1>8, <1>9, <1>10, <1>11, <1>12, GoingKeeps DEF GoingInv

LEMMA FailedEventKeeps ==
  ASSUME StreamConstants, StreamInv, FailedEvent
  PROVE  StreamInv'
<1>1. PICK c \in CallState, r \in ResponseState : c = call /\ r = response
  BY DEF StreamInv, StreamTyped
<1>2. c.at = "stream" /\ ~r.over /\ c.shape = "responses" /\ UNCHANGED <<adapter, told, messages, shown, ran>>
  BY <1>1 DEF FailedEvent, Streaming, At, Shape, pastVars, toolVars
<1>3. PICK s \in ResponseState :
        s = response' /\ s.round = r.round /\ s.usage = r.usage /\ s.over = TRUE /\ s.asked = r.asked
  <2>1. PICK s : s = [r EXCEPT !.over = TRUE]
    OBVIOUS
  <2>2. s \in ResponseState /\ s.round = r.round /\ s.usage = r.usage /\ s.over = TRUE /\ s.asked = r.asked
    BY <2>1 DEF ResponseState
  <2>3. s = response'
    BY <1>1, <2>1 DEF FailedEvent
  <2> QED
    BY <2>2, <2>3
<1>4. PICK d \in CallState :
        /\ d = call' /\ d.shape = c.shape /\ d.stream = c.stream /\ d.draining = c.draining /\ d.outcome = c.outcome
        /\ d.follow = c.follow /\ d.text = c.text /\ d.at = c.at /\ d.final = "error"
  <2>1. PICK d : d = [c EXCEPT !.final = "error"]
    OBVIOUS
  <2>2. d \in CallState
    BY <2>1 DEF CallState
  <2>3. /\ d.shape = c.shape /\ d.stream = c.stream /\ d.draining = c.draining /\ d.outcome = c.outcome
        /\ d.follow = c.follow /\ d.text = c.text /\ d.at = c.at /\ d.final = "error"
    BY <2>1 DEF CallState
  <2>4. d = call'
    BY <1>1, <2>1 DEF FailedEvent
  <2> QED
    BY <2>2, <2>3, <2>4
<1>5. /\ call.outcome = "none" /\ StreamTyped /\ RanOnce
      /\ CountedAtOnce /\ CountedAtTheEnd /\ CountedWhenOver /\ TextOfRound /\ TextShown /\ Places
      /\ CallsOfRound /\ RanOfRounds
  BY <1>1, <1>2, <1>3, <1>4, GoingFacts DEF At
<1>6. StreamTyped'
  BY <1>1, <1>2, <1>3, <1>4, <1>5 DEF StreamTyped
<1>7. CountedAtOnce' /\ CountedAtTheEnd' /\ CountedWhenOver'
  BY <1>1, <1>2, <1>3, <1>4, <1>5 DEF StreamTyped, CountedAtOnce, CountedAtTheEnd, CountedWhenOver, Places, Before, At, Shape
<1>8. TextOfRound' /\ TextShown'
  BY <1>1, <1>2, <1>3, <1>4, <1>5 DEF StreamTyped, TextOfRound, TextShown, Places, At, Shape, Before, Round
<1>9. Places'
  BY <1>1, <1>2, <1>3, <1>4, <1>5 DEF StreamTyped, Places, At, Shape, Before, Round
<1>10. CallsOfRound' /\ RanOfRounds' /\ RanOnce'
  BY <1>1, <1>2, <1>3, <1>4, <1>5 DEF StreamTyped, CallsOfRound, RanOfRounds, RanOnce, Places, At, Before, Round
<1> QED
  BY <1>1, <1>2, <1>3, <1>4, <1>5, <1>6, <1>7, <1>8, <1>9, <1>10, GoingKeeps DEF GoingInv

LEMMA StopReasonKeeps ==
  ASSUME StreamConstants, StreamInv, NEW reason, StopReason(reason)
  PROVE  StreamInv'
<1>1. PICK c \in CallState, a \in AdapterState, r \in ResponseState : c = call /\ a = adapter /\ r = response
  BY DEF StreamInv, StreamTyped
<1>2. c.at = "stream" /\ ~r.over /\ c.shape = "anthropic" /\ UNCHANGED <<told, messages, shown, ran>>
  BY <1>1 DEF StopReason, Streaming, At, Shape, pastVars, toolVars
<1>3. PICK s \in ResponseState :
        s = response' /\ s.round = r.round /\ s.usage = 2 /\ s.over = TRUE /\ s.asked = r.asked
  <2>1. PICK s : s = [r EXCEPT !.usage = 2, !.over = TRUE]
    OBVIOUS
  <2>2. s \in ResponseState /\ s.round = r.round /\ s.usage = 2 /\ s.over = TRUE /\ s.asked = r.asked
    BY <2>1 DEF ResponseState
  <2>3. s = response'
    BY <1>1, <2>1 DEF StopReason
  <2> QED
    BY <2>2, <2>3
<1>4. PICK b \in AdapterState :
        b = adapter' /\ b.content = a.content /\ b.calls = a.calls /\ b.usage = a.usage + 2
  <2>1. PICK m : m = [a EXCEPT !.latest = 2]
    OBVIOUS
  <2>2. m \in AdapterState /\ m.content = a.content /\ m.calls = a.calls /\ m.latest = 2 /\ m.usage = a.usage
    BY <2>1 DEF AdapterState
  <2>3. PICK n \in Nat : n = a.usage + 2
    BY DEF AdapterState
  <2>4. PICK b : b = [m EXCEPT !.usage = n]
    OBVIOUS
  <2>5. b \in AdapterState /\ b.content = m.content /\ b.calls = m.calls /\ b.usage = n
    BY <2>2, <2>4 DEF AdapterState
  <2>6. b = Extract(m, m.latest)
    BY <2>2, <2>3, <2>4 DEF Extract, StreamConstants
  <2>7. b = adapter'
    BY <1>1, <2>1, <2>6 DEF StopReason, FlushKeeping
  <2> QED
    BY <2>2, <2>3, <2>5, <2>7
<1>5. PICK d \in CallState :
        /\ d = call' /\ d.shape = c.shape /\ d.stream = c.stream /\ d.draining = c.draining /\ d.outcome = c.outcome
        /\ d.follow = c.follow /\ d.at = c.at
        /\ (d.text = a.content /\ d.final = "answer") \/ d = c
  <2>1. CASE reason = "end_turn"
    <3>1. PICK d : d = [c EXCEPT !.final = "answer", !.text = a.content]
      OBVIOUS
    <3>2. a.content \in SUBSET Nat
      BY DEF AdapterState
    <3>3. d \in CallState
      BY <3>1, <3>2 DEF CallState
    <3>4. /\ d.shape = c.shape /\ d.stream = c.stream /\ d.draining = c.draining /\ d.outcome = c.outcome
          /\ d.follow = c.follow /\ d.text = a.content /\ d.at = c.at /\ d.final = "answer"
      BY <3>1 DEF CallState
    <3>5. d = call'
      BY <1>1, <2>1, <3>1 DEF StopReason
    <3> QED
      BY <3>3, <3>4, <3>5
  <2>2. CASE reason # "end_turn"
    BY <1>1, <2>2 DEF StopReason
  <2> QED
    BY <2>1, <2>2
<1>6. a.usage \in Nat /\ told \in Nat /\ r.usage \in Nat
  BY DEF AdapterState, ResponseState, StreamInv, StreamTyped
<1>7. /\ call.outcome = "none" /\ StreamTyped /\ RanOnce
      /\ CountedAtOnce /\ CountedAtTheEnd /\ CountedWhenOver /\ TextOfRound /\ TextShown /\ Places
      /\ CallsOfRound /\ RanOfRounds
  BY <1>1, <1>2, <1>3, <1>4, <1>5, <1>6, GoingFacts DEF At
<1>8. StreamTyped'
  BY <1>1, <1>2, <1>3, <1>4, <1>5, <1>6, <1>7 DEF StreamTyped
<1>9. CountedAtOnce' /\ CountedAtTheEnd' /\ CountedWhenOver'
  BY <1>1, <1>2, <1>3, <1>4, <1>5, <1>6, <1>7 DEF StreamTyped, CountedAtOnce, CountedAtTheEnd, CountedWhenOver, Places, Before, At, Shape
<1>10. TextOfRound' /\ TextShown'
  BY <1>1, <1>2, <1>3, <1>4, <1>5, <1>6, <1>7 DEF StreamTyped, TextOfRound, TextShown, Places, At, Shape, Before, Round
<1>11. Places'
  BY <1>1, <1>2, <1>3, <1>4, <1>5, <1>6, <1>7 DEF StreamTyped, Places, At, Shape, Before, Round
<1>12. CallsOfRound' /\ RanOfRounds' /\ RanOnce'
  BY <1>1, <1>2, <1>3, <1>4, <1>5, <1>6, <1>7 DEF StreamTyped, CallsOfRound, RanOfRounds, RanOnce, Places, At, Before, Round
<1> QED
  BY <1>1, <1>2, <1>3, <1>4, <1>5, <1>6, <1>7, <1>8, <1>9, <1>10, <1>11, <1>12, GoingKeeps DEF GoingInv

LEMMA StreamEndsKeeps ==
  ASSUME StreamConstants, StreamInv, StreamEnds
  PROVE  StreamInv'
<1>1. PICK c \in CallState, a \in AdapterState, r \in ResponseState : c = call /\ a = adapter /\ r = response
  BY DEF StreamInv, StreamTyped
<1>2. /\ c.at = "stream" /\ (c.shape \in {"anthropic", "responses"} => r.over)
      /\ UNCHANGED <<response, told, messages, shown, ran>>
  BY <1>1 DEF StreamEnds, At, Shape, pastVars, toolVars
<1>3. PICK d \in CallState :
        /\ d = call' /\ d.shape = c.shape /\ d.stream = c.stream /\ d.draining = c.draining /\ d.outcome = c.outcome
        /\ d.follow = c.follow /\ d.text = c.text /\ d.final = c.final /\ d.at = "tools"
  <2>1. PICK d : d = [c EXCEPT !.at = "tools"]
    OBVIOUS
  <2>2. d \in CallState
    BY <2>1 DEF CallState
  <2>3. /\ d.shape = c.shape /\ d.stream = c.stream /\ d.draining = c.draining /\ d.outcome = c.outcome
        /\ d.follow = c.follow /\ d.text = c.text /\ d.final = c.final /\ d.at = "tools"
    BY <2>1 DEF CallState
  <2>4. d = call'
    BY <1>1, <2>1 DEF StreamEnds
  <2> QED
    BY <2>2, <2>3, <2>4
<1>4. PICK b \in AdapterState :
        /\ b = adapter' /\ b.content = a.content /\ b.calls = a.calls
        /\ IF c.shape \in {"completions", "gemini"}
             THEN b.latest = NotYet /\ b.usage = a.usage + (IF a.latest = NotYet THEN 0 ELSE a.latest)
             ELSE b = a
  <2>1. CASE c.shape \in {"completions", "gemini"}
    <3>1. PICK b \in AdapterState :
            /\ b = Flush(a) /\ b.content = a.content /\ b.calls = a.calls /\ b.latest = NotYet
            /\ b.usage = a.usage + (IF a.latest = NotYet THEN 0 ELSE a.latest)
      BY FlushFacts
    <3>2. b = adapter'
      BY <1>1, <2>1, <3>1 DEF StreamEnds, Shape
    <3> QED
      BY <2>1, <3>1, <3>2
  <2>2. CASE c.shape \notin {"completions", "gemini"}
    BY <1>1, <2>2 DEF StreamEnds, Shape
  <2> QED
    BY <2>1, <2>2
<1>5. a.usage \in Nat /\ told \in Nat /\ r.usage \in Nat /\ r.usage # NotYet
  BY DEF AdapterState, ResponseState, StreamInv, StreamTyped, StreamConstants
<1>6. /\ call.outcome = "none" /\ StreamTyped /\ RanOnce
      /\ CountedAtOnce /\ CountedAtTheEnd /\ CountedWhenOver /\ TextOfRound /\ TextShown /\ Places
      /\ CallsOfRound /\ RanOfRounds
  BY <1>1, <1>2, <1>3, <1>4, <1>5, GoingFacts DEF At
<1>7. StreamTyped'
  BY <1>1, <1>2, <1>3, <1>4, <1>5, <1>6 DEF StreamTyped
<1>8. CountedAtOnce' /\ CountedAtTheEnd' /\ CountedWhenOver'
  BY <1>1, <1>2, <1>3, <1>4, <1>5, <1>6 DEF StreamTyped, CountedAtOnce, CountedAtTheEnd, CountedWhenOver, Places, Before, At, Shape
<1>9. TextOfRound' /\ TextShown'
  BY <1>1, <1>2, <1>3, <1>4, <1>5, <1>6 DEF StreamTyped, TextOfRound, TextShown, Places, At, Shape, Before, Round
<1>10. Places'
  BY <1>1, <1>2, <1>3, <1>4, <1>5, <1>6 DEF StreamTyped, Places, At, Shape, Before, Round
<1>11. CallsOfRound' /\ RanOfRounds' /\ RanOnce'
  BY <1>1, <1>2, <1>3, <1>4, <1>5, <1>6 DEF StreamTyped, CallsOfRound, RanOfRounds, RanOnce, Places, At, Before, Round
<1> QED
  BY <1>1, <1>2, <1>3, <1>4, <1>5, <1>6, <1>7, <1>8, <1>9, <1>10, <1>11, GoingKeeps DEF GoingInv

LEMMA BodyUnusableKeeps ==
  ASSUME StreamConstants, StreamInv, BodyUnusable
  PROVE  StreamInv'
<1>1. PICK c \in CallState : c = call
  BY DEF StreamInv, StreamTyped
<1>2. /\ c.at = "body" /\ c.shape \in {"responses", "gemini"}
      /\ UNCHANGED <<adapter, response, told, messages, shown, ran>>
  BY <1>1 DEF BodyUnusable, At, Shape, pastVars, toolVars
<1>3. PICK d \in CallState :
        /\ d = call' /\ d.shape = c.shape /\ d.stream = c.stream /\ d.draining = c.draining /\ d.outcome = c.outcome
        /\ d.follow = c.follow /\ d.text = c.text /\ d.at = "ended"
  <2>1. PICK final \in {"error", "answer"} : final = IF Shape({"responses"}) THEN "error" ELSE "answer"
    OBVIOUS
  <2>2. PICK d : d = [c EXCEPT !.at = "ended", !.blank = TRUE, !.final = final]
    OBVIOUS
  <2>3. d \in CallState
    BY <2>2 DEF CallState
  <2>4. /\ d.shape = c.shape /\ d.stream = c.stream /\ d.draining = c.draining /\ d.outcome = c.outcome
        /\ d.follow = c.follow /\ d.text = c.text /\ d.at = "ended"
    BY <2>2 DEF CallState
  <2>5. d = call'
    BY <1>1, <2>1, <2>2 DEF BodyUnusable
  <2> QED
    BY <2>3, <2>4, <2>5
<1>4. /\ call.outcome = "none" /\ StreamTyped /\ RanOnce
      /\ CountedAtOnce /\ CountedAtTheEnd /\ CountedWhenOver /\ TextOfRound /\ TextShown /\ Places
      /\ CallsOfRound /\ RanOfRounds
  BY <1>1, <1>2, <1>3, GoingFacts DEF At
<1>5. StreamTyped'
  BY <1>1, <1>2, <1>3, <1>4 DEF StreamTyped
<1>6. CountedAtOnce' /\ CountedAtTheEnd' /\ CountedWhenOver'
  BY <1>1, <1>2, <1>3, <1>4 DEF StreamTyped, CountedAtOnce, CountedAtTheEnd, CountedWhenOver, Places, Before, At, Shape
<1>7. TextOfRound' /\ TextShown'
  BY <1>1, <1>2, <1>3, <1>4 DEF StreamTyped, TextOfRound, TextShown, Places, At, Shape, Before, Round
<1>8. Places'
  BY <1>1, <1>2, <1>3, <1>4 DEF StreamTyped, Places, At, Shape, Before, Round
<1>9. CallsOfRound' /\ RanOfRounds' /\ RanOnce'
  BY <1>1, <1>2, <1>3, <1>4 DEF StreamTyped, CallsOfRound, RanOfRounds, RanOnce, Places, At, Before, Round
<1> QED
  BY <1>1, <1>2, <1>3, <1>4, <1>5, <1>6, <1>7, <1>8, <1>9, GoingKeeps DEF GoingInv

\* The calls of a response can be put in an order.
LEMMA OrderExists ==
  ASSUME NEW kinds \in SUBSET Kinds, NEW n \in Nat,
         NEW asked, asked = {<<n, kind>> : kind \in kinds}
  PROVE  /\ Cardinality(asked) \in Nat
         /\ \E s \in [1..Cardinality(asked) -> asked] : \A i, j \in DOMAIN s : i # j => s[i] # s[j]
<1>1. IsFiniteSet(Kinds)
  <2>1. IsFiniteSet({"plugin"})
    BY FS_Singleton
  <2>2. IsFiniteSet({"plugin"} \cup {"internal"})
    BY <2>1, FS_AddElement
  <2> QED
    BY <2>2 DEF Kinds
<1>2. IsFiniteSet(kinds)
  BY <1>1, FS_Subset
<1>3. IsFiniteSet(asked)
  <2>1. PICK f : f = [kind \in kinds |-> <<n, kind>>]
    OBVIOUS
  <2>2. f \in Surjection(kinds, asked)
    BY <2>1 DEF Surjection
  <2> QED
    BY <1>2, <2>2, FS_Surjection
<1>4. Cardinality(asked) \in Nat
  BY <1>3, FS_CardinalityType
<1>5. ExistsBijection(1..Cardinality(asked), asked)
  BY <1>3, FS_CardinalityType
<1>6. PICK s : s \in Bijection(1..Cardinality(asked), asked)
  BY <1>5 DEF ExistsBijection
<1>7. s \in [1..Cardinality(asked) -> asked] /\ \A i, j \in 1..Cardinality(asked) : s[i] = s[j] => i = j
  BY <1>6 DEF Bijection, Injection, IsInjective
<1> QED
  BY <1>4, <1>7

LEMMA BodyKeeps ==
  ASSUME StreamConstants, StreamInv, NEW text \in BOOLEAN, NEW whole \in BOOLEAN, NEW kinds \in SUBSET Kinds,
         Body(text, kinds, whole)
  PROVE  StreamInv'
<1>1. PICK c \in CallState, a \in AdapterState, r \in ResponseState : c = call /\ a = adapter /\ r = response
  BY DEF StreamInv, StreamTyped
<1>2. c.at = "body" /\ Round = r.round /\ Round \in Nat /\ UNCHANGED <<told, messages, shown, ran>>
  BY <1>1 DEF Body, At, pastVars, toolVars, Round, ResponseState
<1>3. PICK asked : asked = {<<Round, kind>> : kind \in kinds}
  OBVIOUS
<1>4. asked \in SUBSET RoundCall /\ \A q \in asked : q[1] = Round
  BY <1>2, <1>3 DEF RoundCall
<1>5. PICK n \in Nat : n = IF whole THEN 2 ELSE 0
  OBVIOUS
<1>6. PICK s \in ResponseState :
        s = response' /\ s.round = r.round /\ s.usage = n /\ s.over = TRUE /\ s.asked = asked
  <2>1. PICK s : s = [r EXCEPT !.asked = asked, !.over = TRUE, !.usage = n]
    OBVIOUS
  <2>5. asked \in SUBSET RoundCall
    BY <1>4
  <2>2. s \in ResponseState /\ s.round = r.round /\ s.usage = n /\ s.over = TRUE /\ s.asked = asked
    BY <2>1, <2>5 DEF ResponseState
  <2>3. response' = [response EXCEPT !.asked = asked, !.over = TRUE, !.usage = n]
    BY <1>3, <1>5, Zenon DEF Body
  <2>4. s = response'
    BY <1>1, <2>1, <2>3
  <2> QED
    BY <2>2, <2>4
<1>7. PICK calls : calls = CHOOSE q \in [1..Cardinality(asked) -> asked] : \A i, j \in DOMAIN q : i # j => q[i] # q[j]
  OBVIOUS
<1>8. calls \in [1..Cardinality(asked) -> asked] /\ (\A i, j \in DOMAIN calls : i # j => calls[i] # calls[j])
  <2>1. \E q \in [1..Cardinality(asked) -> asked] : \A i, j \in DOMAIN q : i # j => q[i] # q[j]
    BY <1>2, <1>3, OrderExists
  <2> QED
    BY <1>7, <2>1
<1>9. Cardinality(asked) \in Nat
  BY <1>2, <1>3, OrderExists
<1>10. calls \in Seq(RoundCall)
  <2>1. calls \in [1..Cardinality(asked) -> RoundCall]
    BY <1>4, <1>8
  <2> QED
    BY <1>9, <2>1
<1>11. PICK b \in AdapterState :
         b = adapter' /\ b.content \subseteq {Round} /\ b.calls = calls /\ b.latest = a.latest /\ b.usage = a.usage + n
  <2>1. PICK m \in Nat : m = a.usage + n
    BY DEF AdapterState
  <2>2. PICK x : x = [a EXCEPT !.usage = m]
    OBVIOUS
  <2>3. x \in AdapterState /\ x.latest = a.latest /\ x.usage = m
    BY <2>2 DEF AdapterState
  <2>4. x = Extract(adapter, response'.usage)
    BY <1>1, <1>6, <2>1, <2>2 DEF Extract, StreamConstants
  <2>5. PICK content \in SUBSET Nat : content = (IF text THEN {Round} ELSE {}) /\ content \subseteq {Round}
    BY <1>2
  <2>6. PICK b : b = [x EXCEPT !.content = content, !.calls = calls]
    OBVIOUS
  <2>7. b \in AdapterState /\ b.content = content /\ b.calls = calls /\ b.latest = x.latest /\ b.usage = x.usage
    BY <1>10, <2>3, <2>6 DEF AdapterState
  <2>8. b = adapter'
    BY <1>3, <1>7, <2>4, <2>5, <2>6 DEF Body
  <2> QED
    BY <2>1, <2>3, <2>5, <2>7, <2>8
<1>12. PICK d \in CallState :
         /\ d = call' /\ d.shape = c.shape /\ d.stream = c.stream /\ d.draining = c.draining /\ d.outcome = c.outcome
         /\ d.follow = c.follow /\ d.text = c.text /\ d.at = "tools"
  <2>1. PICK d : d = [c EXCEPT !.at = "tools"]
    OBVIOUS
  <2>2. d \in CallState
    BY <2>1 DEF CallState
  <2>3. /\ d.shape = c.shape /\ d.stream = c.stream /\ d.draining = c.draining /\ d.outcome = c.outcome
        /\ d.follow = c.follow /\ d.text = c.text /\ d.at = "tools"
    BY <2>1 DEF CallState
  <2>4. d = call'
    BY <1>1, <2>1 DEF Body
  <2> QED
    BY <2>2, <2>3, <2>4
<1>13. a.usage \in Nat /\ told \in Nat /\ n # NotYet
  BY DEF AdapterState, StreamInv, StreamTyped, StreamConstants
<1>14. /\ call.outcome = "none" /\ StreamTyped /\ RanOnce
       /\ CountedAtOnce /\ CountedAtTheEnd /\ CountedWhenOver /\ TextOfRound /\ TextShown /\ Places
       /\ CallsOfRound /\ RanOfRounds
  BY <1>1, <1>2, GoingFacts DEF At
<1>15. StreamTyped'
  BY <1>2, <1>6, <1>11, <1>12, <1>14 DEF StreamTyped
<1>16. CountedAtOnce' /\ CountedAtTheEnd' /\ CountedWhenOver'
  BY <1>1, <1>2, <1>6, <1>11, <1>12, <1>13, <1>14 DEF CountedAtOnce, CountedAtTheEnd, CountedWhenOver, Places, Before, At, Shape
<1>17. TextOfRound' /\ TextShown'
  BY <1>1, <1>2, <1>6, <1>11, <1>12, <1>14 DEF TextOfRound, TextShown, Places, At, Shape, Before, Round
<1>18. Places'
  BY <1>1, <1>2, <1>6, <1>11, <1>12, <1>14 DEF Places, At, Shape, Before, Round
<1>19. CallsOfRound'
  BY <1>2, <1>4, <1>6, <1>8, <1>11 DEF CallsOfRound, Round
<1>20. RanOfRounds' /\ RanOnce'
  BY <1>1, <1>2, <1>6, <1>12, <1>14 DEF RanOfRounds, RanOnce, At, Before, Round
<1> QED
  BY <1>1, <1>12, <1>14, <1>15, <1>16, <1>17, <1>18, <1>19, <1>20, GoingKeeps DEF GoingInv

\* There is a next call as long as not all have run: a round has two at most.
LEMMA NextCallFacts ==
  ASSUME StreamInv, At("tools"), ~AllRun
  PROVE  NextCall \in DOMAIN adapter.calls /\ ~HasRun(NextCall)
<1>1. CallsOfRound /\ ~At("over") /\ adapter.calls \in Seq(RoundCall) /\ response.asked \in SUBSET RoundCall
  BY GoingFacts DEF At, StreamTyped, AdapterState, ResponseState
<1>2. DOMAIN adapter.calls = 1..Len(adapter.calls) /\ Len(adapter.calls) \in Nat
  BY <1>1
<1>3. \A q \in response.asked : q = <<Round, "plugin">> \/ q = <<Round, "internal">>
  <2>1. ASSUME NEW q \in response.asked
        PROVE  q = <<Round, "plugin">> \/ q = <<Round, "internal">>
    <3>1. q \in Nat \X Kinds /\ q[1] = Round
      BY <1>1 DEF CallsOfRound, RoundCall
    <3>2. q = <<q[1], q[2]>> /\ q[2] \in {"plugin", "internal"}
      BY <3>1 DEF Kinds
    <3> QED
      BY <3>1, <3>2
  <2> QED
    BY <2>1
<1>4. PICK i \in DOMAIN adapter.calls : ~HasRun(i)
  BY DEF AllRun
<1>5. \E n \in DOMAIN adapter.calls : ~HasRun(n) /\ \A j \in 1..(n - 1) : HasRun(j)
  <2>1. CASE ~HasRun(1)
    <3>1. 1 \in DOMAIN adapter.calls /\ \A j \in 1..(1 - 1) : HasRun(j)
      BY <1>2, <1>4
    <3> QED
      BY <2>1, <3>1
  <2>2. CASE HasRun(1) /\ i # 2
    <3>1. i > 2 /\ 1 \in DOMAIN adapter.calls /\ 2 \in DOMAIN adapter.calls
      BY <1>2, <1>4, <2>2
    <3>2. /\ adapter.calls[1] \in response.asked /\ adapter.calls[2] \in response.asked /\ adapter.calls[i] \in response.asked
          /\ adapter.calls[1] # adapter.calls[2] /\ adapter.calls[1] # adapter.calls[i] /\ adapter.calls[2] # adapter.calls[i]
      BY <1>1, <3>1 DEF CallsOfRound
    <3> QED
      BY <1>3, <3>2
  <2>3. CASE HasRun(1) /\ i = 2
    <3>1. \A j \in 1..(2 - 1) : HasRun(j)
      BY <2>3
    <3> QED
      BY <1>4, <2>3, <3>1
  <2> QED
    BY <2>1, <2>2, <2>3
<1> QED
  BY <1>5 DEF NextCall

LEMMA RunToolKeeps ==
  ASSUME StreamConstants, StreamInv, NEW ok \in BOOLEAN, RunTool(ok)
  PROVE  StreamInv'
<1>1. /\ At("tools") /\ ~At("over") /\ UNCHANGED <<call, adapter, response, told, messages, shown>>
      /\ ran' = Append(ran, adapter.calls[NextCall])
  BY DEF RunTool, At, pastVars
<1>2. /\ call.outcome = "none" /\ StreamTyped /\ RanOnce
      /\ CountedAtOnce /\ CountedAtTheEnd /\ CountedWhenOver /\ TextOfRound /\ TextShown /\ Places
      /\ CallsOfRound /\ RanOfRounds
  BY <1>1, GoingFacts
<1>3. PICK i \in DOMAIN adapter.calls : i = NextCall /\ ~HasRun(i)
  BY <1>1, NextCallFacts DEF RunTool
<1>4. PICK x \in RoundCall : x = adapter.calls[i] /\ x[1] = Round
  BY <1>2, <1>3 DEF CallsOfRound, StreamTyped, AdapterState
<1>5. \A j \in (Len(messages) + 1)..Len(ran) : ran[j] # x
  BY <1>3, <1>4 DEF HasRun
<1>6. ran' = Append(ran, x) /\ ran \in Seq(RoundCall) /\ messages \in Seq(RoundCall)
  BY <1>1, <1>2, <1>3, <1>4 DEF StreamTyped
<1>7. PICK s \in Seq(RoundCall) : s = ran' /\ s = Append(ran, x)
  BY <1>6
<1>8. /\ Len(ran) \in Nat /\ Len(messages) \in Nat /\ Len(s) = Len(ran) + 1 /\ s[Len(ran) + 1] = x
      /\ \A j \in 1..Len(ran) : s[j] = ran[j]
      /\ DOMAIN ran = 1..Len(ran) /\ DOMAIN s = 1..(Len(ran) + 1)
  BY <1>6, <1>7
<1>9. \A j \in DOMAIN s : j \in DOMAIN ran \/ j = Len(ran) + 1
  BY <1>8
<1>10. \A j \in DOMAIN ran : ran[j] # x
  <2>1. ASSUME NEW j \in DOMAIN ran, ran[j] = x
        PROVE  FALSE
    <3>1. CASE j <= Len(messages)
      <4>1. x[1] < Round /\ Round \in Nat
        BY <1>2, <2>1, <3>1 DEF RanOfRounds, StreamTyped, Round, ResponseState
      <4> QED
        BY <1>4, <4>1
    <3>2. CASE ~(j <= Len(messages))
      BY <1>5, <1>8, <2>1, <3>2
    <3> QED
      BY <3>1, <3>2
  <2> QED
    BY <2>1
<1>11. StreamTyped'
  BY <1>1, <1>2, <1>7 DEF StreamTyped
<1>12. CountedAtOnce' /\ CountedAtTheEnd' /\ CountedWhenOver' /\ TextOfRound' /\ TextShown' /\ Places' /\ CallsOfRound'
  BY <1>1, <1>2 DEF CountedAtOnce, CountedAtTheEnd, CountedWhenOver, TextOfRound, TextShown, Places, CallsOfRound, At, Shape, Before, Round
<1>13. RanOnce'
  <2>1. \A j, k \in DOMAIN s : s[j] = s[k] => j = k
    BY <1>2, <1>8, <1>9, <1>10 DEF RanOnce
  <2> QED
    BY <1>7, <2>1 DEF RanOnce
<1>14. RanOfRounds'
  <2>1. Len(messages) <= Len(s)
    BY <1>2, <1>8 DEF RanOfRounds
  <2>2. \A j \in DOMAIN s : IF j <= Len(messages) THEN s[j][1] < Round ELSE s[j][1] = Round
    BY <1>2, <1>4, <1>8, <1>9 DEF RanOfRounds
  <2> QED
    BY <1>1, <1>7, <2>1, <2>2 DEF RanOfRounds, At, Before, Round
<1> QED
  BY <1>1, <1>2, <1>11, <1>12, <1>13, <1>14, GoingKeeps DEF GoingInv

\* What the end of a round makes of it.
LEMMA FinalizeRoundKeeps ==
  ASSUME StreamConstants, StreamInv, FinalizeRound
  PROVE  StreamInv'
<1>1. PICK c \in CallState, a \in AdapterState : c = call /\ a = adapter
  BY DEF StreamInv, StreamTyped
<1>2. c.at = "tools" /\ UNCHANGED <<response, told, messages, shown, ran>>
  BY <1>1 DEF FinalizeRound, At, pastVars, toolVars
<1>3. /\ call.outcome = "none" /\ StreamTyped /\ RanOnce
      /\ CountedAtOnce /\ CountedAtTheEnd /\ CountedWhenOver /\ TextOfRound /\ TextShown /\ Places
      /\ CallsOfRound /\ RanOfRounds
  BY <1>1, <1>2, GoingFacts DEF At
<1>4. PICK final \in {"none", "answer", "error"} :
        /\ final = FinalOf(adapter.calls)
        /\ c.stream /\ c.shape \in {"anthropic", "responses"} => final = c.final
        /\ final = "answer" /\ c.stream /\ c.shape \notin {"anthropic", "responses"} => a.calls = <<>>
  BY <1>1 DEF FinalOf, Shape, CallState
<1>5. PICK text \in SUBSET Nat :
        text = IF c.stream /\ c.shape \in {"anthropic", "responses"} THEN c.text
               ELSE IF a.calls = <<>> THEN a.content ELSE {}
  BY DEF CallState, AdapterState
<1>6. PICK d \in CallState :
        /\ d = call' /\ d.shape = c.shape /\ d.stream = c.stream /\ d.draining = c.draining /\ d.outcome = c.outcome
        /\ d.follow = (a.calls # <<>>) /\ d.text = text /\ d.final = final /\ d.at = "ended"
  <2>1. PICK follow \in BOOLEAN : follow = (a.calls # <<>>)
    OBVIOUS
  <2>2. PICK d : d = [c EXCEPT !.at = "ended", !.follow = follow, !.final = final, !.text = text]
    OBVIOUS
  <2>3. d \in CallState
    BY <2>2 DEF CallState
  <2>4. /\ d.shape = c.shape /\ d.stream = c.stream /\ d.draining = c.draining /\ d.outcome = c.outcome
        /\ d.follow = follow /\ d.text = text /\ d.final = final /\ d.at = "ended"
    BY <2>2 DEF CallState
  <2>5. d = call'
    BY <1>1, <1>4, <1>5, <2>1, <2>2 DEF FinalizeRound, Shape
  <2> QED
    BY <2>1, <2>3, <2>4, <2>5
<1>7. PICK b \in AdapterState :
        /\ b = adapter' /\ b.content \subseteq a.content /\ b.calls = <<>> /\ b.latest = a.latest /\ b.usage = a.usage
        /\ a.calls # <<>> => b.content = {}
  <2>1. CASE a.calls # <<>>
    <3>1. PICK b : b = [a EXCEPT !.calls = <<>>, !.content = {}]
      OBVIOUS
    <3>2. <<>> \in Seq(RoundCall)
      OBVIOUS
    <3>3. b \in AdapterState /\ b.content = {} /\ b.calls = <<>> /\ b.latest = a.latest /\ b.usage = a.usage
      BY <3>1, <3>2 DEF AdapterState
    <3>4. b = adapter'
      BY <1>1, <2>1, <3>1 DEF FinalizeRound, Handed
    <3> QED
      BY <3>3, <3>4
  <2>2. CASE a.calls = <<>> /\ c.shape = "completions"
    <3>1. PICK b : b = [a EXCEPT !.content = {}]
      OBVIOUS
    <3>2. b \in AdapterState /\ b.content = {} /\ b.calls = <<>> /\ b.latest = a.latest /\ b.usage = a.usage
      BY <2>2, <3>1 DEF AdapterState
    <3>3. b = adapter'
      BY <1>1, <2>2, <3>1 DEF FinalizeRound, HandedContent, Shape
    <3> QED
      BY <2>2, <3>2, <3>3
  <2>3. CASE a.calls = <<>> /\ c.shape # "completions"
    BY <1>1, <2>3 DEF FinalizeRound, Shape
  <2> QED
    BY <2>1, <2>2, <2>3
<1>8. c.shape # "local"
  BY <1>1, <1>2, <1>3 DEF Places, Shape, At
<1>9. StreamTyped'
  BY <1>2, <1>3, <1>6, <1>7 DEF StreamTyped
<1>10. CountedAtOnce' /\ CountedAtTheEnd' /\ CountedWhenOver'
  BY <1>1, <1>2, <1>3, <1>6, <1>7 DEF CountedAtOnce, CountedAtTheEnd, CountedWhenOver, At, Shape
<1>11. TextOfRound'
  BY <1>1, <1>2, <1>3, <1>5, <1>6, <1>7 DEF TextOfRound, At, Before, Round
<1>12. TextShown'
  <2>1. ASSUME c.stream, ~c.draining, final = "answer"
        PROVE  text = shown \cap {Round}
    <3>1. CASE c.shape \in {"anthropic", "responses"}
      BY <1>1, <1>2, <1>3, <1>4, <1>5, <2>1, <3>1 DEF TextShown, At
    <3>2. CASE c.shape \notin {"anthropic", "responses"}
      <4>1. c.shape \in {"completions", "gemini"} /\ a.calls = <<>>
        BY <1>4, <1>8, <2>1, <3>2 DEF CallState, Shapes
      <4>2. a.content = shown \cap {Round}
        BY <1>1, <1>2, <1>3, <2>1, <4>1 DEF TextShown, At, Shape
      <4> QED
        BY <1>5, <3>2, <4>1, <4>2
    <3> QED
      BY <3>1, <3>2
  <2> QED
    BY <1>2, <1>6, <2>1 DEF TextShown, At, Round
<1>13. Places'
  BY <1>1, <1>2, <1>3, <1>6, <1>7, <1>8 DEF Places, At, Shape, Before, Round
<1>14. CallsOfRound'
  BY <1>2, <1>3, <1>7 DEF CallsOfRound, Round
<1>15. RanOfRounds' /\ RanOnce'
  BY <1>2, <1>3, <1>6 DEF RanOfRounds, RanOnce, At, Before, Round
<1> QED
  BY <1>1, <1>3, <1>6, <1>9, <1>10, <1>11, <1>12, <1>13, <1>14, <1>15, GoingKeeps DEF GoingInv

LEMMA StopKeeps ==
  ASSUME StreamConstants, StreamInv, NEW reason, Stop(reason)
  PROVE  StreamInv'
BY DEF Stop, pastVars, toolVars, StreamInv, StreamTyped, OverInv, RanOnce, AnswerIsShown, UsageAddsUp, GoingInv, CountedAtOnce, CountedAtTheEnd, CountedWhenOver, TextOfRound, TextShown, Places, CallsOfRound, RanOfRounds, Before, At, Shape, Round

\* A user's stop: what comes is drained.
LEMMA SeesStopKeeps ==
  ASSUME StreamConstants, StreamInv, SeesStop
  PROVE  StreamInv'
<1>1. PICK c \in CallState, a \in AdapterState : c = call /\ a = adapter
  BY DEF StreamInv, StreamTyped
<1>2. c.at \in {"stream", "ended", "try", "tools"} /\ UNCHANGED <<response, told, messages, shown, ran>>
  BY <1>1 DEF SeesStop, Listening, pastVars, toolVars
<1>3. CASE stop # "user"
  <2>1. ~At("over")
    BY <1>1, <1>2 DEF At
  <2> QED
    BY <1>3, <2>1, StoppedKeeps DEF SeesStop
<1>4. CASE stop = "user"
  <2>1. PICK d \in CallState :
          /\ d = call' /\ d.shape = c.shape /\ d.stream = c.stream /\ d.draining = TRUE /\ d.outcome = c.outcome
          /\ d.follow = c.follow /\ d.text = c.text /\ d.final = c.final /\ d.at = c.at
    <3>1. PICK cancelled \in BOOLEAN : cancelled = Cancellable
      BY <1>1 DEF Cancellable, AdapterState
    <3>2. PICK d : d = [c EXCEPT !.draining = TRUE, !.cancelled = cancelled]
      OBVIOUS
    <3>3. d \in CallState
      BY <3>2 DEF CallState
    <3>4. /\ d.shape = c.shape /\ d.stream = c.stream /\ d.draining = TRUE /\ d.outcome = c.outcome
          /\ d.follow = c.follow /\ d.text = c.text /\ d.final = c.final /\ d.at = c.at
      BY <3>2 DEF CallState
    <3>5. d = call'
      BY <1>1, <1>4, <3>1, <3>2 DEF SeesStop
    <3> QED
      BY <3>3, <3>4, <3>5
  <2>2. ~At("over")
    BY <1>1, <1>2 DEF At
  <2>3. PICK b \in AdapterState :
          /\ b = adapter' /\ b.content = a.content /\ b.calls = a.calls /\ b.latest = NotYet
          /\ c.shape \in {"local", "completions", "responses"} => b.usage = told + response.usage
    BY <1>1, <2>2, SnapshotFacts DEF SeesStop, Shape
  <2>4. /\ call.outcome = "none" /\ StreamTyped /\ RanOnce
        /\ CountedAtOnce /\ CountedAtTheEnd /\ CountedWhenOver /\ TextOfRound /\ TextShown /\ Places
        /\ CallsOfRound /\ RanOfRounds
    BY <2>2, GoingFacts
  <2>5. StreamTyped'
    BY <1>2, <2>1, <2>3, <2>4 DEF StreamTyped
  <2>6. CountedAtOnce' /\ CountedAtTheEnd' /\ CountedWhenOver'
    <3>1. told + response.usage = told + (IF TRUE THEN response.usage ELSE 0)
      OBVIOUS
    <3> QED
      BY <1>1, <1>2, <2>1, <2>3, <2>4, <3>1 DEF CountedAtOnce, CountedAtTheEnd, CountedWhenOver, At, Shape
  <2>7. TextOfRound' /\ TextShown' /\ Places'
    BY <1>1, <1>2, <2>1, <2>3, <2>4 DEF TextOfRound, TextShown, Places, At, Shape, Before, Round
  <2>8. CallsOfRound' /\ RanOfRounds' /\ RanOnce'
    BY <1>1, <1>2, <2>1, <2>3, <2>4 DEF CallsOfRound, RanOfRounds, RanOnce, At, Before, Round
  <2> QED
    BY <1>1, <2>1, <2>4, <2>5, <2>6, <2>7, <2>8, GoingKeeps DEF GoingInv
<1> QED
  BY <1>3, <1>4

LEMMA DrainedKeeps == ASSUME StreamConstants, StreamInv, Drained PROVE StreamInv'
<1>1. ~At("over")
  BY DEF Drained, At
<1> QED
  BY <1>1, StoppedKeeps DEF Drained

LEMMA AnsweredKeeps ==
  ASSUME StreamConstants, StreamInv, Answered
  PROVE  StreamInv'
<1>1. PICK c \in CallState, a \in AdapterState : c = call /\ a = adapter
  BY DEF StreamInv, StreamTyped
<1>2. c.at = "ended" /\ ~c.draining /\ UNCHANGED <<adapter, response, told, messages, shown, ran>>
  BY <1>1 DEF Answered, At, pastVars, toolVars
<1>3. /\ call.outcome = "none" /\ StreamTyped /\ RanOnce
      /\ CountedAtOnce /\ CountedAtTheEnd /\ CountedWhenOver /\ TextOfRound /\ TextShown
  BY <1>1, <1>2, GoingFacts DEF At
<1>4. CASE c.final # "answer"
  <2>1. call' = Fail /\ ~At("over")
    BY <1>1, <1>2, <1>4 DEF Answered, At
  <2> QED
    BY <2>1, FailKeeps DEF Answered
<1>5. CASE c.final = "answer"
  <2>1. PICK usage \in Nat : usage = IF c.blank THEN 0 ELSE a.usage
    BY DEF AdapterState
  <2>2. PICK d : d = [c EXCEPT !.at = "over", !.outcome = "answered", !.usage = usage]
    OBVIOUS
  <2>3. d = call'
    BY <1>1, <1>5, <2>1, <2>2 DEF Answered
  <2>4. d \in CallState
    BY <2>2 DEF CallState
  <2>5. /\ d.shape = c.shape /\ d.stream = c.stream /\ d.outcome = "answered" /\ d.text = c.text /\ d.at = "over"
        /\ d.usage = usage /\ d.blank = c.blank
    BY <2>2 DEF CallState
  <2>6. a.usage = told + response.usage
    <3>1. c.shape \in {"local", "completions", "anthropic", "responses", "gemini"}
      BY DEF CallState, Shapes
    <3> QED
      BY <1>1, <1>2, <1>3, <3>1 DEF CountedAtOnce, CountedAtTheEnd, CountedWhenOver, At, Shape
  <2>7. UsageAddsUp'
    BY <1>2, <2>1, <2>3, <2>5, <2>6 DEF UsageAddsUp
  <2>8. AnswerIsShown'
    BY <1>1, <1>2, <1>3, <1>5, <2>3, <2>5 DEF AnswerIsShown, TextOfRound, TextShown, At, Round
  <2>9. StreamTyped' /\ RanOnce' /\ At("over")'
    BY <1>2, <1>3, <2>3, <2>4, <2>5 DEF StreamTyped, RanOnce, At
  <2> QED
    BY <2>7, <2>8, <2>9 DEF StreamInv, OverInv
<1> QED
  BY <1>4, <1>5

\* The next round begins with nothing of the one before.
LEMMA NextRoundKeeps ==
  ASSUME StreamConstants, StreamInv, NextRound
  PROVE  StreamInv'
<1>1. PICK c \in CallState, a \in AdapterState, r \in ResponseState : c = call /\ a = adapter /\ r = response
  BY DEF StreamInv, StreamTyped
<1>2. /\ c.at = "ended" /\ ~c.draining /\ c.follow
      /\ messages' = ran /\ told' = told + r.usage /\ UNCHANGED <<adapter, shown, ran>>
  BY <1>1 DEF NextRound, At, toolVars
<1>3. /\ call.outcome = "none" /\ StreamTyped /\ RanOnce
      /\ CountedAtOnce /\ CountedAtTheEnd /\ CountedWhenOver /\ TextOfRound /\ TextShown /\ Places
      /\ CallsOfRound /\ RanOfRounds
  BY <1>1, <1>2, GoingFacts DEF At
<1>4. PICK n \in Nat : n = r.round + 1 /\ n > Round /\ Round = r.round /\ Round \in Nat
  BY <1>1 DEF ResponseState, Round
<1>5. PICK s \in ResponseState : s = response' /\ s.round = n /\ s.usage = 0 /\ s.asked = {} /\ s.over = FALSE
  <2>1. PICK s : s = [round |-> n, usage |-> 0, asked |-> {}, over |-> FALSE]
    OBVIOUS
  <2>2. s \in ResponseState
    BY <2>1 DEF ResponseState
  <2>3. s = response'
    BY <1>4, <2>1 DEF NextRound, NewResponse
  <2>4. s.round = n /\ s.usage = 0 /\ s.asked = {} /\ s.over = FALSE
    BY <2>1
  <2> QED
    BY <2>2, <2>3, <2>4
<1>6. PICK d \in CallState :
        /\ d = call' /\ d.shape = c.shape /\ d.stream = c.stream /\ d.draining = c.draining /\ d.outcome = c.outcome
        /\ d.at = "ask"
  <2>1. PICK d : d = [c EXCEPT !.at = "ask"]
    OBVIOUS
  <2>2. d \in CallState /\ d.shape = c.shape /\ d.stream = c.stream /\ d.draining = c.draining /\ d.outcome = c.outcome /\ d.at = "ask"
    BY <2>1 DEF CallState
  <2>3. d = call'
    BY <1>1, <2>1 DEF NextRound
  <2> QED
    BY <2>2, <2>3
<1>7. c.shape # "local" /\ a.content = {} /\ a.calls = <<>>
  BY <1>1, <1>2, <1>3 DEF Places, At, Shape
<1>8. told' \in Nat /\ r.usage \in Nat /\ told \in Nat /\ a.usage \in Nat
  BY <1>2, <1>3 DEF StreamTyped, ResponseState, AdapterState
<1>9. StreamTyped'
  BY <1>2, <1>3, <1>5, <1>6, <1>8 DEF StreamTyped
<1>10. CountedAtOnce' /\ CountedAtTheEnd' /\ CountedWhenOver'
  BY <1>1, <1>2, <1>3, <1>5, <1>6, <1>8 DEF CountedAtOnce, CountedAtTheEnd, CountedWhenOver, At, Shape
<1>11. TextOfRound' /\ TextShown'
  <2>1. \A i \in shown : i <= Round /\ i \in Nat
    BY <1>3 DEF TextOfRound, StreamTyped
  <2>2. \A i \in shown : i <= n /\ i # n
    BY <1>4, <2>1
  <2> QED
    BY <1>1, <1>2, <1>5, <1>6, <1>7, <2>2 DEF TextOfRound, TextShown, At, Before, Round
<1>12. Places'
  BY <1>1, <1>2, <1>5, <1>6, <1>7 DEF Places, At, Shape, Before
<1>13. CallsOfRound'
  BY <1>1, <1>2, <1>5, <1>7 DEF CallsOfRound
<1>14. RanOfRounds' /\ RanOnce'
  <2>1. DOMAIN ran = 1..Len(ran) /\ Len(ran) \in Nat
    BY <1>3 DEF StreamTyped
  <2>2. ASSUME NEW j \in DOMAIN ran
        PROVE  j <= Len(ran) /\ ran[j][1] < n
    <3>1. ran[j] \in Nat \X Kinds
      BY <1>3 DEF StreamTyped, RoundCall
    <3>2. ran[j][1] <= Round /\ ran[j][1] \in Nat
      BY <1>3, <1>4, <3>1 DEF RanOfRounds
    <3> QED
      BY <1>4, <2>1, <3>2
  <2> QED
    BY <1>2, <1>3, <1>5, <2>1, <2>2 DEF RanOfRounds, RanOnce, Round
<1> QED
  BY <1>1, <1>3, <1>6, <1>9, <1>10, <1>11, <1>12, <1>13, <1>14, GoingKeeps DEF GoingInv

LEMMA StreamStep == ASSUME StreamConstants, StreamInv, [StreamNext]_streamVars PROVE StreamInv'
<1>1. CASE UNCHANGED streamVars
  BY <1>1 DEF streamVars, StreamInv, StreamTyped, OverInv, RanOnce, AnswerIsShown, UsageAddsUp, GoingInv, CountedAtOnce, CountedAtTheEnd, CountedWhenOver, TextOfRound, TextShown, Places, CallsOfRound, RanOfRounds, Before, At, Shape, Round
<1>2. ASSUME NEW ok \in BOOLEAN, PassLimits(ok)
      PROVE  StreamInv'
  <2>1. CASE ok
    BY <1>2, <2>1, BeforeKeeps
  <2>2. CASE ~ok
    BY <1>2, <2>2, FailKeeps DEF PassLimits, At
  <2> QED
    BY <2>1, <2>2
<1>3. CASE AskRefused \/ ToolRaises \/ Breaks \/ \E error \in {"capability", "client", "rate", "server"} : RejectedForGood(error)
  <2>1. ~At("over") /\ Raises
    BY <1>3 DEF AskRefused, ToolRaises, Breaks, RejectedForGood, At
  <2> QED
    BY <2>1, RaisesKeeps
<1>4. CASE AskModel \/ \E error \in {"capability", "client", "rate", "server"} : Rejected(error)
  BY <1>4, BeforeKeeps
<1>5. CASE LocalStream \/ Accepted \/ Delta \/ UsageChunk \/ Completed \/ FailedEvent \/ StreamEnds \/ BodyUnusable
  BY <1>5, LocalStreamKeeps, AcceptedKeeps, DeltaKeeps, UsageChunkKeeps, CompletedKeeps, FailedEventKeeps, StreamEndsKeeps, BodyUnusableKeeps
<1>6. ASSUME NEW kind \in {"plugin", "internal"}, CallChunk(kind)
      PROVE  StreamInv'
  BY <1>6, CallChunkKeeps DEF Kinds
<1>7. ASSUME NEW reason, StopReason(reason) \/ Stop(reason)
      PROVE  StreamInv'
  BY <1>7, StopReasonKeeps, StopKeeps
<1>8. ASSUME NEW text \in BOOLEAN, NEW whole \in BOOLEAN, NEW kinds \in SUBSET {"plugin", "internal"}, Body(text, kinds, whole)
      PROVE  StreamInv'
  BY <1>8, BodyKeeps DEF Kinds
<1>9. ASSUME NEW ok \in BOOLEAN, RunTool(ok)
      PROVE  StreamInv'
  BY <1>9, RunToolKeeps
<1>10. CASE FinalizeRound \/ SeesStop \/ Drained \/ Answered \/ NextRound
  BY <1>10, FinalizeRoundKeeps, SeesStopKeeps, DrainedKeeps, AnsweredKeeps, NextRoundKeeps
<1> QED
  BY <1>1, <1>2, <1>3, <1>4, <1>5, <1>6, <1>7, <1>8, <1>9, <1>10 DEF StreamNext

\* Whatever the rounds, retries, tools and stops (chat_streaming.py, client.py, the
\* adapters): nothing of a round is counted, run, told or shown in another.
THEOREM RoundsAddUpHolds == ASSUME StreamConstants PROVE StreamSpec => []RoundsAddUp
<1>1. StreamInv => RoundsAddUp
  <2>1. ASSUME StreamInv
        PROVE  UsageAddsUp /\ RanOnce /\ AnswerIsShown
    BY <2>1 DEF StreamInv, OverInv
  <2>2. ASSUME StreamInv, At("try")
        PROVE  messages = ran
    BY <2>2, GoingFacts DEF RanOfRounds, Before, At
  <2> QED
    BY <2>1, <2>2 DEF RoundsAddUp, RoundsAreApart, RanOnce, AnswerIsShown
<1> QED
  BY <1>1, StreamInitially, StreamStep, PTL DEF StreamSpec

------------------------------------------------------------------------------
(***************************************************************************)
(* The library.                                                            *)
(***************************************************************************)
KbRow == [slug : Slugs, owner : Persons, personal : BOOLEAN, status : {"active", "inactive"},
          rag : [threshold : {Absent, "high"}, words : {Absent}]]
DocRow == [kb : Kbs, manual : BOOLEAN, status : {"pending", "embedding", "ready", "error"},
           text : {"none", "text"}]

\* A policy allows or denies, the requests are finitely many, and the marker for what
\* is not there is told from what is.
LibraryConstants ==
  /\ \A input \in PolicyInputs : input.effect \in {"allow", "deny"}
  /\ Absent \notin KbRow \cup DocRow \cup PolicyInputs \cup Docs

\* The rows of knowledge bases, with a slug each has alone.
KbsTyped == kb \in [Kbs -> KbRow \cup {Absent}]
SlugsApart == \A j, k \in Kbs : There(j) /\ There(k) /\ kb[j].slug = kb[k].slug => j = k

WhoTyped ==
  /\ policy \in [Policies -> PolicyInputs \cup {Absent}]
  /\ group \in {"none", "inactive", "active"}
  /\ member \in [Persons -> {"none", "removed", "active"}]

DocsTyped == doc \in [Docs -> DocRow \cup {Absent}]
RerunsTyped == rerun \in [Reruns -> Docs \cup {Absent}] /\ jobs \in [Docs -> Nat]

\* What embeds a document is its job, or the one request that is about to enqueue it.
Nobodys(d) == \A r \in Reruns : rerun[r] # d
OneAsks(d) == \E r \in Reruns : rerun[r] = d /\ \A q \in Reruns : rerun[q] = d => q = r
InHand(d) ==
  IF doc[d].status = "embedding"
  THEN \/ jobs[d] = 1 /\ Nobodys(d)
       \/ jobs[d] = 0 /\ OneAsks(d)
  ELSE jobs[d] = 0 /\ Nobodys(d)
Embedding == \A d \in Docs : doc[d] # Absent /\ d \notin doubtful => InHand(d)

LibInv == KbsTyped /\ SlugsApart /\ WhoTyped /\ DocsTyped /\ RerunsTyped /\ Embedding

------------------------------------------------------------------------------
\* The two ways of asking: what a list of the denied has is what a check refuses.
LEMMA DeniedIsRefused ==
  ASSUME LibraryConstants, WhoTyped, NEW u, NEW action, NEW slugs, NEW s \in slugs
  PROVE  s \in GetDenied(u, action, slugs) <=> ~Check(u, action, s)
<1>1. PICK M : M = Matching(u, action, s)
  OBVIOUS
<1>2. \A p \in M : p \in Policies /\ Applies(p, u) /\ policy[p].effect \in {"allow", "deny"}
  BY <1>1 DEF Matching, Applies, WhoTyped, LibraryConstants
<1>3. PICK E : E = {policy[p].effect : p \in M}
  OBVIOUS
<1>4. E \subseteq {"allow", "deny"}
  BY <1>2, <1>3
<1>5. Check(u, action, s) <=> Administers(u) \/ E = {"allow"}
  BY <1>1, <1>3 DEF Check
<1>6. E = {"allow"} <=> (\E p \in M : policy[p].effect = "allow") /\ ~\E p \in M : policy[p].effect = "deny"
  BY <1>3, <1>4
<1>7. {p \in Policies : Applies(p, u)} = {} => M = {}
  BY <1>2
<1> QED
  BY <1>1, <1>5, <1>6, <1>7 DEF GetDenied

\* Owners are not denied their own, and only their own slugs are spared, since no two have one.
LEMMA DeniedIsNotRead ==
  ASSUME LibraryConstants, WhoTyped, SlugsApart, NEW u, NEW slugs, NEW k \in Kbs, There(k),
         kb[k].slug \in slugs
  PROVE  kb[k].slug \in DeniedSlugs(u, slugs) <=> ~ReadsKb(u, k)
<1>1. kb[k].slug \in {kb[j].slug : j \in {i \in Kbs : There(i) /\ Owns(u, i)}} <=> Owns(u, k)
  BY DEF SlugsApart
<1> QED
  BY <1>1, DeniedIsRefused DEF DeniedSlugs, ReadsKb

LEMMA DecisionsFollow == ASSUME LibraryConstants, LibInv PROVE DecisionsAgree
<1> SUFFICES ASSUME NEW u \in Persons, NEW k \in Kbs, There(k)
             PROVE  /\ ReadsKb(u, k) <=> k \in {item.id : item \in ListedItems(u)}
                    /\ ReadsKb(u, k) <=> CheckReadAccess(u, {k})
                    /\ ReadsKb(u, k) <=> k \in FilterAccessible(u, {k})
                    /\ KbsShown(u, k) # {} \/ DocsShown(u, k) # {} => ReadsKb(u, k)
                    /\ DocsShown(u, k) \subseteq DocsOf(k)
                    /\ ReadsKb(u, k) => Administers(u) \/ Owns(u, k) \/ EffectivePolicies(u) # {}
                    /\ Groups(u) # {} => u \in ListMembers /\ ListGroups(FALSE) = {Team}
  BY DEF DecisionsAgree
<1> USE DEF LibInv
<1>1. ReadsKb(u, k) <=> k \in {item.id : item \in ListedItems(u)}
  <2>1. k \in ListKnowledgeBases(u) <=> ReadsKb(u, k)
    <3>1. kb[k].slug \in AllSlugs
      BY DEF AllSlugs
    <3> QED
      BY <3>1, DeniedIsNotRead DEF ListKnowledgeBases
  <2>2. \A j \in Kbs : j \in {item.id : item \in ListedItems(u)} <=> j \in ListKnowledgeBases(u)
    <3>1. PICK L : L = ListKnowledgeBases(u)
      OBVIOUS
    <3>2. PICK items : items = {[id |-> j, status |-> kb[j].status] : j \in L}
      OBVIOUS
    <3>3. \A item \in items : item.id \in L
      BY <3>2
    <3>4. \A j \in L : \E item \in items : item.id = j
      <4> SUFFICES ASSUME NEW j \in L
                   PROVE  \E item \in items : item.id = j
        OBVIOUS
      <4>1. PICK i : i = [id |-> j, status |-> kb[j].status]
        OBVIOUS
      <4>2. i \in items /\ i.id = j
        BY <3>2, <4>1
      <4> QED
        BY <4>2
    <3>5. \A j : j \in {item.id : item \in items} <=> j \in L
      BY <3>3, <3>4
    <3> QED
      BY <3>1, <3>2, <3>5 DEF ListedItems
  <2> QED
    BY <2>1, <2>2
<1>2. PICK s : s = {kb[j].slug : j \in {k}}
  OBVIOUS
<1>3. s = {kb[k].slug}
  BY <1>2
<1>4. kb[k].slug \in DeniedSlugs(u, s) <=> ~ReadsKb(u, k)
  BY <1>3, DeniedIsNotRead
<1>5. DeniedSlugs(u, s) = {} <=> ReadsKb(u, k)
  <2>1. DeniedSlugs(u, s) \subseteq s
    BY DEF DeniedSlugs, GetDenied
  <2> QED
    BY <1>3, <1>4, <2>1
<1>6. ReadsKb(u, k) <=> CheckReadAccess(u, {k})
  BY <1>2, <1>5 DEF CheckReadAccess
<1>7. ReadsKb(u, k) <=> k \in FilterAccessible(u, {k})
  BY <1>2, <1>4 DEF FilterAccessible
<1>8. KbsShown(u, k) # {} => ReadsKb(u, k)
  BY DEF KbsShown, GetKnowledgeBase, GetSummary, GetPersonal, GetRagConfig, GetReEmbeddingStatus,
         GetQueryStats, ReadsKb
<1>9. SearchBound(u, {k}) \subseteq DocsOf(k) /\ (SearchBound(u, {k}) # {} => ReadsKb(u, k))
  BY <1>6 DEF SearchBound, FieldSearch
<1>10. \A d \in DocsShown(u, k) : d \in DocsOf(k) /\ ReadsKb(u, k)
  BY <1>9 DEF DocsShown, ListDocuments, ExtractionSummary, QueryListDocuments, QueryDocuments, Export,
              GetDocuments, Preview, ExtractionDetails, DocumentDetails, GetDocument, GetChunks, DocsOf
<1>11. ReadsKb(u, k) => Administers(u) \/ Owns(u, k) \/ EffectivePolicies(u) # {}
  <2> SUFFICES ASSUME ReadsKb(u, k), ~Administers(u), ~Owns(u, k)
               PROVE  EffectivePolicies(u) # {}
    OBVIOUS
  <2>1. PICK M : M = Matching(u, "kb.read", kb[k].slug)
    OBVIOUS
  <2>2. {policy[p].effect : p \in M} = {"allow"}
    BY <2>1 DEF ReadsKb, Check
  <2>3. PICK p : p \in M
    BY <2>2
  <2>4. p \in Policies /\ Applies(p, u)
    BY <2>1, <2>3 DEF Matching
  <2> QED
    BY <2>4 DEF Applies, EffectivePolicies, Groups
<1>12. Groups(u) # {} => u \in ListMembers /\ ListGroups(FALSE) = {Team}
  BY DEF Groups, ListMembers, ListGroups, WhoTyped
<1> QED
  BY <1>1, <1>6, <1>7, <1>8, <1>10, <1>11, <1>12

LEMMA RerunsFollow == ASSUME LibInv PROVE OneRerun
<1> SUFFICES ASSUME NEW d \in Docs, doc[d] # Absent, d \notin doubtful
             PROVE  LET pending == jobs[d] + Cardinality({r \in Reruns : rerun[r] = d})
                    IN doc[d].status = "embedding" <=> pending = 1
  BY DEF OneRerun
<1>1. PICK A : A = {r \in Reruns : rerun[r] = d}
  OBVIOUS
<1>2. InHand(d) /\ jobs[d] \in Nat
  BY DEF LibInv, Embedding, RerunsTyped
<1>3. CASE Nobodys(d)
  <2>1. Cardinality(A) = 0
    BY <1>1, <1>3, FS_EmptySet DEF Nobodys
  <2>2. ~OneAsks(d)
    BY <1>3 DEF Nobodys, OneAsks
  <2> QED
    BY <1>1, <1>2, <2>1, <2>2 DEF InHand
<1>4. CASE OneAsks(d)
  <2>1. PICK r : A = {r}
    BY <1>1, <1>4 DEF OneAsks
  <2>2. Cardinality(A) = 1
    BY <2>1, FS_Singleton
  <2>3. ~Nobodys(d)
    BY <1>4 DEF Nobodys, OneAsks
  <2> QED
    BY <1>1, <1>2, <2>2, <2>3 DEF InHand
<1> QED
  BY <1>2, <1>3, <1>4 DEF InHand

------------------------------------------------------------------------------
LEMMA LibInvInit == ASSUME LibraryConstants, LibraryInit PROVE LibInv
<1> USE DEF LibraryInit
<1>1. KbsTyped /\ WhoTyped /\ DocsTyped
  BY DEF KbsTyped, WhoTyped, DocsTyped
<1>2. RerunsTyped
  BY DEF RerunsTyped
<1>3. SlugsApart /\ Embedding
  BY DEF SlugsApart, Embedding, There
<1> QED
  BY <1>1, <1>2, <1>3 DEF LibInv

\* Policies and groups change nothing but who may.
LEMMA PoliciesKeep ==
  ASSUME LibInv, UNCHANGED <<kb, doc, rerun, jobs, doubtful>>, WhoTyped'
  PROVE  LibInv'
<1>1. KbsTyped' /\ SlugsApart'
  BY DEF LibInv, KbsTyped, SlugsApart, There
<1>2. DocsTyped' /\ RerunsTyped' /\ Embedding'
  BY DEF LibInv, DocsTyped, RerunsTyped, Embedding, InHand, Nobodys, OneAsks
<1> QED
  BY <1>1, <1>2 DEF LibInv

LEMMA PolicySteps ==
  ASSUME LibInv,
         \/ \E p \in Policies : \/ DeletePolicy(p)
                                \/ \E input \in PolicyInputs : CreatePolicy(p, input) \/ UpdatePolicy(p, input)
         \/ CreateGroup \/ UpdateGroup \/ DeleteGroup
         \/ \E u \in Persons : AddToGroup(u) \/ RemoveFromGroup(u)
  PROVE  LibInv'
<1>1. policy \in [Policies -> PolicyInputs \cup {Absent}]
  BY DEF LibInv, WhoTyped
<1>2. group \in {"none", "inactive", "active"} /\ member \in [Persons -> {"none", "removed", "active"}]
  BY DEF LibInv, WhoTyped
<1>3. ASSUME NEW p \in Policies, DeletePolicy(p) PROVE LibInv'
  BY <1>1, <1>2, <1>3, PoliciesKeep DEF DeletePolicy, WhoTyped
<1>4. ASSUME NEW p \in Policies, NEW input \in PolicyInputs, CreatePolicy(p, input) \/ UpdatePolicy(p, input)
      PROVE  LibInv'
  BY <1>1, <1>2, <1>4, PoliciesKeep DEF CreatePolicy, UpdatePolicy, WhoTyped
<1>5. CASE CreateGroup \/ UpdateGroup
  BY <1>1, <1>2, <1>5, PoliciesKeep DEF CreateGroup, UpdateGroup, WhoTyped
<1>6. CASE DeleteGroup
  BY <1>1, <1>2, <1>6, PoliciesKeep DEF DeleteGroup, WhoTyped
<1>7. ASSUME NEW u \in Persons, AddToGroup(u) \/ RemoveFromGroup(u) PROVE LibInv'
  BY <1>1, <1>2, <1>7, PoliciesKeep DEF AddToGroup, RemoveFromGroup, WhoTyped
<1> QED
  BY <1>3, <1>4, <1>5, <1>6, <1>7

------------------------------------------------------------------------------
\* A row changes or goes; the slug it has afterwards was its own or was free.
LEMMA RowKeeps ==
  ASSUME LibraryConstants, LibInv, NEW k \in Kbs, NEW row \in KbRow \cup {Absent},
         kb' = [kb EXCEPT ![k] = row],
         row # Absent => \A j \in Kbs \ {k} : There(j) => kb[j].slug # row.slug
  PROVE  KbsTyped' /\ SlugsApart'
<1>1. KbsTyped'
  BY DEF LibInv, KbsTyped
<1>2. kb'[k] = row /\ \A j \in Kbs \ {k} : kb'[j] = kb[j]
  BY DEF LibInv, KbsTyped
<1>3. SlugsApart'
  BY <1>2 DEF LibInv, SlugsApart, There
<1> QED
  BY <1>1, <1>3

LEMMA RowStep ==
  ASSUME LibraryConstants, LibInv, NEW k \in Kbs, NEW row \in KbRow \cup {Absent},
         kb' = [kb EXCEPT ![k] = row],
         row # Absent => \A j \in Kbs \ {k} : There(j) => kb[j].slug # row.slug,
         UNCHANGED <<policy, group, member, rerun, jobs, doubtful>>,
         doc' = doc \/ doc' = [d \in Docs |-> IF d \in DocsOf(k) THEN Absent ELSE doc[d]]
  PROVE  LibInv'
<1>1. KbsTyped' /\ SlugsApart'
  BY RowKeeps
<1>2. WhoTyped' /\ RerunsTyped'
  BY DEF LibInv, WhoTyped, RerunsTyped
<1>3. DocsTyped'
  BY DEF LibInv, DocsTyped
<1>4. \A d \in Docs : doc'[d] = Absent \/ doc'[d] = doc[d]
  BY DEF LibInv, DocsTyped
<1>5. Embedding'
  BY <1>4 DEF LibInv, Embedding, InHand, Nobodys, OneAsks
<1> QED
  BY <1>1, <1>2, <1>3, <1>5 DEF LibInv

LEMMA KbSteps ==
  ASSUME LibraryConstants, LibInv, NEW u \in Persons, NEW k \in Kbs,
         \/ \E slug \in Slugs : Rename(u, k, slug) \/ \E personal \in BOOLEAN : Create(u, k, slug, personal)
         \/ \E status \in {"active", "inactive"} : SetStatus(u, k, status)
         \/ UpdateRagConfig(u, k, [threshold |-> "high", words |-> "few"])
         \/ DeleteKb(u, k)
  PROVE  LibInv'
<1>1. kb \in [Kbs -> KbRow \cup {Absent}]
  BY DEF LibInv, KbsTyped
<1>2. PICK row \in KbRow \cup {Absent} : row = kb[k]
  BY <1>1
<1>3. There(k) => /\ row \in KbRow
                  /\ \A j \in Kbs \ {k} : There(j) => kb[j].slug # row.slug
  BY <1>2 DEF There, LibInv, SlugsApart
<1>4. ASSUME NEW slug \in Slugs, NEW personal \in BOOLEAN, Create(u, k, slug, personal) PROVE LibInv'
  <2>1. PICK new : new = [slug |-> slug, owner |-> u, personal |-> personal, status |-> "active", rag |-> Unset]
    OBVIOUS
  <2>2. new \in KbRow /\ new.slug = slug
    BY <2>1 DEF KbRow, Unset
  <2>3. \A j \in Kbs \ {k} : There(j) => kb[j].slug # slug
    BY <1>4 DEF Create, SlugTaken
  <2>4. kb' = [kb EXCEPT ![k] = new] /\ UNCHANGED <<doc, policy, group, member, rerun, jobs, doubtful>>
    BY <1>4, <2>1 DEF Create
  <2> QED
    BY <2>2, <2>3, <2>4, RowStep
<1>5. ASSUME NEW slug \in Slugs, Rename(u, k, slug) PROVE LibInv'
  <2>1. PICK new : new = [row EXCEPT !.slug = slug]
    OBVIOUS
  <2>2. row \in KbRow
    BY <1>3, <1>5 DEF Rename
  <2>3. new \in KbRow /\ new.slug = slug
    BY <2>1, <2>2 DEF KbRow
  <2>4. \A j \in Kbs \ {k} : There(j) => kb[j].slug # slug
    BY <1>5 DEF Rename, SlugTaken
  <2>5. kb' = [kb EXCEPT ![k] = new] /\ UNCHANGED <<doc, policy, group, member, rerun, jobs, doubtful>>
    BY <1>1, <1>2, <1>5, <2>1 DEF Rename
  <2> QED
    BY <2>3, <2>4, <2>5, RowStep
<1>6. ASSUME NEW status \in {"active", "inactive"}, SetStatus(u, k, status) PROVE LibInv'
  <2>1. PICK new : new = [row EXCEPT !.status = status]
    OBVIOUS
  <2>2. row \in KbRow /\ \A j \in Kbs \ {k} : There(j) => kb[j].slug # row.slug
    BY <1>3, <1>6 DEF SetStatus
  <2>3. new \in KbRow /\ new.slug = row.slug
    BY <2>1, <2>2 DEF KbRow
  <2>4. kb' = [kb EXCEPT ![k] = new] /\ UNCHANGED <<doc, policy, group, member, rerun, jobs, doubtful>>
    BY <1>1, <1>2, <1>6, <2>1 DEF SetStatus
  <2> QED
    BY <2>2, <2>3, <2>4, RowStep
<1>7. CASE UpdateRagConfig(u, k, [threshold |-> "high", words |-> "few"])
  <2>1. PICK rag : rag = [row.rag EXCEPT !.threshold = "high"]
    OBVIOUS
  <2>2. row \in KbRow /\ \A j \in Kbs \ {k} : There(j) => kb[j].slug # row.slug
    BY <1>3, <1>7 DEF UpdateRagConfig
  <2>3. PICK new : new = [row EXCEPT !.rag = rag]
    OBVIOUS
  <2>4. rag \in [threshold : {Absent, "high"}, words : {Absent}]
    BY <2>1, <2>2 DEF KbRow
  <2>5. new \in KbRow /\ new.slug = row.slug
    BY <2>2, <2>3, <2>4 DEF KbRow
  <2>6. kb' = [kb EXCEPT ![k].rag.threshold = "high"]
    BY <1>7 DEF UpdateRagConfig
  <2>7. kb' = [kb EXCEPT ![k] = new] /\ UNCHANGED <<doc, policy, group, member, rerun, jobs, doubtful>>
    BY <1>1, <1>2, <1>7, <2>1, <2>3, <2>6 DEF UpdateRagConfig
  <2> QED
    BY <2>2, <2>5, <2>7, RowStep
<1>8. CASE DeleteKb(u, k)
  <2>1. kb' = [kb EXCEPT ![k] = Absent] /\ UNCHANGED <<policy, group, member, rerun, jobs, doubtful>>
    BY <1>8 DEF DeleteKb
  <2>2. doc' = [d \in Docs |-> IF d \in DocsOf(k) THEN Absent ELSE doc[d]]
    BY <1>8 DEF DeleteKb
  <2> QED
    BY <2>1, <2>2, RowStep
<1> QED
  BY <1>4, <1>5, <1>6, <1>7, <1>8

------------------------------------------------------------------------------
\* A document is embedded anew, arrives or goes: what concerns it holds afterwards, and
\* nothing else is touched.
LEMMA DocStep ==
  ASSUME LibInv, NEW d \in Docs,
         UNCHANGED <<kb, policy, group, member>>,
         DocsTyped', RerunsTyped',
         \A e \in Docs \ {d} : /\ doc'[e] = doc[e] /\ jobs'[e] = jobs[e]
                               /\ e \in doubtful' <=> e \in doubtful
                               /\ \A r \in Reruns : rerun'[r] = e <=> rerun[r] = e,
         doc'[d] # Absent /\ d \notin doubtful' => InHand(d)'
  PROVE  LibInv'
<1>1. KbsTyped' /\ SlugsApart' /\ WhoTyped'
  BY DEF LibInv, KbsTyped, SlugsApart, There, WhoTyped
<1>2. ASSUME NEW e \in Docs, e # d, doc'[e] # Absent, e \notin doubtful' PROVE InHand(e)'
  <2>1. InHand(e)
    BY <1>2 DEF LibInv, Embedding
  <2>2. doc'[e] = doc[e] /\ jobs'[e] = jobs[e] /\ \A r \in Reruns : rerun'[r] = e <=> rerun[r] = e
    BY <1>2
  <2> QED
    BY <2>1, <2>2 DEF InHand, Nobodys, OneAsks
<1> QED
  BY <1>1, <1>2 DEF LibInv, Embedding

\* The row of a document with another status is a row.
LEMMA StatusTyped ==
  ASSUME LibraryConstants, LibInv, NEW d \in Docs, doc[d] # Absent,
         NEW status \in {"pending", "embedding", "ready", "error"},
         doc' = [doc EXCEPT ![d].status = status]
  PROVE  /\ DocsTyped' /\ doc'[d] # Absent /\ doc'[d].status = status
         /\ \A e \in Docs \ {d} : doc'[e] = doc[e]
<1>1. PICK row \in DocRow : row = doc[d]
  BY DEF LibInv, DocsTyped
<1>2. PICK new : new = [row EXCEPT !.status = status]
  OBVIOUS
<1>3. new \in DocRow /\ new.status = status
  BY <1>2 DEF DocRow
<1>4. doc' = [doc EXCEPT ![d] = new] /\ doc \in [Docs -> DocRow \cup {Absent}]
  BY <1>1, <1>2 DEF LibInv, DocsTyped
<1>5. DocsTyped'
  BY <1>3, <1>4 DEF DocsTyped
<1>6. doc'[d] = new /\ \A e \in Docs \ {d} : doc'[e] = doc[e]
  BY <1>4
<1> QED
  BY <1>3, <1>5, <1>6 DEF LibraryConstants

LEMMA ComeAndGo ==
  ASSUME LibraryConstants, LibInv, NEW d \in Docs,
         \/ \E u \in Persons : DeleteDocument(u, d)
         \/ \E k \in Kbs, manual \in BOOLEAN, status \in {"pending", "ready", "error"},
               text \in {"none", "text"} : Arrive(d, k, manual, status, text)
  PROVE  LibInv'
<1>1. doc \in [Docs -> DocRow \cup {Absent}]
  BY DEF LibInv, DocsTyped
<1>2. CASE \E u \in Persons : DeleteDocument(u, d)
  <2>1. doc' = [doc EXCEPT ![d] = Absent] /\ UNCHANGED <<kb, policy, group, member, rerun, jobs, doubtful>>
    BY <1>2 DEF DeleteDocument
  <2>2. DocsTyped' /\ RerunsTyped'
    BY <1>1, <2>1 DEF LibInv, DocsTyped, RerunsTyped
  <2> QED
    BY <1>1, <2>1, <2>2, DocStep
<1>3. ASSUME NEW k \in Kbs, NEW manual \in BOOLEAN, NEW status \in {"pending", "ready", "error"},
             NEW text \in {"none", "text"}, Arrive(d, k, manual, status, text)
      PROVE  LibInv'
  <2>1. PICK row : row = [kb |-> k, manual |-> manual, status |-> status, text |-> text]
    OBVIOUS
  <2>2. row \in DocRow /\ row.status # "embedding"
    BY <2>1 DEF DocRow
  <2>3. /\ doc' = [doc EXCEPT ![d] = row] /\ doubtful' = doubtful \ {d}
        /\ jobs[d] = 0 /\ Nobodys(d) /\ UNCHANGED <<kb, policy, group, member, rerun, jobs>>
    BY <1>3, <2>1 DEF Arrive, Nobodys
  <2>4. DocsTyped' /\ RerunsTyped'
    BY <1>1, <2>2, <2>3 DEF LibInv, DocsTyped, RerunsTyped
  <2>5. InHand(d)'
    BY <1>1, <2>2, <2>3 DEF InHand, Nobodys
  <2> QED
    BY <1>1, <2>3, <2>4, <2>5, DocStep
<1> QED
  BY <1>2, <1>3

LEMMA ReingestKeeps ==
  ASSUME LibraryConstants, LibInv, NEW r \in Reruns, NEW u \in Persons, NEW d \in Docs, Reingest(r, u, d)
  PROVE  LibInv'
<1>1. /\ doc[d] # Absent /\ doc[d].status \in {"ready", "error"} /\ rerun[r] = Absent
      /\ doc' = [doc EXCEPT ![d].status = "embedding"] /\ rerun' = [rerun EXCEPT ![r] = d]
      /\ UNCHANGED <<kb, policy, group, member, jobs, doubtful>>
  BY DEF Reingest, Terminal
<1>2. rerun \in [Reruns -> Docs \cup {Absent}]
  BY DEF LibInv, RerunsTyped
<1>3. DocsTyped' /\ doc'[d].status = "embedding" /\ \A e \in Docs \ {d} : doc'[e] = doc[e]
  BY <1>1, StatusTyped
<1>4. RerunsTyped'
  BY <1>1 DEF LibInv, RerunsTyped
<1>5. \A e \in Docs \ {d} : \A q \in Reruns : rerun'[q] = e <=> rerun[q] = e
  BY <1>1, <1>2 DEF LibraryConstants
<1>6. d \notin doubtful => InHand(d)'
  <2>1. d \notin doubtful => jobs[d] = 0 /\ Nobodys(d)
    BY <1>1 DEF LibInv, Embedding, InHand
  <2>2. Nobodys(d) => OneAsks(d)'
    BY <1>1, <1>2 DEF Nobodys, OneAsks
  <2> QED
    BY <1>1, <1>3, <2>1, <2>2 DEF InHand
<1> QED
  BY <1>1, <1>3, <1>4, <1>5, <1>6, DocStep

LEMMA EnqueueKeeps ==
  ASSUME LibraryConstants, LibInv, NEW r \in Reruns, EnqueueEmbed(r)
  PROVE  LibInv'
<1>1. rerun \in [Reruns -> Docs \cup {Absent}] /\ jobs \in [Docs -> Nat]
  BY DEF LibInv, RerunsTyped
<1>2. PICK d \in Docs : d = rerun[r]
  BY <1>1 DEF EnqueueEmbed
<1>3. /\ jobs' = [jobs EXCEPT ![d] = @ + 1] /\ rerun' = [rerun EXCEPT ![r] = Absent]
      /\ UNCHANGED <<kb, doc, policy, group, member, doubtful>>
  BY <1>2 DEF EnqueueEmbed
<1>4. DocsTyped' /\ RerunsTyped'
  BY <1>1, <1>3 DEF LibInv, DocsTyped, RerunsTyped
<1>5. \A e \in Docs \ {d} : jobs'[e] = jobs[e] /\ \A q \in Reruns : rerun'[q] = e <=> rerun[q] = e
  BY <1>1, <1>2, <1>3 DEF LibraryConstants
<1>6. doc[d] # Absent /\ d \notin doubtful => InHand(d)'
  <2> SUFFICES ASSUME doc[d] # Absent, d \notin doubtful
               PROVE  InHand(d)'
    OBVIOUS
  <2>1. ~Nobodys(d)
    BY <1>2 DEF Nobodys
  <2>2. doc[d].status = "embedding" /\ jobs[d] = 0 /\ OneAsks(d)
    BY <2>1 DEF LibInv, Embedding, InHand
  <2>3. Nobodys(d)'
    BY <1>1, <1>2, <1>3, <2>2 DEF Nobodys, OneAsks, LibraryConstants
  <2> QED
    BY <1>1, <1>3, <2>2, <2>3 DEF InHand
<1> QED
  BY <1>3, <1>4, <1>5, <1>6, DocStep

LEMMA EnqueueFailsKeeps ==
  ASSUME LibraryConstants, LibInv, NEW r \in Reruns, NEW stored \in BOOLEAN, EnqueueFails(r, stored)
  PROVE  LibInv'
<1>1. /\ rerun \in [Reruns -> Docs \cup {Absent}] /\ jobs \in [Docs -> Nat]
      /\ doc \in [Docs -> DocRow \cup {Absent}]
  BY DEF LibInv, RerunsTyped, DocsTyped
<1>2. PICK d \in Docs : d = rerun[r]
  BY <1>1 DEF EnqueueFails
<1>3. /\ MarkError(d) /\ rerun' = [rerun EXCEPT ![r] = Absent] /\ UNCHANGED <<kb, policy, group, member>>
      /\ IF stored THEN jobs' = [jobs EXCEPT ![d] = @ + 1] /\ doubtful' = doubtful \cup {d}
         ELSE UNCHANGED <<jobs, doubtful>>
  BY <1>2 DEF EnqueueFails
<1>4. DocsTyped' /\ (doc'[d] # Absent => doc[d] # Absent /\ doc'[d].status = "error")
                 /\ \A e \in Docs \ {d} : doc'[e] = doc[e]
  <2>1. CASE doc[d] = Absent
    <3>1. doc' = doc
      BY <1>1, <1>3, <2>1 DEF MarkError
    <3> QED
      BY <2>1, <3>1 DEF LibInv, DocsTyped
  <2>2. CASE doc[d] # Absent
    <3>1. doc' = [doc EXCEPT ![d].status = "error"]
      BY <1>1, <1>3, <2>2 DEF MarkError
    <3> QED
      BY <2>2, <3>1, StatusTyped
  <2> QED
    BY <2>1, <2>2
<1>5. RerunsTyped'
  BY <1>1, <1>3 DEF RerunsTyped
<1>6. \A e \in Docs \ {d} : /\ jobs'[e] = jobs[e] /\ (e \in doubtful' <=> e \in doubtful)
                            /\ \A q \in Reruns : rerun'[q] = e <=> rerun[q] = e
  BY <1>1, <1>2, <1>3 DEF LibraryConstants
<1>7. doc'[d] # Absent /\ d \notin doubtful' => InHand(d)'
  <2> SUFFICES ASSUME doc'[d] # Absent, d \notin doubtful'
               PROVE  InHand(d)'
    OBVIOUS
  <2>1. ~stored /\ jobs' = jobs /\ d \notin doubtful
    BY <1>3
  <2>2. ~Nobodys(d)
    BY <1>2 DEF Nobodys
  <2>3. jobs[d] = 0 /\ OneAsks(d)
    BY <1>4, <2>1, <2>2 DEF LibInv, Embedding, InHand
  <2>4. Nobodys(d)'
    BY <1>1, <1>2, <1>3, <2>3 DEF Nobodys, OneAsks, LibraryConstants
  <2> QED
    BY <1>4, <2>1, <2>3, <2>4 DEF InHand
<1> QED
  BY <1>3, <1>4, <1>5, <1>6, <1>7, DocStep

LEMMA EmbedEndsKeeps ==
  ASSUME LibraryConstants, LibInv, NEW d \in Docs, NEW status \in {"ready", "error"}, EmbedEnds(d, status)
  PROVE  LibInv'
<1>1. jobs \in [Docs -> Nat]
  BY DEF LibInv, RerunsTyped
<1>2. /\ jobs[d] > 0 /\ jobs' = [jobs EXCEPT ![d] = @ - 1]
      /\ UNCHANGED <<kb, policy, group, member, rerun, doubtful>>
  BY DEF EmbedEnds
<1>3. DocsTyped' /\ (doc'[d] # Absent => doc[d] # Absent /\ doc'[d].status = status)
                 /\ \A e \in Docs \ {d} : doc'[e] = doc[e]
  <2>1. CASE doc[d] = Absent
    <3>1. doc' = doc
      BY <2>1 DEF EmbedEnds
    <3> QED
      BY <2>1, <3>1 DEF LibInv, DocsTyped
  <2>2. CASE doc[d] # Absent
    <3>1. doc' = [doc EXCEPT ![d].status = status]
      BY <2>2 DEF EmbedEnds
    <3> QED
      BY <2>2, <3>1, StatusTyped
  <2> QED
    BY <2>1, <2>2
<1>4. RerunsTyped'
  BY <1>1, <1>2 DEF LibInv, RerunsTyped
<1>5. doc'[d] # Absent /\ d \notin doubtful' => InHand(d)'
  <2> SUFFICES ASSUME doc'[d] # Absent, d \notin doubtful
               PROVE  InHand(d)'
    BY <1>2
  <2>1. jobs[d] = 1 /\ Nobodys(d)
    BY <1>2, <1>3 DEF LibInv, Embedding, InHand
  <2>2. jobs'[d] = 0 /\ Nobodys(d)'
    BY <1>1, <1>2, <2>1 DEF Nobodys
  <2> QED
    BY <1>3, <2>2 DEF InHand
<1> QED
  BY <1>1, <1>2, <1>3, <1>4, <1>5, DocStep

LEMMA LibInvNext == ASSUME LibraryConstants, LibInv, LibraryNext PROVE LibInv'
BY PolicySteps, KbSteps, ComeAndGo, ReingestKeeps, EnqueueKeeps, EnqueueFailsKeeps, EmbedEndsKeeps DEF LibraryNext

LEMMA LibInvStutter == ASSUME LibInv, UNCHANGED libraryVars PROVE LibInv'
<1> USE DEF libraryVars
<1>1. WhoTyped'
  BY DEF LibInv, WhoTyped
<1> QED
  BY <1>1, PoliciesKeep

\* Whatever admins make of policies, groups and members, and whatever comes, goes and is
\* renamed: the lists, the reads and the searches agree, and no document is embedded
\* twice at once or left busy with nobody to embed it, save where the queue took a job
\* and raised.
THEOREM LibraryAgreesHolds == ASSUME LibraryConstants PROVE LibrarySpec => []LibraryAgrees
<1>1. LibraryInit => LibInv
  BY LibInvInit
<1>2. LibInv /\ [LibraryNext]_libraryVars => LibInv'
  BY LibInvNext, LibInvStutter
<1>3. LibInv => LibraryAgrees
  BY DecisionsFollow, RerunsFollow DEF LibraryAgrees
<1> QED
  BY <1>1, <1>2, <1>3, PTL DEF LibrarySpec
==============================================================================
