---------------------------- MODULE EmailDelivery ----------------------------
(***************************************************************************)
(* Outbound mail: EmailService.send (services/email_service.py) writes an  *)
(* audit row in the caller's transaction and enqueues the EMAIL job before *)
(* that transaction commits; handle_email_job (email_handler.py) runs on   *)
(* the workers, hands the mail to a transport (core/email/...) and marks   *)
(* the row.                                                                *)
(*                                                                         *)
(* A mail is identified by its idempotency key: EmailService.send with the *)
(* key of an existing row returns that row and changes nothing.  The job   *)
(* of a mail is delivered at least once, as AtLeastOnce promises.          *)
(***************************************************************************)
EXTENDS Naturals

CONSTANTS Mails,        \* mails that may be asked for (one idempotency key each)
          Mailers,      \* the workers that run EMAIL jobs
          MaxAttempts,  \* Job.max_attempts
          MaxMishaps,   \* bounds lapses of a lease, deaths and database failures
          None

VARIABLES audit,     \* audit[m]: the email_send_log row, "pending" until committed
          job,       \* job[m]: is a copy of the job waiting, and the attempts it was given
          mailer,    \* mailer[w]: the delivery w works on
          accepted,  \* mails a transport accepted
          unmarked,  \* mails whose job was discarded and whose row was not marked
          mishaps

mailVars == <<audit, job, mailer, accepted, unmarked, mishaps>>

Delivery == [mail: Mails, tries: Nat, pc: {"read", "send", "sent", "failed"}]

EmailTypeOK ==
  /\ audit \in [Mails -> {"none", "pending", "queued", "sent", "failed"}]
  /\ job \in [Mails -> [waiting: BOOLEAN, tries: 0..MaxAttempts + MaxMishaps]]
  /\ mailer \in [Mailers -> Delivery \cup {None}]
  /\ accepted \subseteq Mails /\ unmarked \subseteq Mails
  /\ mishaps \in 0..MaxMishaps

NoJob == [waiting |-> FALSE, tries |-> 0]

EmailInit ==
  /\ audit = [m \in Mails |-> "none"]
  /\ job = [m \in Mails |-> NoJob]
  /\ mailer = [w \in Mailers |-> None]
  /\ accepted = {} /\ unmarked = {} /\ mishaps = 0

-----------------------------------------------------------------------------
(* What the callers of the service do, in their own transaction. *)

\* EmailService.send of a mail whose key is new: the row is flushed and the job
\* enqueued, both before the commit.
Send(m) ==
  /\ audit[m] = "none"
  /\ audit' = [audit EXCEPT ![m] = "pending"]
  /\ job' = [job EXCEPT ![m] = [waiting |-> TRUE, tries |-> 0]]
  /\ UNCHANGED <<mailer, accepted, unmarked, mishaps>>

\* The caller's transaction ends. A rollback takes the row back, not the job.
CommitAudit(m) ==
  /\ audit' = [audit EXCEPT ![m] = "queued"]
  /\ UNCHANGED <<job, mailer, accepted, unmarked, mishaps>>

-----------------------------------------------------------------------------
(* The workers. *)

\* The worker loop dequeues the job of m, which counts the attempt; a job that lapses
\* comes back whatever its attempts.
Dequeue(w, m) ==
  /\ mailer[w] = None /\ job[m].waiting
  /\ mailer' = [mailer EXCEPT ![w] = [mail |-> m, tries |-> job[m].tries + 1, pc |-> "read"]]
  /\ job' = [job EXCEPT ![m] = NoJob]
  /\ UNCHANGED <<audit, accepted, unmarked, mishaps>>

Acknowledge(w) == mailer' = [mailer EXCEPT ![w] = None]

\* The job goes back as the worker has it.  Copies of a job that wait at once are one.
PutBack(w) == job' = [job EXCEPT ![mailer[w].mail] = [waiting |-> TRUE, tries |-> mailer[w].tries]]

RejectDrops(w, row) ==
  /\ Acknowledge(w)
  /\ UNCHANGED <<job, unmarked>>

\* The handler raised: the worker returns the job, or discards it when its
\* attempts are used up. What row the mail is left with is row.
Reject(w, row) ==
  LET m == mailer[w].mail
      again == mailer[w].tries < MaxAttempts
      open == row \in {"none", "pending", "queued"}
  IN /\ mailer' = [mailer EXCEPT ![w] = None]
     /\ IF again THEN PutBack(w) ELSE UNCHANGED job
     /\ unmarked' = IF ~again /\ open THEN unmarked \cup {m} ELSE unmarked

\* handle_email_job reads the audit row: not visible yet, so that the job is
\* tried again; or settled, by an earlier delivery; or still to be sent.
RowNotVisible(w) ==
  /\ mailer[w] # None /\ mailer[w].pc = "read"
  /\ audit[mailer[w].mail] \in {"none", "pending"}
  /\ Reject(w, audit[mailer[w].mail])
  /\ UNCHANGED <<audit, accepted, mishaps>>

ReadRow(w) ==
  /\ mailer[w] # None /\ mailer[w].pc = "read"
  /\ audit[mailer[w].mail] \notin {"none", "pending"}
  /\ IF audit[mailer[w].mail] = "queued"
     THEN mailer' = [mailer EXCEPT ![w].pc = "send"]
     ELSE Acknowledge(w)
  /\ UNCHANGED <<audit, job, accepted, unmarked, mishaps>>

\* backend.send_email returns SENT, or FAILED (the address is refused for good).
Transport(w, result) ==
  /\ mailer[w] # None /\ mailer[w].pc = "send"
  /\ mailer' = [mailer EXCEPT ![w].pc = result]
  /\ accepted' = IF result = "sent" THEN accepted \cup {mailer[w].mail} ELSE accepted
  /\ UNCHANGED <<audit, job, unmarked, mishaps>>

\* backend.send_email raises EmailTransportError, with the mail taken (a lost
\* answer) or not. On the last attempt the row is marked as failed in a session
\* of its own, whose failure is swallowed.
TransportRaises(w, taken, marks) ==
  /\ mailer[w] # None /\ mailer[w].pc = "send"
  /\ marks \/ mishaps < MaxMishaps
  /\ LET m == mailer[w].mail
         row == IF mailer[w].tries >= MaxAttempts /\ marks THEN "failed" ELSE audit[m]
     IN /\ audit' = [audit EXCEPT ![m] = row]
        /\ accepted' = IF taken THEN accepted \cup {m} ELSE accepted
        /\ Reject(w, row)
  /\ mishaps' = IF marks THEN mishaps ELSE mishaps + 1

\* mark_audit_sent or mark_audit_failed, then the commit and the acknowledgement.
Mark(w) ==
  /\ mailer[w] # None /\ mailer[w].pc \in {"sent", "failed"}
  /\ audit' = [audit EXCEPT ![mailer[w].mail] = mailer[w].pc]
  /\ Acknowledge(w)
  /\ UNCHANGED <<job, accepted, unmarked, mishaps>>

MarkRaises(w) ==
  /\ mailer[w] # None /\ mailer[w].pc \in {"sent", "failed"}
  /\ mishaps < MaxMishaps /\ mishaps' = mishaps + 1
  /\ Reject(w, audit[mailer[w].mail])
  /\ UNCHANGED <<audit, accepted>>

\* The lease of w lapses while it works, or because its process died: the queue gives
\* the job to another, the last attempt or not.
Redeliver(w, dies) ==
  /\ mailer[w] # None /\ mishaps < MaxMishaps
  /\ mishaps' = mishaps + 1
  /\ PutBack(w)
  /\ mailer' = [mailer EXCEPT ![w] = IF dies THEN None ELSE @]
  /\ UNCHANGED <<audit, accepted, unmarked>>

Deliver(w) ==
  \/ \E m \in Mails : Dequeue(w, m)
  \/ RowNotVisible(w)
  \/ ReadRow(w)
  \/ \E result \in {"sent", "failed"} : Transport(w, result)
  \/ \E taken, marks \in BOOLEAN : TransportRaises(w, taken, marks)
  \/ Mark(w)

EmailFails(w) == MarkRaises(w) \/ \E dies \in BOOLEAN : Redeliver(w, dies)

EmailNext == \E w \in Mailers : Deliver(w) \/ EmailFails(w)
=============================================================================
