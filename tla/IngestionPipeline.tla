------------------------- MODULE IngestionPipeline -------------------------
(***************************************************************************)
(* The document pipeline: ingest_document, ingest_text, ingest_thread and  *)
(* ingest_email (services/ingestion_service.py), the handlers of           *)
(* INGESTION_CLASSIFY, INGESTION_TEXT, INGESTION_OCR, INGESTION_EMBED and  *)
(* PROFILING (worker.py) and the staged files                              *)
(* (services/file_staging_service.py), for one document.                   *)
(*                                                                         *)
(* An action is what a handler does between two points where another       *)
(* worker can see it: one commit, one job enqueued, one file deleted.  The *)
(* queue is the one AtLeastOnce promises, in any order: a job comes back   *)
(* when its lease lapses under a working handler or its process dies.      *)
(* The database itself does not fail.                                      *)
(***************************************************************************)
EXTENDS Integers, FiniteSets, Bags

CONSTANTS
  Workers,
  None,
  Entry,       \* the first jobs of the uploads: "embed" for ingest_text and
               \* ingest_thread, "email" for ingest_email, which has none, else
               \* what select_initial_workload_type may answer
  Profiling,   \* settings.enable_document_profiling
  MaxAttempts, \* max_attempts of each kind of job
  Faulty,      \* bound: the <<kind, step>> at which a service may fail
  Deletable,   \* bound: whether the document may be deleted
  MaxUploads, MaxLapses, MaxCrashes, MaxFaults, MaxDrops \* bounds

\* "extract" is INGESTION_TEXT and INGESTION_OCR, which share their handler, and
\* the two actions of INGESTION_EMBED are "embed" and "artifacts".
Kinds  == {"classify", "extract", "embed", "profile", "artifacts"}
Upload == 1..MaxUploads
Job    == [kind : Kinds, upload : 0..MaxUploads, attempts : Nat]

Searchable == {"content_processed", "rag_processed", "profile_processed"}
InProgress == {"pending", "extracting", "embedding", "profiling", "artifact_embedding"}
Status     == Searchable \cup InProgress \cup {"error"}

\* A call of the ingestion service, and what it does next.
Calls == [upload : Upload, entry : Entry,
          step : {"stage", "enqueue", "mark", "embed", "profile"}, seen : Status]

ASSUME PipelineAssumption ==
  /\ Entry \subseteq {"classify", "extract", "embed", "email"}
  /\ MaxAttempts \in [Kinds -> Nat \ {0}]
  /\ {MaxUploads, MaxLapses, MaxCrashes, MaxFaults, MaxDrops} \subseteq Nat
  /\ {Profiling, Deletable} \subseteq BOOLEAN
  /\ None \notin Job \cup Calls

VARIABLES
  status,   \* processing_status of the document, "absent" or "gone"
  content,  \* the upload its content is of, 0 when empty
  chunks,   \* the upload its chunks are of, 0 when there are none
  staged,   \* uploads whose staged file exists
  queued,   \* the waiting jobs
  producer, \* the call of the ingestion service under way, or None
  held,     \* the job of each worker
  pc,       \* what its handler does next
  seen,     \* the status its session remembers
  read      \* the content its session remembers

\* History and counters.
VARIABLES
  stale,     \* workers whose lease lapsed
  extracted, \* uploads whose content was stored
  abandoned, \* uploads one of whose jobs was given up or dropped
  uploads, lapses, crashes, faults, drops

document == <<status, content, chunks>>
local    == <<held, pc, seen, read>>
counts   == <<uploads, lapses, crashes, faults, drops>>
history  == <<extracted, abandoned>>
vars     == <<document, staged, queued, producer, local, stale, history, counts>>

Init ==
  /\ status = "absent" /\ content = 0 /\ chunks = 0
  /\ staged = {} /\ queued = EmptyBag /\ producer = None
  /\ held = [w \in Workers |-> None]
  /\ pc = [w \in Workers |-> "idle"]
  /\ seen = [w \in Workers |-> "absent"]
  /\ read = [w \in Workers |-> 0]
  /\ stale = {} /\ extracted = {} /\ abandoned = {}
  /\ uploads = 0 /\ lapses = 0 /\ crashes = 0 /\ faults = 0 /\ drops = 0

Put(job) == queued' = queued (+) SetToBag({job})

\* A session writes the status only if it differs from the one it remembers.
Written(remembered, new) == IF remembered = new THEN status ELSE new

Fault(kind, step) ==
  <<kind, step>> \in Faulty /\ faults < MaxFaults /\ faults' = faults + 1

------------------------------------------------------------------------------
(***************************************************************************)
(* Producers, one at a time.                                               *)
(***************************************************************************)
Call(entry, step, remembered) ==
  producer' = [upload |-> uploads', entry |-> entry, step |-> step, seen |-> remembered]

\* PENDING is committed, and old content cleared, before there is a file or a job.
IngestDocument(entry) ==
  /\ producer = None /\ status # "gone" /\ uploads < MaxUploads
  /\ uploads' = uploads + 1
  /\ status' = "pending"
  /\ content' = 0
  /\ Call(entry, "stage", "pending")
  /\ UNCHANGED <<chunks, staged, queued, local, stale, history, lapses, crashes, faults, drops>>

\* A text replaces the content, and leaves the status of an existing document alone
\* for the time being.  One that is there unchanged is not written again.
WriteText(entry, step) ==
  /\ producer = None /\ status # "gone" /\ uploads < MaxUploads
  /\ uploads' = uploads + 1
  /\ status' = IF status = "absent" THEN "pending" ELSE status
  /\ content' = uploads'
  /\ extracted' = extracted \cup {uploads'}
  /\ Call(entry, step, status')
  /\ UNCHANGED <<chunks, staged, queued, local, stale, abandoned, lapses, crashes, faults, drops>>

\* ingest_text, ingest_thread
IngestText == WriteText("embed", "enqueue")
IngestEmail == WriteText("email", "embed")

StageFile ==
  /\ producer # None /\ producer.step = "stage"
  /\ staged' = staged \cup {producer.upload}
  /\ producer' = [producer EXCEPT !.step = "enqueue"]
  /\ UNCHANGED <<document, queued, local, stale, history, counts>>

EmbedJob == [kind |-> "embed", upload |-> 0, attempts |-> 0]

EnqueueFirst ==
  /\ producer # None /\ producer.step = "enqueue"
  /\ IF producer.entry = "embed"
       THEN /\ Put(EmbedJob)
            /\ producer' = [producer EXCEPT !.step = "mark"]
       ELSE /\ Put([kind |-> producer.entry, upload |-> producer.upload, attempts |-> 0])
            /\ producer' = None
  /\ UNCHANGED <<document, staged, local, stale, history, counts>>

MarkEmbedding ==
  /\ producer # None /\ producer.step = "mark"
  /\ status' = IF status = "gone" THEN status ELSE Written(producer.seen, "embedding")
  /\ producer' = None
  /\ UNCHANGED <<content, chunks, staged, queued, local, stale, history, counts>>

\* An email is embedded by the call itself, and only profiled by a job.
EmbedEmail ==
  /\ producer # None /\ producer.step = "embed" /\ status # "gone"
  /\ chunks' = producer.upload
  /\ status' = Written(producer.seen, "content_processed")
  /\ producer' = IF Profiling THEN [producer EXCEPT !.step = "profile"] ELSE None
  /\ UNCHANGED <<content, staged, queued, local, stale, history, counts>>

EmailOfDeleted ==
  /\ producer # None /\ producer.step = "embed" /\ status = "gone"
  /\ producer' = None
  /\ UNCHANGED <<document, staged, queued, local, stale, history, counts>>

\* _trigger_profiling_if_enabled: the email stays as it is when this fails.
TriggerProfiling ==
  /\ producer # None /\ producer.step = "profile"
  /\ \/ Put([kind |-> "profile", upload |-> 0, attempts |-> 0]) /\ UNCHANGED faults
     \/ Fault("upload", "profile") /\ UNCHANGED queued
  /\ producer' = None
  /\ UNCHANGED <<document, staged, local, stale, history, uploads, lapses, crashes, drops>>

\* Staging, enqueueing or embedding failed.  On a deleted document the commit fails
\* too and the file is left.
IngestFails ==
  /\ producer # None /\ producer.step \in {"stage", "enqueue", "embed"}
  /\ Fault("upload", producer.step)
  /\ IF status = "gone"
       THEN UNCHANGED <<status, staged>>
       ELSE /\ status' = Written(producer.seen, "error")
            /\ staged' = staged \ {producer.upload}
  /\ producer' = None
  /\ abandoned' = abandoned \cup {producer.upload}
  /\ UNCHANGED <<content, chunks, queued, local, stale, extracted, uploads, lapses, crashes, drops>>

\* The delete endpoint: the row with its chunks, then the staged files.
DeleteDocument ==
  /\ Deletable /\ status \notin {"absent", "gone"}
  /\ status' = "gone"
  /\ content' = 0 /\ chunks' = 0
  /\ staged' = {}
  /\ UNCHANGED <<queued, producer, local, stale, history, counts>>

------------------------------------------------------------------------------
(***************************************************************************)
(* What the handlers have in common.                                       *)
(***************************************************************************)
Goto(w, step) == pc' = [pc EXCEPT ![w] = step]
Kind(w)      == held[w].kind
At(w, kind)  == pc[w] = "work" /\ Kind(w) = kind
Exhausted(w) == held[w].attempts >= MaxAttempts[Kind(w)]

Successor(kind) ==
  CASE kind = "classify" -> "extract" [] kind = "extract" -> "embed"
    [] kind = "embed" -> "profile" [] kind = "profile" -> "artifacts"

\* The status committed at the start, and the one committed once the next job is
\* enqueued, by those handlers that commit one.
Started == [extract |-> "extracting", embed |-> "embedding", artifacts |-> "artifact_embedding"]
Handed  == [extract |-> "embedding", embed |-> "profiling", profile |-> "rag_processed"]

Take(w) ==
  /\ pc[w] = "idle"
  /\ \E job \in BagToSet(queued) :
       /\ queued' = queued (-) SetToBag({job})
       /\ held' = [held EXCEPT ![w] = [job EXCEPT !.attempts = @ + 1]]
  /\ Goto(w, "begin")
  /\ UNCHANGED <<document, staged, producer, seen, read, stale, history, counts>>

\* A deleted document ends the job; extraction removes its file as well.
Begin(w) ==
  /\ pc[w] = "begin"
  /\ IF status = "gone"
       THEN /\ staged' = IF Kind(w) = "extract" THEN staged \ {held[w].upload} ELSE staged
            /\ Goto(w, "ack")
            /\ UNCHANGED <<status, seen, read>>
       ELSE /\ status' = IF Kind(w) \in DOMAIN Started THEN Started[Kind(w)] ELSE status
            /\ seen' = [seen EXCEPT ![w] = status']
            /\ read' = [read EXCEPT ![w] = content]
            /\ Goto(w, "work")
            /\ UNCHANGED staged
  /\ UNCHANGED <<content, chunks, queued, producer, held, stale, history, counts>>

\* A write to a deleted document raises.
WriteRaises(w) ==
  /\ status = "gone"
  /\ pc[w] = "mark" \/ (pc[w] = "work" /\ Kind(w) # "classify")
  /\ Goto(w, "reject")
  /\ UNCHANGED <<document, staged, queued, producer, held, seen, read, stale, history, counts>>

\* Slip: a stage that hands nothing over.
EnqueueNothing(w) ==
  /\ pc[w] = "enqueue"
  /\ Goto(w, IF Kind(w) \in DOMAIN Handed THEN "mark" ELSE "ack")
  /\ UNCHANGED <<document, staged, queued, producer, held, seen, read, stale, history, counts>>

Enqueue(w) ==
  /\ pc[w] = "enqueue"
  /\ IF Kind(w) = "profile" /\ status = "gone"
       THEN Goto(w, "ack") /\ UNCHANGED queued
       ELSE /\ Put([kind |-> Successor(Kind(w)), attempts |-> 0,
                    upload |-> IF Kind(w) = "classify" THEN held[w].upload ELSE 0])
            /\ Goto(w, IF Kind(w) \in DOMAIN Handed THEN "mark" ELSE "ack")
  /\ UNCHANGED <<document, staged, producer, held, seen, read, stale, history, counts>>

Mark(w) ==
  /\ pc[w] = "mark" /\ status # "gone"
  /\ status' = Written(seen[w], Handed[Kind(w)])
  /\ seen' = [seen EXCEPT ![w] = Handed[Kind(w)]]
  /\ Goto(w, IF Kind(w) = "extract" THEN "clean" ELSE "ack")
  /\ UNCHANGED <<content, chunks, staged, queued, producer, held, read, stale, history, counts>>

Clean(w) ==
  /\ pc[w] = "clean"
  /\ staged' = staged \ {held[w].upload}
  /\ Goto(w, "ack")
  /\ UNCHANGED <<document, queued, producer, held, seen, read, stale, history, counts>>

Leave(w) ==
  /\ held' = [held EXCEPT ![w] = None]
  /\ seen' = [seen EXCEPT ![w] = "absent"]
  /\ read' = [read EXCEPT ![w] = 0]
  /\ stale' = stale \ {w}
  /\ Goto(w, "idle")

Acknowledge(w) ==
  /\ pc[w] = "ack"
  /\ Leave(w)
  /\ UNCHANGED <<document, staged, queued, producer, history, counts>>

GiveUp(w) == abandoned' = abandoned \cup {held[w].upload}

Reject(w) ==
  /\ pc[w] = "reject"
  /\ IF Exhausted(w)
       THEN GiveUp(w) /\ UNCHANGED queued
       ELSE Put(held[w]) /\ UNCHANGED abandoned
  /\ Leave(w)
  /\ UNCHANGED <<document, staged, producer, extracted, counts>>

------------------------------------------------------------------------------
(***************************************************************************)
(* What each handler does in between.                                      *)
(***************************************************************************)

\* Slip: the file is removed by the first handler that has read it.
ClassifyCleans(w) ==
  /\ At(w, "classify") /\ held[w].upload \in staged
  /\ staged' = staged \ {held[w].upload}
  /\ Goto(w, "enqueue")
  /\ UNCHANGED <<document, queued, producer, held, seen, read, stale, history, counts>>

Classify(w) ==
  /\ At(w, "classify") /\ held[w].upload \in staged
  /\ Goto(w, "enqueue")
  /\ UNCHANGED <<document, staged, queued, producer, held, seen, read, stale, history, counts>>

Extract(w) ==
  /\ At(w, "extract") /\ held[w].upload \in staged /\ status # "gone"
  /\ content' = held[w].upload
  /\ extracted' = extracted \cup {held[w].upload}
  /\ Goto(w, "enqueue")
  /\ UNCHANGED <<status, chunks, staged, queued, producer, held, seen, read, stale, abandoned, counts>>

\* FileStagingError: at whatever attempt, and whatever the document has become.
FileMissing(w) ==
  /\ At(w, "classify") \/ At(w, "extract")
  /\ held[w].upload \notin staged
  /\ status' = IF status = "gone" THEN status ELSE Written(seen[w], "error")
  /\ Goto(w, "reject")
  /\ UNCHANGED <<content, chunks, staged, queued, producer, held, seen, read, stale, history, counts>>

\* The chunks replace the old ones in the commit of CONTENT_PROCESSED.
Embed(w) ==
  /\ At(w, "embed") /\ status # "gone"
  /\ chunks' = read[w]
  /\ status' = "content_processed"
  /\ seen' = [seen EXCEPT ![w] = "content_processed"]
  /\ Goto(w, IF Profiling THEN "enqueue" ELSE "ack")
  /\ UNCHANGED <<content, staged, queued, producer, held, read, stale, history, counts>>

Profile(w) ==
  /\ At(w, "profile") /\ status # "gone"
  /\ Goto(w, "enqueue")
  /\ UNCHANGED <<document, staged, queued, producer, held, seen, read, stale, history, counts>>

EmbedArtifacts(w) ==
  /\ At(w, "artifacts") /\ status # "gone"
  /\ status' = "profile_processed"
  /\ Goto(w, "ack")
  /\ UNCHANGED <<content, chunks, staged, queued, producer, held, seen, read, stale, history, counts>>

\* Slip: an error that no attempt marks.
NeverMarked(w) == status

\* The last attempt marks the document, except where profiling enqueues the next
\* job, which stands outside of what _handle_profiling_job catches.
Marked(w) ==
  IF ~Exhausted(w) \/ status = "gone" \/ (Kind(w) = "profile" /\ pc[w] = "enqueue")
    THEN status
    ELSE Written(seen[w], IF Kind(w) = "artifacts" THEN "rag_processed" ELSE "error")

HandlerFails(w) ==
  /\ pc[w] # "idle" /\ Fault(Kind(w), pc[w])
  /\ status' = Marked(w)
  /\ Goto(w, IF Kind(w) = "artifacts" /\ Exhausted(w) /\ status # "gone" THEN "ack" ELSE "reject")
  /\ UNCHANGED <<content, chunks, staged, queued, producer, held, seen, read, stale, history,
                 uploads, lapses, crashes, drops>>

\* A billing gate closes before the handler, or in the service it calls: the job
\* is acknowledged.  (Profiling does not let the error through.)
Gated == {"extract", "embed", "artifacts"}

GateDrops(w) ==
  /\ pc[w] \in {"begin", "work"} /\ Kind(w) \in Gated
  /\ drops < MaxDrops /\ drops' = drops + 1
  /\ status' = IF pc[w] = "begin" THEN status ELSE Marked(w)
  /\ GiveUp(w)
  /\ Goto(w, "ack")
  /\ UNCHANGED <<content, chunks, staged, queued, producer, held, seen, read, stale, extracted,
                 uploads, lapses, crashes, faults>>

------------------------------------------------------------------------------
(***************************************************************************)
(* The queue delivers again.                                               *)
(***************************************************************************)
Lapse(w) ==
  /\ pc[w] # "idle" /\ w \notin stale
  /\ lapses < MaxLapses /\ lapses' = lapses + 1
  /\ Put(held[w])
  /\ stale' = stale \cup {w}
  /\ UNCHANGED <<document, staged, producer, local, history, uploads, crashes, faults, drops>>

Crash(w) ==
  /\ pc[w] # "idle"
  /\ crashes < MaxCrashes /\ crashes' = crashes + 1
  /\ IF w \in stale THEN UNCHANGED queued ELSE Put(held[w])
  /\ Leave(w)
  /\ UNCHANGED <<document, staged, producer, history, uploads, lapses, faults, drops>>

Ingest ==
  \/ \E e \in Entry \ {"embed", "email"} : IngestDocument(e)
  \/ "embed" \in Entry /\ IngestText
  \/ "email" \in Entry /\ IngestEmail

Produce ==
  StageFile \/ EnqueueFirst \/ MarkEmbedding \/ EmbedEmail \/ EmailOfDeleted \/ TriggerProfiling \/ IngestFails

Handle(w) ==
  \/ Begin(w) \/ WriteRaises(w) \/ Enqueue(w) \/ Mark(w) \/ Clean(w)
  \/ Classify(w) \/ Extract(w) \/ FileMissing(w)
  \/ Embed(w) \/ Profile(w) \/ EmbedArtifacts(w)
  \/ HandlerFails(w) \/ GateDrops(w)
  \/ Acknowledge(w) \/ Reject(w)

Next ==
  \/ Ingest \/ Produce \/ DeleteDocument
  \/ \E w \in Workers : Take(w) \/ Handle(w) \/ Lapse(w) \/ Crash(w)

Spec == Init /\ [][Next]_vars

\* Workers poll, handlers and calls of the ingestion service come back.
FairSpec == Spec /\ WF_vars(Produce) /\ \A w \in Workers : WF_vars(Take(w)) /\ WF_vars(Handle(w))

------------------------------------------------------------------------------
Steps == {"idle", "begin", "work", "enqueue", "mark", "clean", "ack", "reject"}

TypeOK ==
  /\ status \in Status \cup {"absent", "gone"}
  /\ content \in 0..MaxUploads /\ chunks \in 0..MaxUploads
  /\ staged \subseteq Upload
  /\ IsABag(queued) /\ BagToSet(queued) \subseteq Job
  /\ producer \in Calls \cup {None}
  /\ held \in [Workers -> Job \cup {None}]
  /\ pc \in [Workers -> Steps]
  /\ \A w \in Workers : held[w] = None <=> pc[w] = "idle"
  /\ seen \in [Workers -> Status \cup {"absent"}]
  /\ read \in [Workers -> 0..MaxUploads]
  /\ stale \subseteq Workers
  /\ extracted \subseteq Upload /\ abandoned \subseteq 0..MaxUploads
  /\ {uploads, lapses, crashes, faults, drops} \subseteq Nat

\* Somebody has yet to write the status: a call, a waiting job, or a handler that
\* is not past its last commit.
Underway(w) == pc[w] \in {"begin", "work", "enqueue", "mark"}
                 \/ (pc[w] = "reject" /\ ~Exhausted(w))
InFlight == producer # None \/ queued # EmptyBag \/ \E w \in Workers : Underway(w)

(***************************************************************************)
(* With several workers this is left of it, unless a process dies or a     *)
(* gate drops a job: the statuses that a handler commits before its work,  *)
(* not after it enqueued the next job, never outlive the work.             *)
(***************************************************************************)
StartedNotStuck ==
  crashes + drops = 0 /\ status \in {"pending", "extracting", "artifact_embedding"} => InFlight

(***************************************************************************)
(* retrieve_to_path leaves the file "in place on failure for retry         *)
(* safety": a job that still has to extract an upload finds its file,      *)
(* through duplicates, retries and deaths.                                 *)
(***************************************************************************)
Reads(job) == job.kind \in {"classify", "extract"} /\ job.upload \notin extracted

FileKept ==
  status # "gone" =>
    /\ \A job \in BagToSet(queued) : Reads(job) => job.upload \in staged
    /\ \A w \in Workers : pc[w] \in {"begin", "work"} /\ Reads(held[w]) => held[w].upload \in staged

(***************************************************************************)
(* When nothing is left to do, a staged file remains only of an upload     *)
(* that was given up.                                                      *)
(***************************************************************************)
Quiet == producer = None /\ queued = EmptyBag /\ \A w \in Workers : pc[w] = "idle"

FilesReclaimed == Quiet /\ status # "gone" => staged \subseteq abandoned

(***************************************************************************)
(* A staged file is there as long as it is needed, and no longer.          *)
(***************************************************************************)
FilesFollowJobs == FileKept /\ FilesReclaimed

(***************************************************************************)
(* A document in progress eventually is processed, failed or deleted.      *)
(***************************************************************************)
EverySettled == status \in InProgress ~> status \notin InProgress

------------------------------------------------------------------------------
(***************************************************************************)
(* What a comment says and the code does not do.                           *)
(***************************************************************************)

(***************************************************************************)
(* "Commit PROFILING status only after enqueue succeeds to avoid a window  *)
(* where the document is PROFILING with no job in the queue".              *)
(***************************************************************************)
ProfilingHasJob == status = "profiling" => InFlight

==============================================================================
