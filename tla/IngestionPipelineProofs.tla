---------------------- MODULE IngestionPipelineProofs ----------------------
(***************************************************************************)
(* Safety of the document pipeline for any number of workers, uploads,     *)
(* attempts, lapses, deaths and failures, whichever step fails.            *)
(***************************************************************************)
EXTENDS IngestionPipeline, TLAPS

LEMMA BagPut ==
  ASSUME NEW B, IsABag(B), NEW x
  PROVE  /\ IsABag(B (+) SetToBag({x}))
         /\ BagToSet(B (+) SetToBag({x})) = BagToSet(B) \cup {x}
BY DEF IsABag, BagToSet, SetToBag, (+)

LEMMA BagTake ==
  ASSUME NEW B, IsABag(B), NEW x \in BagToSet(B)
  PROVE  /\ IsABag(B (-) SetToBag({x}))
         /\ BagToSet(B (-) SetToBag({x})) \subseteq BagToSet(B)
         /\ BagToSet(B) \subseteq BagToSet(B (-) SetToBag({x})) \cup {x}
BY DEF IsABag, BagToSet, SetToBag, (-)

LEMMA BagEmpty == IsABag(EmptyBag) /\ BagToSet(EmptyBag) = {}
BY DEF IsABag, BagToSet, SetToBag, EmptyBag

------------------------------------------------------------------------------
(***************************************************************************)
(* The parts of the type invariant that steps disturb apart from each      *)
(* other, and what the control points mean.  Only extraction reaches       *)
(* "clean", and it has stored the content by then; a worker between jobs   *)
(* has no lease to lapse.                                                  *)
(***************************************************************************)
Document == /\ status \in Status \cup {"absent", "gone"}
            /\ content \in 0..MaxUploads /\ chunks \in 0..MaxUploads
Files    == staged \subseteq Upload /\ extracted \subseteq Upload /\ abandoned \subseteq 0..MaxUploads
Queue    == IsABag(queued) /\ BagToSet(queued) \subseteq Job
Producer == producer \in Calls \cup {None}
Hands    == /\ held \in [Workers -> Job \cup {None}]
            /\ pc \in [Workers -> Steps]
            /\ \A w \in Workers : held[w] = None <=> pc[w] = "idle"
            /\ stale \subseteq Workers
Sessions == /\ seen \in [Workers -> Status \cup {"absent"}]
            /\ read \in [Workers -> 0..MaxUploads]
Counts   == /\ lapses \in Nat /\ crashes \in Nat /\ faults \in Nat /\ drops \in Nat
            /\ uploads \in 0..MaxUploads

ReadKinds == {"classify", "extract"}
Placing   == producer # None /\ producer.step = "enqueue" /\ producer.entry \in ReadKinds

ProducerControl == producer # None =>
  /\ producer.upload = uploads
  /\ producer.step \in {"stage", "enqueue"} => producer.entry # "email"
  /\ producer.step = "stage" => producer.entry \in ReadKinds

HandlerControl == \A w \in Workers :
  /\ pc[w] = "enqueue" => Kind(w) # "artifacts"
  /\ pc[w] = "mark" => Kind(w) \in DOMAIN Handed
  /\ pc[w] = "clean" => Kind(w) = "extract"
  /\ pc[w] \in {"enqueue", "mark", "clean"} /\ Kind(w) = "extract" => held[w].upload \in extracted
  /\ pc[w] = "idle" => w \notin stale
  /\ pc[w] \in {"idle", "begin"} => seen[w] = "absent"

TypeInv == TypeOK /\ uploads <= MaxUploads /\ ProducerControl /\ HandlerControl

LEMMA TypeParts ==
  TypeOK /\ uploads <= MaxUploads <=> Document /\ Files /\ Queue /\ Producer /\ Hands /\ Sessions /\ Counts
BY PipelineAssumption DEF TypeOK, Document, Files, Queue, Producer, Hands, Sessions, Counts

LEMMA TypePartsNext ==
  (TypeOK /\ uploads <= MaxUploads)'
    <=> Document' /\ Files' /\ Queue' /\ Producer' /\ Hands' /\ Sessions' /\ Counts'
BY PipelineAssumption DEF TypeOK, Document, Files, Queue, Producer, Hands, Sessions, Counts

Typed == Document /\ Files /\ Queue /\ Producer /\ Hands /\ Sessions /\ Counts
           /\ ProducerControl /\ HandlerControl

LEMMA PutType ==
  ASSUME Queue, NEW job \in Job, Put(job)
  PROVE  Queue' /\ BagToSet(queued') = BagToSet(queued) \cup {job}
<1>1. IsABag(queued)
  BY DEF Queue
<1>2. queued' = queued (+) SetToBag({job})
  BY DEF Put
<1>3. IsABag(queued') /\ BagToSet(queued') = BagToSet(queued) \cup {job}
  BY <1>1, <1>2, BagPut
<1> QED BY <1>3 DEF Queue

\* What Take takes.
LEMMA TakeType ==
  ASSUME Queue, Hands, NEW w \in Workers, Take(w)
  PROVE  \E job \in BagToSet(queued) :
           /\ job \in Job
           /\ Queue' /\ BagToSet(queued) \subseteq BagToSet(queued') \cup {job}
           /\ BagToSet(queued') \subseteq BagToSet(queued)
           /\ held' = [held EXCEPT ![w] = [job EXCEPT !.attempts = @ + 1]]
           /\ held'[w] \in Job /\ held'[w] # None
           /\ held'[w].kind = job.kind /\ held'[w].upload = job.upload
<1>1. PICK job \in BagToSet(queued) :
        /\ queued' = queued (-) SetToBag({job})
        /\ held' = [held EXCEPT ![w] = [job EXCEPT !.attempts = @ + 1]]
  BY DEF Take
<1>2. job \in Job
  BY DEF Queue
<1>3. IsABag(queued)
  BY DEF Queue
<1>4. Queue' /\ BagToSet(queued) \subseteq BagToSet(queued') \cup {job}
      /\ BagToSet(queued') \subseteq BagToSet(queued)
  BY <1>1, <1>3, BagTake DEF Queue
<1>5. held'[w] = [job EXCEPT !.attempts = @ + 1]
  BY <1>1 DEF Hands
<1>6. held'[w] \in Job /\ held'[w].kind = job.kind /\ held'[w].upload = job.upload
  BY <1>2, <1>5 DEF Job
<1> QED BY <1>1, <1>2, <1>4, <1>6, PipelineAssumption

LEMMA TypeInit == Init => Typed
<1> SUFFICES ASSUME Init PROVE Typed
  OBVIOUS
<1> USE PipelineAssumption DEF Init
<1>1. Document /\ Files /\ Producer /\ Hands /\ Sessions
  BY DEF Document, Files, Producer, Hands, Sessions, Steps
<1>2. Queue
  BY BagEmpty DEF Queue
<1>3. Counts /\ ProducerControl /\ HandlerControl
  BY DEF Counts, ProducerControl, HandlerControl
<1> QED BY <1>1, <1>2, <1>3 DEF Typed

LEMMA ProduceType ==
  ASSUME Typed, Ingest \/ Produce \/ DeleteDocument PROVE Typed'
<1> USE DEF Typed
<1>h. ASSUME UNCHANGED <<local, stale, extracted>> \/ (UNCHANGED <<local, stale>> /\ extracted \subseteq extracted')
      PROVE  Hands' /\ Sessions' /\ HandlerControl'
  BY <1>h DEF local, Hands, Sessions, HandlerControl, Kind
<1>1. ASSUME NEW e \in Entry \ {"embed", "email"}, IngestDocument(e) PROVE Typed'
  <2>1. Document' /\ Files' /\ Queue' /\ Counts'
    BY <1>1, PipelineAssumption DEF IngestDocument, history, Document, Status, InProgress, Files, Queue, Counts
  <2>4. uploads' = uploads + 1 /\ uploads' \in Upload
    BY <1>1, PipelineAssumption DEF IngestDocument, Counts, Upload
  <2>2. producer' = [upload |-> uploads', entry |-> e, step |-> "stage", seen |-> "pending"]
    BY <1>1 DEF IngestDocument, Call
  <2>3. Producer' /\ ProducerControl'
    BY <2>4, <2>2, PipelineAssumption DEF Producer, Calls, ProducerControl, ReadKinds, Status, InProgress
  <2> QED BY <1>1, <1>h, <2>1, <2>3 DEF IngestDocument, history
<1>2. ASSUME NEW e \in Entry, NEW step \in {"enqueue", "embed"}, WriteText(e, step),
             e = "embed" \/ step = "embed"
      PROVE  Typed'
  <2>1. uploads' = uploads + 1 /\ uploads' \in Upload /\ status' \in Status
    BY <1>2, PipelineAssumption DEF WriteText, Counts, Upload, Document, Status, InProgress
  <2>2. Document' /\ Files' /\ Queue' /\ Counts'
    BY <1>2, <2>1, PipelineAssumption DEF WriteText, Document, Files, Queue, Counts, Upload
  <2>3. producer' = [upload |-> uploads', entry |-> e, step |-> step, seen |-> status']
    BY <1>2 DEF WriteText, Call
  <2>4. Producer' /\ ProducerControl'
    BY <1>2, <2>1, <2>3, PipelineAssumption DEF Producer, Calls, ProducerControl
  <2> QED BY <1>2, <1>h, <2>2, <2>4 DEF WriteText
<1>3. CASE StageFile
  <2>1. Files' /\ Producer' /\ ProducerControl'
    BY <1>3, PipelineAssumption DEF StageFile, history, counts, Files, Producer, Calls, ProducerControl, ReadKinds
  <2> QED BY <1>3, <1>h, <2>1 DEF StageFile, document, history, counts, Document, Queue, Counts
<1>4. CASE EnqueueFirst
  <2>1. producer \in Calls
    BY <1>4 DEF EnqueueFirst, Producer
  <2>2. Queue'
    <3>1. EmbedJob \in Job
      BY PipelineAssumption DEF EmbedJob, Job, Kinds
    <3>2. producer.entry # "embed" => [kind |-> producer.entry, upload |-> producer.upload, attempts |-> 0] \in Job
      BY <1>4, <2>1, PipelineAssumption DEF EnqueueFirst, Calls, Job, Kinds, Upload, ProducerControl
    <3> QED BY <1>4, <3>1, <3>2, PutType DEF EnqueueFirst
  <2>3. Producer' /\ ProducerControl'
    BY <1>4, <2>1 DEF EnqueueFirst, counts, Producer, Calls, ProducerControl
  <2> QED BY <1>4, <1>h, <2>2, <2>3 DEF EnqueueFirst, document, history, counts, Document, Files, Counts
<1>5. CASE MarkEmbedding
  BY <1>5, <1>h DEF MarkEmbedding, Written, history, counts, Document, Status, InProgress, Files, Queue, Producer, ProducerControl, Counts
<1>6. CASE EmbedEmail
  <2>1. Document'
    BY <1>6, PipelineAssumption DEF EmbedEmail, Written, Document, Producer, Calls, Upload, Status, Searchable
  <2>2. Producer' /\ ProducerControl'
    BY <1>6 DEF EmbedEmail, counts, Producer, Calls, ProducerControl
  <2> QED BY <1>6, <1>h, <2>1, <2>2 DEF EmbedEmail, history, counts, Files, Queue, Counts
<1>7. CASE EmailOfDeleted
  BY <1>7, <1>h DEF EmailOfDeleted, document, history, counts, Document, Files, Queue, Producer, ProducerControl, Counts
<1>8. CASE TriggerProfiling
  <2>1. Queue'
    <3>1. [kind |-> "profile", upload |-> 0, attempts |-> 0] \in Job
      BY PipelineAssumption DEF Job, Kinds
    <3> QED BY <1>8, <3>1, PutType DEF TriggerProfiling, Queue
  <2>2. faults' \in Nat
    BY <1>8 DEF TriggerProfiling, Fault, Counts
  <2> QED BY <1>8, <1>h, <2>1, <2>2 DEF TriggerProfiling, document, history, Document, Files, Producer, ProducerControl, Counts
<1>9. CASE IngestFails
  <2>1. faults' \in Nat
    BY <1>9 DEF IngestFails, Fault, Counts
  <2>2. producer.upload \in 0..MaxUploads
    BY <1>9 DEF IngestFails, Producer, Calls, Upload
  <2> QED BY <1>9, <1>h, <2>1, <2>2 DEF IngestFails, Written, Document, Status, Files, Queue, Producer, ProducerControl, Counts
<1>10. CASE DeleteDocument
  BY <1>10, <1>h, PipelineAssumption DEF DeleteDocument, history, counts, Document, Files, Queue, Producer, ProducerControl, Counts
<1> QED
  BY <1>1, <1>2, <1>3, <1>4, <1>5, <1>6, <1>7, <1>8, <1>9, <1>10 DEF Ingest, IngestText, IngestEmail, Produce

LEMMA HeldJob ==
  ASSUME Hands, NEW w \in Workers, pc[w] # "idle"
  PROVE  held[w] \in Job /\ held[w] # None /\ Kind(w) \in Kinds /\ held[w].upload \in 0..MaxUploads
BY PipelineAssumption DEF Hands, Job, Kind

\* A handler that goes on to its next step, and keeps its job.
Proceeds(w) ==
  /\ UNCHANGED <<queued, producer, held, stale, uploads>>
  /\ \E step \in Steps \ {"idle", "begin"} : pc' = [pc EXCEPT ![w] = step]

\* All that handlers do but enqueue, and answer.
Step(w) ==
  \/ Begin(w) \/ WriteRaises(w) \/ Mark(w) \/ Clean(w)
  \/ Classify(w) \/ Extract(w) \/ FileMissing(w)
  \/ Embed(w) \/ Profile(w) \/ EmbedArtifacts(w)
  \/ HandlerFails(w) \/ GateDrops(w)

LEMMA StepProceeds ==
  ASSUME Hands, NEW w \in Workers, Step(w)
  PROVE  Proceeds(w) /\ pc[w] # "idle" /\ extracted \subseteq extracted' /\ abandoned \subseteq abandoned'
BY DEF Step, Begin, WriteRaises, Mark, Clean, Classify, Extract, FileMissing, Embed, Profile,
       EmbedArtifacts, HandlerFails, GateDrops, Proceeds, Goto, Hands, Steps, At, document, history, counts, GiveUp

LEMMA StepType ==
  ASSUME Typed, NEW w \in Workers, Step(w)
  PROVE  Typed'
<1> USE DEF Typed
<1>p. PICK step \in Steps \ {"idle", "begin"} : pc' = [pc EXCEPT ![w] = step]
  BY StepProceeds DEF Proceeds
<1>q. /\ UNCHANGED <<queued, producer, held, stale, uploads>> /\ pc[w] # "idle"
      /\ extracted \subseteq extracted' /\ step = pc'[w]
  BY <1>p, StepProceeds DEF Proceeds, Hands
<1>h. Hands' /\ Queue' /\ Producer' /\ ProducerControl'
  BY <1>p, <1>q DEF Hands, Queue, Producer, ProducerControl
<1>j. held[w] \in Job /\ Kind(w) \in Kinds /\ held[w].upload \in 0..MaxUploads
  BY <1>q, HeldJob
<1>c. ASSUME /\ pc'[w] = "enqueue" => Kind(w) # "artifacts"
             /\ pc'[w] = "mark" => Kind(w) \in DOMAIN Handed
             /\ pc'[w] = "clean" => Kind(w) = "extract"
             /\ pc'[w] \in {"enqueue", "mark", "clean"} /\ Kind(w) = "extract" => held[w].upload \in extracted',
             \A v \in Workers \ {w} : seen'[v] = seen[v]
      PROVE  HandlerControl'
  BY <1>c, <1>p, <1>q DEF HandlerControl, Kind, Hands
<1> DEFINE Rest == Document /\ Files /\ Sessions /\ Counts /\ HandlerControl
<1> SUFFICES Rest'
  BY <1>h
<1>1. CASE Begin(w)
  <2>1. Files' /\ Counts'
    BY <1>1 DEF Begin, history, counts, Files, Counts
  <2>2. Document'
    BY <1>1 DEF Begin, Document, Started, Status, InProgress
  <2>3. Sessions'
    <3>1. CASE status = "gone"
      BY <1>1, <3>1 DEF Begin, Sessions
    <3>2. CASE status # "gone"
      <4>1. status' \in Status \cup {"absent"}
        BY <1>1, <3>2 DEF Begin, Document, Started, Status, InProgress
      <4>2. seen' = [seen EXCEPT ![w] = status'] /\ read' = [read EXCEPT ![w] = content]
        BY <1>1, <3>2 DEF Begin
      <4> QED BY <4>1, <4>2 DEF Sessions, Document
    <3> QED BY <3>1, <3>2
  <2>4. HandlerControl'
    <3>1. pc'[w] \in {"work", "ack"}
      BY <1>1, <1>q DEF Begin, Goto, Hands
    <3>2. \A v \in Workers \ {w} : seen'[v] = seen[v]
      BY <1>1 DEF Begin, Sessions
    <3> QED BY <1>c, <3>1, <3>2
  <2> QED BY <2>1, <2>2, <2>3, <2>4
<1>2. CASE WriteRaises(w)
  <2>1. HandlerControl'
    BY <1>2, <1>c, <1>q DEF WriteRaises, Goto, Hands
  <2> QED BY <1>2, <2>1 DEF WriteRaises, document, history, counts, Document, Files, Sessions, Counts
<1>3. CASE Mark(w)
  <2>1. HandlerControl'
    BY <1>3, <1>c, <1>q DEF Mark, Goto, Hands, HandlerControl, Sessions
  <2>2. Handed[Kind(w)] \in Status
    BY <1>3 DEF Mark, HandlerControl, Handed, Status, Searchable, InProgress
  <2> QED BY <1>3, <2>1, <2>2 DEF Mark, Written, history, counts, Document, Files, Sessions, Counts
<1>4. CASE Clean(w)
  <2>1. HandlerControl'
    BY <1>4, <1>c, <1>q DEF Clean, Goto, Hands
  <2> QED BY <1>4, <2>1 DEF Clean, document, history, counts, Document, Files, Sessions, Counts
<1>5. CASE Classify(w)
  <2>1. HandlerControl'
    BY <1>5, <1>c, <1>q DEF Classify, At, Goto, Hands
  <2> QED BY <1>5, <2>1 DEF Classify, document, history, counts, Document, Files, Sessions, Counts
<1>6. CASE Extract(w)
  <2>1. HandlerControl'
    BY <1>6, <1>c, <1>q DEF Extract, At, Goto, Hands
  <2> QED BY <1>6, <1>j, <2>1 DEF Extract, counts, Document, Files, Sessions, Counts, Upload
<1>7. CASE FileMissing(w)
  <2>1. HandlerControl'
    BY <1>7, <1>c, <1>q DEF FileMissing, Goto, Hands
  <2> QED BY <1>7, <2>1 DEF FileMissing, Written, history, counts, Document, Status, Files, Sessions, Counts
<1>8. CASE Embed(w)
  <2>1. HandlerControl'
    BY <1>8, <1>c, <1>q DEF Embed, At, Goto, Hands, Sessions
  <2> QED BY <1>8, <2>1 DEF Embed, history, counts, Document, Status, Searchable, Files, Sessions, Counts
<1>9. CASE Profile(w)
  <2>1. HandlerControl'
    BY <1>9, <1>c, <1>q DEF Profile, At, Goto, Hands
  <2> QED BY <1>9, <2>1 DEF Profile, document, history, counts, Document, Files, Sessions, Counts
<1>10. CASE EmbedArtifacts(w)
  <2>1. HandlerControl'
    BY <1>10, <1>c, <1>q DEF EmbedArtifacts, At, Goto, Hands
  <2> QED BY <1>10, <2>1 DEF EmbedArtifacts, history, counts, Document, Status, Searchable, Files, Sessions, Counts
<1>11. CASE HandlerFails(w)
  <2>1. HandlerControl'
    BY <1>11, <1>c, <1>q DEF HandlerFails, Goto, Hands
  <2>2. Document'
    BY <1>11 DEF HandlerFails, Marked, Written, Document, Status, Searchable
  <2>3. Counts'
    BY <1>11 DEF HandlerFails, Fault, Counts
  <2> QED BY <1>11, <2>1, <2>2, <2>3 DEF HandlerFails, history, Files, Sessions
<1>12. CASE GateDrops(w)
  <2>1. HandlerControl'
    BY <1>12, <1>c, <1>q DEF GateDrops, Goto, Hands
  <2>2. Document'
    BY <1>12 DEF GateDrops, Marked, Written, Document, Status, Searchable
  <2>3. Counts'
    BY <1>12 DEF GateDrops, Counts
  <2> QED BY <1>12, <1>j, <2>1, <2>2, <2>3 DEF GateDrops, GiveUp, Files, Sessions
<1> QED
  BY <1>1, <1>2, <1>3, <1>4, <1>5, <1>6, <1>7, <1>8, <1>9, <1>10, <1>11, <1>12 DEF Step

LEMMA LeaveType ==
  ASSUME Hands, Sessions, HandlerControl, NEW w \in Workers, Leave(w), extracted' = extracted
  PROVE  /\ Hands' /\ Sessions' /\ HandlerControl'
         /\ pc'[w] = "idle" /\ w \notin stale' /\ stale' \subseteq stale
         /\ \A v \in Workers \ {w} : /\ pc'[v] = pc[v] /\ held'[v] = held[v] /\ seen'[v] = seen[v]
                                      /\ v \in stale <=> v \in stale'
<1>1. pc'[w] = "idle" /\ w \notin stale' /\ seen'[w] = "absent"
  BY DEF Leave, Goto, Hands, Sessions
<1>h. Hands'
  BY DEF Leave, Goto, Hands, Steps
<1>s. Sessions'
  BY PipelineAssumption DEF Leave, Sessions
<1>2. \A v \in Workers \ {w} : /\ pc'[v] = pc[v] /\ held'[v] = held[v] /\ seen'[v] = seen[v]
                               /\ v \in stale <=> v \in stale'
  BY DEF Leave, Goto, Hands, Sessions
<1>3. HandlerControl'
  BY <1>1, <1>2 DEF HandlerControl, Kind
<1> QED BY <1>1, <1>2, <1>3, <1>h, <1>s DEF Leave

LEMMA QueueType ==
  ASSUME Typed, NEW w \in Workers, Take(w) \/ Enqueue(w) \/ Acknowledge(w) \/ Reject(w) \/ Lapse(w) \/ Crash(w)
  PROVE  Typed'
<1> USE DEF Typed
<1>1. CASE Take(w)
  <2>1. Queue' /\ held' \in [Workers -> Job \cup {None}] /\ held'[w] \in Job /\ held'[w] # None
        /\ \A v \in Workers \ {w} : held'[v] = held[v]
    BY <1>1, TakeType DEF Hands
  <2>2. pc' = [pc EXCEPT ![w] = "begin"] /\ pc[w] = "idle" /\ stale' = stale
    BY <1>1 DEF Take, Goto
  <2>3. Hands'
    BY <2>1, <2>2 DEF Hands, Steps
  <2>4. HandlerControl'
    BY <1>1, <2>1, <2>2 DEF Take, HandlerControl, Kind, Hands, history
  <2> QED BY <1>1, <2>1, <2>3, <2>4 DEF Take, document, history, counts, Document, Files, Producer,
             ProducerControl, Sessions, Counts
<1>2. CASE Enqueue(w)
  <2>1. pc[w] = "enqueue" /\ held[w] \in Job /\ Kind(w) \in Kinds \ {"artifacts"} /\ held[w].upload \in 0..MaxUploads
    BY <1>2, HeldJob DEF Enqueue, HandlerControl
  <2>2. Queue'
    <3>1. [kind |-> Successor(Kind(w)), attempts |-> 0,
           upload |-> IF Kind(w) = "classify" THEN held[w].upload ELSE 0] \in Job
      BY <2>1, PipelineAssumption DEF Successor, Kinds, Job
    <3> QED BY <1>2, <3>1, PutType DEF Enqueue, Queue
  <2>3. PICK step \in {"mark", "ack"} : pc' = [pc EXCEPT ![w] = step] /\ (step = "mark" => Kind(w) \in DOMAIN Handed)
    BY <1>2 DEF Enqueue, Goto
  <2>4. Hands' /\ HandlerControl'
    BY <1>2, <2>1, <2>3 DEF Enqueue, Hands, HandlerControl, Kind, Steps, history
  <2> QED BY <1>2, <2>2, <2>4 DEF Enqueue, document, history, counts, Document, Files, Producer,
             ProducerControl, Sessions, Counts
<1>3. CASE Acknowledge(w)
  <2>1. Hands' /\ Sessions' /\ HandlerControl'
    BY <1>3, LeaveType DEF Acknowledge, history
  <2> QED BY <1>3, <2>1 DEF Acknowledge, document, history, counts, Document, Files, Queue, Producer,
             ProducerControl, Counts
<1>4. CASE Reject(w)
  <2>1. Hands' /\ Sessions' /\ HandlerControl'
    BY <1>4, LeaveType DEF Reject
  <2>2. held[w] \in Job /\ held[w].upload \in 0..MaxUploads
    BY <1>4, HeldJob DEF Reject
  <2>3. Queue'
    BY <1>4, <2>2, PutType DEF Reject, Queue
  <2> QED BY <1>4, <2>1, <2>2, <2>3 DEF Reject, GiveUp, document, counts, Document, Files, Producer,
             ProducerControl, Counts
<1>5. CASE Lapse(w)
  <2>1. held[w] \in Job
    BY <1>5, HeldJob DEF Lapse
  <2>2. Queue'
    BY <1>5, <2>1, PutType DEF Lapse
  <2>3. Hands' /\ Sessions' /\ HandlerControl'
    BY <1>5 DEF Lapse, local, history, Hands, Sessions, HandlerControl, Kind
  <2>4. Counts'
    BY <1>5 DEF Lapse, Counts
  <2> QED BY <1>5, <2>2, <2>3, <2>4 DEF Lapse, document, history, Document, Files, Producer, ProducerControl
<1>6. CASE Crash(w)
  <2>1. Hands' /\ Sessions' /\ HandlerControl'
    BY <1>6, LeaveType DEF Crash, history
  <2>2. held[w] \in Job
    BY <1>6, HeldJob DEF Crash
  <2>3. Queue'
    BY <1>6, <2>2, PutType DEF Crash, Queue
  <2>4. Counts'
    BY <1>6 DEF Crash, Counts
  <2> QED BY <1>6, <2>1, <2>3, <2>4 DEF Crash, document, history, Document, Files, Producer, ProducerControl
<1> QED BY <1>1, <1>2, <1>3, <1>4, <1>5, <1>6

LEMMA TypeStep == Typed /\ [Next]_vars => Typed'
<1>1. ASSUME Typed, NEW w \in Workers, Handle(w) PROVE Typed'
  BY <1>1, StepType, QueueType DEF Handle, Step
<1>2. ASSUME Typed, UNCHANGED vars PROVE Typed'
  BY <1>2 DEF vars, document, local, counts, history, Typed, Document, Files, Queue, Producer, Hands,
       Sessions, Counts, ProducerControl, HandlerControl, Kind
<1> QED BY <1>1, <1>2, ProduceType, QueueType DEF Next

------------------------------------------------------------------------------
(***************************************************************************)
(* A job that reads a file is of an upload whose call has returned: while  *)
(* a call is under way its own upload has none.  So the call may remove    *)
(* its file when it fails, and nobody misses it.                           *)
(***************************************************************************)
Waiting(u) == \E job \in BagToSet(queued) : job.kind \in ReadKinds /\ job.upload = u
InHand(u)  == \E w \in Workers : pc[w] # "idle" /\ Kind(w) \in ReadKinds /\ held[w].upload = u
Reading(u) == Waiting(u) \/ InHand(u)

Late == \A u \in 0..MaxUploads : Reading(u) => u <= uploads /\ (producer # None => u < uploads)

LEMMA ProduceReading ==
  ASSUME Typed, Ingest \/ Produce \/ DeleteDocument
  PROVE  /\ UNCHANGED <<held, pc, stale>>
         /\ \/ ~EnqueueFirst /\ \A u \in 0..MaxUploads : Reading(u) <=> Reading(u)'
            \/ /\ EnqueueFirst /\ (producer' = None \/ ~Placing)
               /\ \A u \in 0..MaxUploads : Reading(u)' <=> Reading(u) \/ (Placing /\ u = producer.upload)
<1> USE DEF Typed
<1>1. UNCHANGED <<held, pc, stale>>
  BY DEF Ingest, IngestDocument, IngestText, IngestEmail, WriteText, Produce, StageFile, EnqueueFirst,
         MarkEmbedding, EmbedEmail, EmailOfDeleted, TriggerProfiling, IngestFails, DeleteDocument, local
<1>2. CASE ~EnqueueFirst /\ UNCHANGED queued
  BY <1>1, <1>2 DEF Reading, Waiting, InHand, Kind
<1>3. CASE TriggerProfiling
  <2>1. [kind |-> "profile", upload |-> 0, attempts |-> 0] \in Job
    BY PipelineAssumption DEF Job, Kinds
  <2>2. UNCHANGED queued \/ BagToSet(queued') = BagToSet(queued) \cup {[kind |-> "profile", upload |-> 0, attempts |-> 0]}
    BY <1>3, <2>1, PutType DEF TriggerProfiling
  <2>3. \A u \in 0..MaxUploads : Waiting(u) <=> Waiting(u)'
    BY <2>2 DEF Waiting, ReadKinds
  <2>4. ~EnqueueFirst
    BY <1>3 DEF TriggerProfiling, EnqueueFirst
  <2> QED BY <1>1, <2>3, <2>4 DEF Reading, InHand, Kind
<1>4. CASE EnqueueFirst
  <2>1. producer \in Calls /\ producer.step = "enqueue"
    BY <1>4 DEF EnqueueFirst, Producer
  <2>2. CASE producer.entry = "embed"
    <3>1. EmbedJob \in Job
      BY PipelineAssumption DEF EmbedJob, Job, Kinds
    <3>2. BagToSet(queued') = BagToSet(queued) \cup {EmbedJob}
      BY <1>4, <2>2, <3>1, PutType DEF EnqueueFirst
    <3>3. \A u \in 0..MaxUploads : Waiting(u) <=> Waiting(u)'
      BY <3>2 DEF Waiting, ReadKinds, EmbedJob
    <3> QED BY <1>1, <1>4, <2>2, <3>3 DEF Reading, InHand, Kind, Placing, ReadKinds
  <2>3. CASE producer.entry # "embed"
    <3> DEFINE first == [kind |-> producer.entry, upload |-> producer.upload, attempts |-> 0]
    <3>1. producer.entry \in ReadKinds /\ Placing
      BY <2>1, <2>3, PipelineAssumption DEF Calls, ProducerControl, ReadKinds, Placing
    <3>2. first \in Job
      BY <2>1, <3>1, PipelineAssumption DEF Calls, Job, Kinds, Upload, ReadKinds
    <3>3. BagToSet(queued') = BagToSet(queued) \cup {first}
      BY <1>4, <2>3, <3>2, PutType DEF EnqueueFirst
    <3>6. first.kind \in ReadKinds /\ first.upload = producer.upload
      BY <3>1
    <3> HIDE DEF first
    <3>4. \A u \in 0..MaxUploads : Waiting(u)' <=> Waiting(u) \/ u = producer.upload
      BY <3>3, <3>6 DEF Waiting
    <3>5. producer' = None
      BY <1>4, <2>3 DEF EnqueueFirst
    <3> QED BY <1>1, <1>4, <3>1, <3>4, <3>5 DEF Reading, InHand, Kind
  <2> QED BY <2>2, <2>3
<1>5. CASE ~TriggerProfiling /\ ~EnqueueFirst
  BY <1>2, <1>5 DEF Ingest, IngestDocument, IngestText, IngestEmail, WriteText, Produce, StageFile,
       MarkEmbedding, EmbedEmail, EmailOfDeleted, IngestFails, DeleteDocument
<1> QED BY <1>3, <1>4, <1>5

LEMMA StepReading ==
  ASSUME Typed, NEW w \in Workers, Step(w)
  PROVE  \A u \in 0..MaxUploads : Reading(u) <=> Reading(u)'
<1>1. PICK step \in Steps \ {"idle", "begin"} : pc' = [pc EXCEPT ![w] = step]
  BY StepProceeds DEF Proceeds, Typed
<1>2. UNCHANGED <<queued, held>> /\ pc[w] # "idle"
  BY StepProceeds DEF Proceeds, Typed
<1>3. \A v \in Workers : pc[v] = "idle" <=> pc'[v] = "idle"
  BY <1>1, <1>2 DEF Typed, Hands
<1> QED BY <1>2, <1>3 DEF Reading, Waiting, InHand, Kind

LEMMA QueueReading ==
  ASSUME Typed, NEW w \in Workers, Take(w) \/ Enqueue(w) \/ Acknowledge(w) \/ Reject(w) \/ Lapse(w) \/ Crash(w)
  PROVE  \A u \in 0..MaxUploads : Reading(u)' => Reading(u)
<1> USE DEF Typed
<1>1. CASE Take(w)
  <2>1. PICK job \in BagToSet(queued) :
           /\ BagToSet(queued') \subseteq BagToSet(queued)
           /\ held' = [held EXCEPT ![w] = [job EXCEPT !.attempts = @ + 1]]
           /\ held'[w].kind = job.kind /\ held'[w].upload = job.upload
    BY <1>1, TakeType
  <2>2. \A v \in Workers \ {w} : held'[v] = held[v] /\ pc'[v] = pc[v]
    BY <1>1, <2>1 DEF Take, Goto, Hands
  <2> QED BY <2>1, <2>2 DEF Reading, Waiting, InHand, Kind
<1>2. CASE Enqueue(w)
  <2>1. pc[w] = "enqueue" /\ held[w] \in Job /\ Kind(w) \in Kinds \ {"artifacts"} /\ held[w].upload \in 0..MaxUploads
    BY <1>2, HeldJob DEF Enqueue, HandlerControl
  <2> DEFINE next == [kind |-> Successor(Kind(w)), attempts |-> 0,
                      upload |-> IF Kind(w) = "classify" THEN held[w].upload ELSE 0]
  <2>2. next \in Job /\ (next.kind \in ReadKinds => Kind(w) = "classify" /\ next.upload = held[w].upload)
    BY <2>1, PipelineAssumption DEF Successor, Kinds, Job, ReadKinds
  <2>3. UNCHANGED queued \/ BagToSet(queued') = BagToSet(queued) \cup {next}
    BY <1>2, <2>2, PutType DEF Enqueue
  <2> HIDE DEF next
  <2>4. held' = held /\ \A v \in Workers : pc'[v] # "idle" => pc[v] # "idle"
    BY <1>2, <2>1 DEF Enqueue, Goto, Hands
  <2> QED BY <2>1, <2>2, <2>3, <2>4 DEF Reading, Waiting, InHand, Kind, ReadKinds
<1>3. CASE Acknowledge(w) \/ Reject(w) \/ Crash(w)
  <2>1. Leave(w)
    BY <1>3 DEF Acknowledge, Reject, Crash
  <2>2. pc[w] # "idle" /\ held[w] \in Job
    BY <1>3, HeldJob DEF Acknowledge, Reject, Crash
  <2>3. UNCHANGED queued \/ BagToSet(queued') = BagToSet(queued) \cup {held[w]}
    BY <1>3, <2>2, PutType DEF Acknowledge, Reject, Crash
  <2>4. pc'[w] = "idle" /\ \A v \in Workers \ {w} : held'[v] = held[v] /\ pc'[v] = pc[v]
    BY <2>1 DEF Leave, Goto, Hands
  <2> QED BY <2>2, <2>3, <2>4 DEF Reading, Waiting, InHand, Kind
<1>4. CASE Lapse(w)
  <2>1. pc[w] # "idle" /\ held[w] \in Job /\ UNCHANGED local
    BY <1>4, HeldJob DEF Lapse
  <2>2. BagToSet(queued') = BagToSet(queued) \cup {held[w]}
    BY <1>4, <2>1, PutType DEF Lapse
  <2> QED BY <2>1, <2>2 DEF Reading, Waiting, InHand, Kind, local
<1> QED BY <1>1, <1>2, <1>3, <1>4


LEMMA LateStep == Typed /\ Late /\ [Next]_vars => Late'
<1> SUFFICES ASSUME Typed, Late, [Next]_vars PROVE Late'
  OBVIOUS
<1> USE DEF Typed
<1>0. uploads \in 0..MaxUploads /\ (producer # None => producer.upload = uploads)
  BY DEF Counts, ProducerControl
<1>k. ASSUME \A u \in 0..MaxUploads : Reading(u)' => Reading(u),
             uploads' = uploads, producer' # None => producer # None
      PROVE  Late'
  BY <1>k DEF Late
<1>1. CASE Ingest
  <2>1. \A u \in 0..MaxUploads : Reading(u)' => Reading(u)
    <3>1. ~EnqueueFirst
      BY <1>1 DEF Ingest, IngestDocument, IngestText, IngestEmail, WriteText, EnqueueFirst
    <3> QED BY <1>1, <3>1, ProduceReading
  <2>2. uploads' = uploads + 1
    BY <1>1 DEF Ingest, IngestDocument, IngestText, IngestEmail, WriteText
  <2> QED BY <1>0, <2>1, <2>2, PipelineAssumption DEF Late
<1>2. CASE EnqueueFirst
  <2>1. \A u \in 0..MaxUploads : Reading(u)' => Reading(u) \/ (Placing /\ u = producer.upload)
    BY <1>2, ProduceReading DEF Produce
  <2>2. producer' = None \/ ~Placing
    BY <1>2, ProduceReading DEF Produce
  <2>3. uploads' = uploads /\ producer # None
    BY <1>2 DEF EnqueueFirst, counts
  <2> QED BY <1>0, <2>1, <2>2, <2>3, PipelineAssumption DEF Late, Placing
<1>3. CASE (Produce \/ DeleteDocument) /\ ~EnqueueFirst
  <2>1. uploads' = uploads /\ (producer' # None => producer # None)
    BY <1>3 DEF Produce, StageFile, MarkEmbedding, EmbedEmail, EmailOfDeleted, TriggerProfiling, IngestFails,
         DeleteDocument, counts
  <2> QED BY <1>3, <1>k, <2>1, ProduceReading
<1>4. ASSUME NEW w \in Workers, Step(w) PROVE Late'
  <2>1. uploads' = uploads /\ producer' = producer
    BY <1>4, StepProceeds DEF Proceeds
  <2> QED BY <1>4, <1>k, <2>1, StepReading
<1>5. ASSUME NEW w \in Workers, Take(w) \/ Enqueue(w) \/ Acknowledge(w) \/ Reject(w) \/ Lapse(w) \/ Crash(w)
      PROVE  Late'
  <2>1. uploads' = uploads /\ producer' = producer
    BY <1>5 DEF Take, Enqueue, Acknowledge, Reject, Lapse, Crash, counts
  <2> QED BY <1>5, <1>k, <2>1, QueueReading
<1>6. CASE UNCHANGED vars
  BY <1>6 DEF vars, local, counts, Late, Reading, Waiting, InHand, Kind
<1> QED
  BY <1>1, <1>2, <1>3, <1>4, <1>5, <1>6 DEF Next, Handle, Step

------------------------------------------------------------------------------
(***************************************************************************)
(* The file of an upload is there while a call is about to enqueue the job *)
(* that reads it, and while such a job is waiting or in hand, unless the   *)
(* content has been stored: what removes files removes none of these.      *)
(***************************************************************************)
Kept == status # "gone" =>
  /\ Placing => producer.upload \in staged
  /\ \A u \in 0..MaxUploads : Reading(u) => u \in staged \cup extracted

\* Deleting a document is for good.
LEMMA GoneStays == [Next]_vars /\ status = "gone" => status' = "gone"
<1> SUFFICES ASSUME [Next]_vars, status = "gone" PROVE status' = "gone"
  OBVIOUS
<1>1. CASE Ingest \/ Produce \/ DeleteDocument
  BY <1>1 DEF Ingest, IngestDocument, IngestText, IngestEmail, WriteText, Produce, StageFile, EnqueueFirst,
       MarkEmbedding, EmbedEmail, EmailOfDeleted, TriggerProfiling, IngestFails, DeleteDocument, document
<1>2. ASSUME NEW w \in Workers, Step(w) PROVE status' = "gone"
  <2>1. Marked(w) = status
    BY DEF Marked
  <2> QED BY <1>2, <2>1 DEF Step, Begin, WriteRaises, Mark, Clean, Classify, Extract, FileMissing, Embed,
       Profile, EmbedArtifacts, HandlerFails, GateDrops, document
<1>3. ASSUME NEW w \in Workers, Take(w) \/ Enqueue(w) \/ Acknowledge(w) \/ Reject(w) \/ Lapse(w) \/ Crash(w)
      PROVE  status' = "gone"
  BY <1>3 DEF Take, Enqueue, Acknowledge, Reject, Lapse, Crash, document
<1> QED BY <1>1, <1>2, <1>3 DEF Next, Handle, Step, vars, document

LEMMA FilesStay ==
  ASSUME Typed, NEW w \in Workers, Handle(w) \/ Take(w) \/ Lapse(w) \/ Crash(w), status # "gone"
  PROVE  /\ staged' \subseteq staged /\ extracted \subseteq extracted'
         /\ \A u \in staged \ staged' : u \in extracted /\ InHand(u)
<1>1. CASE Clean(w)
  BY <1>1 DEF Clean, Typed, HandlerControl, history, InHand, ReadKinds
<1>2. CASE Begin(w)
  BY <1>2 DEF Begin, history
<1> QED
  BY <1>1, <1>2 DEF Handle, WriteRaises, Enqueue, Mark, Classify, Extract, FileMissing, Embed, Profile,
       EmbedArtifacts, HandlerFails, GateDrops, Acknowledge, Reject, Take, Lapse, Crash, history, document

LEMMA KeptStep == Typed /\ Late /\ Kept /\ [Next]_vars => Kept'
<1> SUFFICES ASSUME Typed, Late, Kept, [Next]_vars, status' # "gone" PROVE Kept'
  BY DEF Kept
<1> USE DEF Typed
<1>0. uploads \in 0..MaxUploads /\ (producer # None => producer.upload = uploads)
  BY DEF Counts, ProducerControl
<1>g. status # "gone"
  BY GoneStays
<1>1. CASE Ingest
  <2>1. ~EnqueueFirst
    BY <1>1 DEF Ingest, IngestDocument, IngestText, IngestEmail, WriteText, EnqueueFirst
  <2>2. staged' = staged /\ extracted \subseteq extracted'
    BY <1>1 DEF Ingest, IngestDocument, IngestText, IngestEmail, WriteText, history
  <2>3. ~Placing'
    BY <1>1 DEF Ingest, IngestDocument, IngestText, IngestEmail, WriteText, Call, Placing, ReadKinds
  <2> QED BY <1>1, <1>g, <2>1, <2>2, <2>3, ProduceReading DEF Kept
<1>2. CASE StageFile
  <2>1. ~EnqueueFirst /\ staged' = staged \cup {producer.upload} /\ producer'.upload = producer.upload /\ extracted' = extracted
    BY <1>2 DEF StageFile, EnqueueFirst, history, Producer, Calls
  <2> QED BY <1>2, <1>g, <2>1, ProduceReading DEF Kept, Produce
<1>3. CASE EnqueueFirst
  <2>1. staged' = staged /\ extracted' = extracted
    BY <1>3 DEF EnqueueFirst, history
  <2>2. ~Placing'
    BY <1>3 DEF EnqueueFirst, Placing, Producer, Calls
  <2>3. \A u \in 0..MaxUploads : Reading(u)' <=> Reading(u) \/ (Placing /\ u = producer.upload)
    BY <1>3, ProduceReading DEF Produce
  <2> QED BY <1>g, <2>1, <2>2, <2>3 DEF Kept
<1>4. CASE IngestFails
  <2>1. ~EnqueueFirst
    BY <1>4, PipelineAssumption DEF IngestFails, EnqueueFirst, Fault, counts, Counts
  <2>2. producer # None /\ producer' = None /\ staged' = staged \ {producer.upload} /\ extracted' = extracted
    BY <1>4, <1>g DEF IngestFails
  <2>3. \A u \in 0..MaxUploads : Reading(u) => u # producer.upload
    BY <1>0, <2>2, PipelineAssumption DEF Late
  <2> QED BY <1>4, <1>g, <2>1, <2>2, <2>3, ProduceReading DEF Kept, Produce, Placing
<1>5. CASE MarkEmbedding \/ EmbedEmail \/ EmailOfDeleted \/ TriggerProfiling
  <2>1. ~EnqueueFirst /\ ~Placing'
    BY <1>5 DEF MarkEmbedding, EmbedEmail, EmailOfDeleted, TriggerProfiling, EnqueueFirst, Placing, Producer, Calls
  <2>2. staged' = staged /\ extracted' = extracted
    BY <1>5 DEF MarkEmbedding, EmbedEmail, EmailOfDeleted, TriggerProfiling, history
  <2> QED BY <1>5, <1>g, <2>1, <2>2, ProduceReading DEF Kept, Produce
<1>6. ASSUME NEW w \in Workers, Handle(w) \/ Take(w) \/ Lapse(w) \/ Crash(w) PROVE Kept'
  <2>1. \A u \in 0..MaxUploads : Reading(u)' => Reading(u)
    BY <1>6, StepReading, QueueReading DEF Handle, Step
  <2>2. producer' = producer
    BY <1>6, StepProceeds DEF Take, Handle, Step, Enqueue, Acknowledge, Reject, Lapse, Crash, Proceeds
  <2>3. extracted \subseteq extracted' /\ \A u \in staged \ staged' : u \in extracted /\ InHand(u)
    BY <1>6, <1>g, FilesStay
  <2>4. Placing' => Placing /\ producer'.upload = uploads /\ ~InHand(uploads)
    BY <1>0, <2>2, PipelineAssumption DEF Placing, Late, Reading
  <2>5. Placing' => producer'.upload \in staged'
    BY <1>0, <1>g, <2>2, <2>3, <2>4 DEF Kept, Placing
  <2> QED BY <1>g, <2>1, <2>3, <2>5 DEF Kept
<1>7. CASE UNCHANGED vars
  BY <1>7 DEF vars, local, history, document, Kept, Placing, Reading, Waiting, InHand, Kind
<1> QED
  BY <1>1, <1>2, <1>3, <1>4, <1>5, <1>6, <1>7 DEF Next, Produce, DeleteDocument

------------------------------------------------------------------------------
(***************************************************************************)
(* And the other way round: a staged file that no upload given up left     *)
(* behind is of a call about to enqueue the job that reads it, or of such  *)
(* a job, waiting or with a worker whose lease holds and that has not yet  *)
(* removed it.                                                             *)
(***************************************************************************)
Carries(w, u) ==
  /\ pc[w] \in {"begin", "work", "enqueue", "mark", "clean", "reject"} /\ w \notin stale
  /\ Kind(w) \in ReadKinds /\ held[w].upload = u

Cared(u) == (Placing /\ producer.upload = u) \/ Waiting(u) \/ \E w \in Workers : Carries(w, u)

Reclaimed == status # "gone" => \A u \in staged \ abandoned : Cared(u)

\* Only Take takes a job from the queue.
LEMMA ProduceWaits ==
  ASSUME Typed, Ingest \/ Produce \/ DeleteDocument
  PROVE  /\ BagToSet(queued) \subseteq BagToSet(queued')
         /\ EnqueueFirst => \E job \in BagToSet(queued') :
              /\ job.kind # "profile"
              /\ Placing => job.kind \in ReadKinds /\ job.upload = producer.upload
<1> USE DEF Typed
<1>1. CASE UNCHANGED queued /\ ~EnqueueFirst
  BY <1>1
<1>2. CASE TriggerProfiling
  <2>1. [kind |-> "profile", upload |-> 0, attempts |-> 0] \in Job
    BY PipelineAssumption DEF Job, Kinds
  <2> QED BY <1>2, <2>1, PutType DEF TriggerProfiling, EnqueueFirst
<1>3. CASE EnqueueFirst /\ producer.entry = "embed"
  <2>1. EmbedJob \in Job /\ EmbedJob.kind # "profile" /\ ~Placing
    BY <1>3, PipelineAssumption DEF EmbedJob, Job, Kinds, Placing, ReadKinds
  <2>2. BagToSet(queued') = BagToSet(queued) \cup {EmbedJob}
    BY <1>3, <2>1, PutType DEF EnqueueFirst
  <2> QED BY <2>1, <2>2
<1>4. CASE EnqueueFirst /\ producer.entry # "embed"
  <2> DEFINE first == [kind |-> producer.entry, upload |-> producer.upload, attempts |-> 0]
  <2>1. producer \in Calls /\ producer.entry \in ReadKinds
    BY <1>4, PipelineAssumption DEF EnqueueFirst, Producer, Calls, ProducerControl, ReadKinds
  <2>2. first \in Job /\ first.kind \in ReadKinds /\ first.kind # "profile" /\ first.upload = producer.upload
    BY <2>1, PipelineAssumption DEF Calls, Job, Kinds, Upload, ReadKinds
  <2>3. BagToSet(queued') = BagToSet(queued) \cup {first}
    BY <1>4, <2>2, PutType DEF EnqueueFirst
  <2> HIDE DEF first
  <2> QED BY <2>2, <2>3
<1>5. CASE ~EnqueueFirst /\ ~TriggerProfiling
  BY <1>1, <1>5 DEF Ingest, IngestDocument, IngestText, IngestEmail, WriteText, Produce, StageFile,
       MarkEmbedding, EmbedEmail, EmailOfDeleted, IngestFails, DeleteDocument
<1> QED BY <1>2, <1>3, <1>4, <1>5

LEMMA EnqueueWaits ==
  ASSUME Typed, NEW w \in Workers, Enqueue(w)
  PROVE  /\ BagToSet(queued) \subseteq BagToSet(queued')
         /\ status # "gone" => \E job \in BagToSet(queued') :
              job.kind = Successor(Kind(w)) /\ (Kind(w) = "classify" => job.upload = held[w].upload)
<1> DEFINE next == [kind |-> Successor(Kind(w)), attempts |-> 0,
                    upload |-> IF Kind(w) = "classify" THEN held[w].upload ELSE 0]
<1>1. held[w] \in Job /\ Kind(w) \in Kinds \ {"artifacts"} /\ held[w].upload \in 0..MaxUploads
  BY HeldJob DEF Enqueue, HandlerControl, Typed
<1>2. next \in Job /\ next.kind = Successor(Kind(w)) /\ (Kind(w) = "classify" => next.upload = held[w].upload)
  BY <1>1, PipelineAssumption DEF Successor, Kinds, Job
<1>3. \/ UNCHANGED queued /\ status = "gone"
      \/ BagToSet(queued') = BagToSet(queued) \cup {next}
  BY <1>2, PutType DEF Enqueue, Typed
<1> HIDE DEF next
<1> QED BY <1>2, <1>3

LEMMA ReturnWaits ==
  ASSUME Typed, NEW w \in Workers, Lapse(w) \/ Reject(w) \/ Crash(w)
  PROVE  /\ BagToSet(queued) \subseteq BagToSet(queued')
         /\ Reject(w) /\ ~Exhausted(w) => held[w] \in BagToSet(queued')
         /\ \/ held[w] \in BagToSet(queued')
            \/ Reject(w) /\ Exhausted(w) /\ abandoned' = abandoned \cup {held[w].upload}
            \/ Crash(w) /\ w \in stale
<1>1. held[w] \in Job
  BY HeldJob DEF Lapse, Reject, Crash, Typed
<1>2. Put(held[w]) => BagToSet(queued') = BagToSet(queued) \cup {held[w]}
  BY <1>1, PutType DEF Typed
<1> QED BY <1>2 DEF Lapse, Reject, Crash, GiveUp

LEMMA ReclaimedStep == Typed /\ Reclaimed /\ [Next]_vars => Reclaimed'
<1> SUFFICES ASSUME Typed, Reclaimed, [Next]_vars, status' # "gone" PROVE Reclaimed'
  BY DEF Reclaimed
<1> USE DEF Typed
<1>g. \A u \in staged \ abandoned : Cared(u)
  BY GoneStays DEF Reclaimed
<1>1. CASE Ingest \/ Produce \/ DeleteDocument
  <2>1. UNCHANGED <<held, pc, stale>> /\ BagToSet(queued) \subseteq BagToSet(queued')
    BY <1>1, ProduceReading, ProduceWaits
  <2>2. \A u : Waiting(u) \/ (\E w \in Workers : Carries(w, u)) => Cared(u)'
    BY <2>1 DEF Cared, Waiting, Carries, Kind
  <2>3. \A u \in staged' \ abandoned' : (u \in staged /\ u \notin abandoned) \/ (StageFile /\ u = producer.upload)
    BY <1>1 DEF Ingest, IngestDocument, IngestText, IngestEmail, WriteText, Produce, StageFile, EnqueueFirst,
         MarkEmbedding, EmbedEmail, EmailOfDeleted, TriggerProfiling, IngestFails, DeleteDocument, history
  <2>4. ASSUME StageFile, NEW u, u = producer.upload PROVE Cared(u)'
    <3>1. producer \in Calls /\ producer.entry \in ReadKinds
      BY <2>4 DEF StageFile, Producer, ProducerControl
    <3>2. producer' = [producer EXCEPT !.step = "enqueue"]
      BY <2>4 DEF StageFile
    <3>3. producer' \in Calls
      BY <3>1, <3>2 DEF Calls
    <3>4. Placing' /\ producer'.upload = u
      BY <2>4, <3>1, <3>2, <3>3, PipelineAssumption DEF Placing, Calls
    <3> QED BY <3>4 DEF Cared
  <2>5. ASSUME Placing, NEW u \in staged' \ abandoned', u = producer.upload PROVE Cared(u)'
    <3>1. CASE EnqueueFirst
      BY <1>1, <2>5, <3>1, ProduceWaits DEF Cared, Waiting
    <3>2. CASE IngestFails
      BY <2>5, <3>2 DEF IngestFails
    <3>3. CASE DeleteDocument
      BY <3>3 DEF DeleteDocument
    <3> QED BY <1>1, <2>5, <3>1, <3>2, <3>3 DEF Placing, Ingest, IngestDocument, IngestText, IngestEmail,
               WriteText, Produce, StageFile, MarkEmbedding, EmbedEmail, EmailOfDeleted, TriggerProfiling
  <2> QED BY <1>g, <2>2, <2>3, <2>4, <2>5 DEF Reclaimed, Cared
<1>w. ASSUME NEW w \in Workers, producer' = producer, abandoned \subseteq abandoned', staged' \subseteq staged,
             BagToSet(queued) \subseteq BagToSet(queued'),
             \A v \in Workers \ {w} : /\ pc'[v] = pc[v] /\ held'[v] = held[v]
                                      /\ v \in stale <=> v \in stale',
             \A u \in staged' \ abandoned' : Carries(w, u) => Cared(u)'
      PROVE  Reclaimed'
  BY <1>w, <1>g DEF Reclaimed, Cared, Placing, Waiting, Carries, Kind
<1>2. ASSUME NEW w \in Workers, Step(w) PROVE Reclaimed'
  <2>1. PICK step \in Steps \ {"idle", "begin"} : pc' = [pc EXCEPT ![w] = step]
    BY <1>2, StepProceeds DEF Proceeds
  <2>2. UNCHANGED <<queued, producer, held, stale>> /\ abandoned \subseteq abandoned' /\ pc'[w] = step
    BY <1>2, <2>1, StepProceeds DEF Proceeds, Hands
  <2>3. staged' \subseteq staged
    BY <1>2, GoneStays, FilesStay DEF Step, Handle
  <2>4. \A v \in Workers \ {w} : pc'[v] = pc[v]
    BY <2>1 DEF Hands
  <2>5. ASSUME NEW u \in staged' \ abandoned', Carries(w, u) PROVE Cared(u)'
    <3>1. Kind(w) \in ReadKinds /\ held[w].upload = u
      BY <2>5 DEF Carries
    <3>2. pc'[w] \in {"work", "enqueue", "mark", "clean", "reject"}
      BY <1>2, <2>5, <3>1, GoneStays DEF Step, Begin, WriteRaises, Mark, Clean, Classify, Extract, FileMissing,
           Embed, Profile, EmbedArtifacts, HandlerFails, GateDrops, GiveUp, At, Goto, Hands, ReadKinds,
           HandlerControl, Handed
    <3> QED BY <2>2, <2>5, <3>2 DEF Cared, Carries, Kind
  <2> QED BY <1>w, <2>2, <2>3, <2>4, <2>5
<1>3. ASSUME NEW w \in Workers, Take(w) PROVE Reclaimed'
  <2>1. PICK job \in BagToSet(queued) :
          /\ BagToSet(queued) \subseteq BagToSet(queued') \cup {job}
          /\ held' = [held EXCEPT ![w] = [job EXCEPT !.attempts = @ + 1]]
          /\ held'[w].kind = job.kind /\ held'[w].upload = job.upload
    BY <1>3, TakeType
  <2>2. UNCHANGED <<producer, staged, abandoned, stale>> /\ pc[w] = "idle" /\ w \notin stale
    BY <1>3 DEF Take, history, HandlerControl
  <2>3. pc'[w] = "begin" /\ \A v \in Workers \ {w} : pc'[v] = pc[v] /\ held'[v] = held[v]
    BY <1>3, <2>1 DEF Take, Goto, Hands
  <2>4. \A u : job.kind \in ReadKinds /\ job.upload = u => Carries(w, u)'
    BY <2>1, <2>2, <2>3 DEF Carries, Kind
  <2>5. \A u : Waiting(u) => Waiting(u)' \/ Carries(w, u)'
    BY <2>1, <2>4 DEF Waiting
  <2>6. \A u : \A v \in Workers : Carries(v, u) => Carries(v, u)'
    BY <2>2, <2>3 DEF Carries, Kind
  <2>7. ASSUME NEW u, Cared(u) PROVE Cared(u)'
    <3>1. CASE Placing /\ producer.upload = u
      BY <2>2, <3>1 DEF Cared, Placing
    <3>2. CASE Waiting(u)
      <4>1. CASE Waiting(u)'
        BY <4>1 DEF Cared
      <4>2. CASE Carries(w, u)'
        BY <4>2, Zenon DEF Cared
      <4>3. Waiting(u)' \/ Carries(w, u)'
        BY <2>5, <3>2
      <4> QED BY <4>1, <4>2, <4>3
    <3>3. CASE \E v \in Workers : Carries(v, u)
      BY <2>6, <3>3, Zenon DEF Cared
    <3> QED BY <2>7, <3>1, <3>2, <3>3 DEF Cared
  <2> QED BY <1>g, <2>2, <2>7 DEF Reclaimed
<1>4. ASSUME NEW w \in Workers, Enqueue(w) PROVE Reclaimed'
  <2>1. UNCHANGED <<producer, staged, abandoned, held, stale, status>> /\ pc[w] = "enqueue"
    BY <1>4 DEF Enqueue, history, document
  <2>2. \A v \in Workers \ {w} : pc'[v] = pc[v]
    BY <1>4 DEF Enqueue, Goto, Hands
  <2>3. ASSUME NEW u \in staged' \ abandoned', Carries(w, u) PROVE Cared(u)'
    <3>1. Kind(w) \in ReadKinds /\ held[w].upload = u /\ w \notin stale
      BY <2>3 DEF Carries
    <3>2. CASE Kind(w) = "classify"
      <4>1. Waiting(u)'
        BY <1>4, <2>1, <3>1, <3>2, EnqueueWaits DEF Waiting, Successor, ReadKinds
      <4> QED BY <4>1 DEF Cared
    <3>3. CASE Kind(w) = "extract"
      <4>1. pc'[w] = "mark"
        BY <1>4, <3>3 DEF Enqueue, Goto, Hands, Handed
      <4> QED BY <2>1, <3>1, <4>1 DEF Cared, Carries, Kind
    <3> QED BY <3>1, <3>2, <3>3 DEF ReadKinds
  <2> QED BY <1>4, <1>w, <2>1, <2>2, <2>3, EnqueueWaits
<1>5. ASSUME NEW w \in Workers, Acknowledge(w) \/ Reject(w) \/ Crash(w) PROVE Reclaimed'
  <2>1. Leave(w) /\ UNCHANGED <<producer, staged, extracted>> /\ abandoned \subseteq abandoned'
    BY <1>5 DEF Acknowledge, Reject, Crash, GiveUp, history
  <2>2. \A v \in Workers \ {w} : pc'[v] = pc[v] /\ held'[v] = held[v] /\ (v \in stale <=> v \in stale')
    BY <2>1 DEF Leave, Goto, Hands
  <2>3. BagToSet(queued) \subseteq BagToSet(queued')
    BY <1>5, ReturnWaits DEF Acknowledge
  <2>4. ASSUME NEW u \in staged' \ abandoned', Carries(w, u) PROVE Cared(u)'
    <3>1. Kind(w) \in ReadKinds /\ held[w].upload = u /\ w \notin stale /\ pc[w] # "ack"
      BY <2>4 DEF Carries
    <3>2. held[w] \in BagToSet(queued')
      BY <1>5, <2>4, <3>1, ReturnWaits DEF Acknowledge
    <3> QED BY <3>1, <3>2 DEF Cared, Waiting, Kind
  <2> QED BY <1>w, <2>1, <2>2, <2>3, <2>4
<1>6. ASSUME NEW w \in Workers, Lapse(w) PROVE Reclaimed'
  <2>1. UNCHANGED <<producer, staged, abandoned, held, pc>> /\ stale' = stale \cup {w}
    BY <1>6 DEF Lapse, history, local
  <2>2. held[w] \in BagToSet(queued') /\ BagToSet(queued) \subseteq BagToSet(queued')
    BY <1>6, ReturnWaits, PutType, HeldJob DEF Lapse
  <2>3. \A u : Carries(w, u) => Cared(u)'
    BY <2>2 DEF Carries, Cared, Waiting, Kind
  <2> QED BY <1>w, <2>1, <2>2, <2>3
<1>7. CASE UNCHANGED vars
  BY <1>7, <1>g DEF vars, local, history, document, Reclaimed, Cared, Placing, Waiting, Carries, Kind
<1> QED
  BY <1>1, <1>2, <1>3, <1>4, <1>5, <1>6, <1>7 DEF Next, Handle, Step

------------------------------------------------------------------------------
(***************************************************************************)
(* A status committed before the work has an owner that writes the next    *)
(* one: the call that wrote it, a waiting job, or a handler that has yet   *)
(* to begin, that remembers this status, or whose job will come back.  A   *)
(* handler that remembers another one does not count, for its own write    *)
(* need not change what is there now; nor does profiling, which commits no *)
(* such status.                                                            *)
(***************************************************************************)
Stuck == {"pending", "extracting", "artifact_embedding"}

CallOwns  == producer # None /\ producer.step # "profile" /\ producer.seen = status
JobOwns   == \E job \in BagToSet(queued) : job.kind # "profile"
Owns(w)   == /\ Kind(w) # "profile"
             /\ \/ pc[w] = "begin"
                \/ pc[w] \in {"work", "enqueue", "mark"} /\ seen[w] = status
                \/ pc[w] = "reject" /\ ~Exhausted(w)
Owned     == CallOwns \/ JobOwns \/ \E w \in Workers : Owns(w)

Owner == crashes = 0 /\ drops = 0 /\ status \in Stuck => Owned

LEMMA ProduceOwner ==
  ASSUME Typed, Owner, Ingest \/ Produce \/ DeleteDocument PROVE Owner'
<1> USE DEF Typed
<1>1. UNCHANGED <<held, pc, stale, seen>> /\ BagToSet(queued) \subseteq BagToSet(queued')
  BY ProduceReading, ProduceWaits DEF Ingest, IngestDocument, IngestText, IngestEmail, WriteText, Produce,
     StageFile, EnqueueFirst, MarkEmbedding, EmbedEmail, EmailOfDeleted, TriggerProfiling, IngestFails,
     DeleteDocument, local
<1>2. UNCHANGED <<crashes, drops>>
  BY DEF Ingest, IngestDocument, IngestText, IngestEmail, WriteText, Produce, StageFile, EnqueueFirst,
         MarkEmbedding, EmbedEmail, EmailOfDeleted, TriggerProfiling, IngestFails, DeleteDocument, counts
<1>k. ASSUME status' = status, CallOwns => CallOwns' \/ JobOwns' PROVE Owner'
  <2>1. JobOwns => JobOwns'
    BY <1>1 DEF JobOwns
  <2>2. \A w \in Workers : Owns(w) => Owns(w)'
    BY <1>1, <1>k DEF Owns, Kind, Exhausted
  <2> QED BY <1>2, <1>k, <2>1, <2>2 DEF Owner, Owned
<1>3. CASE Ingest
  <2>1. PICK e \in Entry, step \in {"stage", "enqueue", "embed"} :
          producer' = [upload |-> uploads', entry |-> e, step |-> step, seen |-> status']
    BY <1>3 DEF Ingest, IngestDocument, IngestText, IngestEmail, WriteText, Call
  <2>2. status' \in Status /\ uploads' \in Upload
    BY <1>3, PipelineAssumption DEF Ingest, IngestDocument, IngestText, IngestEmail, WriteText, Counts, Upload,
       Document, Status, InProgress
  <2>3. CallOwns'
    BY <2>1, <2>2, PipelineAssumption DEF CallOwns, Calls
  <2> QED BY <2>3 DEF Owner, Owned
<1>4. CASE StageFile
  <2>1. CallOwns => CallOwns'
    BY <1>4, PipelineAssumption DEF StageFile, CallOwns, Producer, Calls, document
  <2> QED BY <1>4, <1>k, <2>1 DEF StageFile, document
<1>5. CASE EnqueueFirst
  <2>1. JobOwns'
    BY <1>5, ProduceWaits DEF Produce, JobOwns
  <2> QED BY <2>1 DEF Owner, Owned
<1>6. CASE MarkEmbedding \/ EmbedEmail \/ IngestFails
  <2>1. PICK new \in Status \ Stuck : \/ status = "gone" /\ status' = status
                                      \/ status' = Written(producer.seen, new)
    BY <1>6 DEF MarkEmbedding, EmbedEmail, IngestFails, Status, Searchable, InProgress, Stuck
  <2>2. CASE status' \in Stuck
    <3>1. status' = status /\ producer.seen # status
      BY <2>1, <2>2 DEF Written, Stuck
    <3> QED BY <1>k, <3>1 DEF CallOwns
  <2>3. CASE status' \notin Stuck
    BY <2>3 DEF Owner
  <2> QED BY <2>2, <2>3
<1>7. CASE EmailOfDeleted \/ DeleteDocument
  <2>1. status' \notin Stuck
    BY <1>7 DEF EmailOfDeleted, DeleteDocument, document, Stuck
  <2> QED BY <2>1 DEF Owner
<1>8. CASE TriggerProfiling
  BY <1>8, <1>k DEF TriggerProfiling, CallOwns, document
<1> QED
  BY <1>3, <1>4, <1>5, <1>6, <1>7, <1>8 DEF Produce

LEMMA HandlerOwner ==
  ASSUME Typed, Owner, NEW w \in Workers, Take(w) \/ Handle(w) \/ Lapse(w) \/ Crash(w) PROVE Owner'
<1> USE DEF Typed
<1>k. ASSUME status' = status, producer' = producer, crashes' = crashes, drops' = drops,
             BagToSet(queued) \subseteq BagToSet(queued'),
             \A v \in Workers \ {w} : pc'[v] = pc[v] /\ held'[v] = held[v] /\ seen'[v] = seen[v],
             status \in Stuck /\ Owns(w) => Owned'
      PROVE  Owner'
  <2>1. CallOwns => CallOwns'
    BY <1>k DEF CallOwns
  <2>2. JobOwns => JobOwns'
    BY <1>k DEF JobOwns
  <2>3. \A v \in Workers \ {w} : Owns(v) => Owns(v)'
    BY <1>k DEF Owns, Kind, Exhausted
  <2> QED BY <1>k, <2>1, <2>2, <2>3 DEF Owner, Owned
<1>n. ASSUME status' \notin Stuck PROVE Owner'
  BY <1>n DEF Owner
<1>o. ASSUME Owns(w)' PROVE Owned'
  BY <1>o, Zenon DEF Owned
<1>1. CASE Step(w)
  <2>1. PICK step \in Steps \ {"idle", "begin"} : pc' = [pc EXCEPT ![w] = step]
    BY <1>1, StepProceeds DEF Proceeds
  <2>2. UNCHANGED <<queued, producer, held>> /\ pc'[w] = step /\ pc[w] # "idle" /\ held[w] \in Job
    BY <1>1, <2>1, StepProceeds, HeldJob DEF Proceeds, Hands
  <2>3. \A v \in Workers \ {w} : pc'[v] = pc[v]
    BY <2>1 DEF Hands
  <2>4. CASE Begin(w)
    <3>1. \A v \in Workers \ {w} : seen'[v] = seen[v]
      BY <2>4 DEF Begin, Sessions
    <3>2. UNCHANGED <<crashes, drops>>
      BY <2>4 DEF Begin, counts
    <3>3. CASE status = "gone"
      BY <1>n, <2>4, <3>3 DEF Begin, Stuck
    <3>4. CASE status # "gone"
      <4>1. pc'[w] = "work" /\ seen'[w] = status'
        BY <2>2, <2>4, <3>4 DEF Begin, Goto, Hands, Sessions
      <4>2. CASE Kind(w) # "profile"
        BY <1>o, <2>2, <4>1, <4>2 DEF Owns, Owner, Kind
      <4>3. CASE Kind(w) = "profile"
        <5>1. status' = status /\ ~Owns(w)
          BY <2>4, <3>4, <4>3 DEF Begin, Started, Owns
        <5> QED BY <1>k, <2>2, <2>3, <3>1, <3>2, <5>1
      <4> QED BY <4>2, <4>3
    <3> QED BY <3>3, <3>4
  <2>5. CASE WriteRaises(w)
    BY <1>n, <2>5 DEF WriteRaises, document, Stuck
  <2>6. CASE Mark(w)
    <3>1. Handed[Kind(w)] \notin Stuck
      BY <2>6 DEF Mark, HandlerControl, Handed, Stuck
    <3>2. CASE status' \in Stuck
      <4>1. status' = status /\ seen[w] # status
        BY <2>6, <3>1, <3>2 DEF Mark, Written
      <4>2. ~Owns(w)
        BY <2>6, <4>1 DEF Mark, Owns
      <4>3. \A v \in Workers \ {w} : seen'[v] = seen[v]
        BY <2>6 DEF Mark, Sessions
      <4> QED BY <1>k, <2>2, <2>3, <2>6, <4>1, <4>2, <4>3 DEF Mark, counts
    <3> QED BY <1>n, <3>2
  <2>7. CASE Clean(w)
    BY <1>k, <2>2, <2>3, <2>7 DEF Clean, counts, document, Owns
  <2>8. CASE Classify(w) \/ Profile(w) \/ Extract(w)
    <3>1. UNCHANGED <<status, seen, crashes, drops>> /\ pc[w] = "work" /\ pc'[w] = "enqueue"
      BY <2>2, <2>8 DEF Classify, Profile, Extract, At, Goto, Hands, counts, document
    <3>2. Owns(w) => Owns(w)'
      BY <2>2, <3>1 DEF Owns, Kind
    <3> QED BY <1>k, <1>o, <2>2, <2>3, <3>1, <3>2
  <2>9. CASE FileMissing(w)
    <3>1. UNCHANGED <<seen, crashes, drops>> /\ pc[w] = "work"
      BY <2>9 DEF FileMissing, At, counts
    <3>2. CASE status' \in Stuck
      <4>1. status' = status /\ seen[w] # status
        BY <2>9, <3>2 DEF FileMissing, Written, Stuck
      <4>2. ~Owns(w)
        BY <3>1, <4>1 DEF Owns
      <4> QED BY <1>k, <2>2, <2>3, <3>1, <4>1, <4>2
    <3> QED BY <1>n, <3>2
  <2>10. CASE Embed(w) \/ EmbedArtifacts(w)
    BY <1>n, <2>10 DEF Embed, EmbedArtifacts, Stuck
  <2>11. CASE HandlerFails(w)
    <3>1. UNCHANGED <<seen, crashes, drops>> /\ status' = Marked(w)
      BY <2>11 DEF HandlerFails
    <3>2. CASE ~Exhausted(w)
      <4>1. status' = status /\ pc'[w] = "reject"
        BY <2>2, <2>11, <3>1, <3>2 DEF HandlerFails, Marked, Goto, Hands
      <4>2. Owns(w) => Owns(w)'
        BY <2>2, <3>2, <4>1 DEF Owns, Kind, Exhausted
      <4> QED BY <1>k, <1>o, <2>2, <2>3, <3>1, <4>1, <4>2
    <3>3. CASE Exhausted(w) /\ status' \in Stuck
      <4>1. PICK new \in {"rag_processed", "error"} :
              \/ status' = Written(seen[w], new)
              \/ status' = status /\ (status = "gone" \/ Kind(w) = "profile")
        BY <3>1, <3>3 DEF Marked
      <4>2. status' = status /\ (seen[w] = new \/ Kind(w) = "profile")
        BY <3>3, <4>1 DEF Written, Stuck
      <4>3. status \in Stuck /\ Owns(w) => FALSE
        BY <3>3, <4>2 DEF Owns, HandlerControl, Stuck
      <4> QED BY <1>k, <2>2, <2>3, <3>1, <4>2, <4>3
    <3> QED BY <1>n, <3>2, <3>3
  <2>12. CASE GateDrops(w)
    <3>1. drops' = drops + 1 /\ drops \in Nat
      BY <2>12 DEF GateDrops, Counts
    <3> QED BY <3>1 DEF Owner
  <2> QED
    BY <1>1, <2>4, <2>5, <2>6, <2>7, <2>8, <2>9, <2>10, <2>11, <2>12 DEF Step
<1>2. CASE Take(w)
  <2>1. PICK job \in BagToSet(queued) :
          /\ BagToSet(queued) \subseteq BagToSet(queued') \cup {job}
          /\ held' = [held EXCEPT ![w] = [job EXCEPT !.attempts = @ + 1]]
          /\ held'[w].kind = job.kind
    BY <1>2, TakeType
  <2>2. UNCHANGED <<producer, status, seen, crashes, drops>> /\ pc[w] = "idle"
    BY <1>2 DEF Take, document, counts
  <2>3. pc'[w] = "begin" /\ \A v \in Workers \ {w} : pc'[v] = pc[v] /\ held'[v] = held[v]
    BY <1>2, <2>1 DEF Take, Goto, Hands
  <2>4. CallOwns => CallOwns'
    BY <2>2 DEF CallOwns
  <2>5. JobOwns => JobOwns' \/ Owns(w)'
    BY <2>1, <2>3 DEF JobOwns, Owns, Kind
  <2>6. \A v \in Workers : Owns(v) => Owns(v)'
    BY <2>2, <2>3 DEF Owns, Kind, Exhausted
  <2>7. Owned => Owned'
    BY <2>4, <2>5, <2>6, <1>o, Zenon DEF Owned
  <2> QED BY <2>2, <2>7 DEF Owner
<1>3. CASE Enqueue(w)
  <2>1. UNCHANGED <<producer, held, seen, status, crashes, drops>> /\ pc[w] = "enqueue"
    BY <1>3 DEF Enqueue, document, counts
  <2>2. \A v \in Workers \ {w} : pc'[v] = pc[v]
    BY <1>3 DEF Enqueue, Goto, Hands
  <2>3. ASSUME status \in Stuck, Owns(w) PROVE Owned'
    <3>1. Kind(w) \in Kinds \ {"artifacts", "profile"} /\ status # "gone"
      BY <2>1, <2>3, HeldJob DEF Owns, HandlerControl, Stuck
    <3>2. CASE Kind(w) = "embed" \/ Kind(w) = "extract"
      <4>1. pc'[w] = "mark"
        BY <1>3, <2>1, <3>2 DEF Enqueue, Goto, Hands, Handed
      <4> QED BY <1>o, <2>1, <2>3, <4>1 DEF Owns, Kind
    <3>3. CASE Kind(w) = "classify"
      <4>1. JobOwns'
        BY <1>3, <3>1, <3>3, EnqueueWaits DEF JobOwns, Successor
      <4> QED BY <4>1 DEF Owned
    <3> QED BY <3>1, <3>2, <3>3 DEF Kinds
  <2> QED BY <1>3, <1>k, <2>1, <2>2, <2>3, EnqueueWaits
<1>4. CASE Acknowledge(w) \/ Reject(w)
  <2>1. UNCHANGED <<producer, status, crashes, drops>> /\ Leave(w)
    BY <1>4 DEF Acknowledge, Reject, document, counts
  <2>2. \A v \in Workers \ {w} : pc'[v] = pc[v] /\ held'[v] = held[v] /\ seen'[v] = seen[v]
    BY <2>1 DEF Leave, Goto, Hands, Sessions
  <2>3. BagToSet(queued) \subseteq BagToSet(queued')
    BY <1>4, ReturnWaits DEF Acknowledge
  <2>4. ASSUME Owns(w) PROVE Owned'
    <3>1. Reject(w) /\ ~Exhausted(w) /\ Kind(w) # "profile"
      BY <1>4, <2>4 DEF Owns, Acknowledge, Reject
    <3>2. held[w] \in BagToSet(queued')
      BY <3>1, ReturnWaits
    <3>3. JobOwns'
      BY <3>1, <3>2 DEF JobOwns, Kind
    <3> QED BY <3>3 DEF Owned
  <2> QED BY <1>k, <2>1, <2>2, <2>3, <2>4
<1>5. CASE Lapse(w)
  <2>1. UNCHANGED <<producer, status, crashes, drops, pc, held, seen>>
    BY <1>5 DEF Lapse, document, local
  <2>2. BagToSet(queued) \subseteq BagToSet(queued')
    BY <1>5, ReturnWaits
  <2>3. Owns(w) => Owns(w)'
    BY <2>1 DEF Owns, Kind, Exhausted
  <2> QED BY <1>k, <1>o, <2>1, <2>2, <2>3
<1>6. CASE Crash(w)
  <2>1. crashes' = crashes + 1 /\ crashes \in Nat
    BY <1>6 DEF Crash, Counts
  <2> QED BY <2>1 DEF Owner
<1> QED
  BY <1>1, <1>2, <1>3, <1>4, <1>5, <1>6 DEF Handle, Step

------------------------------------------------------------------------------
(***************************************************************************)
(* The inductive invariant of the pipeline, and what it comes to.          *)
(***************************************************************************)
Inv == Typed /\ Late /\ Kept /\ Reclaimed /\ Owner

LEMMA InvInit == Init => Inv
<1> SUFFICES ASSUME Init PROVE Inv
  OBVIOUS
<1>1. Typed
  BY TypeInit
<1>2. \A u : ~Reading(u)
  BY BagEmpty DEF Init, Reading, Waiting, InHand
<1>3. ~Placing /\ staged = {} /\ status \notin Stuck
  BY DEF Init, Placing, Stuck
<1> QED BY <1>1, <1>2, <1>3 DEF Inv, Late, Kept, Reclaimed, Owner

LEMMA InvStep == Inv /\ [Next]_vars => Inv'
<1> SUFFICES ASSUME Inv, [Next]_vars PROVE Inv'
  OBVIOUS
<1>1. Typed'
  BY TypeStep DEF Inv
<1>2. Late' /\ Kept' /\ Reclaimed'
  BY LateStep, KeptStep, ReclaimedStep DEF Inv
<1>3. Owner'
  <2>1. CASE UNCHANGED vars
    BY <2>1 DEF Inv, Owner, Owned, CallOwns, JobOwns, Owns, Kind, Exhausted, vars, document, local, counts
  <2> QED BY <2>1, ProduceOwner, HandlerOwner DEF Inv, Next
<1> QED BY <1>1, <1>2, <1>3 DEF Inv

LEMMA Invariant == Spec => []Inv
BY InvInit, InvStep, PTL DEF Spec

\* TypeOK: what every variable of the pipeline holds.
THEOREM TypeCorrect == Spec => []TypeOK
<1>1. Inv => TypeOK
  BY TypeParts DEF Inv, Typed
<1> QED BY <1>1, Invariant, PTL

\* A staged file is there as long as some job reads it, and, once nothing is left to
\* do, it remains only of an upload that was given up: whatever is delivered twice,
\* fails, is dropped or dies, and however many uploads and workers there are.
THEOREM FilesAreKept == Spec => []FilesFollowJobs
<1>1. Inv => FileKept
  <2> SUFFICES ASSUME Inv, status # "gone" PROVE FileKept
    BY DEF FileKept
  <2>1. \A u \in 0..MaxUploads : Reading(u) => u \in staged \cup extracted
    BY DEF Inv, Kept
  <2>2. ASSUME NEW job \in BagToSet(queued), Reads(job) PROVE job.upload \in staged
    <3>1. job.upload \in 0..MaxUploads
      BY <2>2 DEF Inv, Typed, Queue, Job
    <3> QED BY <2>1, <2>2, <3>1 DEF Reads, Reading, Waiting, ReadKinds
  <2>3. ASSUME NEW w \in Workers, pc[w] # "idle", Reads(held[w]) PROVE held[w].upload \in staged
    <3>1. held[w].upload \in 0..MaxUploads
      BY <2>3, HeldJob DEF Inv, Typed
    <3> QED BY <2>1, <2>3, <3>1 DEF Reads, Reading, InHand, ReadKinds, Kind
  <2> QED BY <2>2, <2>3 DEF FileKept
<1>2. Inv => FilesReclaimed
  <2> SUFFICES ASSUME Inv, Quiet, status # "gone" PROVE staged \subseteq abandoned
    BY DEF FilesReclaimed
  <2>1. \A u : ~Cared(u)
    BY BagEmpty DEF Quiet, Cared, Placing, Waiting, Carries
  <2> QED BY <2>1 DEF Inv, Reclaimed
<1>3. Inv => FilesFollowJobs
  BY <1>1, <1>2 DEF FilesFollowJobs
<1> QED BY <1>3, Invariant, PTL

\* While no process has died and no gate has dropped a job, a status committed before
\* its work never outlives everyone who would write the next one.
THEOREM StartedIsOwned == Spec => []StartedNotStuck
<1>1. Inv => StartedNotStuck
  <2> SUFFICES ASSUME Inv, crashes + drops = 0, status \in Stuck PROVE InFlight
    BY DEF StartedNotStuck, Stuck
  <2>1. crashes = 0 /\ drops = 0
    BY DEF Inv, Typed, Counts
  <2>2. CASE CallOwns
    BY <2>2 DEF CallOwns, InFlight
  <2>3. CASE JobOwns
    BY <2>3, BagEmpty DEF JobOwns, InFlight
  <2>4. CASE \E w \in Workers : Owns(w)
    BY <2>4 DEF Owns, InFlight, Underway
  <2> QED BY <2>1, <2>2, <2>3, <2>4 DEF Inv, Owner, Owned
<1> QED BY <1>1, Invariant, PTL

=============================================================================
