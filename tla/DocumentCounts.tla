--------------------------- MODULE DocumentCounts ---------------------------
(***************************************************************************)
(* The documents of a knowledge base and the count its row keeps: the      *)
(* upload and delete endpoints of api/knowledge_bases.py, create_or_get_   *)
(* document of services/document_service.py with the limit of              *)
(* billing/enforcement.py, and the statistics that the embedding handler   *)
(* of worker.py recalculates.                                              *)
(***************************************************************************)
EXTENDS Integers, FiniteSets

CONSTANTS Docs, Uploads, DocCap, MaxUploads, MaxDeletes, NoUpload

VARIABLES docs,      \* the rows
          fed,       \* those a feed has brought: they cannot be deleted
          count,     \* document_count of the knowledge base
          holder,    \* the upload that holds billing_state, or NoUpload
          upload,    \* upload -> [doc, feed, step], or NoUpload
          deleting,  \* documents whose deletion is not yet counted
          embedding, \* document -> [step, loaded, n]: its embedding job, or NoUpload
          uploads, deletes

countVars == <<docs, fed, count, holder, upload, deleting, embedding, uploads, deletes>>

CountInit ==
  /\ docs = {} /\ fed = {} /\ count = 0 /\ holder = NoUpload
  /\ upload = [r \in Uploads |-> NoUpload]
  /\ deleting = {} /\ embedding = [d \in Docs |-> NoUpload]
  /\ uploads = 0 /\ deletes = 0

\* A document of a feed, or one that is uploaded; the lookup has not found it.
BeginUpload(r, d, feed) ==
  /\ upload[r] = NoUpload /\ d \notin docs \cup deleting /\ embedding[d] = NoUpload
  /\ uploads < MaxUploads /\ uploads' = uploads + 1
  /\ upload' = [upload EXCEPT ![r] = [doc |-> d, feed |-> feed, step |-> "room"]]
  /\ UNCHANGED <<docs, fed, count, holder, deleting, embedding, deletes>>

\* assert_document_count_under_limit takes billing_state until the commit.
HoldRoom(r) == holder = NoUpload /\ holder' = r

DocAdmitted(r) ==
  /\ upload[r] # NoUpload /\ upload[r].step = "room"
  /\ Cardinality(docs) < DocCap
  /\ HoldRoom(r)
  /\ upload' = [upload EXCEPT ![r].step = "insert"]
  /\ UNCHANGED <<docs, fed, count, deleting, embedding, uploads, deletes>>

DocRefused(r) ==
  /\ upload[r] # NoUpload /\ upload[r].step = "room"
  /\ holder = NoUpload /\ Cardinality(docs) >= DocCap
  /\ upload' = [upload EXCEPT ![r] = NoUpload]
  /\ UNCHANGED <<docs, fed, count, holder, deleting, embedding, uploads, deletes>>

\* The row is committed (once: uq_documents_kb_source_sourceid), and the job that
\* will embed it is enqueued.  Only an upload that has created the row counts it.
InsertDoc(r) ==
  /\ upload[r] # NoUpload /\ upload[r].step = "insert"
  /\ LET d == upload[r].doc
         created == d \notin docs /\ embedding[d] = NoUpload
     IN /\ docs' = docs \cup {d}
        /\ fed' = IF created /\ upload[r].feed THEN fed \cup {d} ELSE fed
        /\ embedding' = IF created THEN [embedding EXCEPT ![d] = [step |-> "queued", loaded |-> 0, n |-> 0]] ELSE embedding
        /\ upload' = [upload EXCEPT ![r] = IF created /\ ~@.feed THEN [@ EXCEPT !.step = "adjust"] ELSE NoUpload]
  /\ holder' = IF holder = r THEN NoUpload ELSE holder
  /\ UNCHANGED <<count, deleting, uploads, deletes>>

\* adjust_document_stats, at the end of the upload
CountUpload(r) ==
  /\ upload[r] # NoUpload /\ upload[r].step = "adjust"
  /\ count' = count + 1
  /\ upload' = [upload EXCEPT ![r] = NoUpload]
  /\ UNCHANGED <<docs, fed, holder, deleting, embedding, uploads, deletes>>

DeleteDoc(d) ==
  /\ d \in docs \ fed /\ deletes < MaxDeletes /\ deletes' = deletes + 1
  /\ docs' = docs \ {d} /\ deleting' = deleting \cup {d}
  /\ UNCHANGED <<fed, count, holder, upload, embedding, uploads>>

CountDelete(d) ==
  /\ d \in deleting
  /\ count' = count - 1 /\ deleting' = deleting \ {d}
  /\ UNCHANGED <<docs, fed, holder, upload, embedding, uploads, deletes>>

\* _handle_embed_job loads the knowledge base and keeps it in its session.
EmbedStarts(d) ==
  /\ embedding[d] # NoUpload /\ embedding[d].step = "queued"
  /\ embedding' = [embedding EXCEPT ![d] = IF d \in docs THEN [step |-> "embed", loaded |-> count, n |-> 0] ELSE NoUpload]
  /\ UNCHANGED <<docs, fed, count, holder, upload, deleting, uploads, deletes>>

\* recalculate_kb_stats counts the rows ...
Recount(d) ==
  /\ embedding[d] # NoUpload /\ embedding[d].step = "embed"
  /\ embedding' = [embedding EXCEPT ![d] = [@ EXCEPT !.step = "write", !.n = Cardinality(docs)]]
  /\ UNCHANGED <<docs, fed, count, holder, upload, deleting, uploads, deletes>>

\* ... and sets the attribute of the loaded object: a value equal to the one
\* loaded is not written.
WriteCount(d) ==
  /\ embedding[d] # NoUpload /\ embedding[d].step = "write"
  /\ count' = IF embedding[d].n = embedding[d].loaded THEN count ELSE embedding[d].n
  /\ embedding' = [embedding EXCEPT ![d] = NoUpload]
  /\ UNCHANGED <<docs, fed, holder, upload, deleting, uploads, deletes>>

CountNext ==
  \/ \E r \in Uploads :
       \/ \E d \in Docs, feed \in BOOLEAN : BeginUpload(r, d, feed)
       \/ DocAdmitted(r) \/ DocRefused(r) \/ InsertDoc(r) \/ CountUpload(r)
  \/ \E d \in Docs : DeleteDoc(d) \/ CountDelete(d) \/ EmbedStarts(d) \/ Recount(d) \/ WriteCount(d)

CountSpec == CountInit /\ [][CountNext]_countVars

-----------------------------------------------------------------------------
(* Properties. *)

\* Uploads at once do not together exceed the limit of documents.
WithinDocCap == Cardinality(docs) <= DocCap

Quiet == (\A r \in Uploads : upload[r] = NoUpload) /\ deleting = {} /\ \A d \in Docs : embedding[d] = NoUpload

\* The comment of upload_documents: recalculate_kb_stats() reconciles
\* document_count authoritatively after embedding.
CountSettles == Quiet => count = Cardinality(docs)
=============================================================================
