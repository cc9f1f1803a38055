--------------------------- MODULE KnowledgeBases ---------------------------
(***************************************************************************)
(* Knowledge bases as rows: services/knowledge_base_service.py with the    *)
(* endpoints of api/knowledge_bases.py, the limit of billing/enforcement.py*)
(* and imports (services/kb_import_export_service.py), which run as tasks  *)
(* of an API process.                                                      *)
(***************************************************************************)
EXTENDS Integers, FiniteSets

CONSTANTS Kbs, Creators, Servers, Owners, Names,
          KbCap,      \* kb_count_limit
          Batches,    \* batches of an archive
          MaxServed, MaxDeaths,  \* bound the requests and the deaths of processes
          NoBase

VARIABLES kb,       \* id -> its row, or NoBase: [slug, owner, personal, status, imported], the
                    \* batches it holds, and, as history, whether its status is the word of a
                    \* person and whether its import was dropped
          room,     \* the request that holds billing_state, or NoBase
          creating, \* request -> [id, slug, owner, personal, step], or NoBase
          import,   \* id -> [server, at, done, seen]: the import task, with the status
                    \* that its session has loaded, or NoBase
          archive,  \* the archives on disk
          kbServed, deaths

kbVars == <<kb, room, creating, import, archive, kbServed, deaths>>

KbInit ==
  /\ kb = [k \in Kbs |-> NoBase] /\ room = NoBase
  /\ creating = [r \in Creators |-> NoBase]
  /\ import = [k \in Kbs |-> NoBase] /\ archive = {}
  /\ kbServed = 0 /\ deaths = 0

Rows == {k \in Kbs : kb[k] # NoBase}

\* An id is chosen for a new row: which of those nobody knows does not matter.
FreshIds == {k \in Kbs : /\ kb[k] = NoBase /\ import[k] = NoBase /\ k \notin archive
                      /\ \A r \in Creators : creating[r] # NoBase => creating[r].id # k}
UnusedId(k) == k \in FreshIds /\ k = CHOOSE x \in FreshIds : TRUE

Serve == kbServed < MaxServed /\ kbServed' = kbServed + 1

NewRow(slug, o, personal, status, imported) ==
  [slug |-> slug, owner |-> o, personal |-> personal, status |-> status, imported |-> imported,
   batches |-> 0, byHand |-> FALSE, dropped |-> FALSE]

\* slugs are unique (uq_knowledge_bases_tenant_slug); an owner's personal one is
\* made of the owner.
SlugFree(s) == \A k \in Rows : kb[k].slug # s

PersonalOf(o) == {k \in Rows : kb[k].owner = o /\ kb[k].personal}

-----------------------------------------------------------------------------
(* create_knowledge_base and ensure_personal_knowledge_base. *)

BeginCreate(r, k, slug, o, personal) ==
  /\ creating[r] = NoBase /\ UnusedId(k) /\ Serve
  /\ creating' = [creating EXCEPT ![r] = [id |-> k, slug |-> slug, owner |-> o,
                                          personal |-> personal, step |-> "room"]]
  /\ UNCHANGED <<kb, room, import, archive, deaths>>

Create(r, k, o, name) == SlugFree(name) /\ BeginCreate(r, k, name, o, FALSE)
EnsurePersonal(r, k, o) == PersonalOf(o) = {} /\ BeginCreate(r, k, o, o, TRUE)

Leave(r) ==
  /\ creating' = [creating EXCEPT ![r] = NoBase]
  /\ room' = IF room = r THEN NoBase ELSE room

LockNothing(r) == UNCHANGED room

\* get_for_update: the row of billing_state, until the transaction ends.
LockRoom(r) == room = NoBase /\ room' = r

\* assert_kb_count_under_limit
Admitted(r) ==
  /\ creating[r] # NoBase /\ creating[r].step = "room"
  /\ Cardinality(Rows) < KbCap
  /\ LockRoom(r)
  /\ creating' = [creating EXCEPT ![r].step = "insert"]
  /\ UNCHANGED <<kb, import, archive, kbServed, deaths>>

NoRoom(r) ==
  /\ creating[r] # NoBase /\ creating[r].step = "room"
  /\ room = NoBase /\ Cardinality(Rows) >= KbCap
  /\ Leave(r)
  /\ UNCHANGED <<kb, import, archive, kbServed, deaths>>

\* The insert is committed, or meets the constraint: then an error is returned,
\* or the personal knowledge base that another request has made.
Insert(r) ==
  /\ creating[r] # NoBase /\ creating[r].step = "insert"
  /\ LET c == creating[r]
     IN kb' = IF SlugFree(c.slug)
              THEN [kb EXCEPT ![c.id] = NewRow(c.slug, c.owner, c.personal, "active", FALSE)]
              ELSE kb
  /\ Leave(r)
  /\ UNCHANGED <<import, archive, kbServed, deaths>>

-----------------------------------------------------------------------------
(* Changes of one row. *)

\* update_knowledge_base
Rename(k, name) ==
  /\ k \in Rows /\ SlugFree(name) /\ Serve
  /\ kb' = [kb EXCEPT ![k].slug = name]
  /\ UNCHANGED <<room, creating, import, archive, deaths>>

\* set_knowledge_base_status: an owner or administrator says so.
SetStatus(k, status) ==
  /\ k \in Rows /\ kb[k].status # status /\ Serve
  /\ kb' = [kb EXCEPT ![k].status = status, ![k].byHand = TRUE]
  /\ UNCHANGED <<room, creating, import, archive, deaths>>

\* delete_knowledge_base: documents and chunks go with the row; a task that
\* imports into it is not told.
DeleteKb(k) ==
  /\ k \in Rows /\ Serve
  /\ kb' = [kb EXCEPT ![k] = NoBase]
  /\ UNCHANGED <<room, creating, import, archive, deaths>>

-----------------------------------------------------------------------------
(* Imports. *)

\* start_import takes no lock and no limit; _resolve_slug makes a name of its own
\* (k here) when the one of the archive is taken.
StartImport(k, p, o, name) ==
  /\ UnusedId(k) /\ Serve
  /\ kb' = [kb EXCEPT ![k] = NewRow(IF SlugFree(name) THEN name ELSE k, o, FALSE, "importing", TRUE)]
  /\ archive' = archive \cup {k}
  /\ import' = [import EXCEPT ![k] = [server |-> p, at |-> "queued", done |-> 0, seen |-> NoBase]]
  /\ UNCHANGED <<room, creating, deaths>>

Importing(k, at) == import[k] # NoBase /\ import[k].at = at

\* execute_import loads the row into its session; if its status has changed, the
\* task ends and leaves the archive.
TaskBegins(k) ==
  /\ Importing(k, "queued")
  /\ import' = IF k \in Rows /\ kb[k].status = "importing"
               THEN [import EXCEPT ![k].at = "rows", ![k].seen = kb[k].status] ELSE [import EXCEPT ![k] = NoBase]
  /\ UNCHANGED <<kb, room, creating, archive, kbServed, deaths>>

\* A batch of rows is committed.
ImportBatch(k) ==
  /\ Importing(k, "rows") /\ import[k].done < Batches /\ k \in Rows
  /\ import' = [import EXCEPT ![k].done = @ + 1]
  /\ kb' = [kb EXCEPT ![k].batches = @ + 1]
  /\ UNCHANGED <<room, creating, archive, kbServed, deaths>>

TaskEnds(k) ==
  /\ import' = [import EXCEPT ![k] = NoBase]
  /\ archive' = archive \ {k}
  /\ UNCHANGED <<room, creating, kbServed, deaths>>

\* _mark_import_failed: the row is gone, or something raised. The mark is not
\* written when that left the transaction of the session aborted.
ImportFails(k, written) ==
  /\ Importing(k, "rows")
  /\ kb' = IF k \notin Rows THEN kb
           ELSE IF written THEN [kb EXCEPT ![k].status = "error"]
           ELSE [kb EXCEPT ![k].dropped = TRUE]
  /\ TaskEnds(k)

\* _finalize_import selects the row again, but its session keeps the one it has
\* loaded (expire_on_commit is off): what others made of the status is not seen,
\* and is overwritten.
Activate(k) ==
  kb' = IF import[k].seen = "importing" THEN [kb EXCEPT ![k].status = "active"] ELSE kb

ImportFinishes(k) ==
  /\ Importing(k, "rows") /\ import[k].done = Batches /\ k \in Rows
  /\ Activate(k)
  /\ TaskEnds(k)

\* A process dies, and its tasks with it; requests of it are rolled back.
ServerDies(p) ==
  /\ deaths < MaxDeaths /\ deaths' = deaths + 1
  /\ LET theirs == {k \in Kbs : import[k] # NoBase /\ import[k].server = p}
     IN /\ import' = [k \in Kbs |-> IF k \in theirs THEN NoBase ELSE import[k]]
        /\ kb' = [k \in Kbs |-> IF k \in theirs \cap Rows THEN [kb[k] EXCEPT !.dropped = TRUE] ELSE kb[k]]
  /\ UNCHANGED <<room, creating, archive, kbServed>>

\* mark_stale_imports_as_error: any process that starts marks every import, those
\* that other processes are at included.
ServerStarts ==
  /\ \E k \in Rows : kb[k].status = "importing"
  /\ kb' = [k \in Kbs |-> IF k \in Rows /\ kb[k].status = "importing"
                          THEN [kb[k] EXCEPT !.status = "error"] ELSE kb[k]]
  /\ UNCHANGED <<room, creating, import, archive, kbServed, deaths>>

KbNext ==
  \/ \E r \in Creators :
       \/ \E k \in Kbs, o \in Owners : (\E name \in Names : Create(r, k, o, name)) \/ EnsurePersonal(r, k, o)
       \/ Admitted(r) \/ NoRoom(r) \/ Insert(r)
  \/ \E k \in Kbs :
       \/ \E name \in Names : Rename(k, name)
       \/ \E status \in {"active", "inactive", "error"} : SetStatus(k, status)
       \/ \E p \in Servers, o \in Owners, name \in Names : StartImport(k, p, o, name)
       \/ DeleteKb(k) \/ TaskBegins(k) \/ ImportBatch(k) \/ ImportFinishes(k)
       \/ \E written \in BOOLEAN : ImportFails(k, written)
  \/ \E p \in Servers : ServerDies(p)
  \/ ServerStarts

KbSpec == KbInit /\ [][KbNext]_kbVars

-----------------------------------------------------------------------------
(* Properties. *)

\* Creators that create at once do not together exceed the limit (the count is
\* taken under the lock of billing_state, held until the commit); only imports,
\* which do not ask, go beyond it.
WithinKbCap == Cardinality({k \in Rows : ~kb[k].imported}) <= KbCap

\* Whatever processes start, die, mark and delete meanwhile: an imported knowledge
\* base that shows importing has a task that will end it, unless that was dropped (by
\* a death, or as its failure could not be written); one that shows active, without a
\* person having set its status, holds all that its archive held (execute_import,
\* mark_stale_imports_as_error, _finalize_import).
ImportsAccounted == \A k \in Rows : kb[k].imported =>
  /\ kb[k].status = "importing" => import[k] # NoBase \/ kb[k].dropped
  /\ kb[k].status = "active" /\ ~kb[k].byHand => kb[k].batches = Batches

\* What requests and imports may not do to each other.
KbsHold == WithinKbCap /\ ImportsAccounted
=============================================================================
