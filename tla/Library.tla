------------------------------- MODULE Library -------------------------------
(***************************************************************************)
(* The library as users see and change it: knowledge bases and documents   *)
(* (api/knowledge_bases.py, api/query.py, KnowledgeBaseService,            *)
(* KbSearchService), the policies and groups that decide who sees them     *)
(* (PolicyService, RBACService), and embedding a document anew.            *)
(*                                                                         *)
(* A decision is made on the policies as they are: how stale the cache of  *)
(* a process may be is in PolicyCache.  Wildcards of a statement are the   *)
(* sets of what they match.  Limits are in KnowledgeBases, counts in       *)
(* DocumentCounts, and the jobs themselves in IngestionPipeline.           *)
(***************************************************************************)
EXTENDS Integers, FiniteSets

CONSTANTS Role,          \* user -> "regular", "power" or "admin"
          Team,          \* the group
          Kbs, Docs, Slugs,
          Policies,      \* names
          PolicyInputs,  \* records [effect, actors, actions, slugs, active] that an admin may save
          Reruns,        \* requests to embed a document anew
          MaxChanges, MaxJobs, Absent

VARIABLES kb,        \* id -> [slug, owner, personal, status, rag], or Absent
          doc,       \* id -> [kb, manual, status, text], or Absent
          policy,    \* name -> record, or Absent
          group,     \* "none", "inactive" or "active"
          member,    \* user -> "none", "removed" or "active"
          rerun,     \* request -> the document that it embeds anew, or Absent
          jobs,      \* document -> jobs on the queue that embed it
          doubtful,  \* ghost: documents whose job is there though putting it there raised
          changes

libraryVars == <<kb, doc, policy, group, member, rerun, jobs, doubtful, changes>>

Persons == DOMAIN Role
Administers(u) == Role[u] = "admin"
PowerUser(u) == Role[u] \in {"admin", "power"}
There(k) == kb[k] # Absent
Owns(u, k) == kb[k].owner = u

\* Each knowledge base may override what the settings say.
Unset == [threshold |-> Absent, words |-> Absent]

LibraryInit ==
  /\ kb = [k \in Kbs |-> Absent] /\ doc = [d \in Docs |-> Absent] /\ policy = [p \in Policies |-> Absent]
  /\ group = "none" /\ member = [u \in Persons |-> "none"]
  /\ rerun = [r \in Reruns |-> Absent] /\ jobs = [d \in Docs |-> 0] /\ doubtful = {} /\ changes = 0

Change == changes < MaxChanges /\ changes' = changes + 1

-----------------------------------------------------------------------------
(* Who may. *)

\* _resolve_policy_ids: whether the group is active does not matter.
Groups(u) == IF group # "none" /\ member[u] = "active" THEN {Team} ELSE {}
Applies(p, u) == policy[p] # Absent /\ policy[p].active /\ policy[p].actors \cap ({u} \cup Groups(u)) # {}
Matching(u, action, slug) ==
  {p \in Policies : Applies(p, u) /\ action \in policy[p].actions /\ slug \in policy[p].slugs}

\* check: a denial wins, and without any allowance there is none.
Check(u, action, slug) ==
  LET effects == {policy[p].effect : p \in Matching(u, action, slug)}
  IN Administers(u) \/ effects = {"allow"}

\* get_denied_resources, for all of a kind at once.
GetDenied(u, action, slugs) ==
  IF Administers(u) THEN {}
  ELSE IF {p \in Policies : Applies(p, u)} = {} THEN slugs
  ELSE {s \in slugs : \/ \E p \in Matching(u, action, s) : policy[p].effect = "deny"
                      \/ ~\E p \in Matching(u, action, s) : policy[p].effect = "allow"}

\* get_effective_policies: what an admin is told applies to a user.
EffectivePolicies(u) ==
  LET actors == {u} \cup (IF member[u] = "active" THEN {Team} ELSE {})
  IN {p \in Policies : policy[p] # Absent /\ policy[p].actors \cap actors # {} /\ policy[p].active}

\* require_kb_write_access, require_kb_delete_access
MayWrite(u, k) == There(k) /\ (PowerUser(u) \/ Owns(u, k) \/ Check(u, "kb.write", kb[k].slug))
MayDelete(u, k) == There(k) /\ (Administers(u) \/ Owns(u, k) \/ Check(u, "kb.delete", kb[k].slug))

-----------------------------------------------------------------------------
(* What users are shown. *)

\* get_knowledge_base of the service: owners read their own whatever the policies say.
ReadsKb(u, k) == There(k) /\ (Owns(u, k) \/ Check(u, "kb.read", kb[k].slug))

\* _get_denied_kb_slugs
SlugsForgettingOwners(u, slugs) == GetDenied(u, "kb.read", slugs)  \* Slip
DeniedSlugs(u, slugs) ==
  GetDenied(u, "kb.read", slugs) \ {kb[k].slug : k \in {j \in Kbs : There(j) /\ Owns(u, j)}}

\* list_knowledge_bases, all pages; filter_accessible_kb_ids; check_kb_read_access
AllSlugs == {kb[k].slug : k \in {j \in Kbs : There(j)}}
ListKnowledgeBases(u) == {k \in Kbs : There(k) /\ kb[k].slug \notin DeniedSlugs(u, AllSlugs)}
ListedItems(u) == {[id |-> k, status |-> kb[k].status] : k \in ListKnowledgeBases(u)}
FilterAccessible(u, ks) == {k \in ks : kb[k].slug \notin DeniedSlugs(u, {kb[j].slug : j \in ks})}
CheckReadAccess(u, ks) ==
  /\ \A k \in ks : There(k)
  /\ DeniedSlugs(u, {kb[k].slug : k \in ks}) = {}

\* What shows one knowledge base, each in a way of its own.
GetKnowledgeBase(u, k) == IF ReadsKb(u, k) THEN {k} ELSE {}
GetSummary(u, k) == IF ReadsKb(u, k) THEN {k} ELSE {}
GetPersonal(u) == {k \in Kbs : There(k) /\ kb[k].personal /\ Owns(u, k)}
GetRagConfig(u, k) == IF PowerUser(u) /\ ReadsKb(u, k) THEN {k} ELSE {}
GetReEmbeddingStatus(u, k) == IF PowerUser(u) /\ ReadsKb(u, k) THEN {k} ELSE {}
GetQueryStats(u, k) == IF ReadsKb(u, k) THEN {k} ELSE {}
KbsShown(u, k) ==
  UNION {GetKnowledgeBase(u, k), GetSummary(u, k), GetPersonal(u) \cap {k}, GetRagConfig(u, k),
         GetReEmbeddingStatus(u, k), GetQueryStats(u, k)}

DocsOf(k) == {d \in Docs : doc[d] # Absent /\ doc[d].kb = k}

\* get_documents, get_document of the service, and the endpoints of both
GetDocuments(u, k) == IF ReadsKb(u, k) THEN DocsOf(k) ELSE {}
ListDocuments(u, k) == GetDocuments(u, k)
ExtractionSummary(u, k) == GetDocuments(u, k)
QueryListDocuments(u, k) == GetDocuments(u, k)
GetDocument(u, k, d) == IF ReadsKb(u, k) THEN {d} \cap DocsOf(k) ELSE {}
Preview(u, k, d) == GetDocument(u, k, d)
ExtractionDetails(u, k, d) == GetDocument(u, k, d)
DocumentDetails(u, k, d) == GetDocument(u, k, d)
\* The document is fetched by its id alone, and then compared with the path.
GetChunks(u, k, d) == {e \in {d} : ReadsKb(u, k) /\ doc[e] # Absent /\ doc[e].kb = k}
QueryDocuments(u, k) == IF ReadsKb(u, k) THEN DocsOf(k) ELSE {}
Export(u, k) == IF PowerUser(u) /\ ReadsKb(u, k) THEN DocsOf(k) ELSE {}

\* A plugin searches the knowledge bases it is bound to, all or none.
FieldSearch(ks) == UNION {DocsOf(k) : k \in ks}
SearchBound(u, ks) == IF ks # {} /\ CheckReadAccess(u, ks) THEN FieldSearch(ks) ELSE {}

DocsShown(u, k) ==
  UNION ({ListDocuments(u, k), ExtractionSummary(u, k), QueryListDocuments(u, k),
          QueryDocuments(u, k), Export(u, k), SearchBound(u, {k})}
         \cup UNION {{Preview(u, k, d), ExtractionDetails(u, k, d), DocumentDetails(u, k, d),
                      GetChunks(u, k, d)} : d \in Docs})

\* get_rag_config: what is not set falls back to the settings.
RagConfig(k) ==
  [f \in DOMAIN Unset |-> IF kb[k].rag[f] = Absent THEN "default" ELSE kb[k].rag[f]]

-----------------------------------------------------------------------------
(* Changes of policies and groups: only admins make them. *)

KnownActors == Persons \cup (IF group = "none" THEN {} ELSE {Team})
ValidActors(input) == input.actors \subseteq KnownActors

CreatePolicy(p, input) ==
  /\ Change /\ policy[p] = Absent /\ ValidActors(input)
  /\ policy' = [policy EXCEPT ![p] = input]
  /\ UNCHANGED <<kb, doc, group, member, rerun, jobs, doubtful>>

UpdatePolicy(p, input) ==
  /\ Change /\ policy[p] # Absent /\ policy[p] # input /\ ValidActors(input)
  /\ policy' = [policy EXCEPT ![p] = input]
  /\ UNCHANGED <<kb, doc, group, member, rerun, jobs, doubtful>>

DeletePolicy(p) ==
  /\ Change /\ policy[p] # Absent
  /\ policy' = [policy EXCEPT ![p] = Absent]
  /\ UNCHANGED <<kb, doc, group, member, rerun, jobs, doubtful>>

\* Also of a group the id is new: no policy knows it.
CreateGroup ==
  /\ Change /\ group = "none" /\ group' = "active"
  /\ \A p \in Policies : policy[p] # Absent => Team \notin policy[p].actors
  /\ UNCHANGED <<kb, doc, policy, member, rerun, jobs, doubtful>>

UpdateGroup ==
  /\ Change /\ group # "none" /\ group' = IF group = "active" THEN "inactive" ELSE "active"
  /\ UNCHANGED <<kb, doc, policy, member, rerun, jobs, doubtful>>

\* The memberships go with the group; bindings to it stay behind.
DeleteGroup ==
  /\ Change /\ group # "none" /\ group' = "none"
  /\ member' = [u \in Persons |-> "none"]
  /\ UNCHANGED <<kb, doc, policy, rerun, jobs, doubtful>>

\* A membership that was removed is taken up again.
AddToGroup(u) ==
  /\ Change /\ group # "none" /\ member[u] # "active"
  /\ member' = [member EXCEPT ![u] = "active"]
  /\ UNCHANGED <<kb, doc, policy, group, rerun, jobs, doubtful>>

RemoveFromGroup(u) ==
  /\ Change /\ member[u] = "active"
  /\ member' = [member EXCEPT ![u] = "removed"]
  /\ UNCHANGED <<kb, doc, policy, group, rerun, jobs, doubtful>>

ListMembers == {u \in Persons : member[u] = "active"}
ListGroups(activeOnly) == {g \in {Team} : group = "active" \/ (group = "inactive" /\ ~activeOnly)}

-----------------------------------------------------------------------------
(* Changes of knowledge bases and documents. *)

SlugTaken(slug, except) == \E k \in Kbs \ {except} : There(k) /\ kb[k].slug = slug

Create(u, k, slug, personal) ==
  /\ Change /\ kb[k] = Absent /\ ~SlugTaken(slug, k)
  /\ personal => GetPersonal(u) = {}
  /\ PowerUser(u) \/ personal
  /\ kb' = [kb EXCEPT ![k] = [slug |-> slug, owner |-> u, personal |-> personal,
                              status |-> "active", rag |-> Unset]]
  /\ UNCHANGED <<doc, policy, group, member, rerun, jobs, doubtful>>

\* A new name is a new slug, and policies name slugs.
Rename(u, k, slug) ==
  /\ Change /\ There(k) /\ PowerUser(u) /\ slug # kb[k].slug /\ ~SlugTaken(slug, k)
  /\ kb' = [kb EXCEPT ![k].slug = slug]
  /\ UNCHANGED <<doc, policy, group, member, rerun, jobs, doubtful>>

SetStatus(u, k, status) ==
  /\ Change /\ There(k) /\ PowerUser(u) /\ status # kb[k].status
  /\ kb' = [kb EXCEPT ![k].status = status]
  /\ UNCHANGED <<doc, policy, group, member, rerun, jobs, doubtful>>

\* update_rag_config: minimum_query_words and max_chunks_per_document are accepted and dropped.
UpdateRagConfig(u, k, config) ==
  /\ Change /\ There(k) /\ PowerUser(u) /\ RagConfig(k).threshold # config.threshold
  /\ kb' = [kb EXCEPT ![k].rag.threshold = config.threshold]
  /\ UNCHANGED <<doc, policy, group, member, rerun, jobs, doubtful>>

DeleteKb(u, k) ==
  /\ Change /\ MayDelete(u, k) /\ (kb[k].personal => Administers(u))
  /\ kb' = [kb EXCEPT ![k] = Absent]
  /\ doc' = [d \in Docs |-> IF d \in DocsOf(k) THEN Absent ELSE doc[d]]
  /\ UNCHANGED <<policy, group, member, rerun, jobs, doubtful>>

\* A document that came through the pipeline, or did not; an id is new when nothing knows it.
Arrive(d, k, manual, status, text) ==
  /\ Change /\ There(k) /\ doc[d] = Absent /\ jobs[d] = 0 /\ \A r \in Reruns : rerun[r] # d
  /\ text = "none" => status = "error"
  /\ doc' = [doc EXCEPT ![d] = [kb |-> k, manual |-> manual, status |-> status, text |-> text]]
  /\ doubtful' = doubtful \ {d}
  /\ UNCHANGED <<kb, policy, group, member, rerun, jobs>>

DeleteDocument(u, d) ==
  /\ Change /\ doc[d] # Absent /\ MayDelete(u, doc[d].kb) /\ doc[d].manual
  /\ doc' = [doc EXCEPT ![d] = Absent]
  /\ UNCHANGED <<kb, policy, group, member, rerun, jobs, doubtful>>

\* reingest_document: the row is locked while its status is read and set, so that of two
\* requests the second finds it busy.
Terminal(d) == doc[d].status \in {"ready", "error"}
Reingest(r, u, d) ==
  /\ rerun[r] = Absent /\ doc[d] # Absent /\ MayWrite(u, doc[d].kb)
  /\ doc[d].manual /\ Terminal(d) /\ doc[d].text # "none"
  /\ doc' = [doc EXCEPT ![d].status = "embedding"]
  /\ rerun' = [rerun EXCEPT ![r] = d]
  /\ UNCHANGED <<kb, policy, group, member, jobs, doubtful, changes>>

EnqueueEmbed(r) ==
  /\ rerun[r] # Absent /\ jobs[rerun[r]] < MaxJobs
  /\ jobs' = [jobs EXCEPT ![rerun[r]] = @ + 1]
  /\ rerun' = [rerun EXCEPT ![r] = Absent]
  /\ UNCHANGED <<kb, doc, policy, group, member, doubtful, changes>>

\* The queue cannot be reached, or answers too late: the row must not stay busy.
MarkError(d) == doc' = [doc EXCEPT ![d] = IF @ = Absent THEN Absent ELSE [@ EXCEPT !.status = "error"]]
EnqueueFails(r, stored) ==
  /\ rerun[r] # Absent /\ Change
  /\ MarkError(rerun[r])
  /\ IF stored
     THEN /\ jobs[rerun[r]] < MaxJobs /\ jobs' = [jobs EXCEPT ![rerun[r]] = @ + 1]
          /\ doubtful' = doubtful \cup {rerun[r]}
     ELSE UNCHANGED <<jobs, doubtful>>
  /\ rerun' = [rerun EXCEPT ![r] = Absent]
  /\ UNCHANGED <<kb, policy, group, member>>

\* The job ends, with chunks or with an error; that of a deleted document does nothing.
EmbedEnds(d, status) ==
  /\ jobs[d] > 0 /\ jobs' = [jobs EXCEPT ![d] = @ - 1]
  /\ doc' = IF doc[d] = Absent THEN doc ELSE [doc EXCEPT ![d].status = status]
  /\ UNCHANGED <<kb, policy, group, member, rerun, doubtful, changes>>

LibraryNext ==
  \/ \E p \in Policies : \/ DeletePolicy(p)
                         \/ \E input \in PolicyInputs : CreatePolicy(p, input) \/ UpdatePolicy(p, input)
  \/ CreateGroup \/ UpdateGroup \/ DeleteGroup
  \/ \E u \in Persons :
       \/ AddToGroup(u) \/ RemoveFromGroup(u)
       \/ \E k \in Kbs :
            \/ \E slug \in Slugs : Rename(u, k, slug) \/ \E personal \in BOOLEAN : Create(u, k, slug, personal)
            \/ \E status \in {"active", "inactive"} : SetStatus(u, k, status)
            \/ UpdateRagConfig(u, k, [threshold |-> "high", words |-> "few"])
            \/ DeleteKb(u, k)
       \/ \E d \in Docs : DeleteDocument(u, d) \/ \E r \in Reruns : Reingest(r, u, d)
  \/ \E d \in Docs, k \in Kbs, manual \in BOOLEAN, status \in {"pending", "ready", "error"},
        text \in {"none", "text"} : Arrive(d, k, manual, status, text)
  \/ \E r \in Reruns : EnqueueEmbed(r) \/ \E stored \in BOOLEAN : EnqueueFails(r, stored)
  \/ \E d \in Docs, status \in {"ready", "error"} : EmbedEnds(d, status)

LibrarySpec == LibraryInit /\ [][LibraryNext]_libraryVars
-----------------------------------------------------------------------------
\* The endpoints that show a knowledge base or its documents, the list, the check of the
\* chat and the search of plugins decide alike, although they ask the policies in two
\* ways, and agree with the policies and the members that an admin is shown.
DecisionsAgree ==
  \A u \in Persons, k \in Kbs : There(k) =>
    /\ ReadsKb(u, k) <=> k \in {item.id : item \in ListedItems(u)}
    /\ ReadsKb(u, k) <=> CheckReadAccess(u, {k})
    /\ ReadsKb(u, k) <=> k \in FilterAccessible(u, {k})
    /\ KbsShown(u, k) # {} \/ DocsShown(u, k) # {} => ReadsKb(u, k)
    /\ DocsShown(u, k) \subseteq DocsOf(k)
    /\ ReadsKb(u, k) => Administers(u) \/ Owns(u, k) \/ EffectivePolicies(u) # {}
    /\ Groups(u) # {} => u \in ListMembers /\ ListGroups(FALSE) = {Team}

\* A document that is busy because it is embedded anew has one job or a request that is
\* about to enqueue it, never two, save where the queue took a job and raised
\* (knowledge_base_service.py:1104-1108, 1148-1156).
OneRerun ==
  \A d \in Docs : doc[d] # Absent /\ d \notin doubtful =>
    LET pending == jobs[d] + Cardinality({r \in Reruns : rerun[r] = d})
    IN doc[d].status = "embedding" <=> pending = 1

\* The endpoints agree about who sees what, and the requests about who embeds what.
LibraryAgrees == DecisionsAgree /\ OneRerun
=============================================================================
