# Verification of Shu

TLA+ models of the parts of Shu where steps of several actors meet: the job queue
with its two backends and the workers that consume it, what is built on the queue
(document ingestion, plugin feeds, experiences, re-embedding, mail), and the
services behind the API (accounts, billing, conversations, the library and its
policies, models, provider streams, plugins).  Each model is translated from the
code under `src/backend/src/shu/`; paths below are relative to that directory
unless they start with `src/`.

1. [The system](#1-the-system) - components, state, interactions
2. [What is hard, and what should hold](#2-what-is-hard-and-what-should-hold)
3. [The modules and how they map to the code](#3-the-modules-and-how-they-map-to-the-code)
4. [The runs](#4-the-runs) - what each shows, its bounds and why they suffice
5. [Fairness](#5-fairness)
6. [The proofs](#6-the-proofs)
7. [Disagreements between the code and what is said of it](#7-disagreements-between-the-code-and-what-is-said-of-it)
8. [What is not modelled](#8-what-is-not-modelled)
9. [What is left](#9-what-is-left)

How to run: `tlc -config X.cfg XMC.tla` model-checks (the table of section 4
names the pairs), `tlapm XProofs.tla` checks proofs.  `PROJECT.json` lists
components, runs, hazards and theorems, the source lines every definition stands
for, and, for every checked property, a mutation of the model (a plausible bug)
that breaks it.  In the modules the mutated definitions stand next to the
original ones under a comment that begins with "Slip".

## 1. The system

Shu is a FastAPI backend for chat and retrieval over knowledge bases.  Requests
are handled in API processes; what is long-running is a **job** in a queue,
handled by **workers** that live in the API process or in processes of their own
(`worker.py`), and started by endpoints or by one **scheduler** loop.

```
 endpoints ──┐                          ┌── ingestion handlers ─ database rows, staged files
 scheduler ──┼─ enqueue ─> QueueBackend ─ dequeue ─> Worker ──┼── plugin execution ─── rows, plugins
 handlers  ──┘            (memory|Redis)  <─ ack/reject ┘     ├── re-embedding ─────── rows, vectors
                                                              └── profiling, email, experiences
 endpoints ── services ── rows, caches (memory|Redis), files, Stripe and the control plane,
                          providers of models, remote accounts, plugins and MCP servers
```

| Component | Where | State it keeps | Operations | Module |
|---|---|---|---|---|
| Queue protocol | `core/queue_backend.py` `QueueBackend` | - | enqueue, schedule, dequeue, acknowledge, reject, extend_visibility, peek, counts | AtLeastOnce |
| In-memory backend | `InMemoryQueueBackend` | per queue: a list, a dict of leases, delayed jobs, an event for sleepers | the same, each under one lock | InMemoryQueue |
| Redis backend | `RedisQueueBackend` | per queue: a list, two sorted sets (leases, delays), a payload key per leased job | the same, each a sequence of commands | RedisQueue |
| Worker and capacity limiter | `core/worker.py` | running flag, position in the rotation, current job, permit; semaphores per workload type | run, poll, process, heartbeat, stop on a signal | WorkerPool |
| Ingestion, staging, profiling job | `services/ingestion_service.py`, `services/file_staging_service.py`, `worker.py` | `documents.processing_status`, content, chunks, staged files | ingest a file, text, mail or thread; classify, extract, embed, profile; delete | IngestionPipeline |
| Plugin feeds | `services/plugins_scheduler_service.py`, `worker.py`, `api/plugins_feeds.py` | feeds, executions | tick, claim, execute, sweep, run-now, run-pending, disable | PluginFeed |
| Re-embedding | `re_embedding_handler.py`, `services/knowledge_base_service.py` | `embedding_status`, the JSON `re_embedding_progress`, vectors | trigger, embed a share, count, finalize, recover | ReEmbedding |
| Unified scheduler | `services/scheduler_service.py`, `billing/sync.py` | when each source ran last | tick over tenants and sources | Scheduler |
| Experiences | `services/experience_*` | definitions, runs | edit, share, schedule, run, resume, stream | Experiences, ExperienceDefinitions |
| Email | `email_handler.py`, `services/email_service.py` | audit rows | send with an idempotency key, retry | EmailDelivery |
| Accounts, password reset, verification | `api/auth.py`, `auth/`, `services/password_reset_service.py` and neighbours | users, tokens, sessions | register, sign on, refresh, reset, verify, administer | Accounts |
| Billing state and gate | `billing/billing_state_cache.py`, `billing/enforcement.py` | cached subscription, spent cost | refresh, invalidate, admit | BillingState |
| Usage reports | `billing/service.py` | usage, totals reported | report, reconcile, catch up | UsageReporting |
| Seats | `billing/seat_service.py` and neighbours | quantity at Stripe, flags, users | admit, flag, release, roll over, synchronise | Seats |
| Knowledge bases, imports | `services/knowledge_base_service.py`, `services/kb_import_export_service.py` | rows, import tasks, counts | create, delete, import, count | KnowledgeBases, DocumentCounts, CountLimits |
| Library and policies | `services/policy_*`, `services/rbac_service.py`, `api/knowledge_bases.py` | policies, groups, roles, owners | decide, edit, list, reingest | Library, PolicyCache |
| Conversations and attachments | `services/chat_service.py`, `services/attachment_*`, `services/conversation_automation_service.py` | rows, files, meta | send, title, summarize, upload, view, sweep | Conversations |
| Chat streams | `services/chat_streaming.py` | tasks per variant, messages, usage | stream, stop, disconnect, shut down, regenerate | ChatStreams |
| Provider streams | `llm/client.py`, `services/providers/` | what an adapter accumulates over rounds | stream, retry, call tools, count usage | ProviderStreams |
| Models and prompts | `services/model_configuration_service.py`, `services/prompt_service.py`, `services/side_call_service.py` | providers, models, configurations, prompts, designations, usage rows | edit, assign, call, record | ModelCatalog |
| Host authorization | `api/host_auth.py`, `services/host_auth_service.py` | credentials, identity, subscriptions | exchange, refresh, disconnect | HostAuth |
| Plugin runtime, MCP | `plugins/`, `services/mcp_service.py`, `api/plugins_*` | registry, cached plugins, tool settings, quotas, slots | refresh, resolve, switch, sync, call | Plugins, PluginCalls |
| Plugins of remote sources | `src/plugins/` | cursor, copies of items | ingest | PluginSync |
| Caches, rate limiting | `core/cache_backend.py`, `core/rate_limiting.py` | keys with expiry, windows | get, set, increment, check | CacheBackends, RateLimits |
| Tenants, configuration, search, OCR, embedding, frontend, ... | | | | - |

`PROJECT.json` has the complete list, 42 components, each with its sources, what
is modelled of it and what is not.

How they interact.  Coordination between processes goes through shared stores:
the database (rows, row locks, commits that other sessions see at once), the queue
(jobs, leases) and the cache (counters, windows).  No transaction spans two of
them, nor any of them and Stripe, a provider or the disk.  Within a process
everything runs on one event loop, so the code between two awaits that suspend is
atomic for the other coroutines of that process, and for nobody else.

## 2. What is hard, and what should hold

* **Redelivery.**  A job is delivered again when its lease lapses under a working
  handler, when its process dies, and when a Redis worker restores what another
  one has just delivered.  Reports (acknowledge, reject, extend) identify the
  lease by the id of the job, so a late one reaches into somebody else's lease.
  *A job is not lost; a lease belongs to the run it was granted for; attempts are
  bounded.*
* **Sequences of commands** without MULTI or scripts, on Redis queues, quotas and
  windows: others interleave, and a process dies or a command fails, between any
  two.  *Only the exposed windows can lose a job; counters count what they count.*
* **Permits and rotation.**  Every way out of a poll or a job, with failing
  calls at each place, gives the permit back exactly once.  *No queue starves.*
* **Job first, commit later** (and the other way round).  Producers enqueue a job
  and commit the row it names afterwards, or commit and die before they enqueue.
  *What is shown in progress is in progress; what is pending has something coming;
  a mail is accounted for.*
* **Stale reads.**  Handlers and requests keep rows, JSON columns, credentials,
  quantities or caches they read before a long await, and write or decide by
  them.  *What the user gave or decided last stands; limits hold; what is switched
  off stays off; an edit is seen.*
* **Two stores.**  Stripe, a transport, a provider or a file system is told first and
  the database later, with a failure in between.  *Nobody is billed twice; seats are
  explained; what is shown as there has its file; a cursor means synced.*
* **Signals in any order.**  Clients disconnect, users stop, processes shut down,
  providers fall silent, before and after an answer is whole.  *One message, one bill,
  one reason; a stop gets through.*
* **Several ways to one decision.**  Lists, reads and searches decide about access in
  different functions; two cache backends answer the same calls.  *They agree.*
* **Liveness.**  Delayed jobs move only when somebody looks; retries end; a sweep,
  not a lease, ends the row of a worker that died.  *What was handed over is
  eventually done or given up.*

`PROJECT.json` "hazards" has each of these at its line with the property that
would catch it going wrong.

## 3. The modules and how they map to the code

Each component has a module with its state, one action per operation, handler
step, request step or command, its properties, and the slips its mutants use.
`*MC` modules name the small sets the configurations need; `*Proofs` modules hold
theorems.  What composes what:

```
AtLeastOnce  <── implemented by ── InMemoryQueue   (refinement, checked and proved)
             <── implemented by ── RedisQueue      (refinement, checked and proved while nothing fails)
     │
     └─ assumed, as "the queue in any order, delivering again", by
        WorkerPool, IngestionPipeline, PluginFeed, ReEmbedding, EmailDelivery, Experiences, Library
EmailDelivery <── extended by ── Accounts        (requests, their mail and what the links in it do)
KnowledgeBases, DocumentCounts <── extended by ── CountLimits   (the limits a plan puts on both)
ServicesMC    ── thirteen components that share no state, each on its own
RequestsMC    ── seven more in the same way
FeedAndChatMC ── PluginFeed and ChatStreams, with the fairness of each
```

The consumers do not instantiate a backend: they contain the queue as the
promise of `AtLeastOnce` allows it to behave (a bag of jobs delivered in any
order, and again after a lapse or a death).  So what is checked about them holds
with either backend, as long as the backend loses nothing; where RedisQueue does
lose a job is stated there, by name.

Variables marked *ghost* in the modules, and counters such as `served`, `edits`,
`troubles` or `mishaps`, belong to no code: the first record what a property
speaks about and are read by no action, the second bound how often something
happens.

### AtLeastOnce

The abstract specification of `QueueBackend` (`core/queue_backend.py`): a job
handed over stays stored until some worker that received it settles it.
`stored`, `running`, `settled` are what is left when order, leases, attempts and
time are forgotten.

### InMemoryQueue

`InMemoryQueueBackend`.  Every method holds one RLock and does not suspend under
it, so every method is one action, including what it calls first:
`_restore_expired_jobs` and `_move_scheduled_jobs` are part of `Dequeue`,
`Refresh` (peek and the counts that move) and `ActiveCount` (which only restores).

| State | Code |
|---|---|
| `queue`, `processing`, `scheduled` | `_queues`, `_processing`, `_scheduled` of one queue name |
| `held` | the job a caller of dequeue received and has not reported on |
| `mode` | whether a consumer is idle, waits for the event, was woken, or is busy |

Timers count down what remains of them; `Tick` lets a unit pass.  The order in
which expired leases return is the order of a dict, hence any (`Orderings`).
The worker's own rule, to ask for a retry only while attempts are left, is in
`MayRequeue`.  History variables (`sent`, `done`, `lapsed`, ...) are read by no
action.

### RedisQueue

`RedisQueueBackend`, one action per command.  `at` is the command a worker sends
next, `todo` the ids its last ZRANGEBYSCORE returned, `cur` the one it is at,
`copy` what it read or received.  The heartbeat is a second thread of control of
the same worker: its three commands (ZSCORE, ZADD XX, EXPIRE) interleave with the
handler, `beat` is what it is about to write.  `Crash` ends a process before any
command, `Raise` makes a command fail, with what the code around that command does
about it (the restore and the move swallow it, dequeue lets it out, a failing
acknowledge is answered with a reject).

### WorkerPool

`Worker` and `WorkloadCapacityLimiter`: several workers of one process.  The pc of
a worker is the place where it is suspended: at the top of its loop, in dequeue,
asleep, in the handler, in acknowledge, in reject.  `Seek` is the inner loop of
`_dequeue_from_any` between two suspensions: it takes the permit of the first
queue of the rotation that has one.  `Finally` is the finally block of
`_process_job`.  The backend is reduced to which of its calls return a job,
return nothing or raise.

### IngestionPipeline

`ingest_document`, `ingest_text`, `ingest_email`, `ingest_thread`, the delete endpoint and the five handlers of
`worker.py` for one document with up to `MaxUploads` uploads.  An action is what
others can see: a commit, an enqueue, a deleted file.  `seen` and `read` are what
a handler's session remembers of the document since it was read; SQLAlchemy writes
a status only if it differs from that (`Written`).  OCR, extraction, embedding and
LLM calls return or raise (`Fault`), at the places in `Faulty`.  A closed billing
gate acknowledges the job (`GateDrops`).  A mail is embedded by the request that brings
it (`EmbedEmail`); mails and threads end by handing the document to profiling
(`TriggerProfiling`).

### PluginFeed

One feed: the scheduler's transaction (`CreateExecution`, `EnqueueExecution`,
`CommitTick`, in the order of the code), the worker's handler, `run_pending` with
its `FOR UPDATE SKIP LOCKED` claim, run-now's background task, the PATCH that
disables the feed and cancels what is pending, and the sweep of stale executions.
A row is `"flushed"` while its transaction is open: nobody else sees it.

### ReEmbedding

One knowledge base.  `progress` is the JSON column (`workers_total`,
`workers_completed`, the phase), `batch` the chunks a worker has locked with
SKIP LOCKED, `memory` the progress the finalizing worker read at its start and
writes back.  `Trigger` to `Revert` are `trigger_re_embedding` in the order of its
commits; `Recover` to `RecoveryFails` the recovery at the start of a process, whose
first commit may have released the lock of this knowledge base already
(`recovery.locked`).  `extra` and `lost` record that a job was delivered again
after its count, or that a start or a hand-over was cut short.

### ChatStreams

One API process with the variants of an ensemble, or of a regeneration.  `var` is
the state of a variant's task, `conn` and `reason` what the stream's lifecycle
knows, `registry` the streams a stop can reach, `supervised` the task that outlives
the connection.  `Terminate`, `ClientLeaves` and `Sigterm` signal at any time;
`ProviderStep` is the provider, silent as long as it likes; `EarlyFails` and
`PersistFails` are failing transactions, `OtherRegenerates` takes an index.

### EmailDelivery and Accounts

`EmailDelivery`: `EmailService.send` (`Send`), the commit of the caller
(`CommitAudit`), and the handler (`Deliver`) around a transport that takes the mail,
refuses it, or raises after it took it.  `Accounts` extends it: a request reads
(`Ask`), writes and locks, and commits (`Answer`), or is rolled back.  A user row has
a password number, the second of its last change, and flags; a `session` records
the password it rests on and when it was issued; a `link` is what a mail carries.
`known` is what a request for a link, or a reset, found working as it began, and `ended`
what the requests that were answered had found.
`Administrate` is deactivation, activation, roles and deletion by an admin.

### BillingState, UsageReporting, Seats

* `BillingState`: the cache of a process with its single flight (`StartFetch`,
  `Fetched`), backoff, refresh at the end of a period and fallback on disk; the trial
  endpoints, which invalidate and wait (`TrialAction`, `TrialAnswered`); the gate
  (`GateReads`, `GateAnswers`) and `RecordUsage`.
* `UsageReporting`: a run is given the start of a period by the cached state of the
  control plane, which may be that of a period that is over (`BeginReport`); it compares
  the usage from there to the present with Stripe's summary, which lags (`seen`,
  `Processed`), and sends the difference, stamped with the present.  A catch-up closes
  the period reported last and stamps its event with the start of the next.  An answer
  may be lost after the event was taken.
* `Seats`: admission, flagging, unflagging and cancelling as the code orders them:
  read Stripe, take the row lock (`seatLock`), tell Stripe, commit; `Fail` between any two;
  `Webhook` rolls a period over and comes again; `Sync` does not take the lock.

### KnowledgeBases, DocumentCounts, CountLimits, Library, PolicyCache

* `KnowledgeBases`: creation under the limit that locks `billing_state` (`room`),
  the personal knowledge base, and import tasks with their batches, deaths and the
  sweep of a starting process.  A task decides at its end on the status that its session
  has loaded at its beginning (`seen`), since sessions do not expire what they commit.
* `DocumentCounts`: uploads that count what they created at their end, deletions, and
  the recount by embedding jobs (`Recount`, `WriteCount`).
* `CountLimits`: both together under the limits of `billing/enforcement.py`, each counted
  while the row of `billing_state` is locked.
* `Library`: who may read, edit and delete what.  `Check`, `ReadsKb`, `ListedItems`,
  `CheckReadAccess` and `FilterAccessible` are the different ways in which the code
  decides; `Reingest` and `EnqueueEmbed` re-embed a document.
* `PolicyCache`: what one process keeps of the policies: a refresh reads table after
  table (`Read`) and declares fresh (`Refreshed`); `Invalidate` comes when it comes.

### Scheduler, Experiences, ExperienceDefinitions

* `Scheduler`: the loop over tenants and sources, with the sources' throttles and the
  session a failing statement breaks.
* `Experiences`: scheduled and streamed runs with their rows, jobs and failures:
  the tick that flushes, enqueues and commits, the worker that resumes or creates.
* `ExperienceDefinitions`: the definition, edited by admins while runs of it wait or
  are executed; whose identity each step uses, and who is shown a run.

### Conversations, ProviderStreams, ModelCatalog

* `Conversations`: a request loads the row (`Load`), does what takes long, and writes
  the columns it changed; `meta` is written as a whole.  Attachments have a row, a
  file and an age.
* `ProviderStreams`: the rounds of one answer.  `adapter` is what the adapter keeps,
  `response` what the provider has sent in this round; `Delta`, `UsageChunk`,
  `CallChunk`, `Completed` and their neighbours are the events of the shapes, `Body` an
  answer that is not streamed, `RunTool`, `NextRound` and `FinalizeRound` the client.
* `ModelCatalog`: providers, models, configurations, prompts and designations, edited
  by endpoints and by the control plane; side calls that find a model, are answered
  and recorded while their rows change.  A record may fail, which the recorder swallows
  (`RecordCall(r, fails)`), or be cut off by a death (`RequestDies`); such an answer is
  `Forgotten`.

### HostAuth, PluginSync, Plugins, PluginCalls

* `HostAuth`: exchanges in three commits, disconnection, subscriptions, and the
  refresh of a token by a run (`UserToken`, `Renewed`), which writes a row it read
  before it asked the provider.
* `PluginSync`: a source as a log of changes; each plugin's fetch (`GdriveChanges`,
  `GmailHistory`, ...), the application of items (`Apply`, `Skip`) and the storing of
  the cursor (`SaveCursor`).  Of what a fetch could correct it takes a part (`Takes`); what
  a filter, a time window, a limit or `delete_missing` leaves out is passed over (`missed`).
* `Plugins`: the registry of a process: `FullRefresh` clears it, `ReadRecords` and
  `MergeRecords` fill it from the database, a look-up (`Find` to `CacheAdapter`) checks,
  loads and caches; admins edit, switch, sync and delete in between.
* `PluginCalls`: the preflight checks of API, chat and feed, the executor's quotas
  (`Consume`, `GiveLife`, `GiveBack`), limits and slots, the guard around imports, and
  single commands of the cache that fail (`CacheFails`).

### CacheBackends, RateLimits

`CacheBackends` gives the same calls to both backends side by side and compares the
answers.  `RateLimits` is one key of the limiter: increment, judge, give back, in
fixed windows, by requests at once whose commands fail.

## 4. The runs

| Run | Module, cfg | Distinct states | Result |
|---|---|---|---|
| `mem_queue` | InMemoryQueueMC, InMemoryQueue | 151 444 | pass |
| `redis_races` | RedisQueueMC, RedisQueueRaces | 314 283 | pass |
| `redis_failures` | RedisQueueMC, RedisQueueFailures | 188 147 | pass |
| `pool` | WorkerPoolMC, WorkerPool | 301 489 | pass |
| `pipeline_safety` | IngestionPipelineMC, IngestionPipelineSafety | 1 978 038 | pass |
| `pipeline_single` | IngestionPipelineMC, IngestionPipelineSingle | 1 414 393 | pass |
| `feed_and_chat` | FeedAndChatMC, FeedAndChat | 245 177 | pass |
| `re_embedding` | ReEmbeddingMC, ReEmbedding | 720 367 | pass |
| `services` | ServicesMC, Services | 946 291 | pass |
| `requests` | RequestsMC, Requests | 707 937 | pass |
| `kb_counts` | DocumentCounts, KnowledgeBaseCounts | | violates CountSettles |
| `policy_edits` | PolicyCache, PolicyCache | | violates InvalidateIsSeen |

What each question is, why the bounds suffice, and what was looked at beyond.
Properties that belong together are conjuncts of one, named in the module.

**mem_queue.**  Two workers, two jobs (one may be tried twice, the other once),
delays up to 2, a visibility timeout and a heartbeat of 1, two lapses per job.  Two
workers and two lapses are the least with which a late report meets the lease of
another worker, twice; two delayed jobs the least that can be out of order.
`LeaseHasRunner` (no report leaves a lease of nobody behind), `AttemptsBounded`,
`NoMissedWakeup`; the refinement `KeepsPromise`; `EverySettled`.

**redis_races.**  Two workers, two jobs that are not delayed, two leases or payloads
that run out, nothing dies or fails: every interleaving of restores, dequeues,
heartbeats and late reports.  Duplicates arise (two workers restore one id), but the
backend still implements `AtLeastOnce` (`KeepsPromise`).  Operations on different ids
touch different keys, except the list, and except that one scan returns several ids:
with two jobs a worker restores one while it still has to deal with the other.
Delayed jobs are in `redis_failures` and in the theorem of section 6.

**redis_failures.**  One worker that dies up to twice and commands that raise up to
twice, before any command.  `EverySettled`: a job is settled in the end unless a worker
failed while the job was off the list and not yet (or no longer) under a lease, or
its lease outlived its payload.  Two failures cover a failure in the middle of the
repair of another.  Two workers of which one dies are too many for liveness; what they
may lose is `LostOnlyAtRisk` of section 6.

**pool.**  Two workers, a queue with one permit beside one without a limit, two jobs
waiting per queue, two raising calls, a signal.  One permit and two workers make
the limit bind; two queues and a permit that is taken make the rotation skip.
`PermitsAccounted` is an equation, so a leak and a double release both break it;
`NoStarvation` of every queue until no worker is left.

**pipeline_safety.**  One upload of any entry, two workers, two attempts, and one each
of: lapse, death, failing service, closing gate.  `FilesFollowJobs` (a job that must
still extract finds its file, and nothing is left but files of uploads that were
given up), `StartedNotStuck`.

**pipeline_single.**  One worker, two uploads of one document, two attempts, deletion, a
lapse, a death, a failure.  With one worker no job overtakes the commit of its
producer's handler, so every document in progress settles (`EverySettled`); with
several it does not (section 7).

**feed_and_chat.**  The feed: two workers, a run_pending, two executions of which one
may be made by hand, one PATCH, two attempts and one mishap (a death, a lapse, a
failing call).  `NoneRunsTwice` (a plugin runs alone, and the scheduler keeps one
execution active), `PendingHasJob`, `EveryEnds`; the named ways to become an orphan are
in the comment of `PendingHasJob`.  The chat: an ensemble of two variants, or a
regeneration beside two by others and with two attempts at an index, one round of
tools, one failing transaction.  `AnswersSaved` (one message, one usage record and one
last event of a variant; a partial answer names its stop), `StopGetsThrough`.  Two
variants are the least of which one can be over while the other is silent.

**re_embedding.**  Two workers, two batches, concurrency 2, two attempts and a budget
of 5 for mishaps, in which deaths and failed calls cost 1, triggers, lapses and
recoveries 2: enough for a trigger with a lapse and a death, or for a trigger, a
recovery and a failure.  `ProgressHolds` ("current" means every chunk is embedded, and
counter, jobs and callers add up), `EverySettles`.

**services.**  Thirteen parts that share no state; the initial state picks one, and a
property of a part speaks of its variables only, which stand still in the others.
Two requests, runs or workers at once are the least that can race.

| Part | Property | Bounds |
|---|---|---|
| BillingState | `StateIsCurrent`: after a trial action nothing older is served as fresh; a period costs the grant and what passed together | one process, two calls, two periods, a grant of 2, two outages, cost 4 |
| UsageReporting | `NotOverbilled`: what is billed beyond the usage is what the model counts as sent again | two reporters, two months of usage 2, three runs, one failure |
| Seats | `SeatsAddUp`: not more active than paid for; reductions stand for flags | three users, one or two of them seated, two seats bought, two requests, four operations, a period's end, a mishap, three enforcements |
| KnowledgeBases, DocumentCounts | `WithinCaps`: counts stay within the limits; an import that shows importing has a task or was dropped, one that shows active is whole | three knowledge bases under a limit of 2, archives of two batches, one death; one document allowed, three uploads |
| Scheduler | `NoTenantLeftBehind` | two tenants, two sources of which one is throttled, three rounds |
| Experiences | `ActiveIsInHand`, with two named exceptions | three runs, two schedulers and workers, two attempts, two ticks, two troubles |
| PluginSync | `CursorMeansSynced`, save for items passed over for a named reason (failed, come between a listing and its position, removed without `delete_missing`, out of filters or window, beyond a limit) | six plugins, two items, three changes, a limit of 1, one trouble |
| CacheBackends | `SameAnswers` | one key, numbers 0 and 1, lives none, 0 and 1, time 4 |
| RateLimits | `WithinCapacity` | two requests of cost 1 or 2 against 2, windows of 2, time 3, one trouble |
| HostAuth | `LastDecisionStands` | two exchanges, two runs of plugins one after the other, one trouble |
| PolicyCache | `EditIsSeen` | two checks, two edits, a time to live of 2, three checks asked, one failure |
| PluginCalls | `CallsAccounted`: no more pass or run than allowed, refusals cost nothing, checks are made, records settle | two calls at once and two in all, two operations (once a day and a month as the user; one at a time as a service), one event |

**requests.**  Seven parts in the same way.

| Part | Property | Bounds |
|---|---|---|
| Accounts | `OldSessionsEnd`, `EarlierLinksEnd`, `MailAccountedFor` | two users, two mails, two requests at once, one mailer, two attempts, two configurations, and either three requests in two seconds or two requests with one mishap (`TimeOrMishaps`) |
| ExperienceDefinitions | `ShownIsTheirs`: what a user is shown was read with their own identity, or the creator's for a shared run | three users, one run, five lists of steps, three edits |
| Conversations | `GivenIsKept`: the user's title stands; what can be viewed has its file | two requests at once and three in all, two models, one attachment, three messages, one death |
| Library | `LibraryAgrees`: all ways to decide agree; a busy document has one job | three users by role, two knowledge bases, one document, two slugs, two policies, four edits, two jobs |
| ModelCatalog | `CatalogHolds`: an answered call is billed at most once, at the right rate, and missing only for a named reason; nothing names what is gone | two providers, three rows of models, two configurations, one prompt, one request, three edits, one call |
| ProviderStreams | `RoundsAddUp`: usage is what was told, each tool runs once and its results are told, the answer is the last round's text | five shapes, streamed or whole, three attempts, two rounds, one text and one call of each kind a round |
| Plugins | `OffStaysOff`: what is off before a call begins and until it ends is not run | one package, one connection with one tool, one feed, two requests, two edits |

**kb_counts**, **policy_edits.**  See section 7.

All runs switch the deadlock check off: the bounds on jobs, requests and mishaps let
the system come to rest, and so does the code when nobody hands it anything.
Type invariants (`TypeOK` and its kin) are proved where there are proofs; no run
spends itself on them.

## 5. Fairness

Fairness stands only on what the runtime does by itself: the event loop resumes
every coroutine that can go on (`WF` of a worker's next step), handlers and calls of
services return or raise, time passes (`WF` of `Tick`, `Elapse`), and the scheduler
ticks.  No producer, endpoint, monitor, signal, heartbeat, failure or lapse is fair.

* InMemoryQueue: a worker's `Dequeue` is fair, for `Worker.run` polls in a loop.
* RedisQueue: what a worker inspects beside it is free (`EndInspection`), so
  strong fairness of `ScanDue` and `Rpop` says that it calls dequeue again and
  again, which that same loop does.
* WorkerPool: `WF` of each worker's next step, whichever it is.  Which queue is asked
  is decided by the rotation and not by fairness, or `NoStarvation` would be empty.
* IngestionPipeline, PluginFeed, ReEmbedding: `WF` of taking a job and of handling it,
  of calls under way (a PATCH that was begun goes on) and, for feeds, of the tick and
  the sweep.  Failing is an alternative outcome of a handler's step and bounded or
  limited by the attempts.
* ChatStreams: `WF` of each variant's task as far as the server decides.  The provider
  owes no event: `StopGetsThrough` must not rest on one.
* FeedAndChatMC states the fairness of each part under the condition that it is the one
  that runs.

The other components are checked for safety only.

## 6. The proofs

TLAPS proves for every value of the constants (any sets of jobs, documents' uploads
and workers, any limits, timeouts and bounds) what TLC checks on the instances
above.  Assumptions are those named in the modules: `QueueAssumption`, `RedisAssumption`,
`PoolAssumption`, `PipelineAssumption`, `FeedAssumption`, `ReEmbeddingAssumption` (the
workers are finitely many), which TLC evaluates in the runs.  The rest is stated by the
theorems under ASSUME, and holds of the constants of the runs:

* the value that stands for "nothing" is none of the others (`Assumed`, ServiceProofs,
  `LimitConstants`, `SeatConstants`, `RateConstants`, `BillingConstants`, `DefConstants`,
  `ConvConstants`, `StreamConstants`, `ChatConstants`, `LibraryConstants`; for PluginSync it is no number, and in `ExpConstants`
  "queue" is no worker besides);
* the lists of steps are sequences (`DefConstants`); a deployment has finitely many models
  (`ConvConstants`); a provider has one of the five shapes, and its tools are plugins or
  internal ones (`StreamConstants`);
* periods of billing and tenants are numbered 1 to n, and there is a source of work
  (`NotOverbilledHolds`, `NoTenantLeftBehindHolds`);
* billable calls are finitely many, and there is a call or a grant (`BillingConstants`);
  requests at once are finitely many, their costs and the capacity numbers, and a window is
  longer than zero (`RateConstants`); the limits of a plan are numbers (`LimitConstants`);
  calls of plugins at once are finitely many, and the limits of an operation numbers
  (`CallConstants`);
* a policy allows or denies (`LibraryConstants`); the marker of what is not there is no mode
  of a tool and no state of a plugin (`PluginConstants`), no prompt and no prompt's row, and
  an update of a configuration names providers, knowledge bases and prompts of the tenant
  (`CatalogConstants`);
* users are finitely many and numbered as they were created, and those active at the start
  do not exceed the seats bought (`SeatConstants`);
* for `NothingLostHolds` and `KeepsPromiseHolds` of RedisQueueProofs, the bounds of deaths
  and failing commands are zero, and for `LostOnlyAtRiskHolds` and `KeepsPromiseHolds` the
  queue is polled before payloads run out (`~Unpolled`): the conditions under which the
  properties are claimed.

* **InMemoryQueueProofs.**
  - `NeverLostHolds`: under the protocol `AtLeastOnce` no job that was sent is forgotten
    before it is settled.  Inductive invariant: the type of `running` and `NeverLost`;
    `Settle` is the step that needs both.
  - `TypeCorrect`.  `TypeOK` is inductive: it ties `mode` to `held`, without which
    `Acknowledge` of nobody's job could not be excluded.
  - `NothingLostHolds`.  Lemmas about what each operation does to the set of stored
    ids (`EnqueueStores`, `DequeueStores`, ...), over ranges of sequences: the restore
    and the move only rearrange (`RefreshMoves`).  The proof does not follow the order
    of any sequence.
  - `KeepsPromiseHolds`.  The backend implements `AtLeastOnce`: initial states map to
    initial states, every step to a step of `AtLeastOnce` or a stutter.  A lapse is a
    stutter (the job moves from the leases to the queue), and a late report of a
    job that somebody else holds is a `Settle` that leaves it stored or not.
  - `AttemptsBoundedHolds`.  `AttemptsBounded` speaks of indices; the invariant that
    is proved speaks of ranges, and is equivalent (`AttemptsInvIsBounded`).  Its
    part about expired leases is what lets the restore ignore the count.
  - `LeaseHasRunnerHolds`.  Inductive invariant `RunnerInv`: `LeaseHasRunner`, and a
    stale worker still holds a copy (otherwise a worker that dequeues could start out
    stale).  Since the copy a worker holds names its job, no two leases have one owner
    (`OneLeasePerOwner`); so the owners whose leases a restore takes are not those whose
    leases it keeps (`RestoreKeepsRunners`), and a report by a worker whose lease
    lapsed ends somebody else's lease without leaving one behind (`ReportKeepsRunners`).
  - `NoMissedWakeupHolds`.  Inductive invariant `SleepInv`: the property over ranges,
    and that every scheduled copy is known as delayed, which is what the move
    needs (`RefreshWakesNobody`).
* **RedisQueueProofs.**  Here a method is many commands, and the invariant has to say
  what a worker knows between two of them.
  - `TypeCorrect`, whatever dies, raises and runs out.
  - `NothingLostHolds`, while nothing dies and no command raises.  `Ordered`: what a
    worker at each command holds (`Control`: a restorer has the copy of the id it is at;
    one that is about to report has its job settled), and that no structure names a
    job that was not sent (`Known`).  `Covered`: an unsettled job is in the list, in a hand
    that will report it or push it back, or still among the delayed ones; and whoever
    is about to remove an id from those has pushed it.  So without failures leases and
    payloads only ever duplicate, and no job depends on them: that is why restores that
    remove somebody else's lease do no harm as long as no process dies.
  - `LostOnlyAtRiskHolds`, whichever processes die and whichever commands raise, as long as
    the queue is polled: an unsettled job can still be delivered unless it is `risked`, that
    is, unless a hand failed that held it off the list and not yet under a lease, with lease
    or payload gone or about to go first, or while another worker's restore had the job on its
    list (`Uncovered`).  `Sheltered`: beside `Covered`'s places an unsettled job may be
    parked (`Parked`): lease and payload are there, and no restore is past its RPUSH of
    the job.  No command ends that but a report of the job by a hand that bears it, or the
    restore's own RPUSH (`ParkedStays`); and a hand that fails and was covered leaves its job
    parked (`KeptFail`).  The proof found that the risk was first taken too small: with two
    workers a restore can remove the lease under a redelivered job, which one worker
    in `redis_failures` never meets.  TLC confirms `LostOnlyAtRisk` for two workers, one job,
    a death and a failing command (2 648 912 states); it needs no run of its own.
  - `KeepsPromiseHolds`, under the same condition, and as long as the queue is polled
    before payloads run out (`Unpolled` is FALSE, as in the run).  Each of the
    commands maps to a step of `AtLeastOnce` or a stutter: it leaves the set of jobs that
    can still be delivered as it is, or takes out one that is settled (`ScansLose`,
    `ReportsLose`, `WorkKeeps`).
  - The proof found a flaw of the mapping that the earlier, smaller run did not reach: with
    two jobs a restorer at the second one was counted as a source of the first, which
    it is done with.  `Deliverable` says now which ids it will still push.
* **CapacityProofs.**  Permits of workers, rows under a limit, seats, calls of a plugin.
  - `TypeCorrect` (WorkerPool).  `TypeOK` alone is not inductive: that a rejected job may go back
    to the queue needs `Consistent` (a worker has a job, and the permit of its queue,
    exactly while it is busy; it has decided on a retry only if attempts are left).
  - `NoPermitLeaks`.  `PermitsAccounted` with `TypeInv`.  A step of a worker is
    seen as giving back what it holds (`WithoutNone`, `WithoutOwn`) and taking what it
    holds afterwards (`AccountedNone`, `AccountedOne`), while the holders among the
    others stay (`SameOthers`); the inner loop of a poll does both.
  - `LimitsKept`.  With a limiter, `WithinLimits`: those who run a job of a queue are
    among the holders of its permits, and permits are not negative.
  - `WithinCapsHolds` (CountLimits).  Invariant: who is about to insert holds the lock and
    has seen room for one more (`InsertHasRoom`, and the same of documents), and nobody
    else inserts meanwhile.  Rows may only be made by imports otherwise, which do not
    count, so every other step leaves the counted rows a subset (`RowsChange`).  For imports
    (`Accounted`) the row holds as many batches as its task has committed, so the task that
    makes it active has filled it, whatever a starting process has marked meanwhile.
  - `SeatsAddUpHolds` (Seats).  `HardInv`: with hard enforcement an admission that is about to
    commit holds the lock and, unless the period ended meanwhile, has a seat; one that has
    read the quantity has read no more than there is, since the quantity falls at the end of
    a period only.  That the newest users the webhook deactivates leave no more than the
    quantity is a matter of ranks (`OldestKept`, by the pigeonhole principle).
    `PendingInv`: the reduction at Stripe is at most the flags, the flags about to be
    committed, and what was released or lost; and whoever has told Stripe and is about to
    take flags away holds the lock, and leaves enough of them (`LeftInv`).
  - The proof found that `FlagCharge` gave the lock two values in the branch that refuses, so
    that the model never refused to go below one seat; it now takes and releases the lock,
    as the code does.
  - `CallsAccountedHolds` (PluginCalls).  `CallsInv` has two parts.  `Knows`: what a call has
    asked for by the time it is at a step, whichever of the three callers began it, and
    that it holds a slot only from the limits to the release.  `Sums`, as long as nothing
    has gone wrong with the cache: a quota's counter is those let through and those
    refused and not given back yet; the counter of slots is those who have been
    counted for one.  That no more run than slots does not follow from the counter, since
    a call judges the number it was told, and others come and go before it does: those
    who have a slot or will find that they have (`Granted`) are no more than there are.
* **IngestionPipelineProofs.**  The invariant is `Typed /\ Late /\ Kept /\ Reclaimed /\ Owner`.
  - `TypeCorrect`.  `TypeOK` is inductive only with what the control points mean
    (`HandlerControl`: only extraction reaches "clean", and its content is stored by then).
  - `FilesAreKept`.  `Late`: a job that reads a file is of an upload whose call has
    returned, so a call that fails may remove its own file and nobody misses it.
    `Kept`: the file is there while such a job waits or is in hand, or its content is
    stored.  `Reclaimed`: a file that nobody gave up is still cared for by a call, a job or
    a worker whose lease holds.
  - `StartedIsOwned`.  `Owner`: a status that is committed before the work has a call, a
    job, or a worker whose session has seen exactly that status; which is why a
    session that writes "only what differs" does not undo another's progress here.
  - An overlap of two guards of one CASE in `Marked` made that operator unspecified for
    TLAPS, while TLC takes the first; it is an IF now, in the order of the code.
* **FeedAndChatProofs.**  For PluginFeed the invariant is `RowInv /\ ActiveInv /\ JobInv`, for
  ChatStreams `ChatInv`, for Plugins `PlugInv`, for ModelCatalog `CatInv`.
  - `TypeCorrect`, `RunsOnce`.  `RowInv`: a worker that runs has its row RUNNING, what a
    runner claimed is RUNNING or was swept, and whoever runs an execution is alone in it
    (`Apart`): the row lock and the status decide, not the queue, so duplicates of a job
    are acknowledged.  `ActiveInv`: while a tick's transaction is open nothing the
    scheduler made is active, and otherwise at most one is.
  - `PendingIsRun`.  `JobInv`: the job of an open transaction waits in the queue, or some
    worker took it before the commit and the execution is an orphan.
  - `AnswersSavedHolds`.  What a variant's task may have left behind follows from where it
    is and whether it was written early (`Leaves`), which makes the one message and the one
    bill of a variant a matter of the task alone.  What it holds fits to where it is
    (`TaskKnows`): only one written early is drained with a message behind it, and an answer
    that is cut knows a stop by then, since the reason of a stream is raised but never
    taken back.  For regenerations the indexes in use have no gap (`UpTo`), and the index a
    task holds is one further than one in use at most (`NextToOne`); so there is
    always a greatest one, and writing adds the next, whatever the streams beside it take.
    The invariant was checked on two streams, two variants and three layouts first.
  - `OffStaysOffHolds` (Plugins).  A call that began when its plugin was off, and while it
    stays off, does not get past the check of the database, though the registry has the
    plugin loaded (`NeverRuns`).  Of a tool the database is not asked, only what was read of it; so for a
    tool known to be off (`OffEverywhere`) the connection says so, what is cached says so,
    and so does what anybody has read and may still write or cache (`SettledOff`).  An edit
    makes its tool known to be off with the refresh behind it, if nobody held other modes
    when it wrote (`SureOnes`).  The proof found that the model forgot here that the tool
    may have been switched on again between that edit and its refresh, by a third
    request, which TLC's two did not reach: the mark is now doubted with every write.
  - `CatalogHoldsAlways` (ModelCatalog).  `CatalogStands`: whatever a configuration names is
    there (`Rests`).  A session writes rows that it read earlier, so this leans on what each
    write looks up anew, and on the database: a deleted provider takes its configurations
    along, a deleted prompt is forgotten by all of them.  An update that is refused midway
    leaves its assignments committed, which `Rests` allows.  `CallsStand`: calls have numbers
    of their own, an answer that nobody records yet is held by one request at its record, and
    the bill has nothing of a call under way.  So what ends a call decides its row alone
    (`CallEnds`), for an answer recorded, one forgotten (its model went before, its row could
    not be written, its process died) and a failure noted.
    The invariant was checked on two requests and two calls first, to a depth of 11 steps.
* **SumProofs.**  For ReEmbedding the invariant is `Typed /\ Embedded /\ Added`, for
  UsageReporting `MeterInv`.
  - Sums come first, since what waits in the queue is added up over a bag by the fold
    `MapThenSumSet`.  Induction over finite sets is had without the library's induction
    theorems, from a minimal counterexample (`MinimalSubset`): the function the fold
    chooses exists and is unique (`SumExists`, `SumUnique`), the order of adding does not
    matter (`SumTakes`), and one more element adds its number (`TotalGrows`).
  - `TypeCorrect`.  `TypeOK` is inductive with `Control`: which job a control point is of,
    that only the error path of a last attempt counts an exhausted job, and that who
    embeds has locked what it embeds.
  - `CurrentIsEmbedded`.  `Embedded`: whatever comes after the last chunk (a job that
    finalizes, a worker about to enqueue one, the later phase in the row, or in what a
    caller would restore or a recovery has read) was set when all chunks were done.
  - `ProgressIsTrue`.  `Added`: the sum itself; that two starts, or a start and a recovery,
    at the same time are marked (`Apart`); and that what a recovery is about to enqueue
    makes up for what is missing since it read the row (`Recovering`), which is what
    its commit turns into the sum of the new total.  Every step of a worker keeps the sum
    (`Balanced`): it moves a job between queue and hand, or from the hand to the count.
  - `NotOverbilledHolds`, for any number of months.  `covered` is the usage, from the
    first period on, that the reports written down speak for.  `MeterInv`: until two
    runs overlap, no more was sent than `covered`, what may be sent again (`doubled`) and
    what the run under way has sent and not written down (`Knows`); and `covered` is
    usage that is there (`Settled`).  A run that starts from less than is covered adds
    the difference to `doubled`.  That the run takes the greater of Stripe's summary and
    its own total as what was reported is what `ReportPeriodHolds` and `CatchUpHolds`
    need.
  - `WithinCapacityHolds` (RateLimits).  `RateInv` is about the window in progress: what was let
    through and what requests under way have added is at most what the key counts, and what
    was let through and what may still be is within the capacity.  The key does not run out
    in its window (`KeyFacts`), or the count would begin again.  Each step changes one
    summand (`SumsMove`); with the next window all are zero.
  - `StateIsCurrentHolds` (BillingState).  `BillingInv`: whatever a cache, an answer on its way
    or the disk holds was true of CP once (`Past`: its period is not later than today's, and it
    says trial if CP still does), and the answer that is on its way knows of every action that
    was answered, since the lock makes `Forget` wait for it.  For the cap: what today has cost
    and the calls that are paid for are together within the grant and the number of calls.
    A stale state names an earlier period, whose sum is not smaller (`TotalLess`).
* **RequestProofs.**  For Accounts, one inductive invariant in two halves.
  - `MailAccountedForHolds`.  `MailInv`: an open row has its job or its runner before it
    is committed too, and a transport has only accepted mail whose row is committed.
    The handler reads the row before it sends, which is why a job that is early
    must come again.
  - `EarlierLinksEndHolds`.  `ResetInv`: what a request found working when it began has
    been spent since, or the request has seen it by the time it wrote, and so spends it
    when it commits (`WritesStep`, `CommitsStep`); for no link comes back or changes its
    owner, whoever commits (`LinksGoOn`).
  - `OldSessionsEndHolds`.  `AccountInv`: what a request under way
    has read is the row as it is, unless somebody committed meanwhile, and then the
    request is marked as overlapped (`RequestOK`); two requests never write one mail
    (`OneMailEach`); a link is there only with its mail committed (`LinkInv`); a session that
    rests on an older password is older than the change or excused (`SessionInv`).
    One lemma per kind of commit: `CommitNewPassword` is the step that needs all parts.
  - `ShownIsTheirsHolds` (ExperienceDefinitions).  `DefInv`: from its first step on a run is
    executed with the identity of the user of its row, or the creator's if it has none
    (`ExecutesAsUser`), and has used no other (`UsedOwn`).  The invariant does not mention the
    scope: whatever admins make of it meanwhile, what is shown is chosen by the user of the
    row, and the resumption refuses a row whose user is not the one the scope now gives.
  - `GivenIsKeptHolds` (Conversations).  For the title: whoever was let in since the user gave
    it has loaded the lock (`KnowsLock`), so writing `meta` as a whole writes the lock again.
    For the files: an upload is alone with its attachment until its row is there
    (`UploadsOne`, `UploadsApart`), and the sweep removes files of expired rows only
    (`FileThere`), which an upload's attachment is not.
  - `RoundsAddUpHolds` (ProviderStreams), for any number of rounds and attempts.  `GoingInv`
    says for each way of telling usage what is counted already: at once (`CountedAtOnce`), when
    the stream ends (`CountedAtTheEnd`), or when the response says it is over (`CountedWhenOver`);
    what the text of the adapter and of the answer is, and in which round it was shown
    (`TextOfRound`, `TextShown`); and that the calls waiting in the adapter are of this
    round, and those that ran and are not told yet are too, while those told are of
    earlier rounds (`CallsOfRound`, `RanOfRounds`), which is why none runs twice.
    `Places` excludes the control states no shape reaches.  The invariant was checked on
    three rounds before it was proved.
  - `LibraryAgreesHolds` (Library).  Half of it needs no history: the code asks in two ways,
    one that lists what is denied and one that checks a single name, and they agree by the
    policies as they are (`DeniedIsRefused`), but only on slugs that one knowledge base has
    alone (`SlugsApart`), which every creation and renaming must keep.  The other half is
    `Embedding`: a document whose status is "embedding" has one job or one request
    about to enqueue it, and any other document none (`InHand`), whichever requests meet.
* **ServiceProofs.**
  - `EditIsSeenHolds` (PolicyCache).  Invariant: only the check that holds the lock
    reads, what it has read is as new as what was due when it began, and what is due is
    known to the cache or the cache is stale.
  - `LastDecisionStandsHolds` (HostAuth).  Invariant: after a disconnection no exchange and
    no refresh is under way; the last consent, unless overlapped, is the newest row, and
    whatever may still write is about it.
  - `NoTenantLeftBehindHolds` (Scheduler).  Invariant: in every round that is over, and in this
    one for the tenants behind the loop and the sources before the one asked, each source
    without a throttle has worked or the tenant was in trouble; a broken session is trouble.
  - `SameAnswersHolds` (CacheBackends).  Invariant, for each key that is not `mixed`: of the two
    dictionaries the one that is live holds what Redis holds, and the other nothing live.
    What the sweep and look-ups forget was over already (`Fades`).
  - `CursorMeansSyncedHolds` (PluginSync).  `SyncInv` says what a run knows of what it has
    read.  What waits to be applied is as it was when it was read or has changed since
    (`TodoInv`; for Gmail a deletion of the same mail may wait too, and is applied first);
    what was read is copied, waits or was passed over (`ItemsInv`); what was not read
    lies after the cursor to be (`TokenInv`), so that storing it is safe once nothing waits.
    A page of the Outlook calendar that is not the last has no cursor to store, and is the
    one case where items that wait for nothing are allowed.  What a run does not take of what
    it could correct is passed over at once (`TakesKeeps`).  Mails come and go once
    (`SourceInv`), which is what lets Gmail skip an addition whose deletion it has seen.
  - `ActiveIsInHandHolds` (Experiences).  `ExpInv`: what an open tick has sent is flushed and
    has its job, or its job was taken early (`SentIsFlushed`); a worker's job is its own and
    names a run that it could see, or that it took early (`TaskHolds`, `RowExists`).  So a
    queued run keeps its job until a worker has made it running or ended (`QueuedHasJob`), and
    a running one is what a worker or a stream executes (`RunningIsExecuted`), until its end
    is written or recorded as cut.

Every invariant that a passing run checks is stated by a theorem.  Only model-checked:

* Liveness and everything under fairness, and ENABLED: beyond the prover.
* Attempts of the Redis backend are not bounded the way those of the one in memory are
  (`AttemptsBounded`), and the model has no such property: a restorer that scanned before a
  death reads, after it, the payload of the next delivery and pushes that too, so one
  death can cost two attempts; TLC shows it with one job and one death.

## 7. Disagreements between the code and what is said of it

Two runs end in a counterexample on purpose; each checks a sentence of the code's
own documentation.

* **A document is counted twice** (`kb_counts`, `api/knowledge_bases.py:1323`).  The job
  that recalculates the statistics ends before the upload adds what it created; the
  comment at 1320-1321 says the recalculation comes last.
* **An invalidation is lost** (`policy_edits`, `services/policy_engine.py:179`).  A refresh
  under way ends by clearing the mark, so the old policies stay for the time to live.

The following were met while modelling.  Those with a definition in brackets can be
checked by adding it to a configuration of its module; they have no run of their own.

Queue, workers, pipeline, feeds:

* A Redis restore may lose a job (`RedisQueue.NothingLost`, `core/queue_backend.py:1284`): a
  worker with a stale list removes lease and payload of a job that was restored and
  delivered again, and if that delivery's process dies now nothing is left of it; without
  a death `NothingLostHolds` excludes it, and with deaths `LostOnlyAtRiskHolds` names the
  moments at which it can happen.  "Atomic operations prevent race conditions"
  (1162-1163).
* A failing reject ends a worker without a signal (`WorkerPool.RunsUntilSignal`,
  `core/worker.py:641` against 465-466).
* A document may stay PROFILING (`IngestionPipeline.ProfilingHasJob`, `worker.py:686`): the
  profiling job is done before PROFILING is committed.  `ingest_text` may be overtaken
  the same way (`services/ingestion_service.py:934`), and a process that dies between
  PENDING and the enqueue leaves the document for ever (`:591`).
* A feed may never run again (`PluginFeed.NextTickEnqueues`,
  `services/plugins_scheduler_service.py:146`, `:204`): a worker takes the job before the
  execution is committed and acknowledges it.
* `re_embedding_handler.py:470`: the error path waits for a row lock its own session
  holds.  `:396`: a redelivered worker is counted twice.  `:158`: the recovery's first
  commit releases the locks of the other rows it selected.
* `core/worker.py:379`: each worker installs its own signal handler over the one before.
* `worker.py:1336`: a billing gate that closes late acknowledges the job and leaves
  the status.
* The usage source runs for the first tenant only (`Scheduler.RunsUniformly`,
  `billing/sync.py:159`): the throttle is shared by all tenants.

Accounts, billing, knowledge bases, policies:

* Two requests for a reset at once leave two links that work, as neither sees the other's
  (`services/password_reset_service.py:235`: "bounds the live token surface to one per
  user"); the next request or reset ends both (`EarlierLinksEnd`).  Two resets that come
  at once with one link both succeed.
* An import that another process's start has marked interrupted becomes active when its
  task ends (`services/kb_import_export_service.py:565` decides on the row loaded at 340,
  which `core/database.py:145` keeps); it holds all its batches then.  An import whose
  failure aborted the transaction is not marked, as `_mark_import_failed` (357) does not
  roll back, and shows importing till the next start.
* A redelivered invoice changes seats again (`Seats.RedeliveryNoOps`, `billing/seat_service.py:279`).
* During an outage calls are refused (`BillingState.OutageLetsThrough`, `billing/cp_client.py:157`).
* A run that is given the start of a period that is over (`billing/service.py:222`: the
  cached state may be old) reports the new period's usage with it, as its sums go to the
  present (`:248`-`:258`); the catch-up ends that period, and the new one's usage is
  reported a second time (`UsageReporting.NothingTwice`).
* A period's tail may never be reported (`UsageReporting.MissedIsCaught`, against the
  docstring at `billing/service.py:195`): the event of a catch-up is stamped with the
  start of the new period, whose next comparison takes it for reported.
* A knowledge base's policies name its slug, which renaming changes.  A group's
  `is_active` is ignored (`services/policy_engine.py:242`).  Memberships and roles do not
  invalidate; a refresh mixes reads of different moments; other processes wait for
  the time to live.
* `PolicyService.check_access` reads `POLICY_CACHE._admin_user_ids`, which the wrapper
  per tenant does not have (`services/policy_service.py:208`, also 266-273).
* `update_rag_config` accepts and drops `minimum_query_words` and
  `max_chunks_per_document` (`services/knowledge_base_service.py:219-236`), and its cache
  invalidation looks for a field that does not exist (`:248`).
* A death between the commit of EMBEDDING and the enqueue of a re-embedding leaves the
  document busy for ever (`services/knowledge_base_service.py:1148`).
* `plugin_identity.check_plugin_user_auth` and the execution look at different
  credentials (`HostAuth.CheckAgrees`, `services/plugin_identity.py:341-381`).  A refresh of
  an old credential puts it first again; an identity may dangle when a disconnection
  falls into an exchange.
* The cache in memory can hold text and bytes under one key (`CacheBackends.OneKind`,
  `core/cache_backend.py:708-794` against 347-356).
* Cursors pass over what a run leaves out: Drive's removals, unless `delete_missing` is set
  (`src/plugins/shu_gdrive_files/plugin.py:54`, 351, against 420); for Teams, whose one cursor
  is that of all chats (`src/plugins/shu_teams_chat/plugin.py:464`), what lies beyond `max_chats` and
  `max_messages_per_chat` (151-221); and what lies before the window of a full run
  (`src/plugins/shu_calendar_events/plugin.py:103`, `src/plugins/shu_outlook_calendar/plugin.py:363`).
* Expired cursors are kept (`PluginSync.ExpiredIsDropped`, `src/plugins/shu_calendar_events/plugin.py:306`);
  `src/plugins/shu_gmail_digest/plugin.py:562` says "Still advance history cursor" and
  returns without saving.

Chat and models:

* A request that loaded `meta` before the user gave a title unlocks it again by writing
  `meta` as a whole, and an automatic title replaces it
  (`services/conversation_automation_service.py:130`, `:156`, `:225` against `schemas/side_call.py:82`).
* `send_message` commits the user's message before models and limits are checked.  The
  file of an attachment whose process dies before the commit stays.
* `get_partial_usage_snapshot` is not idempotent for Gemini and Anthropic
  (`services/providers/adapter_base.py:508`): a stop in the middle counts usage twice
  (`services/chat_streaming.py:1273`).
* `RetryState` asks up to four times with `max_attempts` 3.  A failing later round loses
  the usage of the earlier ones (`services/chat_streaming.py:1535`).  A provider's error
  loses its class when the answer is not streamed (`llm/client.py:396`).
* Responses: text before tool calls ends the answer after the tools ran, whose results
  nobody is told (`services/chat_streaming.py:1425`); tools run also after a failure and
  while a stopped answer is drained.  A tool's refused quota fails the whole answer.
* An Anthropic stream that ends with `max_tokens` has no final event
  (`services/providers/adapters/anthropic_adapter.py:651`, 749 accepts it when whole).  Gemini drops calls that follow
  text in a chunk (`services/providers/adapters/gemini_adapter.py:564`), usage in chunks without parts (558), and all
  usage of an empty completion (605).  Nothing bounds the rounds of tools, and rate
  limits are checked once per answer.
* `update_model_configuration` commits the first half with its first prompt, so a refusal
  afterwards leaves half of the update (`services/model_configuration_service.py:536`, 565);
  an update without overrides wipes them (546); clearing a role uses what was
  designated before (`api/model_configuration.py:394-417`).
* Two live rows of one model name can arise, after which a configuration for it always
  fails (`services/model_configuration_service.py:96`).  Names are checked for duplicates
  at creation only.  Prompts of a detached knowledge base come back when it is attached.
* A usage row that cannot be written is logged and lost (`services/usage_recording.py:190`),
  and so is that of an answer whose process dies before it is recorded.
* Usage of a failed side call is recorded only while something is designated
  (`services/side_call_service.py:170`, 653); that of a call whose provider is deleted
  meanwhile is lost (`services/usage_recording.py:200`).

Plugins:

* A refresh drops the MCP plugins until they are read again (`plugins/registry.py:30`), and
  a feed whose run falls into that is switched off for good (`Plugins.FeedsStay`,
  `services/plugin_execution_runner.py:121`).  Clearing the cache during a look-up is a
  KeyError (`plugins/registry.py:216-229`); a look-up that read the connection before an
  edit caches the old adapter after it.
* Syncs and edits of tools overwrite each other (`services/mcp_service.py:181`, 238, against
  "Preserves admin type/field_mapping"); two syncs may purge a definition just made; a
  disabled connection's definition is purged, and a tool the server drops for one sync
  comes back enabled.
* A quota may never lapse (`PluginCalls.QuotaLapses`, `plugins/executor.py:397`); refused
  attempts keep leaked slots alive (436); a call longer than 30 s makes the counter
  negative.  Overlapping runs leave `importlib.import_module` patched
  (`PluginCalls.ImportsRestored`, `plugins/executor.py:158`).
* The API goes on when a preflight check raises (`api/plugins_public.py:260`), chat tools do
  not check secrets, and a quota is not given back when a later limit refuses.

## 8. What is not modelled

`PROJECT.json` gives the reason for each component.  Without a model are: tenants and
row-level security (a context variable and database policies), configuration and
logging, search and retrieval (queries and ranking), embedding, OCR and text
extraction (calls that return or raise in the modules that use them), process start
and routing (wiring), the conversation lock (nothing uses it) and the frontend.
Within the modelled parts:

* Database failures, except where a module names them.  A commit that fails rolls back
  and raises, which the code treats as any other failure; a connection that dies
  after the commit is the death of the process.
* Several feeds, documents, conversations, connections or knowledge bases at once,
  where they share nothing but the queue and the permits.
* Sweeps by age of staged files and logs, and skipping of unchanged documents
  (`_check_skip`), progress counters, and a change of the embedding model
  (`detect_stale_kbs`).
* Accounts: an address has one account ever; requests that are refused, rate limited
  or late change nothing and are no step; seats of new users are in Seats.
* Experiences: what steps compute.  The key of a shared experience is that of one user.
* Billing: events stamped exactly at a boundary count for the period they name; a
  batch of documents may overshoot the limit by the residual the code documents;
  imports ask for no limit.
* RateLimits: one key.  PolicyCache keeps the number of an edit instead of policies;
  Library decides on fresh policies, with wildcards as the sets they match.
* ModelCatalog: parameters are valid or not; knowledge bases are always active; a session
  keeps rows as it first read them.
* ProviderStreams: a provider that says when a response is over says so or breaks the
  connection; text is one unit a round; chunks of Gemini carry one part.
* Plugins: one process, beside which other packages exist; health counters and the
  cursor of MCP ingestion are left out.  PluginCalls: a call that is not entitled is
  refused at its beginning.
* Google Chat's plugin, and operations of plugins that only read or send.

## 9. What is left

1. Proofs: the refinement of `AtLeastOnce` by RedisQueue while processes die, for jobs
   that are not `risked`; it needs a protocol with a step that loses a job at risk.
2. Ingestion from MCP tools, on the shape of PluginSync; sweeps by age, which need a
   clock in IngestionPipeline and Conversations.
3. `detect_stale_kbs` with documents that arrive during a re-embedding: ReEmbedding
   composed with IngestionPipeline.
4. PolicyCache under Library: decisions as stale as a process may be.
