----------------------------- MODULE ModelCatalog -----------------------------
(***************************************************************************)
(* The models of a tenant: providers and their models (api/llm.py,         *)
(* LLMService), configurations and the prompts of their knowledge bases    *)
(* (api/model_configuration.py, ModelConfigurationService), prompts        *)
(* (api/prompts.py, PromptService), the configurations designated for side *)
(* calls and profiling, and the calls made with them (SideCallService,     *)
(* UsageRecorder).                                                         *)
(*                                                                         *)
(* A session keeps what it has read, so a request goes on with the row it  *)
(* read first; only whether the row is still there is seen again.  Each    *)
(* configuration has a name of its own; parameters are abstracted to       *)
(* whether they are valid.                                                 *)
(***************************************************************************)
EXTENDS Naturals, FiniteSets

CONSTANTS Providers,
          Managed,      \* the providers that Shu manages
          LockCreations,\* lock_provider_creations
          ModelRows,    \* models, each under a name of a provider
          Shipped,      \* the one that a managed provider comes with
          ModelNames, Configurations, Bases, Prompts,
          Entities,     \* what a prompt may be assigned to
          Reads,        \* user -> the knowledge bases that the user may read
          PowerUsers,
          Inputs,       \* the updates that are tried: see OpenUpdate
          Rated,        \* the models with a rate of their own
          CatalogRequests, MaxUpdates, MaxCalls, Missing

VARIABLES provider,     \* "none", "active", "inactive" or "gone"
          models,       \* row -> [of, name, live, chat], or Missing
          configs,      \* -> [of, name, prompt, kbs, given, on, active], or Missing
          prompt,       \* -> [live, system, entities], or Missing
          pointer,      \* "side" and "profiling" -> the configuration, or Missing
          doing,        \* what each request is doing
          llmUsage,     \* the rows written to llm_usage
          answered,     \* ghost: the calls answered, but for those the code has lost: see Forgotten
          counts        \* of edits and calls

catalogVars == <<provider, models, configs, prompt, pointer, doing, llmUsage, answered, counts>>
PointerRoles == {"side", "profiling"}

Resting == [op |-> "none", at |-> "none", cfg |-> Missing, of |-> Missing, row |-> Missing,
            call |-> 0, input |-> Missing, saw |-> {}, names |-> {}, active |-> FALSE, wire |-> FALSE]

NewModel(p, n, chat) == [of |-> p, name |-> n, live |-> TRUE, chat |-> chat]
NewPrompt == [live |-> TRUE, system |-> FALSE, entities |-> {}]
NewConfig(p, n, d, kbs, active) ==
  [of |-> p, name |-> n, prompt |-> d, kbs |-> kbs, given |-> [k \in Bases |-> Missing], on |-> {},
   active |-> active]

CatalogInit ==
  /\ provider \in [Providers -> {"none", "active"}] /\ \A p \in Managed : provider[p] = "active"
  /\ \E p \in Managed, n \in ModelNames :
       models = [m \in ModelRows |-> IF m = Shipped THEN NewModel(p, n, TRUE) ELSE Missing]
  /\ configs = [c \in Configurations |-> Missing] /\ prompt = [p \in Prompts |-> NewPrompt]
  /\ pointer = [k \in PointerRoles |-> Missing] /\ doing = [r \in CatalogRequests |-> Resting]
  /\ llmUsage = {} /\ answered = {} /\ counts = [edits |-> 0, calls |-> 0]

Edit == counts.edits < MaxUpdates /\ counts' = [counts EXCEPT !.edits = @ + 1]
Proceeds(r, op) == doing[r].op = op /\ UNCHANGED counts
Becomes(r, state) == doing' = [doing EXCEPT ![r] = state]
-----------------------------------------------------------------------------
(* Providers and their models. *)

Stored(p) == provider[p] \in {"active", "inactive"}
ActiveProvider(p) == provider[p] = "active"
ModelsOf(p) == {m \in ModelRows : models[m] # Missing /\ models[m].of = p}
LiveModels(p) == {m \in ModelsOf(p) : models[m].live}
Named(p, n) == {m \in LiveModels(p) : models[m].name = n}
SetModels(rows, value) == models' = [m \in ModelRows |-> IF m \in rows THEN value ELSE models[m]]

MayCreate(p) == ~LockCreations /\ provider[p] = "none"
Unlocked(p) == Stored(p) /\ p \notin Managed

CreateProvider(p) ==
  /\ MayCreate(p) /\ Edit
  /\ provider' = [provider EXCEPT ![p] = "active"]
  /\ UNCHANGED <<models, configs, prompt, pointer, doing, llmUsage, answered>>

UpdateProvider(p) ==
  /\ Unlocked(p) /\ Edit
  /\ provider' = [provider EXCEPT ![p] = IF @ = "active" THEN "inactive" ELSE "active"]
  /\ UNCHANGED <<models, configs, prompt, pointer, doing, llmUsage, answered>>

\* What usage names of a provider that is gone it keeps: SET NULL, and the name it wrote down.
\* The slip lets it go with them.
CascadedUsage(rows) == {u \in llmUsage : u.row \notin rows}
KeptUsage(rows) == llmUsage

\* Its models and the configurations that use it go with it.
Cascaded(p) ==
  [c \in Configurations |-> IF configs[c] # Missing /\ configs[c].of = p THEN Missing ELSE configs[c]]

DeleteProvider(p) ==
  /\ Unlocked(p) /\ Edit
  /\ provider' = [provider EXCEPT ![p] = "gone"]
  /\ SetModels(ModelsOf(p), Missing) /\ llmUsage' = KeptUsage(ModelsOf(p))
  /\ configs' = Cascaded(p)
  /\ UNCHANGED <<prompt, pointer, doing, answered>>

CreateModel(p, m, n, chat) ==
  /\ Stored(p) /\ models[m] = Missing /\ Edit /\ SetModels({m}, NewModel(p, n, chat))
  /\ UNCHANGED <<provider, configs, prompt, pointer, doing, llmUsage, answered>>

DisableModel(m) ==
  /\ models[m] # Missing /\ models[m].of \notin Managed /\ Edit
  /\ SetModels({m}, [models[m] EXCEPT !.live = FALSE])
  /\ UNCHANGED <<provider, configs, prompt, pointer, doing, llmUsage, answered>>

\* sync_provider_models asks the provider, then reads the names it has, and adds the others.
SyncModels(r, p) ==
  /\ doing[r] = Resting /\ ActiveProvider(p) /\ Edit
  /\ Becomes(r, [Resting EXCEPT !.op = "sync", !.at = "read", !.of = p])
  /\ UNCHANGED <<provider, models, configs, prompt, pointer, llmUsage, answered>>

DiscoveryFails(r) ==
  /\ Proceeds(r, "sync") /\ doing[r].at = "read" /\ Becomes(r, Resting)
  /\ UNCHANGED <<provider, models, configs, prompt, pointer, llmUsage, answered>>

ReadExisting(r) ==
  /\ Proceeds(r, "sync") /\ doing[r].at = "read"
  /\ Becomes(r, [doing[r] EXCEPT !.at = "add",
                                 !.names = {models[m].name : m \in LiveModels(doing[r].of)}])
  /\ UNCHANGED <<provider, models, configs, prompt, pointer, llmUsage, answered>>

\* The new names as models of the provider, each in a row of its own.
AddedAs(p, f) ==
  [m \in ModelRows |-> IF \E n \in DOMAIN f : f[n] = m
                       THEN NewModel(p, CHOOSE n \in DOMAIN f : f[n] = m, TRUE) ELSE models[m]]

AddDiscovered(r) ==
  LET p == doing[r].of
      new == ModelNames \ doing[r].names
  IN /\ Proceeds(r, "sync") /\ doing[r].at = "add" /\ Becomes(r, Resting)
     /\ IF Stored(p)
        THEN \E f \in [new -> {m \in ModelRows : models[m] = Missing}] :
               /\ \A a, b \in new : f[a] = f[b] => a = b
               /\ models' = AddedAs(p, f)
        ELSE UNCHANGED models
     /\ UNCHANGED <<provider, configs, prompt, pointer, llmUsage, answered>>
-----------------------------------------------------------------------------
(* Prompts. *)

WrittenPrompts == {p \in Prompts : prompt[p] # Missing}
ActivePrompts == {p \in WrittenPrompts : prompt[p].live}

CreatePrompt(p) ==
  /\ prompt[p] = Missing /\ Edit
  /\ prompt' = [prompt EXCEPT ![p] = NewPrompt]
  /\ UNCHANGED <<provider, models, configs, pointer, doing, llmUsage, answered>>

Editable(p) == prompt[p] # Missing /\ ~prompt[p].system

UpdatePrompt(p) ==
  /\ Editable(p) /\ Edit /\ prompt' = [prompt EXCEPT ![p].live = ~@]
  /\ UNCHANGED <<provider, models, configs, pointer, doing, llmUsage, answered>>

\* The configurations forget it, and what gave it for a knowledge base goes with it.
Without(c, p) ==
  LET old == configs[c]
  IN IF old = Missing THEN Missing
     ELSE [old EXCEPT !.prompt = IF old.prompt = p THEN Missing ELSE old.prompt,
                      !.given = [k \in Bases |-> IF old.given[k] = p THEN Missing ELSE old.given[k]],
                      !.on = {k \in old.on : old.given[k] # p}]

DeletePrompt(p) ==
  /\ Editable(p) /\ Edit /\ prompt' = [prompt EXCEPT ![p] = Missing]
  /\ configs' = [c \in Configurations |-> Without(c, p)]
  /\ UNCHANGED <<provider, models, pointer, doing, llmUsage, answered>>

\* To what an assignment is made is not looked up.
AssignPrompt(p, e) ==
  /\ prompt[p] # Missing /\ e \notin prompt[p].entities /\ Edit
  /\ prompt' = [prompt EXCEPT ![p].entities = @ \cup {e}]
  /\ UNCHANGED <<provider, models, configs, pointer, doing, llmUsage, answered>>

UnassignPrompt(p, e) ==
  /\ prompt[p] # Missing /\ e \in prompt[p].entities /\ Edit
  /\ prompt' = [prompt EXCEPT ![p].entities = @ \ {e}]
  /\ UNCHANGED <<provider, models, configs, pointer, doing, llmUsage, answered>>

\* The control plane writes a prompt by its name: it is a default from then on.
CpUpsertPrompt(p) ==
  /\ Edit /\ prompt' = [prompt EXCEPT ![p] = [live |-> TRUE, system |-> TRUE,
                                              entities |-> IF @ = Missing THEN {} ELSE @.entities]]
  /\ UNCHANGED <<provider, models, configs, pointer, doing, llmUsage, answered>>
-----------------------------------------------------------------------------
(* Configurations. *)

Configured(c) == configs[c] # Missing
InUse(c) == Configured(c) /\ configs[c].active

\* assign_kb_prompt refuses what is not there, not attached or not active.
MayAssign(cfg, k, p) == k \in cfg.kbs /\ p \in ActivePrompts
Assigned(cfg, k, p) == [cfg EXCEPT !.given[k] = p, !.on = @ \cup {k}]

AssignKbPrompt(c, k, p) ==
  /\ Configured(c) /\ MayAssign(configs[c], k, p) /\ Edit
  /\ configs' = [configs EXCEPT ![c] = Assigned(@, k, p)]
  /\ UNCHANGED <<provider, models, prompt, pointer, doing, llmUsage, answered>>

RemoveKbPrompt(c, k) ==
  /\ Configured(c) /\ k \in configs[c].on /\ Edit
  /\ configs' = [configs EXCEPT ![c].on = @ \ {k}]
  /\ UNCHANGED <<provider, models, prompt, pointer, doing, llmUsage, answered>>

\* What an update asks: a provider, knowledge bases, a prompt to give for one of them, whether
\* it is active and its parameters valid, and the roles it takes ("on") or lays down ("off").
Attached(in, kbs) == IF in.kbs = Missing THEN kbs ELSE in.kbs

\* The model must be the one live chat model of its name.
CreateConfig(r, c, p, n, d, in) ==
  /\ doing[r] = Resting /\ ~Configured(c) /\ Edit
  /\ ActiveProvider(p) /\ d \in ActivePrompts \cup {Missing}
  /\ \E m \in ModelRows : Named(p, n) = {m} /\ models[m].chat
  /\ in.valid
  /\ configs' = [configs EXCEPT ![c] = NewConfig(p, n, d, Attached(in, {}), in.active)]
  /\ Becomes(r, [Resting EXCEPT !.op = "create", !.at = "prompts", !.cfg = c, !.input = in])
  /\ UNCHANGED <<provider, models, prompt, pointer, llmUsage, answered>>

\* Each assignment is committed; one that is refused is only logged.
AssignNew(r) ==
  LET c == doing[r].cfg
      p == doing[r].input.assign
  IN /\ Proceeds(r, "create") /\ doing[r].at = "prompts"
     /\ configs' =
          IF p # Missing /\ Configured(c) /\ \E k \in Bases : MayAssign(configs[c], k, p)
          THEN [configs EXCEPT
                  ![c] = Assigned(@, CHOOSE k \in Bases : MayAssign(configs[c], k, p), p)]
          ELSE configs
     /\ Becomes(r, [doing[r] EXCEPT !.at = "side"])
     /\ UNCHANGED <<provider, models, prompt, pointer, llmUsage, answered>>

\* get_side_call_model, get_dedicated_profiling_model and get_profiling_model.
Designated(k) == IF pointer[k] # Missing /\ InUse(pointer[k]) THEN pointer[k] ELSE Missing
ForProfiling ==
  IF Designated("profiling") # Missing THEN Designated("profiling") ELSE Designated("side")

\* The update first looks at what is designated.
OpenUpdate(r, c, in) ==
  /\ doing[r] = Resting /\ Edit
  /\ Becomes(r, [Resting EXCEPT !.op = "update", !.at = "load", !.cfg = c, !.input = in,
                             !.saw = {k \in PointerRoles : Designated(k) = c}])
  /\ UNCHANGED <<provider, models, configs, prompt, pointer, llmUsage, answered>>

ProviderAfter(r) ==
  IF doing[r].input.of = Missing THEN configs[doing[r].cfg].of ELSE doing[r].input.of
Acceptable(r) == Configured(doing[r].cfg) /\ ActiveProvider(ProviderAfter(r))

\* What the session holds before it looks at parameters and the other fields.
Moved(cfg, in) ==
  [cfg EXCEPT !.of = IF in.of = Missing THEN cfg.of ELSE in.of, !.kbs = Attached(in, cfg.kbs),
              !.on = IF in.assign = Missing THEN cfg.on ELSE {}]

\* Giving a prompt commits what the session holds so far.
WriteAssignments(r) ==
  LET c == doing[r].cfg
      in == doing[r].input
      moved == Moved(configs[c], in)
  IN /\ Proceeds(r, "update") /\ doing[r].at = "load" /\ Acceptable(r)
     /\ \E k \in Bases : in.assign # Missing /\ MayAssign(moved, k, in.assign)
     /\ configs' = [configs EXCEPT
          ![c] = Assigned(moved, CHOOSE k \in Bases : MayAssign(moved, k, in.assign), in.assign)]
     /\ Becomes(r, [doing[r] EXCEPT !.at = "rest"])
     /\ UNCHANGED <<provider, models, prompt, pointer, llmUsage, answered>>

NoneToAssign(r) ==
  LET in == doing[r].input
  IN doing[r].at = "load" /\ Acceptable(r)
     /\ (\A k \in Bases : ~MayAssign(Moved(configs[doing[r].cfg], in), k, in.assign))

WriteFields(r) ==
  LET c == doing[r].cfg
      in == doing[r].input
  IN /\ Proceeds(r, "update") /\ Configured(c) /\ in.valid
     /\ \/ /\ NoneToAssign(r)
           /\ configs' = [configs EXCEPT ![c] = [Moved(configs[c], in) EXCEPT !.active = in.active]]
        \/ doing[r].at = "rest" /\ configs' = [configs EXCEPT ![c].active = in.active]
     /\ Becomes(r, [doing[r] EXCEPT !.at = "side"])
     /\ UNCHANGED <<provider, models, prompt, pointer, llmUsage, answered>>

\* Refused: what an assignment has committed stays.
RefuseUpdate(r) ==
  /\ Proceeds(r, "update")
  /\ \/ doing[r].at = "load" /\ ~Acceptable(r)
     \/ /\ NoneToAssign(r) \/ doing[r].at = "rest"
        /\ (~doing[r].input.valid \/ ~Configured(doing[r].cfg))
  /\ Becomes(r, Resting)
  /\ UNCHANGED <<provider, models, configs, prompt, pointer, llmUsage, answered>>

\* set_side_call_model and set_profiling_model take an active configuration only; what the
\* update lays down it had seen designated.
SetRole(k, c) == pointer' = [pointer EXCEPT ![k] = IF InUse(c) THEN c ELSE @]
ClearRole(k) == pointer' = [pointer EXCEPT ![k] = Missing]
After(at) == IF at = "side" THEN "profiling" ELSE "done"

ApplyRole(r) ==
  LET k == doing[r].at
      wish == doing[r].input.roles[k]
  IN /\ Proceeds(r, "create") \/ Proceeds(r, "update")
     /\ k \in PointerRoles
     /\ CASE wish = "on" -> SetRole(k, doing[r].cfg)
          [] wish = "off" /\ k \in doing[r].saw -> ClearRole(k)
          [] OTHER -> UNCHANGED pointer
     /\ Becomes(r, IF k = "side" THEN [doing[r] EXCEPT !.at = After(k)] ELSE Resting)
     /\ UNCHANGED <<provider, models, configs, prompt, llmUsage, answered>>

DeleteConfig(c) ==
  /\ Configured(c) /\ Edit /\ configs' = [configs EXCEPT ![c] = Missing]
  /\ UNCHANGED <<provider, models, prompt, pointer, doing, llmUsage, answered>>

SetSideCallConfig(k, c) ==
  /\ InUse(c) /\ Edit /\ SetRole(k, c)
  /\ UNCHANGED <<provider, models, configs, prompt, doing, llmUsage, answered>>

ClearSideCallConfig(k) ==
  /\ pointer[k] # Missing /\ Edit /\ ClearRole(k)
  /\ UNCHANGED <<provider, models, configs, prompt, doing, llmUsage, answered>>

\* The control plane writes a configuration by its name, active or not, and the pointers with it.
CpUpsertConfig(c, p, n, d, roles) ==
  /\ Edit /\ ActiveProvider(p) /\ Cardinality(Named(p, n)) = 1 /\ d \in WrittenPrompts \cup {Missing}
  /\ configs' = [configs EXCEPT ![c] =
       IF @ = Missing THEN NewConfig(p, n, d, {}, TRUE)
       ELSE [@ EXCEPT !.of = p, !.name = n, !.prompt = d]]
  /\ pointer' = [k \in PointerRoles |-> IF k \in roles THEN c ELSE pointer[k]]
  /\ UNCHANGED <<provider, models, prompt, doing, llmUsage, answered>>
-----------------------------------------------------------------------------
(* Side calls. *)

RoleConfig(k) == IF k = "side" THEN Designated("side") ELSE ForProfiling

BeginCall(r, k) ==
  LET c == RoleConfig(k)
  IN /\ doing[r] = Resting /\ c # Missing /\ counts.calls < MaxCalls
     /\ counts' = [counts EXCEPT !.calls = @ + 1]
     /\ Becomes(r, [Resting EXCEPT !.op = k, !.at = "client", !.cfg = c,
                                !.of = configs[c].of, !.names = {configs[c].name},
                                !.active = ActiveProvider(configs[c].of), !.call = counts.calls + 1])
     /\ UNCHANGED <<provider, models, configs, prompt, pointer, llmUsage, answered>>

\* The provider is as it was read; its models are read now.
Servable(r) ==
  IF Stored(doing[r].of) /\ doing[r].active
  THEN {m \in LiveModels(doing[r].of) : models[m].name \in doing[r].names} ELSE {}

FindModel(r) ==
  /\ doing[r].op \in PointerRoles /\ doing[r].at = "client" /\ UNCHANGED counts
  /\ \/ \E m \in Servable(r) : Becomes(r, [doing[r] EXCEPT !.at = "out", !.row = m])
     \/ Servable(r) = {} /\ Becomes(r, Resting)
  /\ UNCHANGED <<provider, models, configs, prompt, pointer, llmUsage, answered>>

\* What the provider says it cost, else what the rates say.
Resolved(m, wire) == IF wire THEN "told" ELSE IF m \in Rated THEN "rate" ELSE "nothing"
UsageRow(call, m, ok, cost) == [call |-> call, row |-> m, ok |-> ok, cost |-> cost]

\* A row names its provider and model: without them it is refused.  A row that is refused or
\* cannot be written is only logged, and the caller goes on.
Writable(m, fails) == models[m] # Missing /\ ~fails
LogUsage(m, row, fails) == llmUsage' = IF Writable(m, fails) THEN llmUsage \cup {row} ELSE llmUsage

\* The answer of a call that nobody will put on the bill any more.
Forgotten(call) == answered' = {a \in answered : a.call # call}

AnswerCall(r, wire) ==
  /\ doing[r].op \in PointerRoles /\ doing[r].at = "out" /\ UNCHANGED counts
  /\ Becomes(r, [doing[r] EXCEPT !.at = "record", !.wire = wire])
  /\ answered' = answered \cup {[call |-> doing[r].call, row |-> doing[r].row, wire |-> wire]}
  /\ UNCHANGED <<provider, models, configs, prompt, pointer, llmUsage>>

RecordCall(r, fails) ==
  LET m == doing[r].row
      cost == Resolved(m, doing[r].wire)
  IN /\ doing[r].op \in PointerRoles /\ doing[r].at = "record" /\ UNCHANGED counts
     /\ LogUsage(m, UsageRow(doing[r].call, m, TRUE, cost), fails)
     /\ IF Writable(m, fails) THEN UNCHANGED answered ELSE Forgotten(doing[r].call)
     /\ Becomes(r, Resting)
     /\ UNCHANGED <<provider, models, configs, prompt, pointer>>

\* The failure of a side call is recorded while something is still designated and there.
CallFails(r, fails) ==
  LET noted == doing[r].op = "side" /\ pointer["side"] # Missing /\ Configured(doing[r].cfg)
  IN /\ doing[r].op \in PointerRoles /\ doing[r].at = "out" /\ UNCHANGED counts
     /\ IF noted
        THEN LogUsage(doing[r].row, UsageRow(doing[r].call, doing[r].row, FALSE, "nothing"), fails)
        ELSE UNCHANGED llmUsage
     /\ Becomes(r, Resting)
     /\ UNCHANGED <<provider, models, configs, prompt, pointer, answered>>

\* The process dies, or the database is gone, in the middle of a request: what it has committed
\* stays, and an answer that is not recorded never will be.
RequestDies(r) ==
  /\ doing[r] # Resting /\ UNCHANGED counts /\ Becomes(r, Resting)
  /\ IF doing[r].at = "record" THEN Forgotten(doing[r].call) ELSE UNCHANGED answered
  /\ UNCHANGED <<provider, models, configs, prompt, pointer, llmUsage>>
-----------------------------------------------------------------------------
(* What users see. *)

Readable(c, u) == Configured(c) /\ configs[c].kbs \subseteq Reads[u]
ListConfigs(u, active) == {c \in Configurations : Readable(c, u) /\ (active => configs[c].active)}
ListedTo(u, active) == ListConfigs(u, active \/ u \notin PowerUsers)
GetConfig(u) == {c \in Configurations : Readable(c, u) /\ (u \in PowerUsers \/ configs[c].active)}
ValidForUse(u) ==
  {c \in Configurations : Readable(c, u) /\ configs[c].active /\ ActiveProvider(configs[c].of)}
ListModels ==
  UNION {{m \in LiveModels(p) : models[m].chat} : p \in {q \in Providers : ActiveProvider(q)}}
ListProviders == {p \in Providers : ActiveProvider(p)}
KbPrompts(c) == [k \in configs[c].on |-> configs[c].given[k]]

CatalogNext ==
  \/ \E p \in Providers :
       \/ CreateProvider(p) \/ UpdateProvider(p) \/ DeleteProvider(p)
       \/ \E m \in ModelRows, n \in ModelNames, chat \in BOOLEAN : CreateModel(p, m, n, chat)
       \/ \E r \in CatalogRequests : SyncModels(r, p)
  \/ \E m \in ModelRows : DisableModel(m)
  \/ \E p \in Prompts :
       \/ CreatePrompt(p) \/ UpdatePrompt(p) \/ DeletePrompt(p) \/ CpUpsertPrompt(p)
       \/ \E e \in Entities : AssignPrompt(p, e) \/ UnassignPrompt(p, e)
  \/ \E c \in Configurations :
       \/ DeleteConfig(c)
       \/ \E k \in Bases : RemoveKbPrompt(c, k) \/ \E p \in Prompts : AssignKbPrompt(c, k, p)
       \/ \E k \in PointerRoles : SetSideCallConfig(k, c)
       \/ \E p \in Providers, n \in ModelNames, d \in Prompts \cup {Missing} :
            \/ \E roles \in {{}, PointerRoles} : CpUpsertConfig(c, p, n, d, roles)
            \/ \E r \in CatalogRequests, in \in Inputs : CreateConfig(r, c, p, n, d, in)
       \/ \E r \in CatalogRequests, in \in Inputs : OpenUpdate(r, c, in)
  \/ \E k \in PointerRoles : ClearSideCallConfig(k)
  \/ \E r \in CatalogRequests :
       \/ DiscoveryFails(r) \/ ReadExisting(r) \/ AddDiscovered(r) \/ AssignNew(r)
       \/ WriteAssignments(r) \/ WriteFields(r) \/ RefuseUpdate(r) \/ ApplyRole(r)
       \/ \E k \in PointerRoles : BeginCall(r, k)
       \/ FindModel(r) \/ RequestDies(r) \/ \E wire \in BOOLEAN : AnswerCall(r, wire)
       \/ \E fails \in BOOLEAN : RecordCall(r, fails) \/ CallFails(r, fails)

CatalogSpec == CatalogInit /\ [][CatalogNext]_catalogVars
-----------------------------------------------------------------------------
\* A call that a provider answered is on the bill at most once, under the model that answered and
\* at what the provider told or else at the model's rate, and stays there whatever is deleted later.
\* It is there unless its model went before it was recorded, its row could not be written, which the
\* recorder swallows, or the process died in between; and only such answers are on the bill as
\* answered, never a call that failed.
AnswersBilled ==
  /\ \A a \in answered :
       \/ \E r \in CatalogRequests : doing[r].call = a.call
       \/ {u \in llmUsage : u.call = a.call} = {UsageRow(a.call, a.row, TRUE, Resolved(a.row, a.wire))}
  /\ \A u \in llmUsage : u.ok => \E a \in answered : a.call = u.call

\* No configuration outlives its provider or names a prompt that is gone, and what a user may chat
\* with is what the user is shown, of a provider that is listed.
CatalogAgrees ==
  /\ \A c \in Configurations : Configured(c) =>
       /\ Stored(configs[c].of)
       /\ configs[c].prompt # Missing => prompt[configs[c].prompt] # Missing
       /\ \A k \in DOMAIN KbPrompts(c) :
            KbPrompts(c)[k] # Missing /\ prompt[KbPrompts(c)[k]] # Missing
  /\ \A u \in DOMAIN Reads :
       /\ ValidForUse(u) \subseteq ListedTo(u, TRUE) /\ ListedTo(u, FALSE) = GetConfig(u)
       /\ \A c \in ValidForUse(u) : configs[c].of \in ListProviders
  /\ \A m \in ListModels : models[m].of \in ListProviders

\* The bill and the catalog agree with the calls and the rows they are made from.
CatalogHolds == AnswersBilled /\ CatalogAgrees
=============================================================================
