------------------------------ MODULE RequestsMC ------------------------------
(***************************************************************************)
(* The components behind the API that share no state, checked by one run:  *)
(* the initial state picks the part that runs.                             *)
(***************************************************************************)
EXTENDS Accounts, ExperienceDefinitions, Conversations, ProviderStreams, Library, Plugins, ModelCatalog,
        TLC

CONSTANTS ann, bob, m1, m2, r1, r2, w1, k1, k2

VARIABLE part

People == {ann, bob}
TwoMails == {m1, m2}
TwoRequests == {r1, r2}
OneMailer == {w1}
Two == {k1, k2}

Symmetry == Permutations(TwoMails) \cup Permutations(TwoRequests) \cup Permutations(Two)

Settings(auto, emails, on) == [autoActivate |-> auto, adminEmails |-> emails, emailOn |-> on]
SomeConfigs == {Settings(TRUE, FALSE, TRUE), Settings(FALSE, TRUE, FALSE)}
-----------------------------------------------------------------------------
Step(type, key, mode, override, after) ==
  [key |-> key, type |-> type, mode |-> mode, override |-> override,
   allowed |-> {"delegate"}, after |-> after]
Mail == Step("plugin", "mail", "user", Nobody, Nobody)
Notes == Step("kb", "notes", "none", Nobody, "mail")
Delegated == Step("plugin", "teams", "user", "delegate", Nobody)
RefusedStep == Step("plugin", "teams", "user", "service", Nobody)

Audience == {"ann", "bob", "joe"}
Barred == {"joe"}
Linked == {"ann", "bob"}
OneRun == {"run"}
SomeSteps == {<<>>, <<Mail, Notes>>, <<Delegated>>, <<RefusedStep>>, <<Mail, Mail>>}

Input(effect, actors, actions, slugs) ==
  [effect |-> effect, actors |-> actors, actions |-> actions, slugs |-> slugs, active |-> TRUE]

Roles == [ann |-> "regular", pat |-> "power", root |-> "admin"]
SomePolicies ==
  {Input("allow", {"ann", "team"}, {"kb.read"}, {"a", "b"}), Input("deny", {"ann"}, {"kb.read"}, {"a"}),
   Input("allow", {"ann"}, {"kb.write"}, {"b"})}

Asked(of, kbs, assign, on, valid, roles) ==
  [of |-> of, kbs |-> kbs, assign |-> assign, active |-> on, valid |-> valid, roles |-> roles]
Wish(side, profiling) == [side |-> side, profiling |-> profiling]
SomeModels == TwoMails \cup {"shipped"}
SomeInputs ==
  {Asked(Missing, {"kb"}, "p", TRUE, TRUE, Wish("on", "off")),
   Asked("own", {"kb"}, "p", FALSE, FALSE, Wish("off", "on"))}
SomeReads == [ann |-> {"kb"}, bob |-> {}]

ProviderCall(shape, stream) == [shape |-> shape, stream |-> stream, tools |-> {"plugin", "internal"}]
ProviderCalls ==
  {ProviderCall(shape, stream) : shape \in {"completions", "responses", "anthropic", "gemini"},
                                 stream \in BOOLEAN}
  \cup {ProviderCall("local", TRUE)}
-----------------------------------------------------------------------------
RequestsInit ==
  /\ AccountsInit /\ DefInit /\ ConvInit /\ StreamInit /\ LibraryInit /\ PluginsInit /\ CatalogInit
  /\ part \in {"accounts", "definitions", "conversations", "streams", "library", "plugins", "catalog"}
  /\ part = "accounts" \/ config = Settings(TRUE, FALSE, TRUE)
  /\ part = "streams" \/ call.shape = "local"
  /\ part = "catalog" \/ \A p \in Providers : provider[p] = "active"

\* A bound: mishaps, which matter to mails and to what a failing request leaves behind,
\* come without the passing of seconds, which matters to sessions, and with one request less.
TimeOrMishaps == mishaps = 0 \/ (clock = 1 /\ served < MaxRequests)

RequestsNext ==
  /\ UNCHANGED part
  /\ \/ part = "accounts" /\ Next /\ TimeOrMishaps'
        /\ UNCHANGED <<defVars, convVars, streamVars, libraryVars, pluginVars, catalogVars>>
     \/ part = "definitions" /\ DefNext
        /\ UNCHANGED <<vars, convVars, streamVars, libraryVars, pluginVars, catalogVars>>
     \/ part = "conversations" /\ ConvNext
        /\ UNCHANGED <<vars, defVars, streamVars, libraryVars, pluginVars, catalogVars>>
     \/ part = "streams" /\ StreamNext
        /\ UNCHANGED <<vars, defVars, convVars, libraryVars, pluginVars, catalogVars>>
     \/ part = "library" /\ LibraryNext
        /\ UNCHANGED <<vars, defVars, convVars, streamVars, pluginVars, catalogVars>>
     \/ part = "plugins" /\ PluginsNext
        /\ UNCHANGED <<vars, defVars, convVars, streamVars, libraryVars, catalogVars>>
     \/ part = "catalog" /\ CatalogNext
        /\ UNCHANGED <<vars, defVars, convVars, streamVars, libraryVars, pluginVars>>

RequestsVars ==
  <<part, vars, defVars, convVars, streamVars, libraryVars, pluginVars, catalogVars>>
RequestsSpec == RequestsInit /\ [][RequestsNext]_RequestsVars
=============================================================================
