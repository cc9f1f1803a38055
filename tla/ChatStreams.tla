---------------------------- MODULE ChatStreams ----------------------------
(***************************************************************************)
(* Answers of a chat: the endpoints of api/chat.py, ChatService and the    *)
(* variants of services/chat_streaming.py in one API process.  A stream    *)
(* runs one task per variant, detached from the connection of the client;  *)
(* the client leaves, the user stops the stream from anywhere, the process *)
(* is shut down, and the provider may be silent at any time.               *)
(***************************************************************************)
EXTENDS Integers, FiniteSets

CONSTANTS Variants, Streams,
          Layouts,      \* [of: variant -> its stream or Unset, regen: the streams that regenerate]
          RegenMaxAttempts,
          MaxRounds,    \* bounds the calls of tools
          MaxFaults,    \* bounds the transactions that fail
          MaxOthers,    \* bounds the regenerations under the same root in other streams
          Unset

VARIABLES layout,    \* which variants the streams have
          conn,      \* stream -> "new", "prepared", "registered", "open", "closed"
          reason,    \* stream -> lifecycle.reason, "complete" when none
          shut,      \* streams with shutdown_signaled
          registry,  \* app.state.in_flight_streams
          supervised,\* stream -> "none", "running", "over": supervise_task
          var,       \* variant -> the state of its task
          messages,  \* the assistant messages
          usage,     \* variant -> its usage records
          ended,     \* variant -> its final_message and error events
          server,    \* "up", "stopping", "draining", "down"
          faults, failed   \* ghosts: failed transactions, and the variants they hit

chatVars == <<layout, conn, reason, shut, registry, supervised, var, messages, usage, ended,
              server, faults, failed>>

NewTask == [at |-> "idle", whole |-> FALSE, woken |-> FALSE, early |-> FALSE,
            index |-> Unset, attempts |-> 0, state |-> "complete", rounds |-> 0]

ChatInit ==
  /\ layout \in Layouts
  /\ conn = [s \in Streams |-> "new"] /\ reason = [s \in Streams |-> "complete"]
  /\ shut = {} /\ registry = {}
  /\ supervised = [s \in Streams |-> "none"]
  /\ var = [v \in Variants |-> NewTask]
  /\ messages = {} /\ usage = [v \in Variants |-> 0] /\ ended = [v \in Variants |-> 0]
  /\ server = "up" /\ faults = 0 /\ failed = {}

StreamOf(v) == layout.of[v]
VariantsOf(s) == {v \in Variants : StreamOf(v) = s}
Running == server # "down"
At(v, step) == var[v].at = step /\ Running
Fault(v) == faults < MaxFaults /\ faults' = faults + 1 /\ failed' = failed \cup {v}
NoFault == UNCHANGED <<faults, failed>>

connVars == <<conn, registry, supervised>>
signalVars == <<reason, shut>>
dataVars == <<messages, usage, ended>>

-----------------------------------------------------------------------------
(* The signals of a stream. *)

Priority(r) == CASE r = "complete" -> 0
                 [] r = "client_disconnected" -> 1
                 [] r \in {"user_terminated", "shutdown"} -> 2

\* StreamLifecycle.signal
Resolve(old, new) == IF Priority(new) > Priority(old) THEN new ELSE old

Signalled(streams, new) ==
  [s \in Streams |-> IF s \in streams THEN Resolve(reason[s], new) ELSE reason[s]]

Intentional(s) == reason[s] \in {"user_terminated", "shutdown"}

AnySignal(s) == reason[s] # "complete"

\* What wakes _iter_with_signal_break: intentional_stop_event.
StopEvent(s) == Intentional(s)

-----------------------------------------------------------------------------
(* The connection. *)

\* The message of the user is committed before the rest is validated, which may
\* still refuse it.
Prepare(s, ok) ==
  /\ server = "up" /\ conn[s] = "new" /\ VariantsOf(s) # {}
  /\ conn' = [conn EXCEPT ![s] = IF ok THEN "prepared" ELSE "closed"]
  /\ UNCHANGED <<layout, registry, supervised, signalVars, var, dataVars, server, faults, failed>>

\* The first iteration of stream_generator.
Register(s) ==
  /\ Running /\ conn[s] = "prepared"
  /\ conn' = [conn EXCEPT ![s] = "registered"]
  /\ registry' = registry \cup {s}
  /\ UNCHANGED <<layout, supervised, signalVars, var, dataVars, server, faults, failed>>

\* stream_ensemble_responses
Spawn(s) ==
  /\ Running /\ conn[s] = "registered"
  /\ conn' = [conn EXCEPT ![s] = "open"]
  /\ supervised' = [supervised EXCEPT ![s] = "running"]
  /\ var' = [v \in Variants |-> IF StreamOf(v) = s THEN [var[v] EXCEPT !.at = "call"] ELSE var[v]]
  /\ UNCHANGED <<layout, registry, signalVars, dataVars, server, faults, failed>>

AllEnded(s) == \A v \in VariantsOf(s) : ended[v] > 0

\* The generator is closed, by the client or after the last event it waits for.
Close(s) ==
  /\ conn' = [conn EXCEPT ![s] = "closed"]
  /\ reason' = Signalled({s}, "client_disconnected")
  /\ registry' = IF supervised[s] = "none" THEN registry \ {s} ELSE registry
  /\ UNCHANGED <<layout, shut, supervised, var, dataVars, server, faults, failed>>

EndStream(s) == Running /\ conn[s] = "open" /\ AllEnded(s) /\ Close(s)
ClientLeaves(s) == Running /\ conn[s] \in {"registered", "open"} /\ Close(s)

\* supervise: the registry forgets the stream when all its variants are over.
Supervised(s) ==
  /\ Running /\ supervised[s] = "running"
  /\ \A v \in VariantsOf(s) : var[v].at = "done"
  /\ supervised' = [supervised EXCEPT ![s] = "over"]
  /\ registry' = registry \ {s}
  /\ UNCHANGED <<layout, conn, signalVars, var, dataVars, server, faults, failed>>

\* terminate_stream
Terminate(s) ==
  /\ Running /\ s \in registry
  /\ reason' = Signalled({s}, "user_terminated")
  /\ UNCHANGED <<layout, connVars, shut, var, dataVars, server, faults, failed>>

-----------------------------------------------------------------------------
(* The provider of a variant: _call_provider. *)

Step(v, task) ==
  /\ var' = [var EXCEPT ![v] = task]
  /\ UNCHANGED <<layout, connVars, signalVars, server>>
Quiet == UNCHANGED dataVars /\ NoFault

\* The stop is seen.  A user's stop writes what there is at once and lets the
\* provider come to its end; a shutdown goes straight to the end.
Stop(v) ==
  Step(v, [var[v] EXCEPT !.woken = TRUE, !.whole = FALSE, !.state = reason[StreamOf(v)],
             !.at = IF reason[StreamOf(v)] = "shutdown" \/ StreamOf(v) \in shut THEN "finalize" ELSE "early"])

\* Rate limits and the provider let the call begin.
CallProvider(v) ==
  /\ At(v, "call")
  /\ Step(v, [var[v] EXCEPT !.at = "stream", !.woken = FALSE])
  /\ Quiet

\* What arrives from the provider: deltas change nothing here; then the final event,
\* or the wish to use tools, after which it is called again.
Final(v) ==
  /\ At(v, "stream") /\ ~Intentional(StreamOf(v)) /\ ~var[v].whole
  /\ Step(v, [var[v] EXCEPT !.whole = TRUE])
  /\ Quiet

Tools(v) ==
  /\ At(v, "stream") /\ ~Intentional(StreamOf(v)) /\ ~var[v].whole /\ var[v].rounds < MaxRounds
  /\ Step(v, [var[v] EXCEPT !.at = "call", !.rounds = @ + 1])
  /\ Quiet

\* An event of the provider arrives after the stop.
SeesStop(v) == At(v, "stream") /\ Intentional(StreamOf(v)) /\ Stop(v) /\ Quiet

\* The sentinel: yielded once, without waiting for the provider.
Wake(v) ==
  /\ At(v, "stream") /\ ~var[v].woken /\ StopEvent(StreamOf(v))
  /\ IF Intentional(StreamOf(v)) THEN Stop(v) ELSE Step(v, [var[v] EXCEPT !.woken = TRUE])
  /\ Quiet

\* The provider is through; without a final event, or with an exception, that is
\* an error.
ProviderEnds(v) ==
  /\ At(v, "stream") /\ var[v].whole
  /\ Step(v, [var[v] EXCEPT !.at = "finalize"])
  /\ Quiet

ProviderFails(v) ==
  /\ At(v, "call") \/ At(v, "stream")
  /\ Step(v, [var[v] EXCEPT !.at = "error"])
  /\ Quiet

\* The drain of a provider that was stopped: it ends, its final event comes, it
\* raises, or anything at all comes after a shutdown.
Drained(v) ==
  /\ At(v, "drain")
  /\ Step(v, [var[v] EXCEPT !.at = "finalize"])
  /\ Quiet

-----------------------------------------------------------------------------
(* Writing the answer: on_terminate_signal and _finalize_variant_phase. *)

Indexes == {r.index : r \in {x \in messages : x.regen}}
MaxIndex == CHOOSE i \in Indexes \cup {0} : \A j \in Indexes : j <= i

\* An ensemble's variants have their own indexes; a regeneration takes the next
\* one under the root.
ReadIndex(v) ==
  /\ var[v].at \in {"early", "finalize"} /\ Running /\ ~var[v].early /\ var[v].index = Unset
  /\ Step(v, [var[v] EXCEPT !.index = IF StreamOf(v) \in layout.regen THEN MaxIndex + 1 ELSE 0,
                            !.attempts = @ + 1,
                            !.state = IF var[v].at = "finalize" THEN reason[StreamOf(v)] ELSE @])
  /\ Quiet

Regen(v) == StreamOf(v) \in layout.regen

\* uq_messages_parent_variant_index
Taken(v) ==
  IF Regen(v) THEN var[v].index \in Indexes
  ELSE \E r \in messages : r.variant = v /\ r.index # Unset

Row(v, kind) == [variant |-> v, kind |-> kind, index |-> var[v].index, regen |-> Regen(v),
                 state |-> var[v].state, whole |-> var[v].whole]
ErrorRow(v) == [Row(v, "error") EXCEPT !.index = Unset, !.regen = FALSE, !.whole = FALSE,
                                       !.state = reason[StreamOf(v)]]

Writing(v, step) == At(v, step) /\ ~var[v].early /\ var[v].index # Unset

Unstamped(v) == Step(v, [var[v] EXCEPT !.at = "drain", !.index = Unset, !.attempts = 0])

\* The early message is committed: finalize will find it.
Stamp(v) == Step(v, [var[v] EXCEPT !.at = "drain", !.early = TRUE])

EarlyPersist(v) ==
  /\ Writing(v, "early") /\ ~Taken(v)
  /\ messages' = messages \cup {Row(v, "early")}
  /\ Stamp(v)
  /\ UNCHANGED <<usage, ended>> /\ NoFault

\* Nothing is stamped: finalize will insert the message.
EarlyFails(v) ==
  /\ Writing(v, "early") /\ Fault(v)
  /\ Unstamped(v)
  /\ UNCHANGED dataVars

\* A regeneration in another stream commits its message.
OtherRegenerates ==
  /\ layout.regen # {} /\ MaxIndex < MaxOthers /\ Running
  /\ messages' = messages \cup {[variant |-> Unset, kind |-> "other", index |-> MaxIndex + 1,
                          regen |-> TRUE, state |-> "complete", whole |-> TRUE]}
  /\ UNCHANGED <<layout, connVars, signalVars, var, usage, ended, server, faults, failed>>

\* Another regeneration took the index.
Conflict(v, step) ==
  /\ Writing(v, step) /\ Taken(v) /\ Regen(v) /\ var[v].attempts < RegenMaxAttempts
  /\ Step(v, [var[v] EXCEPT !.index = Unset])
  /\ Quiet

EarlyConflicts(v) ==
  /\ Writing(v, "early") /\ Taken(v) /\ (~Regen(v) \/ var[v].attempts >= RegenMaxAttempts)
  /\ Unstamped(v)
  /\ Quiet

\* The last event of the variant; the consumer waits for it.
Finish(v) ==
  /\ Step(v, [var[v] EXCEPT !.at = "done"])
  /\ ended' = [ended EXCEPT ![v] = @ + 1]

Bill(v) == usage' = [usage EXCEPT ![v] = @ + 1]

\* One transaction: the message and its usage.
Persist(v) ==
  /\ Writing(v, "finalize") /\ ~Taken(v)
  /\ messages' = messages \cup {Row(v, "final")}
  /\ Bill(v) /\ Finish(v) /\ NoFault

\* The early message only needs its usage.
PersistEarly(v) ==
  /\ At(v, "finalize") /\ var[v].early
  /\ Bill(v) /\ Finish(v)
  /\ UNCHANGED messages /\ NoFault

PersistError(v) ==
  /\ At(v, "error")
  /\ messages' = messages \cup {ErrorRow(v)}
  /\ Bill(v) /\ Finish(v) /\ NoFault

\* The message could not be saved: an error event ends the variant.
PersistConflicts(v) ==
  /\ Writing(v, "finalize") /\ Taken(v) /\ (~Regen(v) \/ var[v].attempts >= RegenMaxAttempts)
  /\ failed' = failed \cup {v}
  /\ Finish(v)
  /\ UNCHANGED <<messages, usage, faults>>

PersistFails(v) ==
  /\ At(v, "error") \/ Writing(v, "finalize") \/ (At(v, "finalize") /\ var[v].early)
  /\ Fault(v)
  /\ Finish(v)
  /\ UNCHANGED <<messages, usage>>

-----------------------------------------------------------------------------
(* Shutdown. *)

SignalShutdown ==
  /\ reason' = Signalled(registry, "shutdown")
  /\ shut' = shut \cup registry
  /\ UNCHANGED <<layout, connVars, var, dataVars, faults, failed>>

Sigterm == server = "up" /\ server' = "stopping" /\ SignalShutdown
DrainStreams == server = "stopping" /\ server' = "draining" /\ SignalShutdown

\* All supervisors are over, or the time for them is.
Exit ==
  /\ server = "draining" /\ server' = "down"
  /\ UNCHANGED <<layout, connVars, signalVars, var, dataVars, faults, failed>>

-----------------------------------------------------------------------------
ServerStep(v) ==
  \/ Wake(v) \/ CallProvider(v)
  \/ ReadIndex(v) \/ EarlyPersist(v) \/ Conflict(v, "early") \/ EarlyConflicts(v)
  \/ Persist(v) \/ PersistEarly(v) \/ PersistError(v)
  \/ Conflict(v, "finalize") \/ PersistConflicts(v)

ProviderStep(v) ==
  \/ Final(v) \/ Tools(v) \/ SeesStop(v) \/ ProviderEnds(v) \/ ProviderFails(v) \/ Drained(v)

ChatNext ==
  \/ \E s \in Streams, ok \in BOOLEAN : Prepare(s, ok)
  \/ \E s \in Streams : \/ Register(s) \/ Spawn(s) \/ EndStream(s) \/ ClientLeaves(s)
                        \/ Supervised(s) \/ Terminate(s)
  \/ \E v \in Variants : \/ ServerStep(v) \/ ProviderStep(v)
                         \/ EarlyFails(v) \/ PersistFails(v)
  \/ OtherRegenerates \/ Sigterm \/ DrainStreams \/ Exit

ChatSpec == ChatInit /\ [][ChatNext]_chatVars

\* Tasks of the process run, but a provider owes no event to anybody.
ChatFairness == \A v \in Variants : WF_chatVars(ServerStep(v))

ChatFairSpec == ChatSpec /\ ChatFairness

-----------------------------------------------------------------------------
RowsOf(v) == {r \in messages : r.variant = v}

\* Early persist, finalize, retries and errors together leave one message, one usage
\* record and one last event of every variant that is over, and never a second one;
\* a message or its usage is missing only when a transaction of the variant failed
\* or its index was taken as often as it tried.
SavedOnce ==
  \A v \in Variants :
    LET n == Cardinality(RowsOf(v)) IN
    /\ n <= 1 /\ usage[v] <= 1
    /\ ended[v] = IF var[v].at = "done" THEN 1 ELSE 0
    /\ var[v].at = "done" /\ v \notin failed => n = 1 /\ usage[v] = 1

\* The state of a message tells whether its answer is whole: a partial answer
\* always names the stop that cut it, whatever signals came before and after.
PartialNamesStop ==
  \A r \in messages : r.kind # "error" /\ ~r.whole => r.state \in {"user_terminated", "shutdown"}

\* What a variant leaves behind: one message that is billed once and tells why it ends.
AnswersSaved == SavedOnce /\ PartialNamesStop

\* A stop gets through to every variant though its provider is silent, and though
\* the client left first.
StopGetsThrough ==
  \A v \in Variants :
    (At(v, "stream") /\ Intentional(StreamOf(v))) ~> (var[v].at # "stream" \/ ~Running)
=============================================================================
