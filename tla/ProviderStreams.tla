-------------------------- MODULE ProviderStreams --------------------------
(***************************************************************************)
(* One answer of a model: the rounds of _stream_variant_phase, the retries *)
(* of UnifiedLLMClient and the adapters that turn what a provider sends    *)
(* into events.  The adapter lives as long as the answer, so what it keeps *)
(* of one round is there in the next.  A provider may refuse, break off,   *)
(* call tools, tell its usage late or more than once; the user or a        *)
(* shutdown may stop the answer anywhere.                                  *)
(***************************************************************************)
EXTENDS Integers, Sequences, FiniteSets

CONSTANTS Calls,        \* [shape, stream, tools: the kinds of tools offered]
          MaxTries,     \* RetryState.max_attempts
          MaxRounds,    \* bounds the rounds in which tools are called
          NotYet

VARIABLES call,      \* the state of the answer
          adapter,   \* the state of the adapter
          response,  \* what the provider has sent in this round
          told,      \* the usage told in the rounds before
          shown,     \* rounds text of which reached the client
          ran,       \* <<round, kind>> of the tools run, in order
          paid,      \* <<call, cost>>: the recorded uses of internal tools
          messages,  \* results handed to the model
          stop       \* "no", "user", "shutdown"

streamVars == <<call, adapter, response, told, shown, ran, paid, messages, stop>>

NewAdapter == [content |-> {}, calls |-> <<>>, latest |-> NotYet, usage |-> 0, id |-> FALSE]
NewResponse(round) == [round |-> round, usage |-> 0, asked |-> {}, over |-> FALSE]

StreamInit ==
  /\ \E c \in Calls :
       call = [shape |-> c.shape, stream |-> c.stream, tools |-> c.tools, at |-> "limits",
               attempts |-> 0, same |-> 0, last |-> NotYet, draining |-> FALSE, cancelled |-> FALSE, blank |-> FALSE,
               final |-> "none", text |-> {}, follow |-> FALSE, usage |-> 0, outcome |-> "none"]
  /\ adapter = NewAdapter /\ response = NewResponse(1)
  /\ told = 0 /\ shown = {} /\ ran = <<>> /\ paid = {} /\ messages = <<>> /\ stop = "no"

At(step) == call.at = step
Shape(shapes) == call.shape \in shapes
toolVars == <<ran, paid>>
pastVars == <<told, messages>>

-----------------------------------------------------------------------------
(* Usage. *)

\* _extract_usage adds what the provider told last to what was counted before.
Extract(a, told_) == [a EXCEPT !.usage = @ + (IF told_ = NotYet THEN 0 ELSE told_)]

\* Adapters that put the latest usage aside clear it when they have counted it.
FlushKeeping(a) == Extract(a, a.latest)
Flush(a) == [Extract(a, a.latest) EXCEPT !.latest = NotYet]

\* get_partial_usage_snapshot
Snapshot(a) == Flush(a)

-----------------------------------------------------------------------------
(* Asking: chat_completion and its retries, which are counted for each round. *)

Fail == [call EXCEPT !.at = "over", !.outcome = "failed"]

\* An error while draining leaves what there is; otherwise it ends the answer.
Raises ==
  /\ adapter' = IF call.draining THEN Snapshot(adapter) ELSE adapter
  /\ call' = IF call.draining
               THEN [call EXCEPT !.at = "over", !.outcome = "stopped", !.usage = adapter'.usage]
               ELSE Fail
  /\ UNCHANGED <<response, pastVars, shown, toolVars, stop>>

\* _check_provider_rate_limits is asked once for an answer, not for each round.
PassLimits(ok) ==
  /\ At("limits")
  /\ call' = IF ok THEN [call EXCEPT !.at = "ask"] ELSE Fail
  /\ UNCHANGED <<adapter, response, pastVars, shown, toolVars, stop>>

\* The subscription, the parameters or the tools cannot be had: build_provider_params.
AskRefused == At("ask") /\ Raises

AskModel ==
  /\ At("ask") /\ ~Shape({"local"})
  /\ call' = [call EXCEPT !.at = "try", !.final = "none", !.text = {}, !.follow = FALSE]
  /\ UNCHANGED <<adapter, response, pastVars, shown, toolVars, stop>>

\* The provider of the tests echoes the question.
LocalStream ==
  /\ At("ask") /\ Shape({"local"})
  /\ shown' = {response.round}
  /\ call' = [call EXCEPT !.at = "ended", !.final = "answer", !.text = {response.round}]
  /\ UNCHANGED <<adapter, response, pastVars, toolVars, stop>>

\* A model that cannot see or use tools is not asked again.
CapabilityMismatch(error) == error = "capability"

\* RetryState.should_retry, asked before the error is counted.
ShouldRetry(error) == error # "client" /\ call.attempts < MaxTries /\ call.same < 3
Retryable(error) == ~CapabilityMismatch(error) /\ ShouldRetry(error)

\* record_error
Recorded(error) ==
  [call EXCEPT !.attempts = @ + 1, !.last = error, !.same = IF error = call.last THEN @ + 1 ELSE 1]

Rejected(error) ==
  /\ At("try") /\ Retryable(error)
  /\ call' = Recorded(error)
  /\ UNCHANGED <<adapter, response, pastVars, shown, toolVars, stop>>

RejectedForGood(error) == At("try") /\ ~Retryable(error) /\ Raises

\* A timeout or a broken connection is not tried again.
Breaks == (At("try") \/ (At("stream") /\ ~response.over)) /\ Raises

Accepted ==
  /\ At("try")
  /\ call' = [call EXCEPT !.at = IF call.stream THEN "stream" ELSE "body",
                          !.attempts = 0, !.same = 0, !.last = NotYet]
  /\ adapter' = [adapter EXCEPT !.id = Shape({"responses"}) /\ call.stream]
  /\ UNCHANGED <<response, pastVars, shown, toolVars, stop>>

-----------------------------------------------------------------------------
(* The chunks of a stream: handle_provider_event. *)

Streaming == At("stream") /\ ~response.over
Round == response.round

\* While draining nothing more reaches the client.
Shows == IF call.draining THEN shown ELSE shown \cup {Round}

Delta ==
  /\ Streaming /\ Round \notin adapter.content
  /\ adapter' = [adapter EXCEPT !.content = @ \cup {Round}] /\ shown' = Shows
  /\ UNCHANGED <<call, response, pastVars, toolVars, stop>>

\* A provider calls what it was offered: the plugins of the owner and what is toggled on.
Offered(kinds) == kinds \subseteq call.tools

CallChunk(kind) ==
  /\ Streaming /\ Round < MaxRounds
  /\ Offered({kind}) /\ <<Round, kind>> \notin response.asked
  /\ response' = [response EXCEPT !.asked = @ \cup {<<Round, kind>>}]
  /\ adapter' = [adapter EXCEPT !.calls = Append(@, <<Round, kind>>)]
  /\ UNCHANGED <<call, pastVars, shown, toolVars, stop>>

\* Usage is cumulative within a round: in one chunk of its own, at the start of a
\* message, or with every chunk.
UsageChunk ==
  /\ Streaming
  /\ response.usage < CASE Shape({"gemini"}) -> 2 [] Shape({"anthropic", "completions"}) -> 1 [] OTHER -> 0
  /\ response' = [response EXCEPT !.usage = @ + 1]
  /\ adapter' = [adapter EXCEPT !.latest = response.usage + 1]
  /\ UNCHANGED <<call, pastVars, shown, toolVars, stop>>

\* The stop reason of Anthropic comes with the rest of the usage, which is counted
\* and stays aside.  Only "end_turn" makes a final event.
StopReason(reason) ==
  /\ Streaming /\ Shape({"anthropic"}) /\ response.usage = 1
  /\ (reason = "tool_use") <=> (adapter.calls # <<>> /\ reason # "max_tokens")
  /\ response' = [response EXCEPT !.usage = 2, !.over = TRUE]
  /\ adapter' = FlushKeeping([adapter EXCEPT !.latest = 2])
  /\ call' = IF reason = "end_turn"
               THEN [call EXCEPT !.final = "answer", !.text = adapter.content] ELSE call
  /\ UNCHANGED <<pastVars, shown, toolVars, stop>>

\* response.completed: a final event if there is text, an error if there is nothing.
Completed ==
  /\ Streaming /\ Shape({"responses"})
  /\ response' = [response EXCEPT !.usage = 2, !.over = TRUE]
  /\ adapter' = [Extract(adapter, 2) EXCEPT !.content = {}]
  /\ call' = [call EXCEPT !.text = adapter.content,
                          !.final = IF adapter.content # {} THEN "answer"
                                    ELSE IF adapter.calls = <<>> THEN "error" ELSE @]
  /\ UNCHANGED <<pastVars, shown, toolVars, stop>>

\* response.failed, response.incomplete, error: what was asked for is run nevertheless.
FailedEvent ==
  /\ Streaming /\ Shape({"responses"})
  /\ response' = [response EXCEPT !.over = TRUE]
  /\ call' = [call EXCEPT !.final = "error"]
  /\ UNCHANGED <<adapter, pastVars, shown, toolVars, stop>>

-----------------------------------------------------------------------------
(* The end of a response: finalize_provider_events, handle_provider_completion. *)

\* The body of the stream ends: a provider that says when a response is over has said so.
StreamEnds ==
  /\ At("stream") /\ (Shape({"anthropic", "responses"}) => response.over)
  /\ call' = [call EXCEPT !.at = "tools"]
  /\ adapter' = IF Shape({"completions", "gemini"}) THEN Flush(adapter) ELSE adapter
  /\ UNCHANGED <<response, pastVars, shown, toolVars, stop>>

\* A whole response: some text or none, some calls or none, all of its usage.
Body(text, kinds, whole) ==
  /\ At("body")
  /\ Offered(kinds) /\ (kinds # {} => Round < MaxRounds)
  /\ LET asked == {<<Round, kind>> : kind \in kinds} IN
     /\ response' = [response EXCEPT !.asked = asked, !.over = TRUE, !.usage = IF whole THEN 2 ELSE 0]
     /\ adapter' = [Extract(adapter, response'.usage) EXCEPT
                      !.content = IF text THEN {Round} ELSE {},
                      !.calls = CHOOSE s \in [1..Cardinality(asked) -> asked] :
                                  \A i, j \in DOMAIN s : i # j => s[i] # s[j]]
  /\ call' = [call EXCEPT !.at = "tools"]
  /\ UNCHANGED <<pastVars, shown, toolVars, stop>>

\* An incomplete response, one without candidates: nothing of it is counted.
BodyUnusable ==
  /\ At("body") /\ Shape({"responses", "gemini"})
  /\ call' = [call EXCEPT !.at = "ended", !.blank = TRUE,
                          !.final = IF Shape({"responses"}) THEN "error" ELSE "answer"]
  /\ UNCHANGED <<adapter, response, pastVars, shown, toolVars, stop>>

\* Tools are run one after the other, also when the answer is being drained.
HasRun(i) == adapter.calls[i] \in {ran[j] : j \in (Len(messages) + 1)..Len(ran)}
NextCall == CHOOSE i \in DOMAIN adapter.calls : ~HasRun(i) /\ \A j \in 1..(i - 1) : HasRun(j)
AllRun == \A i \in DOMAIN adapter.calls : HasRun(i)

Internal(c) == c[2] = "internal"

\* A search costs when it succeeds; that it was made is recorded either way.
SearchCost(ok) == IF ok THEN 1 ELSE 0
RecordInternalUsage(c, ok) ==
  paid' = IF Internal(c) THEN paid \cup {<<c, SearchCost(ok)>>} ELSE paid

\* What a plugin returns, an error too, is the result of the call.
RunTool(ok) ==
  /\ At("tools") /\ ~AllRun
  /\ ran' = Append(ran, adapter.calls[NextCall])
  /\ RecordInternalUsage(adapter.calls[NextCall], ok)
  /\ UNCHANGED <<call, adapter, response, pastVars, shown, stop>>

\* A refusal of the plugin's execution is an error of the answer.
ToolRaises == At("tools") /\ ~AllRun /\ Raises

\* The adapter forgets what it has handed on.
HandedContent(a) == [a EXCEPT !.content = {}]
Handed(a) == [a EXCEPT !.calls = <<>>, !.content = {}]

\* What the adapter makes of a response without calls, of one with calls, and what
\* stays of a final event seen before.
FinalOf(calls) ==
  IF calls = <<>>
    THEN IF call.stream /\ Shape({"anthropic", "responses"}) THEN call.final
         ELSE IF Shape({"responses"}) /\ adapter.content = {} THEN "none" ELSE "answer"
    ELSE IF Shape({"anthropic", "responses"}) /\ call.stream THEN call.final ELSE "none"

FinalizeRound ==
  /\ At("tools") /\ AllRun
  /\ call' = [call EXCEPT !.at = "ended", !.follow = adapter.calls # <<>>,
                          !.final = FinalOf(adapter.calls),
                          !.text = IF call.stream /\ Shape({"anthropic", "responses"}) THEN @
                                   ELSE IF adapter.calls = <<>> THEN adapter.content ELSE {}]
  /\ adapter' = IF adapter.calls # <<>> THEN Handed(adapter)
                ELSE IF Shape({"completions"}) THEN HandedContent(adapter) ELSE adapter
  /\ UNCHANGED <<response, pastVars, shown, toolVars, stop>>

-----------------------------------------------------------------------------
(* The rounds: _stream_variant_phase, and the stop: _call_provider. *)

Stop(reason) ==
  /\ call.at # "over"
  /\ (stop = "no") \/ (stop = "user" /\ reason = "shutdown")
  /\ stop' = reason
  /\ UNCHANGED <<call, adapter, response, pastVars, shown, toolVars>>

\* Where the loop over the events of the provider is listening.
Listening == call.at \in {"stream", "ended"} \/ (call.stream /\ call.at \in {"try", "tools"})

\* A response whose id is known can be cancelled at the provider.
Cancellable == adapter.id

\* A user's stop counts the usage told so far, cancels what can be cancelled and lets
\* the provider come to its end; a shutdown does not wait.
SeesStop ==
  /\ Listening /\ stop # "no" /\ ~call.draining
  /\ adapter' = Snapshot(adapter)
  /\ call' = IF stop = "user"
               THEN [call EXCEPT !.draining = TRUE, !.cancelled = Cancellable]
               ELSE [call EXCEPT !.at = "over", !.outcome = "stopped", !.usage = adapter'.usage]
  /\ UNCHANGED <<response, pastVars, shown, toolVars, stop>>

\* A drain ends with a shutdown, or with the events of the provider.
Drained ==
  /\ call.draining
  /\ At("ended") \/ (At("stream") /\ stop = "shutdown")
  /\ adapter' = Snapshot(adapter)
  /\ call' = [call EXCEPT !.at = "over", !.outcome = "stopped", !.usage = adapter'.usage]
  /\ UNCHANGED <<response, pastVars, shown, toolVars, stop>>

\* A final event with text, or an error, ends the answer, also when tools were run.
Conclusive == call.final = "error" \/ (call.final = "answer" /\ call.text # {})

Answered ==
  /\ At("ended") /\ ~call.draining /\ (Conclusive \/ ~call.follow)
  /\ call' = IF call.final = "answer"
               THEN [call EXCEPT !.at = "over", !.outcome = "answered",
                         !.usage = IF call.blank THEN 0 ELSE adapter.usage]
               ELSE Fail
  /\ UNCHANGED <<adapter, response, pastVars, shown, toolVars, stop>>

NextRound ==
  /\ At("ended") /\ ~call.draining /\ ~Conclusive /\ call.follow
  /\ messages' = ran
  /\ told' = told + response.usage
  /\ response' = NewResponse(Round + 1)
  /\ call' = [call EXCEPT !.at = "ask"]
  /\ UNCHANGED <<adapter, shown, toolVars, stop>>

StreamNext ==
  \/ \E ok \in BOOLEAN : PassLimits(ok)
  \/ AskRefused \/ AskModel \/ LocalStream \/ Breaks \/ Accepted
  \/ \E error \in {"capability", "client", "rate", "server"} : Rejected(error) \/ RejectedForGood(error)
  \/ Delta \/ UsageChunk \/ Completed \/ FailedEvent \/ StreamEnds \/ BodyUnusable
  \/ \E kind \in {"plugin", "internal"} : CallChunk(kind)
  \/ \E reason \in {"end_turn", "tool_use", "max_tokens"} : StopReason(reason)
  \/ \E text, whole \in BOOLEAN, kinds \in SUBSET {"plugin", "internal"} : Body(text, kinds, whole)
  \/ \E ok \in BOOLEAN : RunTool(ok)
  \/ ToolRaises \/ FinalizeRound
  \/ \E reason \in {"user", "shutdown"} : Stop(reason)
  \/ SeesStop \/ Drained \/ Answered \/ NextRound

StreamSpec == StreamInit /\ [][StreamNext]_streamVars

-----------------------------------------------------------------------------
(* Properties. *)

\* The usage an answer is charged with is what the provider told of its rounds, each
\* round counted once: of every answer but the empty one that tells nothing of itself
\* (gemini_adapter.py:605), and of a stopped one where usage comes once (Gemini and
\* Anthropic tell it as they go, and the flush at the stop counts what the later
\* chunks tell again).
UsageAddsUp ==
  \/ call.outcome = "answered" /\ ~call.blank
  \/ call.outcome = "stopped" /\ Shape({"completions", "responses"})
  => call.usage = told + response.usage

\* Whatever the rounds and retries, each tool the model called runs once, what the
\* model is told in the next round are the results of all of them, and the answer is
\* the text of the last round, which is what was shown of it.
RoundsAreApart ==
  /\ \A i, j \in DOMAIN ran : ran[i] = ran[j] => i = j
  /\ At("try") => messages = ran
  /\ call.outcome = "answered" =>
       /\ call.text \subseteq {Round}
       /\ call.stream => call.text = shown \cap {Round}

\* Nothing of a round is counted, run or told in another.
RoundsAddUp == UsageAddsUp /\ RoundsAreApart
=============================================================================
