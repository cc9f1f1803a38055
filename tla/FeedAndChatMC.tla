---------------------------- MODULE FeedAndChatMC ----------------------------
(***************************************************************************)
(* A plugin feed, and the streams of a chat, checked by one run: they      *)
(* share no state, the initial state picks the one that runs, and the      *)
(* other stands still.  The streams are an ensemble of two variants, or a  *)
(* regeneration among others.                                              *)
(***************************************************************************)
EXTENDS PluginFeed, ChatStreams, TLC

CONSTANTS w1, w2, r1, v1, v2, s1

VARIABLE part

Pair      == {w1, w2}
OneRunner == {r1}

TwoVariants == {v1, v2}
OneStream == {s1}
Ensemble == [of |-> [v \in TwoVariants |-> s1], regen |-> {}]
Regeneration == [of |-> (v1 :> s1 @@ v2 :> Unset), regen |-> {s1}]
TwoLayouts == {Ensemble, Regeneration}

BothInit ==
  /\ part \in {"feed", "chat"} /\ Init /\ ChatInit
  /\ part = "chat" \/ layout = Ensemble

BothNext ==
  \/ part = "feed" /\ Next /\ UNCHANGED <<part, chatVars>>
  \/ part = "chat" /\ ChatNext /\ UNCHANGED <<part, vars>>

\* The fairness of FairSpec and of ChatFairSpec, each of its own part.
BothFairness ==
  /\ WF_vars(part = "feed" /\ Elapse) /\ WF_vars(part = "feed" /\ Tick)
  /\ WF_vars(part = "feed" /\ Queue) /\ WF_vars(part = "feed" /\ Disable)
  /\ \A e \in Execution : WF_vars(part = "feed" /\ CleanupStale(e))
  /\ \A w \in Workers : WF_vars(part = "feed" /\ Take(w)) /\ WF_vars(part = "feed" /\ Handle(w))
  /\ \A r \in Runners : WF_vars(part = "feed" /\ Run(r))
  /\ \A v \in Variants : WF_chatVars(part = "chat" /\ ServerStep(v))

BothSpec == BothInit /\ [][BothNext]_<<part, vars, chatVars>> /\ BothFairness
=============================================================================
