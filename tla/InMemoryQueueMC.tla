--------------------------- MODULE InMemoryQueueMC ---------------------------
(***************************************************************************)
(* Small instances of InMemoryQueue for TLC.                               *)
(***************************************************************************)
EXTENDS InMemoryQueue, TLC

CONSTANTS j1, j2, w1, w2

TwoJobs == {j1, j2}
Pair == {w1, w2}

\* One job may be tried twice, the other once.
Attempts == j1 :> 2 @@ j2 :> 1

==============================================================================
