---------------------------- MODULE RedisQueueMC ----------------------------
(***************************************************************************)
(* Small instances of RedisQueue for TLC.                                  *)
(***************************************************************************)
EXTENDS RedisQueue, TLC

CONSTANTS j1, j2, w1, w2

OneJob == {j1}
TwoJobs == {j1, j2}
Pair == {w1, w2}
Single == {w1}
Symmetry == Permutations(TwoJobs) \cup Permutations(Pair)
Nowhere == {}
Anywhere ==
  {"get", "rpush", "zrem", "del", "scan due", "lpush", "unschedule", "rpop", "lease",
   "store", "handling", "expire", "ack", "ack del", "retry", "retry del", "retry push",
   "drop", "drop del"}

==============================================================================
