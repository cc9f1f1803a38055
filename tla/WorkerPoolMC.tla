---------------------------- MODULE WorkerPoolMC ----------------------------
(***************************************************************************)
(* Instances of WorkerPool.  Queue 0 stands for a limited workload type such as   *)
(* OCR, queue 1 for one without a limit.                                   *)
(***************************************************************************)
EXTENDS WorkerPool

OnePermit == [q \in 0..1 |-> IF q = 0 THEN 1 ELSE 0]

============================================================================
