------------------------ MODULE IngestionPipelineMC ------------------------
(***************************************************************************)
(* Small instances of IngestionPipeline for TLC.                           *)
(***************************************************************************)
EXTENDS IngestionPipeline, TLC

CONSTANTS w1, w2

Pair == {w1, w2}
Single == {w1}
Symmetry == Permutations(Pair)

All == {"classify", "extract", "embed", "email"}
Scans == {"extract", "email"}

Two == [k \in Kinds |-> 2]

\* Every call of a service the handlers and producers make, and those whose
\* failure some handler marks: all but the one that enqueues what follows profiling.
AllFaults ==
  {"upload"} \X {"stage", "enqueue", "embed", "profile"} \cup Kinds \X {"work"}
    \cup {"classify", "extract", "embed", "profile"} \X {"enqueue"}
MarkedFaults == AllFaults \ {<<"profile", "enqueue">>}

============================================================================
