--------------------------- MODULE ReEmbeddingMC ---------------------------
(***************************************************************************)
(* Small instances of ReEmbedding for TLC.                                 *)
(***************************************************************************)
EXTENDS ReEmbedding, TLC

CONSTANTS w1, w2

TwoWorkers == {w1, w2}

=============================================================================
