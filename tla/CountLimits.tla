----------------------------- MODULE CountLimits -----------------------------
(***************************************************************************)
(* The limits that the plan of a tenant puts on its knowledge bases and on *)
(* the documents of each (billing/enforcement.py): both are counted under  *)
(* the row lock of billing_state, which is held until the row is inserted. *)
(***************************************************************************)
EXTENDS KnowledgeBases, DocumentCounts

LimitsSpec == KbSpec /\ CountSpec

\* The limits hold, and every import is accounted for: see the two modules.
WithinCaps == KbsHold /\ WithinDocCap
=============================================================================
