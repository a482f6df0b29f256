--------------------------- MODULE MCCircuitBreaker ---------------------------
(***************************************************************************)
(* Three calls of either breaker: two searches under the lock and a cache  *)
(* check of chroma_rag, or three drafts of local_draft.                    *)
(***************************************************************************)
EXTENDS CircuitBreaker

CONSTANTS c1, c2, c3
=============================================================================
