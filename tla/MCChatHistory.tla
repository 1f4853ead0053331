--------------------------- MODULE MCChatHistory ----------------------------
(* The instance of ChatTurns that checks what compactions do to a history. *)
EXTENDS MCChatTurns

(* Bound: with as many rows as there may be, a behaviour goes on while one  *)
(* summary is stored at most and no model was deleted; with a row less,     *)
(* whatever happens.                                                        *)
LongIsCalm == \/ (Compactions <= 1 /\ models = Models)
              \/ Len(rows) < MaxRows
=============================================================================
