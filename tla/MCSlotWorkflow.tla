--------------------------- MODULE MCSlotWorkflow ---------------------------
(* The slot workflow on two areas, body with two pages and feet with one.  *)
EXTENDS SlotWorkflow, TLC

CONSTANTS body, feet, t1, t2

MCSlotCount == (body :> 2) @@ (feet :> 1)
MCTattooArea == (t1 :> body) @@ (t2 :> feet)
=============================================================================
