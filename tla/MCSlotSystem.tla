---------------------------- MODULE MCSlotSystem ----------------------------
(* The whole on one slot of each of two areas.                             *)
EXTENDS SlotSystem, TLC

CONSTANTS body, feet, t1, t2, h1, h2, h3

MCSlotCount == (body :> 1) @@ (feet :> 1)
MCTattooArea == (t1 :> body) @@ (t2 :> feet)
MCDefaultColor == (t1 :> 1) @@ (t2 :> 1)
MCListed == (t1 :> t1) @@ (t2 :> t2)
MCSymmetry == Permutations(Handle)
=============================================================================
