---------------------------- MODULE MCSlotBackend ----------------------------
(* The backend on one slot of each of two areas.                            *)
EXTENDS SlotBackend, TLC

CONSTANTS body, feet, t1, t2, h1, h2, h3

MCSlotCount == (body :> 1) @@ (feet :> 1)
MCTattooArea == (t1 :> body) @@ (t2 :> feet)
MCDefaultColor == (t1 :> 1) @@ (t2 :> 2)

\* Every tattoo has a section and name of its own.
MCDistinct == (t1 :> t1) @@ (t2 :> t2)

MCFailingCall == Call
MCSymmetry == Permutations(Handle)
=============================================================================
