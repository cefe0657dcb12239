---------------------------- MODULE CatalogCursor ----------------------------
(***************************************************************************)
(* What a browser of pages promises: other criteria start at the first     *)
(* page, and under the same criteria the results stay and a page is turned *)
(* only to one of them.                                                    *)
(***************************************************************************)
EXTENDS Naturals

VARIABLES
  criteria,  \* what is listed: a catalog and the filters on it
  index,     \* the page shown, from 0
  count      \* the pages there are

vars == <<criteria, index, count>>

Init == index = 0 /\ count = 0

\* The criteria are chosen, the same ones or others.
Renew == index' = 0 /\ count' \in Nat

Turn ==
  /\ UNCHANGED <<criteria, count>>
  /\ index' < count /\ index' \in Nat

Next == Renew \/ Turn

Spec == Init /\ [][Next]_vars
=============================================================================
