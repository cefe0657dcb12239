------------------------- MODULE ConfirmedMutation --------------------------
(***************************************************************************)
(* What the workflow promises about the actor's tattoos: a mutation starts *)
(* only after the user confirmed it, as confirmed and at most once, and    *)
(* the next one can be confirmed only after it ended.                      *)
(***************************************************************************)
CONSTANTS
  Kind,         \* the kinds of mutation
  Request(_),   \* the requests of a kind
  None

VARIABLES
  phase,        \* "idle", "confirmed" or "running"
  mutation      \* the mutation confirmed or running

vars == <<phase, mutation>>

Init == phase = "idle" /\ mutation = None

Confirm(kind, request) ==
  /\ phase = "idle"
  /\ phase' = "confirmed"
  /\ mutation' = [kind |-> kind, request |-> request]

Run ==
  /\ phase = "confirmed"
  /\ phase' = "running"
  /\ UNCHANGED mutation

\* A confirmed mutation may be refused before it ran.
End ==
  /\ phase \in {"confirmed", "running"}
  /\ phase' = "idle"
  /\ mutation' = None

Next ==
  \/ \E k \in Kind : \E r \in Request(k) : Confirm(k, r)
  \/ Run
  \/ End

Spec == Init /\ [][Next]_vars
=============================================================================
