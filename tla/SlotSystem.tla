----------------------------- MODULE SlotSystem -----------------------------
(***************************************************************************)
(* The slot workflow over the tattoo backend: the operation of a scheduled *)
(* task is the sequence of calls of SlotBackend, and its answer is what    *)
(* the store, the actor and the other mods make it.                        *)
(*                                                                         *)
(* The task runs between frames or beside them: every frame handler may    *)
(* fall between two calls.  What is checked here relates what the user was *)
(* shown and confirmed to what the actor wears.                            *)
(***************************************************************************)
EXTENDS SlotWorkflow

CONSTANTS Listed, DefaultColor, FailingCall, MaxChanges

VARIABLES applied, object, external, template, updated, overlay, op, changes

Backend == INSTANCE SlotBackend

\* What SlotBackend assumes of its constants.
ASSUME BackendAssumption ==
  /\ Listed \in [Tattoo -> Tattoo]
  /\ \A t \in Tattoo : Listed[Listed[t]] = Listed[t]
  /\ DefaultColor \in [Tattoo -> RawColor]
  /\ MaxColor \in RawColor /\ (Color \ {0}) \subseteq RawColor
  /\ FailingCall \subseteq Backend!Call
  /\ MaxChanges \in Nat
  /\ None \notin Backend!Operation /\ None \notin Backend!Object

systemVars == <<vars, applied, object, external, template, updated, overlay,
                op, changes>>
backendVars == <<applied, object, external, template, updated, overlay, op,
                 changes>>

SystemInit == Init /\ Backend!Init

TaskBegins ==
  /\ task # None /\ task.result = None
  /\ Backend!Begin(task.kind, task.ticket.request)
  /\ UNCHANGED vars

TaskCalls == Backend!Step /\ UNCHANGED vars

TaskAnswers ==
  /\ Backend!Return
  /\ TaskReturns(op.result)

SystemNext ==
  \/ UserStep /\ UNCHANGED backendVars
  \/ Pump /\ UNCHANGED backendVars
  \/ TaskBegins \/ TaskCalls \/ TaskAnswers
  \/ TaskCompletes /\ UNCHANGED backendVars
  \/ Backend!Environment /\ UNCHANGED vars

SystemSpec == SystemInit /\ [][SystemNext]_systemVars

-----------------------------------------------------------------------------
(* What must hold.                                                         *)

(***************************************************************************)
(* The workflow is implemented: whatever the backend meets, it answers a   *)
(* task once, with an answer the workflow allows for its request.          *)
(***************************************************************************)
WorkflowImplemented == Spec

Place == Backend!Place
TargetPlace == <<selectedArea, targetSlot>>
Answered(kind, errors) ==
  task # None /\ task.kind = kind /\ task.result # None /\ task.result.error \in errors

(***************************************************************************)
(* What an application stored is what the preview still shows, in the slot *)
(* the user chose, whatever happened between the two: the preview, the     *)
(* ticket, the patched template and the copy SlaveTats made of it agree.   *)
(***************************************************************************)
AppliedAsPreviewed ==
  changes = 0 /\ Answered("apply", {None, "synchronizeFailed"}) =>
    Backend!Shown[TargetPlace] =
      [tattoo |-> previewTattoo, color |-> previewColor, material |-> "own"]

(***************************************************************************)
(* A retry that only synchronizes is enough: whenever the workflow would   *)
(* ask for one, what the user confirmed is already stored.                 *)
(***************************************************************************)
RetryOnlyNeedsSynchronizing ==
  changes = 0 =>
    /\ edit # None /\ edit.mode = "synchronizeOnly" =>
         \E p \in Place : /\ applied[p] = edit.handle
                          /\ object[edit.handle].color = edit.edited
    /\ screen = "removeConfirmation" /\ RemoveMode = "synchronizeOnly" =>
         applied[TargetPlace] = None

(***************************************************************************)
(* What the backend stored for a request waits to be synchronized.         *)
(***************************************************************************)
StoredUnsynchronized == updated /\ Backend!Shown # overlay

(***************************************************************************)
(* A retry after a failed synchronization does not apply again what is     *)
(* already stored.                                                         *)
(***************************************************************************)
ApplyRetryOnlySynchronizes ==
  [][op # None /\ op.kind = "apply" /\ applied' # applied =>
       ~ /\ StoredUnsynchronized
         /\ Backend!Shown[TargetPlace] =
              [tattoo |-> op.request.tattoo, color |-> op.request.color,
               material |-> "own"]]_systemVars

\* The snapshot of an area no longer tells what is stored.
Stale(area) == slots[area] # None /\ slots[area] # Backend!Report(area)

Queried(area) ==
  active["query"] # 0 /\ OutstandingTicket("query").request.area = area

(***************************************************************************)
(* A successful mutation refreshes its area: the query it asks for ends in *)
(* the slots that are stored or in an error, not because another area was  *)
(* selected meanwhile.                                                     *)
(***************************************************************************)
SuccessRefreshesArea ==
  [][\A a \in Area :
       changes = 0 /\ Stale(a) /\ Queried(a) /\ ~Queried(a)' =>
         ~Stale(a)' \/ error' # None]_systemVars
=============================================================================
