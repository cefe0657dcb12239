-------------------------- MODULE SlotSystemProofs ---------------------------
(***************************************************************************)
(* The slot workflow over the tattoo backend: the system implements the    *)
(* workflow, and what the user was shown and confirmed is what is stored,  *)
(* for any areas, tattoos and handles and whichever calls fail.            *)
(***************************************************************************)
EXTENDS SlotSystem, SlotWorkflowProofs

\* What is proved of the backend.
Store == INSTANCE SlotBackendProofs

USE DEF OptionalOf

-----------------------------------------------------------------------------
(* The choices of the user                                                 *)

\* The target is a slot of the selected area, and the preview a tattoo that
\* declares that area.
ChoicesFit ==
  /\ targetSlot # None => targetSlot \in 0 .. SlotCount[selectedArea] - 1
  /\ previewTattoo # None => TattooArea[previewTattoo] = selectedArea

\* A completion drops choices, or keeps them.
LEMMA CompleteKeepsChoices ==
  ASSUME NEW k \in Kind, NEW ticket, NEW result, NEW p, Complete(k, ticket, result, p)
  PROVE  /\ selectedArea' = selectedArea
         /\ targetSlot' \in {targetSlot, None} /\ previewTattoo' \in {previewTattoo, None}
BY CompleteCases
   DEF Superseded, CompleteSlotQuery, CompleteApply, CompleteRemove, CompleteAppearanceUpdate,
       MutationFails, MutationSucceeds, browseVars, choiceVars

\* Every step keeps the choices fitting.
LEMMA ChoiceStep ==
  ASSUME TypeOK, ChoicesFit, [Next]_vars
  PROVE  ChoicesFit'
<1> USE DEF modelVars, browseVars, choiceVars
<1>1. ASSUME selectedArea' = selectedArea,
             targetSlot' \in {targetSlot, None}, previewTattoo' \in {previewTattoo, None}
      PROVE  ChoicesFit'
  BY <1>1 DEF ChoicesFit
<1>2. CASE Gesture
  <2>1. CASE CurrentSlotsGesture
    <3>1. ASSUME NEW a \in Area, SelectArea(a)
          PROVE  ChoicesFit'
      BY <3>1 DEF SelectArea, ChoicesFit
    <3>2. ASSUME NEW s \in Slot, SelectSlot(s)
          PROVE  ChoicesFit'
      <4>1. s \in DOMAIN slots[selectedArea] /\ targetSlot' = s /\ previewTattoo' = None
            /\ selectedArea' = selectedArea /\ slots[selectedArea] # None
        BY <3>2 DEF SelectSlot
      <4>2. slots[selectedArea] \in Snapshot(selectedArea)
        BY <4>1 DEF TypeOK
      <4>3. s \in 0 .. SlotCount[selectedArea] - 1
        BY <4>1, <4>2 DEF Snapshot
      <4> QED
        BY <4>1, <4>3 DEF ChoicesFit
    <3>3. ASSUME NEW page, TurnSlotPage(page)
          PROVE  ChoicesFit'
      BY <1>1, <3>3 DEF TurnSlotPage
    <3>4. CASE RefreshSelectedArea
      BY <1>1, <3>4 DEF RefreshSelectedArea
    <3> QED
      BY <2>1, <3>1, <3>2, <3>3, <3>4
         DEF CurrentSlotsGesture, PreviousSlotPage, NextSlotPage, SetSlotPageNumber
  <2>2. CASE BackToSlots
    BY <1>1, <2>2 DEF BackToSlots
  <2>3. CASE SlotActionsGesture
    BY <1>1, <2>2, <2>3
       DEF SlotActionsGesture, ReplaceSelectedSlot, BeginEditAppearance, RequestRemove,
           CancelRemove, ConfirmRemove
  <2>4. ASSUME NEW t \in Tattoo, SelectTattoo(t)
        PROVE  ChoicesFit'
    BY <2>4 DEF SelectTattoo, ChoicesFit
  <2>5. CASE PreviewGesture
    BY <1>1, <2>2, <2>5 DEF PreviewGesture, SetPreviewAppearance, CancelPreview, ConfirmApply
  <2>6. CASE EditGesture
    BY <1>1, <2>6 DEF EditGesture, SetEditedAppearance, CancelEditAppearance,
       ConfirmAppearanceUpdate
  <2> QED
    BY <1>2, <2>1, <2>2, <2>3, <2>4, <2>5, <2>6 DEF Gesture, PickerGesture
<1>3. CASE Start \/ ToggleWindow \/ FrameEnds \/ UNCHANGED vars
  BY <1>1, <1>3 DEF Start, ToggleWindow, FrameEnds, vars
<1>4. CASE Pump
  <2>1. CASE UNCHANGED <<modelVars, task>>
    BY <1>1, <2>1
  <2>2. ASSUME NEW k \in Kind, Schedule(k) \/ SchedulerRejects(k)
        PROVE  ChoicesFit'
    BY <1>1, <2>2, CompleteKeepsChoices DEF Schedule, SchedulerRejects
  <2> QED
    BY <1>4, <2>1, <2>2 DEF Pump
<1>5. ASSUME NEW r, TaskReturns(r)
      PROVE  ChoicesFit'
  BY <1>1, <1>5 DEF TaskReturns
<1>6. CASE TaskCompletes
  <2>1. task.kind \in Kind
    BY <1>6 DEF TaskCompletes, TypeOK, Task
  <2> QED
    BY <1>1, <1>6, <2>1, CompleteKeepsChoices DEF TaskCompletes
<1> QED
  BY <1>2, <1>3, <1>4, <1>5, <1>6 DEF Next, UserStep

-----------------------------------------------------------------------------
(* The requests of the tasks                                               *)

\* A mutation that waits or runs is what the screen shows.
LEMMA TaskShown ==
  ASSUME TypeOK, WorkInv, task # None, task.kind \in Mutation
  PROVE  /\ active[task.kind] # 0 /\ pending[task.kind] = None
         /\ screen = BusyScreen(task.kind)
         /\ ShownBy(task.kind, task.ticket.request)
<1>1. active[task.kind] # 0 /\ pending[task.kind] = None
  BY DEF WorkInv, TicketsIssued, MutationAwaited
<1>2. ShownBy(task.kind, OutstandingTicket(task.kind).request)
  BY <1>1 DEF WorkInv, ShownIsExecuted
<1> QED
  BY <1>1, <1>2 DEF OutstandingTicket, WorkInv, BusyScreenHasOperation

\* A task asks for a slot of the area, and for a tattoo that declares it.
LEMMA TaskIssuable ==
  ASSUME TypeOK, WorkInv, ChoicesFit, task # None
  PROVE  /\ task.kind \in Kind /\ task.ticket.request \in Request(task.kind)
         /\ task.kind \in {"apply", "remove"} =>
              /\ task.ticket.request.area = selectedArea
              /\ task.ticket.request.slot = targetSlot
              /\ task.ticket.request.area \in Area
              /\ task.ticket.request.slot \in Slot
              /\ task.ticket.request.slot < SlotCount[task.ticket.request.area]
         /\ task.kind = "apply" =>
              TattooArea[task.ticket.request.tattoo] = task.ticket.request.area
<1> DEFINE r == task.ticket.request
<1>1. task.kind \in Kind /\ r \in Request(task.kind)
  BY DEF TypeOK, Task, Ticket
<1>2. task.kind \in {"apply", "remove"} => r.area \in Area /\ r.slot \in Slot
  BY <1>1 DEF Request
<1>3. task.kind = "apply" => r.tattoo \in Tattoo
  BY <1>1 DEF Request
<1>a. task.kind \in Mutation => ShownBy(task.kind, r)
  BY TaskShown
<1>4. task.kind \in {"apply", "remove"} => r.area = selectedArea /\ r.slot = targetSlot
  <2>1. CASE task.kind = "apply"
    <3>1. r = [area |-> selectedArea, slot |-> targetSlot,
               tattoo |-> previewTattoo, color |-> previewColor]
      BY <1>a, <2>1, Kinds DEF ShownBy
    <3> QED
      BY <3>1
  <2>2. CASE task.kind = "remove"
    BY <1>a, <2>2, Kinds DEF ShownBy
  <2> QED
    BY <2>1, <2>2
<1>5. task.kind = "apply" => r.tattoo = previewTattoo
  BY <1>a, Kinds DEF ShownBy
<1>6. task.kind \in {"apply", "remove"} => r.slot < SlotCount[r.area]
  BY <1>2, <1>4, NoneAssumption, SlotCountAssumption DEF ChoicesFit
<1>7. task.kind = "apply" => TattooArea[r.tattoo] = r.area
  BY <1>3, <1>4, <1>5, NoneAssumption DEF ChoicesFit
<1> QED
  BY <1>1, <1>2, <1>4, <1>6, <1>7
-----------------------------------------------------------------------------
(* What a step of the workflow does to what the store must agree with      *)

\* A step of the workflow beside the operation.
WorkflowStep == UserStep \/ Pump \/ TaskCompletes

\* The task goes on, ends, or begins with a ticket that waited.
LEMMA TaskEffect ==
  ASSUME WorkflowStep
  PROVE  \/ task' = task
         \/ task # None /\ task.result # None /\ task' = None
         \/ /\ task = None
            /\ \E k \in Kind :
                 /\ pending[k] # None
                 /\ task' = [kind |-> k, ticket |-> pending[k], result |-> None]
<1>1. UserStep => task' = task
  BY DEF UserStep, Start, ToggleWindow, Gesture, FrameEnds
<1>2. CASE Pump
  BY <1>2 DEF Pump, InFlight, Taken, Schedule, SchedulerRejects
<1>3. TaskCompletes => task # None /\ task.result # None /\ task' = None
  BY DEF TaskCompletes
<1> QED
  BY <1>1, <1>2, <1>3 DEF WorkflowStep

\* A completion issues no mutation.
LEMMA CompleteMutations ==
  ASSUME TypeOK, NEW k \in Kind, NEW ticket, NEW result, NEW p, PendingType(p),
         Complete(k, ticket, result, p)
  PROVE  \A l \in Mutation : pending'[l] = p[l]
<1>0. ModelType /\ selectedArea \in Area /\ active \in [Kind -> Nat]
  BY TypeOKParts DEF ModelType
<1>1. Retired(k) \in [Kind -> Nat]
  BY <1>0 DEF Retired
<1>2. \/ pending' = p
      \/ ScheduleSlotQuery(selectedArea, p, Retired(k))
  BY CompleteCases
     DEF Superseded, CompleteSlotQuery, CompleteApply, CompleteRemove,
         CompleteAppearanceUpdate, MutationFails, MutationSucceeds
<1> QED
  BY <1>0, <1>1, <1>2, QueryEffect

\* A removal is asked for where it is confirmed only.
LEMMA RemovalTicket ==
  ASSUME TypeOK, WorkInv, WorkflowStep, pending'["remove"] # None
  PROVE  \/ pending'["remove"] = pending["remove"]
         \/ /\ screen = "removeConfirmation"
            /\ pending'["remove"].request =
                 [area |-> selectedArea, slot |-> targetSlot, mode |-> RemoveMode]
<1> USE DEF modelVars, browseVars, choiceVars, ticketVars
<1>0. /\ ModelType /\ RunType /\ PendingType(pending) /\ active \in [Kind -> Nat]
      /\ selectedArea \in Area
  BY TypeOKParts DEF ModelType, PendingType
<1>1. ASSUME ScheduleSlotQuery(selectedArea, pending, active)
      PROVE  pending'["remove"] = pending["remove"]
  BY <1>0, <1>1, QueryEffect, Kinds
<1>2. ASSUME NEW a \in Area, SelectArea(a)
      PROVE  pending'["remove"] = pending["remove"]
  <2> DEFINE p == [pending EXCEPT !["appearance"] = None]
             g == [active EXCEPT !["appearance"] = 0]
  <2>1. PendingType(p) /\ g \in [Kind -> Nat] /\ p["remove"] = pending["remove"]
    BY <1>0, ForgetType, Kinds DEF Kind, PendingType
  <2>2. ScheduleSlotQuery(a, p, g) \/ pending' = p
    BY <1>2 DEF SelectArea
  <2> HIDE DEF p, g
  <2> QED
    BY <1>0, <2>1, <2>2, QueryEffect, Kinds
<1>3. ASSUME NEW k \in {"apply", "appearance"}, NEW r \in Request(k), Issue(k, r, pending, active)
      PROVE  pending'["remove"] = pending["remove"]
  BY <1>0, <1>3, IssueEffect, Kinds
<1>4. CASE ConfirmRemove
  <2> DEFINE r == [area |-> selectedArea, slot |-> targetSlot, mode |-> RemoveMode]
  <2>1. r \in Request("remove")
    BY <1>0, <1>4, RequestsTyped DEF ConfirmRemove, ModelType, RemoveMode, Mode
  <2>2. Issue("remove", r, pending, active)
    BY <1>4 DEF ConfirmRemove
  <2> HIDE DEF r
  <2>3. pending'["remove"].request = r
    BY <1>0, <2>1, <2>2, IssueEffect, Kinds
  <2> QED
    BY <1>4, <2>3 DEF ConfirmRemove, r
<1>5. CASE Gesture
  <2>1. CASE CurrentSlotsGesture
    BY <1>1, <1>2, <2>1
       DEF CurrentSlotsGesture, PreviousSlotPage, NextSlotPage, SetSlotPageNumber,
           TurnSlotPage, RefreshSelectedArea, SelectSlot
  <2>2. CASE SlotActionsGesture \/ PickerGesture
    BY <1>4, <2>2
       DEF SlotActionsGesture, BackToSlots, ReplaceSelectedSlot, BeginEditAppearance,
           RequestRemove, CancelRemove, PickerGesture, SelectTattoo
  <2>3. CASE PreviewGesture
    <3>1. CASE ConfirmApply
      <4> DEFINE r == [area |-> selectedArea, slot |-> targetSlot,
                       tattoo |-> previewTattoo, color |-> previewColor]
      <4>1. r \in Request("apply") /\ Issue("apply", r, pending, active)
        BY <1>0, <3>1, RequestsTyped DEF ConfirmApply, ModelType
      <4> HIDE DEF r
      <4> QED
        BY <1>3, <4>1
    <3> QED
      BY <2>3, <3>1 DEF PreviewGesture, SetPreviewAppearance, CancelPreview, BackToSlots
  <2>4. CASE EditGesture
    <3>1. CASE ConfirmAppearanceUpdate
      <4> DEFINE r == [handle |-> edit.handle, color |-> edit.edited, mode |-> edit.mode]
      <4>1. edit \in EditSession /\ edit # None
        BY <1>0, <3>1 DEF ConfirmAppearanceUpdate, CanSaveAppearance, ModelType
      <4>2. r \in Request("appearance")
        BY <4>1, RequestsTyped DEF EditSession
      <4>3. Issue("appearance", r, pending, active)
        BY <3>1 DEF ConfirmAppearanceUpdate
      <4> HIDE DEF r
      <4> QED
        BY <1>3, <4>2, <4>3
    <3> QED
      BY <2>4, <3>1 DEF EditGesture, SetEditedAppearance, CancelEditAppearance
  <2> QED
    BY <1>5, <2>1, <2>2, <2>3, <2>4 DEF Gesture
<1>6. CASE Start \/ ToggleWindow \/ FrameEnds
  BY <1>1, <1>6 DEF Start, ToggleWindow, FrameEnds
<1>7. CASE Pump
  <2>1. ASSUME NEW k \in Kind, Schedule(k) \/ SchedulerRejects(k)
        PROVE  pending'["remove"] = pending["remove"]
    <3> DEFINE p == [pending EXCEPT ![k] = None]
    <3>1. PendingType(p) /\ (p["remove"] = None \/ p["remove"] = pending["remove"])
      BY <1>0, ForgetType, Kinds DEF PendingType
    <3>2. pending' = p
          \/ \E result : Complete(k, pending[k], result, p)
      BY <2>1 DEF Schedule, SchedulerRejects
    <3> HIDE DEF p
    <3>3. pending'["remove"] = p["remove"]
      BY <3>1, <3>2, CompleteMutations, Kinds
    <3> QED
      BY <3>1, <3>3
  <2> QED
    BY <1>7, <2>1 DEF Pump
<1>8. CASE TaskCompletes
  <2>1. task.kind \in Kind
    BY <1>0, <1>8 DEF TaskCompletes, RunType, Task
  <2> QED
    BY <1>0, <1>8, <2>1, CompleteMutations, Kinds DEF TaskCompletes
<1> QED
  BY <1>5, <1>6, <1>7, <1>8 DEF WorkflowStep, UserStep
\* Steps of the workflow are steps of its specification.
LEMMA WorkflowSteps == WorkflowStep => Next
BY DEF WorkflowStep, Next

\* The ticket of an edit that waits asks for what the session holds.
LEMMA EditShown ==
  ASSUME TypeOK, WorkInv,
         \/ pending["appearance"] # None
         \/ task # None /\ task.kind = "appearance"
  PROVE  /\ active["appearance"] # 0 /\ edit # None /\ edit \in EditSession
         /\ OutstandingTicket("appearance").request =
              [handle |-> edit.handle, color |-> edit.edited, mode |-> edit.mode]
         /\ pending["appearance"] = None => OutstandingTicket("appearance") = task.ticket
<1>1. active["appearance"] # 0
  BY Kinds DEF WorkInv, TicketsIssued, MutationAwaited
<1>2. ShownBy("appearance", OutstandingTicket("appearance").request)
  BY <1>1, Kinds DEF WorkInv, ShownIsExecuted
<1> QED
  BY <1>1, <1>2 DEF ShownBy, OutstandingTicket, TypeOK

\* A session keeps to synchronizing only after a synchronization failed.
LEMMA EditEffect ==
  ASSUME TypeOK, WorkInv, WorkflowStep, edit' # None, edit'.mode = "synchronizeOnly"
  PROVE  /\ edit # None
         /\ \/ edit.mode = "synchronizeOnly" /\ edit' = edit
            \/ /\ task # None /\ task.kind = "appearance" /\ task.result # None
               /\ task.result.error = "synchronizeFailed"
               /\ edit'.handle = edit.handle /\ edit'.edited = edit.edited
<1> USE DEF modelVars, browseVars, choiceVars
<1>0. edit \in OptionalOf(EditSession) /\ ModelType /\ RunType
  BY TypeOKParts DEF TypeOK
<1>1. CASE edit # None /\ edit.mode = "synchronizeOnly"
  BY <1>1, SessionStep, WorkflowSteps
<1>2. CASE edit = None \/ edit.mode # "synchronizeOnly"
  <2>1. edit' # edit
    BY <1>2
  <2>2. CASE Gesture
    <3>1. ~BeginEditAppearance
      BY DEF BeginEditAppearance
    <3>2. ASSUME NEW c \in Color, SetEditedAppearance(c)
          PROVE  FALSE
      <4>1. edit \in EditSession /\ edit' = [edit EXCEPT !.edited = Clamp(c)]
            /\ edit.mode # "synchronizeOnly"
        BY <1>0, <3>2 DEF SetEditedAppearance
      <4>2. edit'.mode = edit.mode
        BY <4>1 DEF EditSession
      <4> QED
        BY <4>1, <4>2
    <3> QED
      BY <2>1, <2>2, <3>1, <3>2
         DEF Gesture, CurrentSlotsGesture, PreviousSlotPage, NextSlotPage, SetSlotPageNumber,
             TurnSlotPage, RefreshSelectedArea, SelectArea, SelectSlot, SlotActionsGesture,
             BackToSlots, ReplaceSelectedSlot, RequestRemove, CancelRemove, ConfirmRemove,
             PickerGesture, SelectTattoo, PreviewGesture, SetPreviewAppearance, CancelPreview,
             ConfirmApply, EditGesture, CancelEditAppearance, ConfirmAppearanceUpdate
  <2>3. CASE Start \/ ToggleWindow \/ FrameEnds
    BY <2>1, <2>3 DEF Start, ToggleWindow, FrameEnds
  <2>4. ASSUME NEW k \in Kind, NEW ticket, NEW result, NEW p, Complete(k, ticket, result, p)
        PROVE  /\ k = "appearance" /\ result.error = "synchronizeFailed" /\ edit # None
               /\ edit'.handle = edit.handle /\ edit'.edited = edit.edited
    <3>1. k = "appearance" /\ CompleteAppearanceUpdate(result, p)
      BY <2>1, <2>4, CompleteCases
         DEF Superseded, CompleteSlotQuery, CompleteApply, CompleteRemove
    <3>2. edit # None /\ edit \in EditSession
          /\ edit' = [edit EXCEPT !.mode = NextEditMode(result.error)]
      BY <1>0, <3>1 DEF CompleteAppearanceUpdate
    <3>3. /\ edit'.mode = NextEditMode(result.error)
          /\ edit'.handle = edit.handle /\ edit'.edited = edit.edited
      BY <3>2 DEF EditSession
    <3>4. result.error = "synchronizeFailed"
      BY <1>2, <3>2, <3>3 DEF NextEditMode
    <3> QED
      BY <3>1, <3>2, <3>3, <3>4
  <2>5. CASE Pump
    <3>1. ASSUME NEW k \in Kind, pending[k] # None, SchedulerRejects(k)
          PROVE  FALSE
      <4>1. /\ k = "appearance" /\ edit # None
            /\ ExceptionError(k, pending[k].request) = "synchronizeFailed"
        BY <2>4, <3>1 DEF SchedulerRejects
      <4>2. pending[k].request.mode = edit.mode
        BY <3>1, <4>1, EditShown DEF OutstandingTicket
      <4> QED
        BY <1>2, <4>1, <4>2 DEF ExceptionError
    <3> QED
      BY <2>1, <2>5, <3>1 DEF Pump, Schedule, Taken
  <2>6. CASE TaskCompletes
    <3>1. task.kind \in Kind
      BY <1>0, <2>6 DEF TaskCompletes, RunType, Task
    <3> QED
      BY <2>4, <2>6, <3>1 DEF TaskCompletes
  <2> QED
    BY <2>2, <2>3, <2>5, <2>6 DEF WorkflowStep, UserStep
<1> QED
  BY <1>1, <1>2

\* The confirmation of a removal shows a failed synchronization only after
\* that of the removal failed, and for the same slot.
LEMMA RemovalEffect ==
  ASSUME TypeOK, WorkInv, WorkflowStep,
         screen' = "removeConfirmation", error' = "synchronizeFailed"
  PROVE  /\ selectedArea' = selectedArea /\ targetSlot' = targetSlot
         /\ \/ screen = "removeConfirmation" /\ error = "synchronizeFailed"
            \/ /\ task # None /\ task.kind = "remove" /\ task.result # None
               /\ task.result.error = "synchronizeFailed"
<1> USE DEF modelVars, browseVars, choiceVars
<1>0. ModelType /\ RunType
  BY TypeOKParts
<1>1. error' # None
  BY NoneAssumption DEF Error
<1>2. CASE UNCHANGED <<screen, error, selectedArea, targetSlot>>
  BY <1>2
<1>3. CASE Gesture
  <2>1. ~CurrentSlotsGesture
    BY <1>1
       DEF CurrentSlotsGesture, PreviousSlotPage, NextSlotPage, SetSlotPageNumber,
           TurnSlotPage, RefreshSelectedArea, SelectArea, SelectSlot, OpenPicker
  <2>2. ~SlotActionsGesture
    BY <1>1
       DEF SlotActionsGesture, BackToSlots, ReplaceSelectedSlot, OpenPicker,
           BeginEditAppearance, RequestRemove, CancelRemove, ConfirmRemove
  <2>3. ~PickerGesture /\ ~PreviewGesture /\ ~EditGesture
    BY DEF PickerGesture, BackToSlots, SelectTattoo, PreviewGesture, SetPreviewAppearance,
           CancelPreview, ConfirmApply, EditGesture, SetEditedAppearance,
           CancelEditAppearance, ConfirmAppearanceUpdate
  <2> QED
    BY <1>3, <2>1, <2>2, <2>3 DEF Gesture
<1>4. CASE Start \/ ToggleWindow \/ FrameEnds
  BY <1>1, <1>2, <1>4 DEF Start, ScheduleSlotQuery, ToggleWindow, FrameEnds
<1>5. ASSUME NEW k \in Kind, NEW ticket, NEW result, NEW p, Complete(k, ticket, result, p),
             k = "query" => result.error # "synchronizeFailed"
      PROVE  \/ UNCHANGED <<screen, error, selectedArea, targetSlot>>
             \/ /\ k = "remove" /\ result.error = "synchronizeFailed"
                /\ UNCHANGED <<selectedArea, targetSlot>>
  BY <1>1, <1>5, CompleteCases
     DEF Superseded, CompleteSlotQuery, CompleteApply, CompleteRemove,
         CompleteAppearanceUpdate, MutationFails, MutationSucceeds, ScheduleSlotQuery
<1>6. CASE Pump
  <2>1. ASSUME NEW k \in Kind, SchedulerRejects(k)
        PROVE  UNCHANGED <<screen, error, selectedArea, targetSlot>>
    <3>1. k \in {"query", "remove"} =>
            ExceptionError(k, pending[k].request) # "synchronizeFailed"
      BY DEF ExceptionError
    <3> QED
      BY <1>5, <2>1, <3>1 DEF SchedulerRejects
  <2> QED
    BY <1>2, <1>6, <2>1 DEF Pump, Schedule
<1>7. CASE TaskCompletes
  <2>1. /\ task # None /\ task.kind \in Kind /\ task.result # None
        /\ task.result \in Results(task.kind, task.ticket.request)
        /\ Complete(task.kind, task.ticket, task.result, pending)
    BY <1>0, <1>7 DEF TaskCompletes, RunType, Task
  <2>2. task.kind = "query" => task.result.error # "synchronizeFailed"
    BY <2>1, NoneAssumption DEF Results, Failures, Error
  <2> QED
    BY <1>2, <1>5, <2>1, <2>2
<1> QED
  BY <1>3, <1>4, <1>6, <1>7 DEF WorkflowStep, UserStep

-----------------------------------------------------------------------------
(* The backend of the system is the backend of its proofs                  *)

\* The values are the same.
LEMMA SameValues ==
  /\ Store!Place = Place /\ Store!Shown = Backend!Shown
  /\ Store!Kind = Kind /\ Store!Mutation = Mutation
  /\ \A k : Store!Request(k) = Request(k)
  /\ \A k, r : Store!Results(k, r) = Results(k, r)
<1>1. Store!Kind = Kind /\ Store!Mutation = Mutation
  BY DEF Store!Kind, Kind, Store!Mutation, Mutation
<1>2. Store!Place = Place
  BY DEF Store!Place, Place, Backend!Place, Store!Slot, Backend!Slot
<1>3. Store!Shown = Backend!Shown
  BY DEF Store!Shown, Backend!Shown, Store!Place, Backend!Place, Store!Slot, Backend!Slot
<1>4. ASSUME NEW k
      PROVE  Store!Request(k) = Request(k)
  BY DEF Store!Request, Request, Store!Slot, Slot, Store!Color, Color, Store!Mode, Mode
<1>5. ASSUME NEW k, NEW r
      PROVE  Store!Results(k, r) = Results(k, r)
  BY DEF Store!Results, Results, Store!Failures, Failures, Store!Error, Error,
         Store!Snapshot, Snapshot, Store!SlotState, SlotState, Store!Managed, Managed,
         Store!Unmanaged, Unmanaged
<1> QED
  BY <1>1, <1>2, <1>3, <1>4, <1>5

\* The steps are the same.
LEMMA SameSteps ==
  /\ \A k, r : Backend!Begin(k, r) => Store!Begin(k, r)
  /\ Backend!Step => Store!Step
  /\ Backend!Return => Store!Return
  /\ Backend!Environment => Store!Environment
<1> USE DEF Backend!At, Backend!Answer, Backend!Advance, Backend!Fail, Backend!storeVars, Backend!Target, Backend!Writes, Backend!Valid,
       Store!At, Store!Answer, Store!Advance, Store!Fail, Store!storeVars, Store!Target, Store!Writes, Store!Valid
<1>1. Backend!Place = Store!Place /\ Backend!Shown = Store!Shown
      /\ Backend!Kind = Store!Kind /\ Backend!Mutation = Store!Mutation
      /\ Backend!Color = Store!Color /\ Backend!AppliedHandles = Store!AppliedHandles
  BY DEF Backend!Place, Backend!Shown, Backend!Kind, Backend!Mutation, Backend!Color, Backend!Slot, Backend!AppliedHandles,
       Store!Place, Store!Shown, Store!Kind, Store!Mutation, Store!Color, Store!Slot, Store!AppliedHandles
<1>2. ASSUME NEW k, NEW r, Backend!Begin(k, r)
      PROVE  Store!Begin(k, r)
  BY <1>1, <1>2 DEF Backend!Begin, Store!Begin
<1>3. ASSUME NEW k, Backend!Refuse(k)
      PROVE  Store!Refuse(k)
  BY <1>1, <1>3
     DEF Backend!Refuse, Backend!ExceptionError, Backend!TakenByOthers,
       Store!Refuse, Store!ExceptionError, Store!TakenByOthers
<1>4. Backend!QuerySlots => Store!QuerySlots
  BY DEF Backend!QuerySlots, Backend!Report, Backend!SlotReport, Backend!Reported,
       Store!QuerySlots, Store!Report, Store!SlotReport, Store!Reported
<1>5. Backend!FindTemplate => Store!FindTemplate
  BY DEF Backend!FindTemplate, Backend!PatchTemplate, Backend!TakenByOthers,
       Store!FindTemplate, Store!PatchTemplate, Store!TakenByOthers
<1>6. Backend!AddTattoo => Store!AddTattoo
  BY <1>1 DEF Backend!AddTattoo, Backend!RestoreTemplate, Backend!Wear, Backend!Released, Backend!Foreign,
       Store!AddTattoo, Store!RestoreTemplate, Store!Wear, Store!Released, Store!Foreign
<1>7. Backend!RemoveTattoo => Store!RemoveTattoo
  BY DEF Backend!RemoveTattoo, Backend!TakeOff, Backend!Released, Backend!Foreign, Backend!TakenByOthers,
       Store!RemoveTattoo, Store!TakeOff, Store!Released, Store!Foreign, Store!TakenByOthers
<1>8. /\ Backend!CheckMembership => Store!CheckMembership
      /\ Backend!WriteColor => Store!WriteColor
      /\ Backend!WriteMaterial => Store!WriteMaterial
  BY <1>1 DEF Backend!CheckMembership, Backend!StillApplied, Backend!WriteColor, Backend!WriteMaterial,
       Store!CheckMembership, Store!StillApplied, Store!WriteColor, Store!WriteMaterial
<1>9. ASSUME NEW k
      PROVE  /\ Backend!MarkActorUpdated(k) => Store!MarkActorUpdated(k)
             /\ Backend!Synchronize(k) => Store!Synchronize(k)
  BY <1>1 DEF Backend!MarkActorUpdated, Backend!SynchronizeOnly, Backend!ReadsMarkBack, Backend!Synchronize,
       Store!MarkActorUpdated, Store!SynchronizeOnly, Store!ReadsMarkBack, Store!Synchronize
<1>10. Backend!Step => Store!Step
  BY <1>1, <1>3, <1>4, <1>5, <1>6, <1>7, <1>8, <1>9 DEF Backend!Step, Store!Step
<1>11. Backend!Return => Store!Return
  BY DEF Backend!Return, Store!Return
<1>12. ASSUME NEW p
       PROVE  /\ \A t : Backend!OtherModApplies(p, t) => Store!OtherModApplies(p, t)
              /\ Backend!OtherModRemoves(p) => Store!OtherModRemoves(p)
              /\ Backend!ExternalOverlay(p) => Store!ExternalOverlay(p)
  BY <1>1
     DEF Backend!OtherModApplies, Backend!OtherModRemoves, Backend!ExternalOverlay, Backend!Others, Backend!Wear, Backend!TakeOff, Backend!Released, Backend!Foreign, Backend!Catalogued, Backend!Shown, Backend!Place, Backend!Slot,
       Store!OtherModApplies, Store!OtherModRemoves, Store!ExternalOverlay, Store!Others, Store!Wear, Store!TakeOff, Store!Released, Store!Foreign, Store!Catalogued, Store!Shown, Store!Place, Store!Slot
<1>13. Backend!Environment => Store!Environment
  BY <1>1, <1>12 DEF Backend!Environment, Store!Environment
<1> QED
  BY <1>2, <1>10, <1>11, <1>13

-----------------------------------------------------------------------------
(* What is proved of the backend holds of it in the system                 *)

\* The constants of the system are those the backend assumes.
LEMMA StoreConstants ==
  /\ Store!Slot = Slot /\ Store!Color = Color /\ Store!Error = Error
  /\ Store!Call = Backend!Call
  /\ None \notin Store!AnySnapshot /\ None \notin Store!AnyRequest
  /\ None \notin Store!AnyResult
  /\ None \notin Store!Object /\ None \notin Store!Operation
<1>1. Store!Slot = Slot /\ Store!Color = Color /\ Store!Error = Error /\ Store!Call = Backend!Call
  BY DEF Store!Slot, Slot, Store!Color, Color, Store!Error, Error, Store!Call, Backend!Call
<1>2. /\ Store!AnySnapshot = AnySnapshot /\ Backend!AnySnapshot = AnySnapshot
      /\ Store!AnyRequest = AnyRequest /\ Backend!AnyRequest = AnyRequest
  BY DEF Store!AnySnapshot, AnySnapshot, Store!AnyRequest, AnyRequest, Store!Snapshot, Snapshot,
         Store!SlotState, SlotState, Store!Unmanaged, Unmanaged, Store!Managed, Managed,
         Store!Kind, Kind, Store!Request, Request, Store!Slot, Slot, Store!Mode, Mode,
         Store!Color, Color, Backend!AnySnapshot, Backend!Snapshot, Backend!SlotState,
         Backend!Unmanaged, Backend!Managed, Backend!AnyRequest, Backend!Kind,
         Backend!Request, Backend!Slot, Backend!Mode, Backend!Color
<1>3. /\ Store!AnyResult = AnyResult /\ Backend!AnyResult = AnyResult
  BY <1>2 DEF Store!AnyResult, AnyResult, Backend!AnyResult, Store!Error, Error, Backend!Error,
              Store!OptionalOf, Backend!OptionalOf
<1>4. Store!Object = Backend!Object
  BY DEF Store!Object, Backend!Object, Store!OptionalOf, Backend!OptionalOf, Store!Color,
         Backend!Color, Store!Material, Backend!Material
<1>5. Store!Operation = Backend!Operation
  BY <1>2, <1>3, <1>4
     DEF Store!Operation, Backend!Operation, Store!Kind, Backend!Kind, Store!Stage,
         Backend!Stage, Store!Place, Backend!Place, Store!Slot, Backend!Slot,
         Store!OptionalOf, Backend!OptionalOf, Store!Color, Backend!Color
<1> QED
  BY <1>1, <1>2, <1>3, <1>4, <1>5, NoneRecordAssumption, BackendAssumption

\* It starts as the backend does.
LEMMA SameInit == Backend!Init => Store!Init
BY DEF Backend!Init, Store!Init, Backend!Place, Store!Place, Backend!Slot, Store!Slot,
       Backend!OptionalOf, Store!OptionalOf, Backend!Catalogued, Store!Catalogued,
       Backend!Foreign, Store!Foreign, Backend!HandlesDistinct, Store!HandlesDistinct,
       Backend!AppliedHandles, Store!AppliedHandles, Backend!Shown, Store!Shown

\* The invariants of the backend hold when the system starts, ...
LEMMA StoreInit == Backend!Init => Store!IInv /\ Store!EditedIsStored
<1>1. Backend!Init => Store!Init
  BY SameInit
<1>2. Store!Init => Store!IInv
  BY ONLY Store!InitHolds, StoreConstants, BackendAssumption, SlotCountAssumption,
          TattooAssumption, ColorAssumption, NoneAssumption
<1>3. Store!Init => Store!EditedIsStored
  BY DEF Store!Init, Store!EditedIsStored
<1> QED
  BY <1>1, <1>2, <1>3

\* ... and with every step of the backend.
LEMMA StoreNext ==
  Store!IInv /\ Store!EditedIsStored /\ [Store!Next]_(Store!backendVars)
    => Store!IInv' /\ Store!EditedIsStored'
<1>1. Store!IInv /\ [Store!Next]_(Store!backendVars) => Store!IInv'
  BY ONLY Store!NextKeeps, StoreConstants, BackendAssumption, SlotCountAssumption,
          TattooAssumption, ColorAssumption, NoneAssumption
<1>2. Store!IInv /\ Store!EditedIsStored /\ [Store!Next]_(Store!backendVars)
        => Store!EditedIsStored'
  BY ONLY Store!EditedKept, StoreConstants, BackendAssumption, SlotCountAssumption,
          TattooAssumption, ColorAssumption, NoneAssumption
<1> QED
  BY <1>1, <1>2

\* What a call does to the request and to the store.
LEMMA StoreStep ==
  ASSUME Store!IInv, Store!Step
  PROVE  /\ op # None
         /\ op' # None => op'.kind = op.kind /\ op'.request = op.request
         /\ op.kind = "query" \/ (op.kind # "apply" /\ op.request.mode # "update")
              => applied' = applied /\ object' = object
         /\ changes' = changes
<1>1. Store!TypeOK
  BY DEF Store!IInv
<1>2. op # None /\ (op' # None => op'.kind = op.kind /\ op'.request = op.request)
  BY ONLY <1>1, Store!Step, Store!StepKeepsRequest, StoreConstants, BackendAssumption,
          SlotCountAssumption, TattooAssumption, ColorAssumption, NoneAssumption
<1>3. ASSUME op.kind = "query" \/ (op.kind # "apply" /\ op.request.mode # "update")
      PROVE  applied' = applied /\ object' = object
  <2>1. op.kind = "query" \/ (op.kind # "apply" /\ ~Store!Writes)
    BY <1>3 DEF Store!Writes
  <2>2. UNCHANGED Store!storeVars
    BY ONLY <1>2, <2>1, Store!IInv, Store!Step, Store!RetriesStoreNothing, StoreConstants,
            BackendAssumption, SlotCountAssumption, TattooAssumption, ColorAssumption,
            NoneAssumption
  <2> QED
    BY <2>2 DEF Store!storeVars
<1>4. changes' = changes
  BY DEF Store!Step, Store!Refuse, Store!QuerySlots, Store!FindTemplate, Store!AddTattoo,
         Store!RemoveTattoo, Store!CheckMembership, Store!WriteColor, Store!WriteMaterial,
         Store!MarkActorUpdated, Store!Synchronize
<1> QED
  BY <1>2, <1>3, <1>4

-----------------------------------------------------------------------------
(* The system runs both                                                    *)

\* An operation answers the task that runs.
OpIsTasks ==
  op # None => /\ task # None /\ task.result = None
               /\ op.kind = task.kind /\ op.request = task.ticket.request

SystemInv ==
  /\ IInv /\ ChoicesFit
  /\ OpIsTasks
  /\ Store!IInv /\ Store!EditedIsStored

\* Every step of the system is one of the workflow, or none.
LEMMA WorkflowRuns ==
  ASSUME SystemInv, [SystemNext]_systemVars
  PROVE  [Next]_vars
<1>1. CASE TaskAnswers
  <2>1. /\ op # None /\ op.result # None
        /\ TaskReturns(op.result) /\ task # None
    BY <1>1 DEF TaskAnswers, Backend!Return, TaskReturns
  <2>2. op.result \in Results(op.kind, op.request)
    BY <2>1, SameValues DEF SystemInv, Store!IInv, Store!TypeOK
  <2>3. op.kind = task.kind /\ op.request = task.ticket.request
    BY <2>1 DEF SystemInv, OpIsTasks
  <2> QED
    BY <2>1, <2>2, <2>3 DEF Next
<1> QED
  BY <1>1 DEF SystemNext, TaskBegins, TaskCalls, systemVars, Next

\* Every step of the system is one of the backend, or none: a task asks for
\* what the backend is asked for.
LEMMA StoreRuns ==
  ASSUME SystemInv, [SystemNext]_systemVars
  PROVE  [Store!Next]_(Store!backendVars)
<1>1. CASE TaskBegins
  <2>1. task # None /\ Store!Begin(task.kind, task.ticket.request)
    BY <1>1, SameSteps DEF TaskBegins
  <2>2. /\ task.kind \in Kind /\ task.ticket.request \in Request(task.kind)
        /\ task.kind \in {"apply", "remove"} =>
             /\ task.ticket.request.area \in Area /\ task.ticket.request.slot \in Slot
             /\ task.ticket.request.slot < SlotCount[task.ticket.request.area]
        /\ task.kind = "apply" =>
             TattooArea[task.ticket.request.tattoo] = task.ticket.request.area
    BY <2>1, TaskIssuable DEF SystemInv, IInv
  <2>3. task.kind \in {"apply", "remove"} =>
          <<task.ticket.request.area, task.ticket.request.slot>> \in Store!Place
    BY <2>2, StoreConstants DEF Store!Place
  <2>4. task.ticket.request \in Store!Issuable(task.kind)
    BY <2>2, <2>3, SameValues DEF Store!Issuable
  <2> QED
    BY <2>1, <2>2, <2>4, SameValues DEF Store!Next
<1>2. CASE TaskCalls \/ TaskAnswers \/ Backend!Environment
  BY <1>2, SameSteps DEF TaskCalls, TaskAnswers, Store!Next
<1> QED
  BY <1>1, <1>2 DEF SystemNext, backendVars, systemVars, Store!backendVars

\* Every step keeps the operation to its task.
LEMMA OpStep ==
  ASSUME SystemInv, [SystemNext]_systemVars
  PROVE  OpIsTasks'
<1>1. CASE WorkflowStep /\ UNCHANGED backendVars
  <2>1. op' = op
    BY <1>1 DEF backendVars
  <2>2. op # None => task' = task
    BY <1>1, TaskEffect DEF SystemInv, OpIsTasks
  <2> QED
    BY <2>1, <2>2 DEF SystemInv, OpIsTasks
<1>2. CASE TaskBegins
  <2>1. /\ task # None /\ task.result = None /\ task' = task
        /\ op'.kind = task.kind /\ op'.request = task.ticket.request
    BY <1>2 DEF TaskBegins, Backend!Begin, vars
  <2> QED
    BY <2>1 DEF OpIsTasks
<1>3. CASE TaskCalls
  <2>1. op # None /\ (op' # None => op'.kind = op.kind /\ op'.request = op.request)
    BY <1>3, SameSteps, StoreStep DEF TaskCalls, SystemInv
  <2>2. task' = task
    BY <1>3 DEF TaskCalls, vars
  <2> QED
    BY <2>1, <2>2 DEF SystemInv, OpIsTasks
<1>4. CASE TaskAnswers
  BY <1>4 DEF TaskAnswers, Backend!Return, OpIsTasks
<1>5. CASE Backend!Environment /\ UNCHANGED vars
  BY <1>5
     DEF Backend!Environment, Backend!OtherModApplies, Backend!OtherModRemoves,
         Backend!ExternalOverlay, Backend!Others, OpIsTasks
<1>6. CASE UNCHANGED systemVars
  BY <1>6 DEF systemVars, vars, SystemInv, OpIsTasks
<1> QED
  BY <1>1, <1>2, <1>3, <1>4, <1>5, <1>6 DEF SystemNext, WorkflowStep

\* The invariant holds when the system starts, ...
LEMMA SystemInvInit == SystemInit => SystemInv
BY InvInit, StoreInit DEF SystemInit, SystemInv, Init, Backend!Init, ChoicesFit, OpIsTasks

\* ... and every step keeps it.
LEMMA SystemInvStep == SystemInv /\ [SystemNext]_systemVars => SystemInv'
<1> SUFFICES ASSUME SystemInv, [SystemNext]_systemVars PROVE SystemInv'
  OBVIOUS
<1>1. [Next]_vars /\ [Store!Next]_(Store!backendVars)
  BY WorkflowRuns, StoreRuns
<1>2. IInv' /\ ChoicesFit'
  BY <1>1, InvStep, ChoiceStep DEF SystemInv, IInv
<1>3. Store!IInv' /\ Store!EditedIsStored'
  BY <1>1, StoreNext DEF SystemInv
<1> QED
  BY <1>2, <1>3, OpStep DEF SystemInv

\* The inductive invariant of the system.
THEOREM SystemInvariance == SystemSpec => []SystemInv
BY SystemInvInit, SystemInvStep, PTL DEF SystemSpec

\* The system implements the workflow: whatever the backend meets, it answers
\* a task once, with an answer the workflow allows for its request.
THEOREM ImplementsWorkflow == SystemSpec => WorkflowImplemented
<1>1. SystemInit => Init
  BY DEF SystemInit
<1>2. SystemInv /\ [SystemNext]_systemVars => [Next]_vars
  BY WorkflowRuns
<1> QED
  BY <1>1, <1>2, SystemInvariance, PTL DEF SystemSpec, WorkflowImplemented, Spec

\* The system runs the backend as it is checked and proved about alone: its
\* tasks ask for what SlotBackend is asked for, one request at a time.
THEOREM ImplementsBackend == SystemSpec => Store!Spec
<1>1. SystemInit => Store!Init
  BY SameInit DEF SystemInit
<1>2. SystemInv /\ [SystemNext]_systemVars => [Store!Next]_(Store!backendVars)
  BY StoreRuns
<1> QED
  BY <1>1, <1>2, SystemInvariance, PTL DEF SystemSpec, Store!Spec

-----------------------------------------------------------------------------
(* What was shown and confirmed is what is stored                          *)

PlaceOf(request) == <<request.area, request.slot>>

\* The actor wears the tattoo of a handle in a color.
Worn(handle, color) ==
  \E p \in Place : applied[p] = handle /\ object[handle].color = color

AnsweredTask(kind) == task # None /\ task.kind = kind /\ task.result # None

\* An answer that tells that the tattoo was applied.
AppliedAgrees ==
  AnsweredTask("apply") /\ task.result.error # "failed" =>
    Backend!Shown[PlaceOf(task.ticket.request)] =
      [tattoo |-> task.ticket.request.tattoo, color |-> task.ticket.request.color,
       material |-> "own"]

\* An answer that tells that only the synchronization of an update failed, and
\* the session that remembers it.
UpdateAgrees ==
  /\ AnsweredTask("appearance") /\ task.result.error = "synchronizeFailed" =>
       Worn(task.ticket.request.handle, task.ticket.request.color)
  /\ edit # None /\ edit.mode = "synchronizeOnly" => Worn(edit.handle, edit.edited)

\* The same of a removal, remembered by the error that is shown and then by
\* the request of the retry.
RemovalAgrees ==
  /\ AnsweredTask("remove") /\ task.result.error = "synchronizeFailed" =>
       applied[PlaceOf(task.ticket.request)] = None
  /\ screen = "removeConfirmation" /\ error = "synchronizeFailed" =>
       applied[TargetPlace] = None
  /\ pending["remove"] # None /\ pending["remove"].request.mode = "synchronizeOnly" =>
       applied[PlaceOf(pending["remove"].request)] = None
  /\ task # None /\ task.kind = "remove" /\ task.ticket.request.mode = "synchronizeOnly" =>
       applied[PlaceOf(task.ticket.request)] = None

\* Other mods may change what was stored.
Agreement == changes = 0 => AppliedAgrees /\ UpdateAgrees /\ RemovalAgrees

\* A step of the workflow remembers what the answer told.
LEMMA WorkflowAgrees ==
  ASSUME SystemInv, Agreement, WorkflowStep, UNCHANGED backendVars
  PROVE  Agreement'
<1> SUFFICES ASSUME changes = 0
             PROVE  (AppliedAgrees /\ UpdateAgrees /\ RemovalAgrees)'
  BY DEF Agreement, backendVars
<1>0. AppliedAgrees /\ UpdateAgrees /\ RemovalAgrees /\ TypeOK /\ WorkInv
  BY DEF Agreement, SystemInv, IInv
<1>1. applied' = applied /\ object' = object /\ Backend!Shown' = Backend!Shown
  BY DEF backendVars, Backend!Shown
<1>2. task' # None => \/ task' = task
                      \/ /\ task'.result = None
                         /\ \E k \in Kind : /\ pending[k] # None /\ task'.kind = k
                                            /\ task'.ticket = pending[k]
  BY TaskEffect
<1>3. ASSUME NEW kind, AnsweredTask(kind)'
      PROVE  task' = task /\ AnsweredTask(kind)
  BY <1>2, <1>3 DEF AnsweredTask
<1>4. AppliedAgrees'
  BY <1>0, <1>1, <1>3 DEF AppliedAgrees
<1>5. UpdateAgrees'
  <2>1. ASSUME AnsweredTask("appearance")', task'.result.error = "synchronizeFailed"
        PROVE  Worn(task.ticket.request.handle, task.ticket.request.color)'
    BY <1>0, <1>1, <1>3, <2>1 DEF UpdateAgrees, Worn
  <2>2. ASSUME edit' # None, edit'.mode = "synchronizeOnly"
        PROVE  Worn(edit.handle, edit.edited)'
    <3>1. CASE edit # None /\ edit.mode = "synchronizeOnly" /\ edit' = edit
      BY <1>0, <1>1, <3>1 DEF UpdateAgrees, Worn
    <3>2. CASE /\ task # None /\ task.kind = "appearance" /\ task.result # None
               /\ task.result.error = "synchronizeFailed"
               /\ edit'.handle = edit.handle /\ edit'.edited = edit.edited
      <4>1. Worn(task.ticket.request.handle, task.ticket.request.color)
        BY <1>0, <3>2 DEF UpdateAgrees, AnsweredTask
      <4>2. task.ticket.request = [handle |-> edit.handle, color |-> edit.edited,
                                   mode |-> edit.mode]
        BY <1>0, <3>2, TaskShown, Kinds DEF ShownBy
      <4>3. Worn(edit.handle, edit.edited)
        BY <4>1, <4>2
      <4> QED
        BY <1>1, <3>2, <4>3 DEF Worn
    <3> QED
      BY <1>0, <2>2, <3>1, <3>2, EditEffect
  <2> QED
    BY <2>1, <2>2 DEF UpdateAgrees
<1>6. RemovalAgrees'
  <2>1. ASSUME AnsweredTask("remove")', task'.result.error = "synchronizeFailed"
        PROVE  applied'[PlaceOf(task'.ticket.request)] = None
    BY <1>0, <1>1, <1>3, <2>1 DEF RemovalAgrees
  <2>2. ASSUME screen' = "removeConfirmation", error' = "synchronizeFailed"
        PROVE  applied'[TargetPlace'] = None
    <3>1. TargetPlace' = TargetPlace
      BY <1>0, <2>2, RemovalEffect DEF TargetPlace
    <3>2. CASE screen = "removeConfirmation" /\ error = "synchronizeFailed"
      BY <1>0, <1>1, <3>1, <3>2 DEF RemovalAgrees
    <3>3. CASE /\ task # None /\ task.kind = "remove" /\ task.result # None
               /\ task.result.error = "synchronizeFailed"
      <4>1. applied[PlaceOf(task.ticket.request)] = None
        BY <1>0, <3>3 DEF RemovalAgrees, AnsweredTask
      <4>2. PlaceOf(task.ticket.request) = TargetPlace
        BY <1>0, <3>3, TaskShown, Kinds DEF ShownBy, PlaceOf, TargetPlace
      <4> QED
        BY <1>1, <3>1, <4>1, <4>2
    <3> QED
      BY <1>0, <2>2, <3>2, <3>3, RemovalEffect
  <2>3. ASSUME pending'["remove"] # None, pending'["remove"].request.mode = "synchronizeOnly"
        PROVE  applied'[PlaceOf(pending'["remove"].request)] = None
    <3>1. CASE pending'["remove"] = pending["remove"]
      BY <1>0, <1>1, <2>3, <3>1 DEF RemovalAgrees
    <3>2. CASE /\ screen = "removeConfirmation"
               /\ pending'["remove"].request =
                    [area |-> selectedArea, slot |-> targetSlot, mode |-> RemoveMode]
      <4>1. error = "synchronizeFailed"
        BY <2>3, <3>2 DEF RemoveMode
      <4>2. applied[TargetPlace] = None
        BY <1>0, <3>2, <4>1 DEF RemovalAgrees
      <4>3. PlaceOf(pending'["remove"].request) = TargetPlace
        BY <3>2 DEF PlaceOf, TargetPlace
      <4> QED
        BY <1>1, <4>2, <4>3
    <3> QED
      BY <1>0, <2>3, <3>1, <3>2, RemovalTicket
  <2>4. ASSUME task' # None, task'.kind = "remove",
               task'.ticket.request.mode = "synchronizeOnly"
        PROVE  applied'[PlaceOf(task'.ticket.request)] = None
    <3>1. CASE task' = task
      BY <1>0, <1>1, <2>4, <3>1 DEF RemovalAgrees
    <3>2. CASE pending["remove"] # None /\ task'.ticket = pending["remove"]
      BY <1>0, <1>1, <2>4, <3>2 DEF RemovalAgrees
    <3> QED
      BY <1>2, <2>4, <3>1, <3>2
  <2> QED
    BY <2>1, <2>2, <2>3, <2>4 DEF RemovalAgrees
<1> QED
  BY <1>4, <1>5, <1>6

\* A step that changes neither what is remembered nor what is stored.
LEMMA AgreementKept ==
  ASSUME Agreement, UNCHANGED <<vars, applied, object, changes>>
  PROVE  Agreement'
<1>1. Backend!Shown' = Backend!Shown
  BY DEF Backend!Shown
<1> QED
  BY <1>1
     DEF Agreement, AppliedAgrees, UpdateAgrees, RemovalAgrees, AnsweredTask, Worn, vars,
         TargetPlace

\* A call of the operation: what it writes, nothing remembers yet.
LEMMA CallAgrees ==
  ASSUME SystemInv, Agreement, TaskCalls
  PROVE  Agreement'
<1>0. TypeOK /\ WorkInv
  BY DEF SystemInv, IInv
<1>1. Store!Step /\ UNCHANGED vars
  BY SameSteps DEF TaskCalls
<1>2. /\ op # None /\ task # None /\ task.result = None /\ task.kind \in Kind
      /\ op.kind = task.kind /\ op.request = task.ticket.request
      /\ changes' = changes
  BY <1>0, <1>1, StoreStep DEF SystemInv, OpIsTasks, TypeOK, Task
<1>3. CASE op.kind = "query" \/ (op.kind # "apply" /\ op.request.mode # "update")
  BY <1>1, <1>2, <1>3, StoreStep, AgreementKept DEF SystemInv
<1>4. CASE op.kind # "query" /\ (op.kind = "apply" \/ op.request.mode = "update")
  <2>1. /\ task.kind \in Mutation /\ screen = BusyScreen(task.kind)
        /\ pending[task.kind] = None
        /\ ShownBy(task.kind, task.ticket.request)
    BY <1>0, <1>2, <1>4, TaskShown, Kinds
  <2>2. edit # None => edit.mode # "synchronizeOnly"
    <3> SUFFICES ASSUME edit # None
                 PROVE  edit.mode # "synchronizeOnly"
      OBVIOUS
    <3>1. task.kind = "appearance"
      BY <1>0, <2>1, Kinds DEF WorkInv, EditOnScreen
    <3>2. task.ticket.request = [handle |-> edit.handle, color |-> edit.edited,
                                 mode |-> edit.mode]
      BY <2>1, <3>1 DEF ShownBy
    <3> QED
      BY <1>2, <1>4, <3>1, <3>2
  <2>3. screen # "removeConfirmation"
    BY <2>1, Kinds DEF Busy
  <2>4. pending["remove"] = None
    <3>1. pending["remove"] # None => screen = "removing"
      BY <1>0, Kinds DEF WorkInv, TicketsIssued, MutationAwaited, BusyScreenHasOperation
    <3> QED
      BY <2>1, <3>1, Kinds
  <2>5. task.kind = "remove" => task.ticket.request.mode # "synchronizeOnly"
    BY <1>2, <1>4
  <2>6. /\ task' = task /\ screen' = screen /\ edit' = edit /\ pending' = pending
    BY <1>1 DEF vars
  <2> QED
    BY <1>2, <2>2, <2>3, <2>4, <2>5, <2>6
       DEF Agreement, AppliedAgrees, UpdateAgrees, RemovalAgrees, AnsweredTask
<1> QED
  BY <1>2, <1>3, <1>4

\* The answer of an operation tells what it stored, if no two tattoos share a
\* section and a name.
LEMMA AnswerAgrees ==
  ASSUME Store!NamesDiffer, SystemInv, Agreement, TaskAnswers
  PROVE  Agreement'
<1> DEFINE r == task.ticket.request
<1>0. TypeOK /\ WorkInv /\ Store!TypeOK /\ Store!Control /\ Store!Progress
  BY DEF SystemInv, IInv, Store!IInv
<1>1. /\ op # None /\ op.result # None /\ task # None
      /\ op.kind = task.kind /\ op.request = r
      /\ task' = [task EXCEPT !.result = op.result]
      /\ UNCHANGED <<applied, object, changes, modelVars>>
  BY DEF TaskAnswers, Backend!Return, Backend!storeVars, TaskReturns, SystemInv, OpIsTasks
<1>2. task \in Task /\ task.kind \in Kind
  BY <1>0, <1>1 DEF TypeOK, Task
<1>3. task'.kind = task.kind /\ task'.ticket = task.ticket /\ task'.result = op.result
  BY <1>1, <1>2 DEF Task
<1>4. op.result \in Results(task.kind, r)
  BY <1>0, <1>1, SameValues DEF Store!TypeOK
<1>5. UNCHANGED <<edit, screen, error, pending, selectedArea, targetSlot>>
  BY <1>1 DEF modelVars, choiceVars, ticketVars, browseVars
<1>6. task.kind # "query" /\ op.result.error # "failed" => Store!Stored(op.result)
  BY <1>4 DEF Results, Failures, Error, Store!Stored
<1>7. task.kind \in Mutation /\ Store!Stored(op.result) =>
        \A p \in Place :
          Store!Shown[p] = IF op.kind # "apply" /\ ~Store!Writes THEN op.before[p]
                           ELSE Store!Wanted(op.request, op.kind, p)
  BY <1>0, <1>1, SameValues DEF Store!Progress
<1>8. task.kind \in {"apply", "remove"} => PlaceOf(r) \in Place
  BY <1>0, <1>1, SameValues DEF Store!Control, Store!Target, PlaceOf
<1> SUFFICES ASSUME changes = 0
             PROVE  (AppliedAgrees /\ UpdateAgrees /\ RemovalAgrees)'
  BY <1>1 DEF Agreement
<1>9. UpdateAgrees /\ RemovalAgrees
  BY DEF Agreement
<1>10. AppliedAgrees'
  <2> SUFFICES ASSUME task.kind = "apply", op.result.error # "failed"
               PROVE  Backend!Shown[PlaceOf(r)] =
                        [tattoo |-> r.tattoo, color |-> r.color, material |-> "own"]
    <3>1. Backend!Shown' = Backend!Shown
      BY <1>1 DEF Backend!Shown
    <3> QED
      BY <1>3, <3>1 DEF AppliedAgrees, AnsweredTask
  <2>1. Store!Shown[PlaceOf(r)] = Store!Wanted(r, "apply", PlaceOf(r))
    BY <1>1, <1>6, <1>7, <1>8, Kinds
  <2>2. Store!Target = PlaceOf(r)
    BY <1>1 DEF Store!Target, PlaceOf
  <2>3. Store!Wanted(r, "apply", PlaceOf(r)) =
          [tattoo |-> r.tattoo, color |-> r.color, material |-> "own"]
    BY <2>2 DEF Store!Wanted
  <2> QED
    BY <2>1, <2>3, SameValues
<1>11. UpdateAgrees'
  <2>1. edit # None /\ edit.mode = "synchronizeOnly" => Worn(edit.handle, edit.edited)
    BY <1>9 DEF UpdateAgrees
  <2>2. ASSUME task.kind = "appearance", op.result.error = "synchronizeFailed"
        PROVE  Worn(r.handle, r.color)
    <3>1. CASE Store!Writes
      <4>1. Store!StillApplied /\ object[r.handle].color = r.color
        BY <1>1, <1>6, <2>2, <3>1 DEF SystemInv, Store!EditedIsStored
      <4>2. \E p \in Place : applied[p] = r.handle
        BY <1>1, <4>1, SameValues DEF Store!StillApplied, Store!AppliedHandles
      <4> QED
        BY <4>1, <4>2 DEF Worn
    <3>2. CASE ~Store!Writes
      <4>1. r.mode = "synchronizeOnly"
        <5>1. r.mode \in Mode
          BY <1>0, <1>1, <2>2, SameValues DEF Store!TypeOK, Request
        <5> QED
          BY <1>1, <3>2, <5>1 DEF Mode, Store!Writes
      <4>2. edit # None /\ r = [handle |-> edit.handle, color |-> edit.edited,
                                mode |-> edit.mode]
        BY <1>0, <1>1, <2>2, TaskShown, Kinds DEF ShownBy
      <4>3. Worn(edit.handle, edit.edited) /\ r.handle = edit.handle /\ r.color = edit.edited
        BY <2>1, <4>1, <4>2
      <4> QED
        BY <4>3
    <3> QED
      BY <3>1, <3>2
  <2>3. \A h, c : Worn(h, c)' <=> Worn(h, c)
    BY <1>1 DEF Worn
  <2> QED
    BY <1>3, <1>5, <2>1, <2>2, <2>3 DEF UpdateAgrees, AnsweredTask, Worn
<1>12. RemovalAgrees'
  <2>1. ASSUME task.kind = "remove", op.result.error = "synchronizeFailed"
        PROVE  applied[PlaceOf(r)] = None
    <3>1. CASE Store!Writes
      <4>1. Store!Shown[PlaceOf(r)] = Store!Wanted(r, "remove", PlaceOf(r))
        BY <1>1, <1>6, <1>7, <1>8, <2>1, <3>1, Kinds
      <4>2. Store!Target = PlaceOf(r)
        BY <1>1 DEF Store!Target, PlaceOf
      <4>3. Store!Shown[PlaceOf(r)] = None
        BY <4>1, <4>2 DEF Store!Wanted
      <4>4. applied[PlaceOf(r)] # None =>
              Store!Shown[PlaceOf(r)] = object[applied[PlaceOf(r)]]
              /\ object[applied[PlaceOf(r)]] \in Store!Object
        BY <1>0, <1>8, <2>1, SameValues DEF Store!Shown, Store!TypeOK, Store!OptionalOf
      <4> QED
        BY <4>3, <4>4, StoreConstants
    <3>2. CASE ~Store!Writes
      <4>1. r.mode \in Mode
        BY <1>0, <1>1, <2>1, SameValues DEF Store!TypeOK, Request
      <4>2. r.mode = "synchronizeOnly"
        BY <1>1, <3>2, <4>1 DEF Mode, Store!Writes
      <4> QED
        BY <1>1, <1>9, <2>1, <4>2 DEF RemovalAgrees
    <3> QED
      BY <3>1, <3>2
  <2> QED
    BY <1>1, <1>3, <1>5, <1>9, <2>1 DEF RemovalAgrees, AnsweredTask, TargetPlace
<1> QED
  BY <1>10, <1>11, <1>12

\* Every step keeps what is remembered and what is stored in agreement.
LEMMA AgreementStep ==
  ASSUME Store!NamesDiffer, SystemInv, Agreement, [SystemNext]_systemVars
  PROVE  Agreement'
<1>1. CASE WorkflowStep /\ UNCHANGED backendVars
  BY <1>1, WorkflowAgrees
<1>2. CASE TaskBegins
  <2>1. UNCHANGED <<vars, applied, object, changes>>
    BY <1>2 DEF TaskBegins, Backend!Begin, Backend!storeVars
  <2> QED
    BY <2>1, AgreementKept
<1>3. CASE Backend!Environment
  <2>1. changes' = changes + 1
    BY <1>3
       DEF Backend!Environment, Backend!OtherModApplies, Backend!OtherModRemoves,
           Backend!ExternalOverlay, Backend!Others
  <2>2. changes \in 0 .. MaxChanges
    BY DEF SystemInv, Store!IInv, Store!TypeOK
  <2>3. changes' # 0
    BY <2>1, <2>2
  <2> QED
    BY <2>3 DEF Agreement
<1>4. CASE UNCHANGED systemVars
  <2>1. UNCHANGED <<vars, applied, object, changes>>
    BY <1>4 DEF systemVars
  <2> QED
    BY <2>1, AgreementKept
<1> QED
  BY <1>1, <1>2, <1>3, <1>4, CallAgrees, AnswerAgrees DEF SystemNext, WorkflowStep

\* The inductive invariant of what is remembered, if no two tattoos share a
\* section and a name.
THEOREM Agrees ==
  ASSUME Store!NamesDiffer
  PROVE  SystemSpec => []Agreement
<1>1. SystemInit => Agreement
  <2>1. None # "synchronizeFailed" /\ "remove" \in Kind
    BY NoneAssumption, Kinds DEF Error
  <2> QED
    BY <2>1 DEF SystemInit, Init, Agreement, AppliedAgrees, UpdateAgrees, RemovalAgrees,
       AnsweredTask
<1>2. SystemInv /\ Agreement /\ [SystemNext]_systemVars => Agreement'
  BY AgreementStep
<1> QED
  BY <1>1, <1>2, SystemInvariance, PTL DEF SystemSpec

\* What an application stored is what the preview still shows, in the slot the
\* user chose, if no two tattoos share a section and a name.
THEOREM StoredAsPreviewed ==
  ASSUME Store!NamesDiffer
  PROVE  SystemSpec => []AppliedAsPreviewed
<1>1. SystemInv /\ Agreement => AppliedAsPreviewed
  <2> SUFFICES ASSUME SystemInv, Agreement, changes = 0,
                      Answered("apply", {None, "synchronizeFailed"})
               PROVE  Backend!Shown[TargetPlace] =
                        [tattoo |-> previewTattoo, color |-> previewColor, material |-> "own"]
    BY DEF AppliedAsPreviewed
  <2>1. task # None /\ task.kind = "apply" /\ task.result # None /\ task.result.error # "failed"
    BY NoneAssumption DEF Answered, Error
  <2>2. task.ticket.request = [area |-> selectedArea, slot |-> targetSlot,
                               tattoo |-> previewTattoo, color |-> previewColor]
    BY <2>1, TaskShown, Kinds DEF ShownBy, SystemInv, IInv
  <2>3. Backend!Shown[PlaceOf(task.ticket.request)] =
          [tattoo |-> task.ticket.request.tattoo, color |-> task.ticket.request.color,
           material |-> "own"]
    BY <2>1 DEF Agreement, AppliedAgrees, AnsweredTask
  <2> QED
    BY <2>2, <2>3 DEF PlaceOf, TargetPlace
<1> QED
  BY <1>1, SystemInvariance, Agrees, PTL

\* A retry that only synchronizes is enough: whenever the workflow would ask
\* for one, what the user confirmed is already stored.
THEOREM RetriesAreEnough ==
  ASSUME Store!NamesDiffer
  PROVE  SystemSpec => []RetryOnlyNeedsSynchronizing
<1>1. Agreement => RetryOnlyNeedsSynchronizing
  <2> SUFFICES ASSUME Agreement, changes = 0
               PROVE  /\ edit # None /\ edit.mode = "synchronizeOnly" =>
                           Worn(edit.handle, edit.edited)
                      /\ screen = "removeConfirmation" /\ RemoveMode = "synchronizeOnly" =>
                           applied[TargetPlace] = None
    BY DEF RetryOnlyNeedsSynchronizing, Worn
  <2> QED
    BY DEF Agreement, UpdateAgrees, RemovalAgrees, RemoveMode
<1> QED
  BY <1>1, Agrees, PTL
=============================================================================
