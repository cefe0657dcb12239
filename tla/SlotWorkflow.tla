---------------------------- MODULE SlotWorkflow ----------------------------
(***************************************************************************)
(* The slot-first workflow of SlaveTatsUI: NativeSlotWorkflowModel (the    *)
(* presentation state machine), NativeSlotWorkflowRuntime (the coordinator *)
(* that hands one operation at a time to the SKSE task queue) and the      *)
(* gestures OfficialMenuFrameworkAdapter enables on each screen.           *)
(*                                                                         *)
(* A frame of the menu window first pumps the coordinator (Pump) and then  *)
(* lets the user make at most one gesture.  A scheduled task runs its      *)
(* operation (TaskReturns) and publishes the completion (TaskCompletes);   *)
(* other frames may be drawn before, between and after the two, so nothing *)
(* here relies on frames and tasks sharing a thread, only on each handler  *)
(* being atomic.  What an operation answers is left open: SlotSystem       *)
(* refines TaskReturns by the calls the operation makes.                   *)
(***************************************************************************)
EXTENDS SlotTypes

CONSTANTS
  FirstArea,      \* the area selected when the plugin starts (body)
  PageSize,       \* slot cards per page (kPageSize)
  MaxGeneration   \* bound on the tickets one behaviour issues

ASSUME FirstAreaAssumption == FirstArea \in Area
ASSUME PageSizeAssumption == PageSize \in Nat \ {0}
ASSUME BoundAssumption == MaxGeneration \in Nat

Screen == {"currentSlots", "slotActions", "picker", "preview", "applying",
           "editAppearance", "savingAppearance", "removeConfirmation",
           "removing"}

Ticket(kind) == [gen: Nat, request: Request(kind)]

EditSession == [area: Area, slot: Slot, handle: Handle, original: RawColor,
                edited: RawColor \cup Color, mode: Mode]

AnyTicket == [gen: Nat, request: AnyRequest]
Task == [kind: Kind, ticket: AnyTicket, result: OptionalOf(AnyResult)]

ASSUME NoneMemberAssumption ==
  None \notin AnyTicket /\ None \notin EditSession /\ None \notin Task

VARIABLES
  \* NativeSlotWorkflowModel
  started,       \* m_started
  screen,        \* m_screen
  selectedArea,  \* m_selectedArea
  slots,         \* m_areaStates[a].slots, None before the first answer
  pageIndex,     \* m_areaStates[a].pageIndex
  targetSlot,    \* m_targetSlot
  previewTattoo, \* m_previewTattoo
  previewColor,  \* m_previewAppearance
  edit,          \* m_editAppearance
  error,         \* the code of m_error
  generation,    \* m_generation
  pending,       \* m_pendingSlotQuery, m_pendingApply, ...
  active,        \* m_activeSlotQueryGeneration, ...; 0 for none
  catalogArea,   \* the area filter of NativeCatalogBrowserModel
  \* NativeSlotWorkflowRuntime and the SKSE task queue
  task,          \* the task that holds m_inFlight
  \* the menu window
  windowOpen,
  inFrame        \* a frame has pumped and may still take a gesture

browseVars == <<started, selectedArea, slots, pageIndex>>
choiceVars == <<targetSlot, previewTattoo, previewColor, edit>>
ticketVars == <<generation, pending, active>>
modelVars == <<browseVars, screen, choiceVars, error, ticketVars, catalogArea>>
vars == <<started, screen, selectedArea, slots, pageIndex, targetSlot,
          previewTattoo, previewColor, edit, error, generation, pending,
          active, catalogArea, task, windowOpen, inFrame>>

-----------------------------------------------------------------------------
\* Mutant: an appearance out of range is kept.
ClampMissing(c) == c

Clamp(c) == IF c < 0 THEN 0 ELSE IF c > MaxColor THEN MaxColor ELSE c

\* slotPageCount: ceiling of the number of slots over the page size.
PageCount(snapshot) ==
  IF snapshot = None THEN 0
  ELSE (Cardinality(DOMAIN snapshot) + PageSize - 1) \div PageSize

ClampedPage(page, snapshot) ==
  IF PageCount(snapshot) = 0 THEN 0
  ELSE IF page < PageCount(snapshot) THEN page
  ELSE PageCount(snapshot) - 1

\* The slot a snapshot of the selected area shows at the target.
Target == slots[selectedArea][targetSlot]
TargetKnown == /\ slots[selectedArea] # None
               /\ targetSlot \in DOMAIN slots[selectedArea]

\* A new generation, recorded as pending and active for its kind on top of
\* the tables p and g.
Issue(kind, request, p, g) ==
  /\ generation' = generation + 1
  /\ pending' = [p EXCEPT ![kind] = [gen |-> generation + 1,
                                     request |-> request]]
  /\ active' = [g EXCEPT ![kind] = generation + 1]

\* Scheduling a query forgets the error shown so far.
ScheduleSlotQuery(area, p, g) ==
  /\ Issue("query", [area |-> area], p, g)
  /\ error' = None

\* Every gesture that issues a ticket leaves room for the query its
\* completion may issue.
MayIssue == generation + 2 <= MaxGeneration

Init ==
  /\ started = FALSE
  /\ screen = "currentSlots"
  /\ selectedArea = FirstArea
  /\ slots = [a \in Area |-> None]
  /\ pageIndex = [a \in Area |-> 0]
  /\ targetSlot = None
  /\ previewTattoo = None
  /\ previewColor = None
  /\ edit = None
  /\ error = None
  /\ generation = 0
  /\ pending = [k \in Kind |-> None]
  /\ active = [k \in Kind |-> 0]
  /\ catalogArea = None
  /\ task = None
  /\ windowOpen = FALSE
  /\ inFrame = FALSE

-----------------------------------------------------------------------------
(* NativeSlotWorkflowModel: what each gesture does to the model.           *)

Start ==
  /\ ~started
  /\ MayIssue
  /\ started' = TRUE
  /\ ScheduleSlotQuery(selectedArea, pending, active)
  /\ UNCHANGED <<screen, selectedArea, slots, pageIndex, choiceVars,
                 catalogArea, task, windowOpen, inFrame>>

\* Mutant: an area is not queried while another query is outstanding.
NeedsQueryOnceIdle(area) ==
  started /\ slots[area] = None /\ active["query"] = 0

NeedsQuery(area) == started /\ slots[area] = None

SelectArea(area) ==
  LET p == [pending EXCEPT !["appearance"] = None]
      g == [active EXCEPT !["appearance"] = 0]
  IN
  /\ area # selectedArea
  /\ MayIssue
  /\ selectedArea' = area
  /\ screen' = "currentSlots"
  /\ targetSlot' = None
  /\ previewTattoo' = None
  /\ previewColor' = None
  /\ edit' = None
  /\ pageIndex' = [pageIndex EXCEPT ![area] = ClampedPage(@, slots[area])]
  /\ \/ /\ NeedsQuery(area)
        /\ ScheduleSlotQuery(area, p, g)
     \/ /\ ~NeedsQuery(area)
        /\ error' = None
        /\ pending' = p
        /\ active' = g
        /\ UNCHANGED generation
  /\ UNCHANGED <<started, slots, catalogArea>>

RefreshSelectedArea ==
  /\ started
  /\ MayIssue
  /\ ScheduleSlotQuery(selectedArea, pending, active)
  /\ UNCHANGED <<browseVars, screen, choiceVars, catalogArea>>

TurnSlotPage(page) ==
  /\ pageIndex' = [pageIndex EXCEPT ![selectedArea] = page]
  /\ UNCHANGED <<started, screen, selectedArea, slots, choiceVars, error,
                 ticketVars, catalogArea>>

PreviousSlotPage ==
  /\ pageIndex[selectedArea] > 0
  /\ TurnSlotPage(pageIndex[selectedArea] - 1)

\* Mutant: one page too far.
NextSlotPageOffByOne ==
  /\ pageIndex[selectedArea] < PageCount(slots[selectedArea])
  /\ TurnSlotPage(pageIndex[selectedArea] + 1)

NextSlotPage ==
  /\ pageIndex[selectedArea] + 1 < PageCount(slots[selectedArea])
  /\ TurnSlotPage(pageIndex[selectedArea] + 1)

SetSlotPageNumber(oneBasedPage) ==
  TurnSlotPage(ClampedPage(IF oneBasedPage = 0 THEN 0 ELSE oneBasedPage - 1,
                           slots[selectedArea]))

\* openPicker points the catalog at the selected area.
OpenPicker ==
  /\ catalogArea' = selectedArea
  /\ screen' = "picker"

SelectSlot(slot) ==
  /\ slots[selectedArea] # None
  /\ slot \in DOMAIN slots[selectedArea]
  /\ LET found == slots[selectedArea][slot] IN
     /\ found.occupancy # "external"
     /\ targetSlot' = slot
     /\ previewTattoo' = None
     /\ edit' = None
     /\ error' = None
     /\ \/ /\ found.occupancy = "slaveTats"
           /\ previewColor' = Clamp(found.color)
           /\ screen' = "slotActions"
           /\ UNCHANGED catalogArea
        \/ /\ found.occupancy = "empty"
           /\ previewColor' = MaxColor
           /\ OpenPicker
  /\ UNCHANGED <<browseVars, ticketVars>>

ReplaceSelectedSlot ==
  /\ screen = "slotActions" /\ targetSlot # None
  /\ OpenPicker
  /\ UNCHANGED <<browseVars, choiceVars, error, ticketVars>>

RequestRemove ==
  /\ screen = "slotActions" /\ targetSlot # None
  /\ error' = None
  /\ screen' = "removeConfirmation"
  /\ UNCHANGED <<browseVars, choiceVars, ticketVars, catalogArea>>

CancelRemove ==
  /\ screen = "removeConfirmation"
  /\ error' = None
  /\ screen' = "slotActions"
  /\ UNCHANGED <<browseVars, choiceVars, ticketVars, catalogArea>>

\* Mutant: any error is taken for a failed synchronization.
RemoveModeAfterAnyError == IF error # None THEN "synchronizeOnly" ELSE "update"

\* Only the error still shown says that the slot was already cleared.
RemoveMode == IF error = "synchronizeFailed" THEN "synchronizeOnly" ELSE "update"

ConfirmRemove ==
  /\ screen = "removeConfirmation" /\ targetSlot # None
  /\ MayIssue
  /\ Issue("remove",
           [area |-> selectedArea, slot |-> targetSlot, mode |-> RemoveMode],
           pending, active)
  /\ error' = None
  /\ screen' = "removing"
  /\ UNCHANGED <<browseVars, choiceVars, catalogArea>>

BackToSlots ==
  /\ screen' = "currentSlots"
  /\ targetSlot' = None
  /\ previewTattoo' = None
  /\ previewColor' = None
  /\ edit' = None
  /\ error' = None
  /\ UNCHANGED <<browseVars, ticketVars, catalogArea>>

SelectTattoo(tattoo) ==
  /\ screen = "picker" /\ targetSlot # None
  /\ TattooArea[tattoo] = selectedArea
  /\ previewTattoo' = tattoo
  /\ error' = None
  /\ screen' = "preview"
  /\ UNCHANGED <<browseVars, targetSlot, previewColor, edit, ticketVars,
                 catalogArea>>

\* Mutant: the preview can still be edited once it was confirmed.
SetPreviewAppearanceAnytime(color) ==
  /\ screen \in {"preview", "applying"} /\ previewColor # None
  /\ previewColor' = Clamp(color)
  /\ UNCHANGED <<browseVars, screen, targetSlot, previewTattoo, edit, error,
                 ticketVars, catalogArea>>

SetPreviewAppearance(color) ==
  /\ screen = "preview" /\ previewColor # None
  /\ previewColor' = Clamp(color)
  /\ UNCHANGED <<browseVars, screen, targetSlot, previewTattoo, edit, error,
                 ticketVars, catalogArea>>

CancelPreview ==
  /\ screen = "preview"
  /\ BackToSlots

ConfirmApply ==
  /\ screen = "preview"
  /\ targetSlot # None /\ previewTattoo # None /\ previewColor # None
  /\ TattooArea[previewTattoo] = selectedArea
  /\ MayIssue
  /\ Issue("apply",
           [area |-> selectedArea, slot |-> targetSlot,
            tattoo |-> previewTattoo, color |-> previewColor],
           pending, active)
  /\ error' = None
  /\ screen' = "applying"
  /\ UNCHANGED <<browseVars, choiceVars, catalogArea>>

\* The code also asks for a handle other than 0, which every managed slot has.
BeginEditAppearance ==
  /\ screen = "slotActions" /\ targetSlot # None
  /\ TargetKnown
  /\ Target.occupancy = "slaveTats"
  /\ edit' = [area |-> selectedArea, slot |-> targetSlot,
              handle |-> Target.handle, original |-> Target.color,
              edited |-> Target.color, mode |-> "update"]
  /\ error' = None
  /\ screen' = "editAppearance"
  /\ UNCHANGED <<browseVars, targetSlot, previewTattoo, previewColor,
                 ticketVars, catalogArea>>

SetEditedAppearance(color) ==
  /\ screen = "editAppearance" /\ edit # None
  /\ edit.mode # "synchronizeOnly"
  /\ edit' = [edit EXCEPT !.edited = Clamp(color)]
  /\ UNCHANGED <<browseVars, screen, targetSlot, previewTattoo, previewColor,
                 error, ticketVars, catalogArea>>

CancelEditAppearance ==
  /\ screen = "editAppearance"
  /\ edit' = None
  /\ error' = None
  /\ screen' = "slotActions"
  /\ UNCHANGED <<browseVars, targetSlot, previewTattoo, previewColor,
                 ticketVars, catalogArea>>

CanSaveAppearance ==
  screen = "editAppearance" /\ edit # None /\ edit.edited # edit.original

ConfirmAppearanceUpdate ==
  /\ CanSaveAppearance
  /\ MayIssue
  /\ Issue("appearance",
           [handle |-> edit.handle, color |-> edit.edited, mode |-> edit.mode],
           pending, active)
  /\ error' = None
  /\ screen' = "savingAppearance"
  /\ UNCHANGED <<browseVars, choiceVars, catalogArea>>

-----------------------------------------------------------------------------
(* NativeSlotWorkflowModel: completions.  p is the pending table the       *)
(* completion starts from.                                                 *)

Retired(kind) == [active EXCEPT ![kind] = 0]

CompleteSlotQuery(area, result, p) ==
  /\ active' = Retired("query")
  /\ pending' = p
  /\ error' = result.error
  /\ \/ /\ result.error # None
        /\ UNCHANGED <<slots, pageIndex>>
     \/ /\ result.error = None
        /\ slots' = [slots EXCEPT ![area] = result.slots]
        /\ pageIndex' = [pageIndex EXCEPT ![selectedArea] =
                           ClampedPage(@, slots'[selectedArea])]
  /\ UNCHANGED <<started, selectedArea, screen, choiceVars, generation>>

\* A failed mutation shows its error on the screen it was confirmed from.
MutationFails(kind, result, p, retryScreen) ==
  /\ result.error # None
  /\ active' = Retired(kind)
  /\ pending' = p
  /\ error' = result.error
  /\ screen' = retryScreen
  /\ UNCHANGED generation

\* A successful one returns to the slots and asks for the selected area again.
MutationSucceeds(kind, result, p) ==
  /\ result.error = None
  /\ targetSlot' = None
  /\ screen' = "currentSlots"
  /\ ScheduleSlotQuery(selectedArea, p, Retired(kind))

CompleteApply(result, p) ==
  /\ \/ /\ MutationFails("apply", result, p, "preview")
        /\ UNCHANGED choiceVars
     \/ /\ MutationSucceeds("apply", result, p)
        /\ previewTattoo' = None
        /\ previewColor' = None
        /\ UNCHANGED edit
  /\ UNCHANGED browseVars

CompleteRemove(result, p) ==
  /\ \/ /\ MutationFails("remove", result, p, "removeConfirmation")
        /\ UNCHANGED choiceVars
     \/ /\ MutationSucceeds("remove", result, p)
        /\ UNCHANGED <<previewTattoo, previewColor, edit>>
  /\ UNCHANGED browseVars

\* Mutant: only the last failure counts.
NextEditModeForgets(failure) ==
  IF failure = "synchronizeFailed" THEN "synchronizeOnly" ELSE "update"

\* Once a synchronization failed, an edit session only retries that half.
NextEditMode(failure) ==
  IF edit.mode = "synchronizeOnly" \/ failure = "synchronizeFailed"
    THEN "synchronizeOnly" ELSE "update"

CompleteAppearanceUpdate(result, p) ==
  /\ \/ /\ MutationFails("appearance", result, p, "editAppearance")
        /\ edit' = IF edit = None THEN None
                   ELSE [edit EXCEPT !.mode = NextEditMode(result.error)]
        /\ UNCHANGED targetSlot
     \/ /\ MutationSucceeds("appearance", result, p)
        /\ edit' = None
  /\ UNCHANGED <<browseVars, previewTattoo, previewColor>>

\* Each completion starts by dropping the answer to a superseded ticket.
Superseded(kind, ticket, p) ==
  /\ active[kind] # ticket.gen
  /\ pending' = p
  /\ UNCHANGED <<browseVars, screen, choiceVars, error, generation, active>>

Complete(kind, ticket, result, p) ==
  /\ \/ Superseded(kind, ticket, p)
     \/ /\ active[kind] = ticket.gen
        /\ CASE kind = "query"      -> CompleteSlotQuery(ticket.request.area,
                                                         result, p)
             [] kind = "apply"      -> CompleteApply(result, p)
             [] kind = "remove"     -> CompleteRemove(result, p)
             [] kind = "appearance" -> CompleteAppearanceUpdate(result, p)
  /\ UNCHANGED catalogArea

-----------------------------------------------------------------------------
(* NativeSlotWorkflowRuntime                                               *)

\* Mutant: removals overtake queries.
BeforeRemoveFirst(kind) ==
  CASE kind = "query"      -> {"remove"}
    [] kind = "apply"      -> {"query", "remove"}
    [] kind = "remove"     -> {}
    [] kind = "appearance" -> {"query", "apply", "remove"}

\* pump takes the pending ticket that comes first in this order.
Before(kind) ==
  CASE kind = "query"      -> {}
    [] kind = "apply"      -> {"query"}
    [] kind = "remove"     -> {"query", "apply"}
    [] kind = "appearance" -> {"query", "apply", "remove"}

Taken(kind) == /\ pending[kind] # None
               /\ \A k \in Before(kind) : pending[k] = None

\* Mutant: taking a ticket leaves it in the queue.
ScheduleKeepsTicket(kind) ==
  /\ task' = [kind |-> kind, ticket |-> pending[kind], result |-> None]
  /\ UNCHANGED modelVars

Schedule(kind) ==
  /\ pending' = [pending EXCEPT ![kind] = None]
  /\ task' = [kind |-> kind, ticket |-> pending[kind], result |-> None]
  /\ UNCHANGED <<browseVars, screen, choiceVars, error, generation, active,
                 catalogArea>>

\* Mutant: a refused ticket is dropped without an answer.
SchedulerRejectsSilently(kind) ==
  /\ pending' = [pending EXCEPT ![kind] = None]
  /\ UNCHANGED <<browseVars, screen, choiceVars, error, generation, active,
                 catalogArea, task>>

\* The scheduler throws: the ticket completes at once with an error.
SchedulerRejects(kind) ==
  /\ Complete(kind, pending[kind],
              [error |-> ExceptionError(kind, pending[kind].request)],
              [pending EXCEPT ![kind] = None])
  /\ UNCHANGED task

\* Mutant: m_inFlight is not consulted.
NeverInFlight == FALSE

\* m_inFlight, set by the pump that takes a ticket until its task completed.
InFlight == task # None

\* The frame renderFoundation draws starts with pump, which does nothing
\* while a task is outstanding.
Pump ==
  /\ windowOpen /\ ~inFrame
  /\ inFrame' = TRUE
  /\ \/ /\ InFlight \/ \A k \in Kind : pending[k] = None
        /\ UNCHANGED <<modelVars, task>>
     \/ /\ ~InFlight
        /\ \E k \in Kind : Taken(k) /\ (Schedule(k) \/ SchedulerRejects(k))
  /\ UNCHANGED windowOpen

\* The task runs the operation and holds its answer.
TaskReturns(result) ==
  /\ task # None /\ task.result = None
  /\ task' = [task EXCEPT !.result = result]
  /\ UNCHANGED <<modelVars, windowOpen, inFrame>>

\* The task publishes the answer to the model and releases m_inFlight.
TaskCompletes ==
  /\ task # None /\ task.result # None
  /\ Complete(task.kind, task.ticket, task.result, pending)
  /\ task' = None
  /\ UNCHANGED <<windowOpen, inFrame>>

-----------------------------------------------------------------------------
(* The menu window and the gestures each screen offers.                    *)

\* The hotkey opens and closes the window at any time; so does Close.
ToggleWindow ==
  /\ windowOpen' = ~windowOpen
  /\ inFrame' = FALSE
  /\ UNCHANGED <<modelVars, task>>

\* renderCurrentSlots
CurrentSlotsGesture ==
  /\ screen = "currentSlots"
  /\ \/ RefreshSelectedArea
     \/ \E a \in Area : SelectArea(a)
     \/ PreviousSlotPage
     \/ NextSlotPage
     \/ \E n \in 0 .. PageCount(slots[selectedArea]) + 1 : SetSlotPageNumber(n)
     \/ \E s \in Slot :
          /\ s \div PageSize = pageIndex[selectedArea]
          /\ SelectSlot(s)

\* Mutant: Back stays enabled while a removal runs.
SlotActionsGestureUnlocked ==
  \/ screen \in {"slotActions", "removing"} /\ BackToSlots
  \/ ReplaceSelectedSlot
  \/ BeginEditAppearance
  \/ RequestRemove
  \/ CancelRemove
  \/ ConfirmRemove

\* renderSlotActions
SlotActionsGesture ==
  \/ screen = "slotActions" /\ BackToSlots
  \/ ReplaceSelectedSlot
  \/ BeginEditAppearance
  \/ RequestRemove
  \/ CancelRemove
  \/ ConfirmRemove

\* The picker renderFoundation draws shows the tattoos of the catalog area.
PickerGesture ==
  /\ screen = "picker"
  /\ \/ BackToSlots
     \/ \E t \in Tattoo : TattooArea[t] = catalogArea /\ SelectTattoo(t)

\* renderPreview
PreviewGesture ==
  \/ \E c \in Color : SetPreviewAppearance(c)
  \/ CancelPreview
  \/ ConfirmApply

\* renderEditAppearance
EditGesture ==
  \/ \E c \in Color : SetEditedAppearance(c)
  \/ CancelEditAppearance
  \/ ConfirmAppearanceUpdate

Gesture ==
  /\ inFrame
  /\ \/ CurrentSlotsGesture
     \/ SlotActionsGesture
     \/ PickerGesture
     \/ PreviewGesture
     \/ EditGesture
  /\ inFrame' = FALSE
  /\ UNCHANGED <<task, windowOpen>>

FrameEnds ==
  /\ inFrame
  /\ inFrame' = FALSE
  /\ UNCHANGED <<modelVars, task, windowOpen>>

UserStep == Start \/ ToggleWindow \/ Gesture \/ FrameEnds

Next ==
  \/ UserStep
  \/ Pump
  \/ /\ task # None
     /\ \E r \in Results(task.kind, task.ticket.request) : TaskReturns(r)
  \/ TaskCompletes

Spec == Init /\ [][Next]_vars

\* SKSE runs every task it accepted; a window that is open is drawn again
\* and again, and a frame ends.
Fairness ==
  /\ SF_vars(Pump)
  /\ WF_vars(FrameEnds)
  /\ WF_vars(task # None /\ \E r \in Results(task.kind, task.ticket.request) : TaskReturns(r))
  /\ WF_vars(TaskCompletes)

FairSpec == Spec /\ Fairness

-----------------------------------------------------------------------------
(* What must hold.                                                         *)

(***************************************************************************)
(* Every member of the model, the coordinator and the window keeps its     *)
(* type; a ticket in a queue or a task is a ticket of its own kind, and a  *)
(* task answers its own request.                                           *)
(***************************************************************************)
TypeOK ==
  /\ started \in BOOLEAN
  /\ screen \in Screen
  /\ selectedArea \in Area
  /\ slots \in [Area -> OptionalOf(AnySnapshot)]
  /\ \A a \in Area : slots[a] \in OptionalOf(Snapshot(a))
  /\ pageIndex \in [Area -> Nat]
  /\ targetSlot \in OptionalOf(Slot)
  /\ previewTattoo \in OptionalOf(Tattoo)
  /\ previewColor \in OptionalOf(Color)
  /\ edit \in OptionalOf(EditSession)
  /\ error \in OptionalOf(Error)
  /\ generation \in Nat
  /\ pending \in [Kind -> OptionalOf(AnyTicket)]
  /\ \A k \in Kind : pending[k] \in OptionalOf(Ticket(k))
  /\ active \in [Kind -> Nat]
  /\ catalogArea \in OptionalOf(Area)
  /\ task \in OptionalOf(Task)
  /\ task # None =>
       /\ task.ticket \in Ticket(task.kind)
       /\ task.result \in OptionalOf(Results(task.kind, task.ticket.request))
  /\ windowOpen \in BOOLEAN
  /\ inFrame \in BOOLEAN

(***************************************************************************)
(* No ticket is lost: a generation the model still waits for is in the     *)
(* queue or in the task, whatever was superseded, refused or left behind   *)
(* by a change of area.  A lost one would never be answered.               *)
(***************************************************************************)
TicketLive ==
  \A k \in Kind : active[k] # 0 =>
    \/ pending[k] # None /\ pending[k].gen = active[k]
    \/ task # None /\ task.kind = k /\ task.ticket.gen = active[k]

(***************************************************************************)
(* The screens that only a completion leaves are shown exactly while that  *)
(* completion is awaited, so no screen is stuck and no mutation runs while *)
(* the user works elsewhere.                                               *)
(***************************************************************************)
BusyScreen(kind) ==
  CASE kind = "apply"      -> "applying"
    [] kind = "remove"     -> "removing"
    [] kind = "appearance" -> "savingAppearance"

BusyScreenHasOperation ==
  \A k \in Mutation : (screen = BusyScreen(k)) <=> (active[k] # 0)

(***************************************************************************)
(* A mutation that waits or runs is the one the screen shows: nothing the  *)
(* user can still do changes its target, tattoo or appearance.             *)
(***************************************************************************)
OutstandingTicket(kind) == IF pending[kind] # None THEN pending[kind] ELSE task.ticket

ShownBy(kind, request) ==
  CASE kind = "apply" ->
         request = [area |-> selectedArea, slot |-> targetSlot,
                    tattoo |-> previewTattoo, color |-> previewColor]
    [] kind = "remove" ->
         request.area = selectedArea /\ request.slot = targetSlot
    [] kind = "appearance" ->
         edit # None /\ request = [handle |-> edit.handle,
                                   color |-> edit.edited, mode |-> edit.mode]

ShownIsExecuted ==
  \A k \in Mutation :
    active[k] # 0 => ShownBy(k, OutstandingTicket(k).request)

(***************************************************************************)
(* While a removal waits to be retried after its synchronization failed,   *)
(* no slot query is outstanding whose answer would overwrite the error,    *)
(* the only record that the slot was already cleared.                      *)
(***************************************************************************)
RetryIsRemembered ==
  screen = "removeConfirmation" /\ error = "synchronizeFailed" =>
    active["query"] = 0

(***************************************************************************)
(* "Loading..." is only shown while the selected area is being queried: an *)
(* area without a snapshot has an error to show or an answer on its way.   *)
(***************************************************************************)
LoadingIsReal ==
  started /\ slots[selectedArea] = None /\ error = None =>
    /\ active["query"] # 0
    /\ OutstandingTicket("query").request.area = selectedArea

\* The page of the selected area exists, or is the first of no pages.
PageInRange ==
  pageIndex[selectedArea] = ClampedPage(pageIndex[selectedArea], slots[selectedArea])

(***************************************************************************)
(* An edit session whose synchronization failed keeps the appearance it    *)
(* wrote and keeps to synchronizing, through every retry, until it ends.   *)
(***************************************************************************)
SynchronizeOnlySticks ==
  [][edit # None /\ edit' # None /\ edit.mode = "synchronizeOnly"
       => edit' = edit]_vars

(***************************************************************************)
(* A confirmed mutation ends, with success or an error, unless the window  *)
(* is closed for good: then its ticket may wait for a frame that never     *)
(* comes.                                                                  *)
(***************************************************************************)
BusyScreenEnds ==
  \A k \in Mutation :
    [](screen = BusyScreen(k) => <>(screen # BusyScreen(k) \/ []~windowOpen))

(***************************************************************************)
(* The abstract protocol: one confirmed mutation at a time, run at most    *)
(* once and as confirmed.                                                  *)
(***************************************************************************)
Asked == {k \in Mutation : pending[k] # None}
Running == {k \in Mutation : task # None /\ task.kind = k}

AbstractPhase ==
  IF Running # {} THEN "running" ELSE IF Asked # {} THEN "confirmed" ELSE "idle"

AbstractMutation ==
  IF Running # {} THEN [kind |-> task.kind, request |-> task.ticket.request]
  ELSE IF Asked # {}
    THEN LET k == CHOOSE k \in Asked : TRUE
         IN [kind |-> k, request |-> pending[k].request]
  ELSE None

Protocol == INSTANCE ConfirmedMutation
  WITH phase <- AbstractPhase, mutation <- AbstractMutation,
       Kind <- Mutation

ConfirmedMutationProtocol == Protocol!Spec
=============================================================================
